----------------------------- MODULE ApiSchemas -----------------------------
(***************************************************************************)
(* What the compute clients demand of an answer: the schemas under         *)
(* automation/api_schema/response/compute/v2_1.  A schema says which codes *)
(* are a success, whether there is a body, what the body must have at the  *)
(* top and what an element of it must have.  Types and formats of single   *)
(* values, names that may be left out and the header schema of             *)
(* create_image are abstracted.                                            *)
(***************************************************************************)
EXTENDS Integers

(***************************************************************************)
(* holds is what stands under the top name; closed, whether an additional  *)
(* property is refused.                                                    *)
(***************************************************************************)
Schema(codes, holds, needs, keys) ==
  [codes |-> codes, body |-> TRUE, holds |-> holds, needs |-> needs, keys |-> keys,
   closed |-> TRUE]

Object(codes, name, keys) == Schema(codes, "object", {name}, keys)
List(codes, name, keys)   == Schema(codes, "list", {name}, keys)
Values(codes, names)      == Schema(codes, "text", names, {})

\* any names at the top, and a schema without a response_body
Open(codes, keys) == [Schema(codes, "object", {}, keys) EXCEPT !.closed = FALSE]
Bare(codes)       == [Schema(codes, "none", {}, {}) EXCEPT !.body = FALSE]

common_agent_info ==
  {"agent_id", "hypervisor", "os", "architecture", "version", "url", "md5hash"}

agents_schema ==
  [list_agents |-> List({200}, "agents", common_agent_info),
   create_agent |-> Object({200}, "agent", common_agent_info),
   delete_agent |-> Bare({200})]

aggregate_for_create ==
  {"availability_zone", "created_at", "deleted", "deleted_at", "id", "name", "updated_at"}

common_aggregate_info == aggregate_for_create \cup {"hosts", "metadata"}

aggregates_schema ==
  [list_aggregates |-> List({200}, "aggregates", common_aggregate_info),
   get_aggregate |-> Object({200}, "aggregate", common_aggregate_info),
   aggregate_set_metadata |-> Object({200}, "aggregate", common_aggregate_info),
   update_aggregate |-> Object({200}, "aggregate", common_aggregate_info),
   delete_aggregate |-> Bare({200}),
   create_aggregate |-> Object({200}, "aggregate", aggregate_for_create),
   aggregate_add_remove_host |-> Object({200}, "aggregate", common_aggregate_info)]

availability_zone_base == {"zoneName", "zoneState", "hosts"}

availability_zone_schema ==
  [list_availability_zone_list |-> List({200}, "availabilityZoneInfo",
      availability_zone_base),
   list_availability_zone_list_detail |-> List({200}, "availabilityZoneInfo",
      availability_zone_base)]

baremetal_node_info ==
  {"id", "interfaces", "host", "task_state", "cpus", "memory_mb", "disk_gb"}

baremetal_nodes_schema ==
  [list_baremetal_nodes |-> List({200}, "nodes", baremetal_node_info),
   get_baremetal_node |-> Object({200}, "node", baremetal_node_info \cup
      {"instance_uuid"})]

certificates_schema ==
  [get_certificate |-> Object({200}, "certificate", {"data", "private_key"}),
   create_certificate |-> Object({200}, "certificate", {"data", "private_key"})]

extensions_schema ==
  [list_extensions |-> List({200}, "extensions", {"updated", "name", "links", "namespace",
      "alias", "description"})]

fixed_ips_schema ==
  [get_fixed_ip |-> Object({200}, "fixed_ip", {"address", "cidr", "host", "hostname"}),
   reserve_fixed_ip |-> Open({202}, {})]

common_flavor_info == {"name", "links", "ram", "vcpus", "swap", "disk", "id"}

flavors_schema ==
  [list_flavors |-> List({200}, "flavors", {"name", "links", "id"}),
   list_flavors_details |-> List({200}, "flavors", common_flavor_info),
   unset_flavor_extra_specs |-> Bare({200}),
   create_get_flavor_details |-> Object({200}, "flavor", common_flavor_info),
   delete_flavor |-> Bare({202})]

flavors_access_schema ==
  [add_remove_list_flavor_access |-> List({200}, "flavor_access", {"flavor_id",
      "tenant_id"})]

flavors_extra_specs_schema ==
  [set_get_flavor_extra_specs |-> Object({200}, "extra_specs", {}),
   set_get_flavor_extra_specs_key |-> Open({200}, {})]

common_floating_ip_info == {"id", "pool", "instance_id", "ip", "fixed_ip"}

floating_ips_schema ==
  [list_floating_ips |-> List({200}, "floating_ips", common_floating_ip_info),
   create_get_floating_ip |-> Object({200}, "floating_ip", common_floating_ip_info),
   list_floating_ip_pools |-> List({200}, "floating_ip_pools", {"name"}),
   add_remove_floating_ip |-> Bare({202}),
   create_floating_ips_bulk |-> Object({200}, "floating_ips_bulk_create", {"interface",
      "ip_range", "pool"}),
   delete_floating_ips_bulk |-> Values({200}, {"floating_ips_bulk_delete"}),
   list_floating_ips_bulk |-> List({200}, "floating_ip_info", {"address", "instance_uuid",
      "interface", "pool", "project_id"})]

\* the elements of host stand under "item", which JSON Schema does not know: not checked
hosts_schema ==
  [list_hosts |-> List({200}, "hosts", {"host_name", "service", "zone"}),
   get_host_detail |-> List({200}, "host", {}),
   startup_host |-> Values({200}, {"host", "power_action"}),
   shutdown_host |-> Values({200}, {"host", "power_action"}),
   reboot_host |-> Values({200}, {"host", "power_action"}),
   update_host |-> Values({200}, {"host", "maintenance_mode", "status"})]

hypervisor_detail ==
  {"cpu_info", "current_workload", "disk_available_least", "host_ip", "free_disk_gb",
   "free_ram_mb", "hypervisor_hostname", "hypervisor_type", "hypervisor_version", "id",
   "local_gb", "local_gb_used", "memory_mb", "memory_mb_used", "running_vms", "service",
   "vcpus", "vcpus_used"}

hypervisors_schema ==
  [get_hypervisor_statistics |-> Object({200}, "hypervisor_statistics", {"count",
      "current_workload", "disk_available_least", "free_disk_gb", "free_ram_mb",
      "local_gb", "local_gb_used", "memory_mb", "memory_mb_used", "running_vms", "vcpus",
      "vcpus_used"}),
   list_hypervisors_detail |-> List({200}, "hypervisors", hypervisor_detail),
   get_hypervisor |-> Object({200}, "hypervisor", hypervisor_detail)]

hypervisors_search_schema ==
  [list_search_hypervisors |-> List({200}, "hypervisors", {"id", "hypervisor_hostname"}),
   get_hypervisor_uptime |-> Object({200}, "hypervisor", {"id", "hypervisor_hostname",
      "uptime"}),
   get_hypervisors_servers |-> List({200}, "hypervisors", {"id", "hypervisor_hostname"})]

common_image_schema ==
  {"id", "status", "updated", "links", "name", "created", "minDisk", "minRam", "progress",
   "metadata"}

images_schema ==
  [get_image |-> Object({200}, "image", common_image_schema),
   list_images |-> List({200}, "images", {"id", "links", "name"}),
   create_image |-> Bare({202}),
   delete |-> Bare({204}),
   image_metadata |-> Object({200}, "metadata", {}),
   image_meta_item |-> Object({200}, "meta", {}),
   list_images_details |-> List({200}, "images", common_image_schema)]

common_instance_usage_audit_log ==
  {"hosts_not_run", "log", "num_hosts", "num_hosts_done", "num_hosts_not_run",
   "num_hosts_running", "overall_status", "period_beginning", "period_ending",
   "total_errors", "total_instances"}

instance_usage_audit_logs_schema ==
  [get_instance_usage_audit_log |-> Object({200}, "instance_usage_audit_log",
      common_instance_usage_audit_log),
   list_instance_usage_audit_log |-> Object({200}, "instance_usage_audit_logs",
      common_instance_usage_audit_log)]

interface_common_info == {"port_state", "fixed_ips", "port_id", "net_id", "mac_addr"}

interfaces_schema ==
  [get_create_interfaces |-> Object({200}, "interfaceAttachment", interface_common_info),
   list_interfaces |-> List({200}, "interfaceAttachments", interface_common_info),
   delete_interface |-> Bare({202})]

keypairs_schema ==
  [get_keypair |-> Object({200}, "keypair", {"public_key", "name", "fingerprint"}),
   create_keypair |-> Object({200}, "keypair", {"fingerprint", "name", "public_key",
      "user_id"}),
   delete_keypair |-> Bare({202}),
   list_keypairs |-> List({200}, "keypairs", {"keypair"})]

limits_schema ==
  [get_limit |-> Object({200}, "limits", {"absolute", "rate"})]

migrations_schema ==
  [list_migrations |-> List({200}, "migrations", {"id", "status", "instance_uuid",
      "source_node", "source_compute", "dest_node", "dest_compute", "dest_host",
      "old_instance_type_id", "new_instance_type_id", "created_at", "updated_at"})]

common_quota_set ==
  {"instances", "cores", "ram", "floating_ips", "fixed_ips", "metadata_items",
   "key_pairs", "security_groups", "security_group_rules", "injected_files",
   "injected_file_content_bytes", "injected_file_path_bytes"}

quota_classes_schema ==
  [get_quota_class_set |-> Object({200}, "quota_class_set", common_quota_set \cup {"id"}),
   update_quota_class_set |-> Object({200}, "quota_class_set", common_quota_set)]

quotas_schema ==
  [update_quota_set |-> Object({200}, "quota_set", common_quota_set),
   get_quota_set |-> Object({200}, "quota_set", common_quota_set \cup {"id"}),
   delete_quota |-> Bare({202})]

common_security_group_default_rule_info ==
  {"from_port", "id", "ip_protocol", "ip_range", "to_port"}

security_group_default_rule_schema ==
  [create_get_security_group_default_rule |-> Object({200}, "security_group_default_rule",
      common_security_group_default_rule_info),
   delete_security_group_default_rule |-> Bare({204}),
   list_security_group_default_rules |-> List({200}, "security_group_default_rules",
      common_security_group_default_rule_info)]

common_security_group == {"id", "name", "tenant_id", "rules", "description"}

common_security_group_rule ==
  {"from_port", "to_port", "group", "ip_protocol", "parent_group_id", "id", "ip_range"}

security_groups_schema ==
  [list_security_groups |-> List({200}, "security_groups", common_security_group),
   get_security_group |-> Object({200}, "security_group", common_security_group),
   delete_security_group |-> Bare({202}),
   create_security_group_rule |-> Object({200}, "security_group_rule",
      common_security_group_rule),
   delete_security_group_rule |-> Bare({202})]

servers_schema ==
  [create_server |-> Object({202}, "server", {"id", "links"}),
   create_server_with_admin_pass |-> Object({202}, "server", {"id", "links",
      "adminPass"}),
   list_servers |-> List({200}, "servers", {"id", "links", "name"}),
   delete_server |-> Bare({204})]

common_show_server ==
  {"id", "name", "status", "image", "flavor", "user_id", "tenant_id", "created",
   "updated", "metadata", "links", "addresses", "hostId"}

servers_detail_schema ==
  [update_server |-> Object({200}, "server", common_show_server),
   get_server |-> Object({200}, "server", common_show_server),
   list_servers_detail |-> List({200}, "servers", common_show_server),
   rebuild_server |-> Object({202}, "server", common_show_server),
   rebuild_server_with_admin_pass |-> Object({202}, "server", common_show_server \cup
      {"adminPass"}),
   rescue_server |-> Values({200}, {"adminPass"}),
   list_virtual_interfaces |-> List({200}, "virtual_interfaces", {"id", "mac_address"})]

common_attach_volume_info == {"id", "device", "volumeId", "serverId"}

common_server_group == {"id", "name", "policies", "members", "metadata"}

servers_attachment_schema ==
  [attach_volume |-> Object({200}, "volumeAttachment", common_attach_volume_info),
   detach_volume |-> Bare({202}),
   get_volume_attachment |-> Object({200}, "volumeAttachment", common_attach_volume_info),
   list_volume_attachments |-> List({200}, "volumeAttachments",
      common_attach_volume_info),
   list_addresses_by_network |-> [Open({200}, {"version", "addr"}) EXCEPT !.closed = TRUE],
   list_addresses |-> Object({200}, "addresses", {"version", "addr"}),
   create_get_server_group |-> Object({200}, "server_group", common_server_group),
   delete_server_group |-> Bare({204}),
   list_server_groups |-> List({200}, "server_groups", common_server_group)]

instance_actions ==
  {"action", "request_id", "user_id", "project_id", "start_time", "message",
   "instance_uuid"}

servers_action_schema ==
  [list_instance_actions |-> List({200}, "instanceActions", instance_actions),
   get_instance_action |-> Object({200}, "instanceAction", instance_actions),
   get_password |-> Values({200}, {"password"}),
   get_vnc_console |-> Object({200}, "console", {"type", "url"}),
   get_console_output |-> Values({200}, {"output"})]

servers_metadata_schema ==
  [set_server_metadata |-> Object({200}, "metadata", {}),
   list_server_metadata |-> Object({200}, "metadata", {}),
   update_server_metadata |-> Object({200}, "metadata", {}),
   delete_server_metadata_item |-> Bare({204}),
   set_get_server_metadata_item |-> Object({200}, "meta", {}),
   server_actions_common_schema |-> Bare({202}),
   server_actions_delete_password |-> Bare({204}),
   server_actions_confirm_resize |-> Bare({204})]

services_schema ==
  [list_services |-> List({200}, "services", {"id", "zone", "host", "state", "binary",
      "status", "updated_at", "disabled_reason"}),
   enable_service |-> Object({200}, "service", {"status", "binary", "host"})]

param_network == {"id", "cidr", "label"}

tenant_networks_schema ==
  [list_tenant_networks |-> List({200}, "networks", param_network),
   get_tenant_network |-> Object({200}, "network", param_network)]

_tenant_usage_list ==
  {"start", "stop", "tenant_id", "total_hours", "total_local_gb_usage",
   "total_memory_mb_usage", "total_vcpus_usage"}

tenant_usages_schema ==
  [list_tenant_usage |->
      [List({200}, "tenant_usages", _tenant_usage_list) EXCEPT !.closed = FALSE],
   get_tenant_usage |->
      [Object({200}, "tenant_usage", _tenant_usage_list \cup {"server_usages"})
         EXCEPT !.closed = FALSE]]

create_get_volume_info ==
  {"id", "status", "displayName", "availabilityZone", "createdAt", "displayDescription",
   "volumeType", "snapshotId", "metadata", "size", "attachments"}

volumes_schema ==
  [create_get_volume |-> Object({200}, "volume", create_get_volume_info),
   list_volumes |-> List({200}, "volumes", create_get_volume_info),
   delete_volume |-> Bare({202})]
=============================================================================
