---------------------------- MODULE ServiceCalls ----------------------------
(***************************************************************************)
(* What the methods of the service clients under automation/services make  *)
(* of a request: the verb they send, the status codes they take for a      *)
(* success (expected_success, or the schema given to validate_response)    *)
(* and what they do with the body of the answer.  Urls and parameters are  *)
(* left out.  A method that reads an object before it sends the change     *)
(* back (update_user and its like, _update_router) is listed with the      *)
(* change, and one with two schemas under two names.                       *)
(***************************************************************************)
EXTENDS Integers, ApiSchemas

(***************************************************************************)
(* A method by what it does with a success: json.loads the body or pass it *)
(* on, after expected_success, or any status that is not an error.         *)
(***************************************************************************)
Loads(verb, codes) ==
  [verb |-> verb, codes |-> codes, body |-> "json", checked |-> FALSE,
   schema |-> Open(codes, {}), takes |-> {}, wrap |-> "whole"]
Plain(verb, codes)    == [Loads(verb, codes) EXCEPT !.body = "any"]
Unchecked(verb, body) == [Loads(verb, 200..207 \cup 300..307) EXCEPT !.body = body]

(***************************************************************************)
(* With validate_response: the body as it is, or what stands under a name  *)
(* as a ResponseBody, a ResponseBodyList, a ResponseBodyData or a          *)
(* ResponseBodyList of its first element.                                  *)
(***************************************************************************)
Checked(verb, schema) ==
  [verb |-> verb, codes |-> schema.codes, body |-> IF schema.body THEN "json" ELSE "none",
   checked |-> TRUE, schema |-> schema, takes |-> {}, wrap |-> "whole"]
AsDict(verb, schema, name)  == [Checked(verb, schema) EXCEPT !.takes = {name}, !.wrap = "dict"]
AsList(verb, schema, name)  == [Checked(verb, schema) EXCEPT !.takes = {name}, !.wrap = "list"]
AsData(verb, schema, name)  == [Checked(verb, schema) EXCEPT !.takes = {name}, !.wrap = "data"]
AsFirst(verb, schema, name) == [Checked(verb, schema) EXCEPT !.takes = {name}, !.wrap = "first"]

\* a client is a set of pairs, a method and its shape
Calls(methods, shape) == methods \X {shape}

agents_client ==
  Calls({"list_agents"}, AsList("GET", agents_schema.list_agents, "agents"))
  \cup Calls({"create_agent"}, AsDict("POST", agents_schema.create_agent, "agent"))
  \cup Calls({"delete_agent"}, Checked("DELETE", agents_schema.delete_agent))
  \cup Calls({"update_agent"}, Unchecked("PUT", "json"))

aggregates_client ==
  Calls({"list_aggregates"}, AsList("GET", aggregates_schema.list_aggregates, "aggregates"))
  \cup Calls({"show_aggregate"}, AsDict("GET", aggregates_schema.get_aggregate,
        "aggregate"))
  \cup Calls({"create_aggregate"}, AsDict("POST", aggregates_schema.create_aggregate,
        "aggregate"))
  \cup Calls({"update_aggregate"}, AsDict("PUT", aggregates_schema.update_aggregate,
        "aggregate"))
  \cup Calls({"delete_aggregate"}, Checked("DELETE", aggregates_schema.delete_aggregate))
  \cup Calls({"add_host", "remove_host"}, AsDict("POST",
        aggregates_schema.aggregate_add_remove_host, "aggregate"))
  \cup Calls({"set_metadata"}, AsDict("POST", aggregates_schema.aggregate_set_metadata,
        "aggregate"))

nova_availability_zone_client ==
  Calls({"list_availability_zones"}, AsList("GET",
        availability_zone_schema.list_availability_zone_list, "availabilityZoneInfo"))
  \cup Calls({"list_availability_zones_detail"}, AsList("GET",
        availability_zone_schema.list_availability_zone_list_detail, "availabilityZoneInfo"))

baremetal_nodes_client ==
  Calls({"list_baremetal_nodes"}, AsList("GET", baremetal_nodes_schema.list_baremetal_nodes,
        "nodes"))
  \cup Calls({"show_baremetal_node"}, AsDict("GET",
        baremetal_nodes_schema.get_baremetal_node, "node"))

certificates_client ==
  Calls({"show_certificate"}, AsDict("GET", certificates_schema.get_certificate,
        "certificate"))
  \cup Calls({"create_certificate"}, AsDict("POST", certificates_schema.create_certificate,
        "certificate"))

nova_extensions_client ==
  Calls({"list_extensions"}, AsList("GET", extensions_schema.list_extensions, "extensions"))
  \cup Calls({"show_extension"}, Unchecked("GET", "json"))

fixed_ips_client ==
  Calls({"show_fixed_ip"}, AsDict("GET", fixed_ips_schema.get_fixed_ip, "fixed_ip"))
  \cup Calls({"reserve_fixed_ip"}, [Checked("POST", fixed_ips_schema.reserve_fixed_ip)
        EXCEPT !.body = "any"])

flavors_client ==
  Calls({"list_flavors"}, AsList("GET", flavors_schema.list_flavors, "flavors"))
  \cup Calls({"list_flavors_detail"}, AsList("GET", flavors_schema.list_flavors_details,
        "flavors"))
  \cup Calls({"show_flavor"}, AsDict("GET", flavors_schema.create_get_flavor_details,
        "flavor"))
  \cup Calls({"create_flavor"}, AsDict("POST", flavors_schema.create_get_flavor_details,
        "flavor"))
  \cup Calls({"delete_flavor"}, Checked("DELETE", flavors_schema.delete_flavor))
  \cup Calls({"set_flavor_extra_spec"}, AsDict("POST",
        flavors_extra_specs_schema.set_get_flavor_extra_specs, "extra_specs"))
  \cup Calls({"list_flavor_extra_specs"}, AsDict("GET",
        flavors_extra_specs_schema.set_get_flavor_extra_specs, "extra_specs"))
  \cup Calls({"show_flavor_extra_spec"}, Checked("GET",
        flavors_extra_specs_schema.set_get_flavor_extra_specs_key))
  \cup Calls({"update_flavor_extra_spec"}, Checked("PUT",
        flavors_extra_specs_schema.set_get_flavor_extra_specs_key))
  \cup Calls({"unset_flavor_extra_spec"}, Checked("DELETE",
        flavors_schema.unset_flavor_extra_specs))
  \cup Calls({"list_flavor_access"}, AsList("GET",
        flavors_access_schema.add_remove_list_flavor_access, "flavor_access"))
  \cup Calls({"add_flavor_access"}, AsList("POST",
        flavors_access_schema.add_remove_list_flavor_access, "flavor_access"))
  \cup Calls({"remove_flavor_access"}, AsDict("POST",
        flavors_access_schema.add_remove_list_flavor_access, "flavor_access"))

floating_ip_pools_client ==
  Calls({"list_floating_ip_pools"}, AsList("GET",
        floating_ips_schema.list_floating_ip_pools, "floating_ip_pools"))

floating_ips_bulk_client ==
  Calls({"create_floating_ips_bulk"}, AsDict("POST",
        floating_ips_schema.create_floating_ips_bulk, "floating_ips_bulk_create"))
  \cup Calls({"list_floating_ips_bulk"}, AsList("GET",
        floating_ips_schema.list_floating_ips_bulk, "floating_ip_info"))
  \cup Calls({"delete_floating_ips_bulk"}, AsData("PUT",
        floating_ips_schema.delete_floating_ips_bulk, "floating_ips_bulk_delete"))

floating_ips_client ==
  Calls({"list_floating_ips"}, AsList("GET", floating_ips_schema.list_floating_ips,
        "floating_ips"))
  \cup Calls({"show_floating_ip"}, AsDict("GET", floating_ips_schema.create_get_floating_ip,
        "floating_ip"))
  \cup Calls({"create_floating_ip"}, AsDict("POST",
        floating_ips_schema.create_get_floating_ip, "floating_ip"))
  \cup Calls({"delete_floating_ip"}, Checked("DELETE",
        floating_ips_schema.add_remove_floating_ip))
  \cup Calls({"associate_floating_ip_to_server", "disassociate_floating_ip_from_server"},
        Checked("POST", floating_ips_schema.add_remove_floating_ip))

hosts_client ==
  Calls({"list_hosts"}, AsList("GET", hosts_schema.list_hosts, "hosts"))
  \cup Calls({"show_host"}, AsList("GET", hosts_schema.get_host_detail, "host"))
  \cup Calls({"update_host"}, Checked("PUT", hosts_schema.update_host))
  \cup Calls({"startup_host"}, AsDict("GET", hosts_schema.startup_host, "host"))
  \cup Calls({"shutdown_host"}, AsDict("GET", hosts_schema.shutdown_host, "host"))
  \cup Calls({"reboot_host"}, AsDict("GET", hosts_schema.reboot_host, "host"))

hypervisor_client ==
  Calls({"list_hypervisors", "search_hypervisor"}, AsList("GET",
        hypervisors_search_schema.list_search_hypervisors, "hypervisors"))
  \cup Calls({"list_hypervisors_detail"}, AsList("GET",
        hypervisors_schema.list_hypervisors_detail, "hypervisors"))
  \cup Calls({"show_hypervisor"}, AsDict("GET", hypervisors_schema.get_hypervisor,
        "hypervisor"))
  \cup Calls({"list_servers_on_hypervisor"}, AsList("GET",
        hypervisors_search_schema.get_hypervisors_servers, "hypervisors"))
  \cup Calls({"show_hypervisor_statistics"}, AsDict("GET",
        hypervisors_schema.get_hypervisor_statistics, "hypervisor_statistics"))
  \cup Calls({"show_hypervisor_uptime"}, AsDict("GET",
        hypervisors_search_schema.get_hypervisor_uptime, "hypervisor"))

images_client ==
  Calls({"create_image"}, Checked("POST", images_schema.create_image))
  \cup Calls({"list_images"}, AsList("GET", images_schema.list_images, "images"))
  \cup Calls({"list_images_detail"}, AsList("GET", images_schema.list_images_details,
        "images"))
  \cup Calls({"show_image"}, AsDict("GET", images_schema.get_image, "image"))
  \cup Calls({"delete_image", "delete_image_metadata_item"}, Checked("DELETE",
        images_schema.delete))
  \cup Calls({"list_image_metadata"}, AsDict("GET", images_schema.image_metadata,
        "metadata"))
  \cup Calls({"set_image_metadata"}, AsDict("PUT", images_schema.image_metadata,
        "metadata"))
  \cup Calls({"update_image_metadata"}, AsDict("POST", images_schema.image_metadata,
        "metadata"))
  \cup Calls({"show_image_metadata_item"}, AsDict("GET", images_schema.image_meta_item,
        "meta"))
  \cup Calls({"set_image_metadata_item"}, AsDict("PUT", images_schema.image_meta_item,
        "meta"))

instance_usage_audit_log_client ==
  Calls({"list_instance_usage_audit_logs"}, AsDict("GET",
        instance_usage_audit_logs_schema.list_instance_usage_audit_log,
        "instance_usage_audit_logs"))
  \cup Calls({"show_instance_usage_audit_log"}, AsDict("GET",
        instance_usage_audit_logs_schema.get_instance_usage_audit_log,
        "instance_usage_audit_log"))

interfaces_client ==
  Calls({"list_interfaces"}, AsList("GET", interfaces_schema.list_interfaces,
        "interfaceAttachments"))
  \cup Calls({"create_interface"}, AsDict("POST", interfaces_schema.get_create_interfaces,
        "interfaceAttachment"))
  \cup Calls({"show_interface"}, AsDict("GET", interfaces_schema.get_create_interfaces,
        "interfaceAttachment"))
  \cup Calls({"delete_interface"}, Checked("DELETE", interfaces_schema.delete_interface))
  \cup Calls({"add_fixed_ip", "remove_fixed_ip"}, Checked("POST",
        servers_metadata_schema.server_actions_common_schema))

keypairs_client ==
  Calls({"list_keypairs"}, AsList("GET", keypairs_schema.list_keypairs, "keypairs"))
  \cup Calls({"show_keypair"}, AsDict("GET", keypairs_schema.get_keypair, "keypair"))
  \cup Calls({"create_keypair"}, AsDict("POST", keypairs_schema.create_keypair, "keypair"))
  \cup Calls({"delete_keypair"}, Checked("DELETE", keypairs_schema.delete_keypair))

limits_client ==
  Calls({"show_limits"}, AsDict("GET", limits_schema.get_limit, "limits"))

migrations_client ==
  Calls({"list_migrations"}, AsList("GET", migrations_schema.list_migrations, "migrations"))

networks_client ==
  Calls({"list_networks", "show_network"}, Loads("GET", {200}))

quota_classes_client ==
  Calls({"show_quota_class_set"}, AsDict("GET", quota_classes_schema.get_quota_class_set,
        "quota_class_set"))
  \cup Calls({"update_quota_class_set"}, AsDict("PUT",
        quota_classes_schema.update_quota_class_set, "quota_class_set"))

quotas_client ==
  Calls({"show_quota_set", "show_default_quota_set"}, AsDict("GET",
        quotas_schema.get_quota_set, "quota_set"))
  \cup Calls({"update_quota_set"}, AsDict("PUT", quotas_schema.update_quota_set,
        "quota_set"))
  \cup Calls({"delete_quota_set"}, Checked("DELETE", quotas_schema.delete_quota))

security_group_default_rules_client ==
  Calls({"create_security_default_group_rule"}, AsDict("POST",
        security_group_default_rule_schema.create_get_security_group_default_rule,
        "security_group_default_rule"))
  \cup Calls({"delete_security_group_default_rule"}, Checked("DELETE",
        security_group_default_rule_schema.delete_security_group_default_rule))
  \cup Calls({"list_security_group_default_rules"}, AsList("GET",
        security_group_default_rule_schema.list_security_group_default_rules,
        "security_group_default_rules"))
  \cup Calls({"show_security_group_default_rule"}, AsDict("GET",
        security_group_default_rule_schema.create_get_security_group_default_rule,
        "security_group_default_rule"))

security_group_rules_client ==
  Calls({"create_security_group_rule"}, AsDict("POST",
        security_groups_schema.create_security_group_rule, "security_group_rule"))
  \cup Calls({"delete_security_group_rule"}, Checked("DELETE",
        security_groups_schema.delete_security_group_rule))
  \cup Calls({"list_security_group_rules"}, AsList("GET",
        security_groups_schema.list_security_groups, "security_groups"))

security_groups_client ==
  Calls({"list_security_groups"}, AsList("GET", security_groups_schema.list_security_groups,
        "security_groups"))
  \cup Calls({"show_security_group"}, AsDict("GET",
        security_groups_schema.get_security_group, "security_group"))
  \cup Calls({"create_security_group"}, AsDict("POST",
        security_groups_schema.get_security_group, "security_group"))
  \cup Calls({"update_security_group"}, AsDict("PUT",
        security_groups_schema.get_security_group, "security_group"))
  \cup Calls({"delete_security_group"}, Checked("DELETE",
        security_groups_schema.delete_security_group))

server_groups_client ==
  Calls({"create_server_group"}, AsDict("POST",
        servers_attachment_schema.create_get_server_group, "server_group"))
  \cup Calls({"delete_server_group"}, Checked("DELETE",
        servers_attachment_schema.delete_server_group))
  \cup Calls({"list_server_groups"}, AsList("GET",
        servers_attachment_schema.list_server_groups, "server_groups"))
  \cup Calls({"get_server_group"}, AsDict("GET",
        servers_attachment_schema.create_get_server_group, "server_group"))

servers_client_zones ==
  Calls({"add_availability_zone", "remove_availability_zone",
        "add_host_for_availability_zone", "remove_host_for_availability_zone",
        "associate_az_tenant", "disassociate_az_tenant"}, Unchecked("POST", "json"))
  \cup Calls({"display_default_nova_az", "list_availability_zones"}, Unchecked("GET",
        "json"))

servers_client ==
  Calls({"create_server_with_password"}, AsDict("POST",
        servers_schema.create_server_with_admin_pass, "server"))
  \cup Calls({"create_server"}, AsDict("POST", servers_schema.create_server, "server"))
  \cup Calls({"update_server"}, AsDict("PUT", servers_detail_schema.update_server,
        "server"))
  \cup Calls({"show_server"}, AsDict("GET", servers_detail_schema.get_server, "server"))
  \cup Calls({"delete_server"}, Checked("DELETE", servers_schema.delete_server))
  \cup Calls({"list_servers"}, Checked("GET", servers_schema.list_servers))
  \cup Calls({"list_servers_detail"}, Checked("GET",
        servers_detail_schema.list_servers_detail))

servers_client_actions ==
  Calls({"list_addresses"}, AsDict("GET", servers_attachment_schema.list_addresses,
        "addresses"))
  \cup Calls({"list_addresses_by_network"}, Checked("GET",
        servers_attachment_schema.list_addresses_by_network))
  \cup Calls({"action", "create_backup", "change_password", "reboot", "resize",
        "revert_resize"}, Checked("POST",
        servers_metadata_schema.server_actions_common_schema))
  \cup Calls({"get_password"}, Checked("GET", servers_action_schema.get_password))
  \cup Calls({"delete_password"}, Checked("DELETE",
        servers_metadata_schema.server_actions_delete_password))
  \cup Calls({"rebuild_with_password"}, AsDict("POST",
        servers_detail_schema.rebuild_server_with_admin_pass, "server"))
  \cup Calls({"rebuild"}, AsDict("POST", servers_detail_schema.rebuild_server, "server"))
  \cup Calls({"confirm_resize"}, Checked("POST",
        servers_metadata_schema.server_actions_confirm_resize))

servers_client_metadata ==
  Calls({"list_server_metadata"}, AsDict("GET",
        servers_metadata_schema.list_server_metadata, "metadata"))
  \cup Calls({"set_server_metadata"}, AsDict("PUT",
        servers_metadata_schema.set_server_metadata, "metadata"))
  \cup Calls({"update_server_metadata"}, AsDict("POST",
        servers_metadata_schema.update_server_metadata, "metadata"))
  \cup Calls({"get_server_metadata_item"}, AsDict("GET",
        servers_metadata_schema.set_get_server_metadata_item, "meta"))
  \cup Calls({"set_server_metadata_item"}, AsDict("PUT",
        servers_metadata_schema.set_get_server_metadata_item, "meta"))
  \cup Calls({"delete_server_metadata_item"}, Checked("DELETE",
        servers_metadata_schema.delete_server_metadata_item))
  \cup Calls({"stop", "start", "add_security_group", "remove_security_group",
        "live_migrate_server"}, Checked("POST",
        servers_metadata_schema.server_actions_common_schema))
  \cup Calls({"attach_volume"}, AsDict("POST", servers_attachment_schema.attach_volume,
        "volumeAttachment"))
  \cup Calls({"detach_volume"}, Checked("DELETE", servers_attachment_schema.detach_volume))
  \cup Calls({"get_volume_attachment"}, AsDict("GET",
        servers_attachment_schema.get_volume_attachment, "volumeAttachment"))
  \cup Calls({"list_volume_attachments"}, AsList("GET",
        servers_attachment_schema.list_volume_attachments, "volumeAttachments"))

servers_client_states ==
  Calls({"migrate_server", "lock_server", "unlock_server", "suspend_server",
        "resume_server", "pause_server", "unpause_server", "reset_state", "shelve_server",
        "unshelve_server", "shelve_offload_server", "unrescue_server", "force_delete_server",
        "restore_soft_deleted_server", "reset_network", "inject_network_info"}, Checked("POST",
        servers_metadata_schema.server_actions_common_schema))
  \cup Calls({"get_console_output"}, AsData("POST",
        servers_action_schema.get_console_output, "output"))
  \cup Calls({"list_virtual_interfaces"}, Checked("GET",
        servers_detail_schema.list_virtual_interfaces))
  \cup Calls({"list_interfaces", "get_server_diagnostics"}, Unchecked("GET", "json"))
  \cup Calls({"rescue_server"}, AsData("POST", servers_detail_schema.rescue_server,
        "adminPass"))
  \cup Calls({"list_instance_actions"}, AsList("GET",
        servers_action_schema.list_instance_actions, "instanceActions"))
  \cup Calls({"get_instance_action"}, AsDict("GET",
        servers_action_schema.get_instance_action, "instanceAction"))
  \cup Calls({"get_vnc_console"}, AsDict("POST", servers_action_schema.get_vnc_console,
        "console"))

servers_client_qos ==
  Calls({"get_server_network_qos", "get_network_qos_types"}, Unchecked("GET", "json"))
  \cup Calls({"set_server_network_qos"}, Unchecked("POST", "any"))
  \cup Calls({"capture_image"}, Checked("POST",
        servers_metadata_schema.server_actions_common_schema))

services_client ==
  Calls({"list_services"}, AsList("GET", services_schema.list_services, "services"))
  \cup Calls({"enable_service"}, AsDict("PUT", services_schema.enable_service, "service"))
  \cup Calls({"disable_service"}, Unchecked("PUT", "json"))

tenant_networks_client ==
  Calls({"list_tenant_networks"}, AsList("GET", tenant_networks_schema.list_tenant_networks,
        "networks"))
  \cup Calls({"show_tenant_network"}, AsDict("GET",
        tenant_networks_schema.get_tenant_network, "network"))

tenant_usages_client ==
  Calls({"list_tenant_usages"}, AsFirst("GET", tenant_usages_schema.list_tenant_usage,
        "tenant_usages"))
  \cup Calls({"show_tenant_usage"}, AsList("GET", tenant_usages_schema.get_tenant_usage,
        "tenant_usage"))

volumes_extensions_client ==
  Calls({"list_volumes"}, AsList("GET", volumes_schema.list_volumes, "volumes"))
  \cup Calls({"show_volume"}, AsDict("GET", volumes_schema.create_get_volume, "volume"))
  \cup Calls({"create_volume"}, AsDict("POST", volumes_schema.create_get_volume, "volume"))
  \cup Calls({"delete_volume"}, Checked("DELETE", volumes_schema.delete_volume))

v2_identity_client_tenants ==
  Calls({"get_api_description"}, Loads("GET", {200, 203}))
  \cup Calls({"create_role", "create_tenant", "update_tenant"}, Loads("POST", {200}))
  \cup Calls({"get_role", "list_user_roles", "get_tenant", "list_roles", "list_tenants"},
        Loads("GET", {200}))
  \cup Calls({"delete_role", "remove_user_role", "delete_tenant"}, Plain("DELETE", {204}))
  \cup Calls({"assign_user_role"}, Loads("PUT", {200}))

v2_identity_client_users ==
  Calls({"create_user"}, Loads("POST", {200}))
  \cup Calls({"update_user", "enable_disable_user"}, Loads("PUT", {200}))
  \cup Calls({"get_user", "get_users", "get_token", "list_users_for_tenant"}, Loads("GET",
        {200}))
  \cup Calls({"delete_user", "delete_token"}, Plain("DELETE", {204}))

v2_identity_client_services ==
  Calls({"create_service", "create_endpoint", "create_user_ec2_credentials"}, Loads("POST",
        {200}))
  \cup Calls({"get_service", "list_services", "list_endpoints", "list_extensions",
        "list_user_ec2_credentials"}, Loads("GET", {200}))
  \cup Calls({"delete_service", "delete_endpoint"}, Plain("DELETE", {204}))
  \cup Calls({"update_user_password"}, Loads("PUT", {200}))

credentials_client ==
  Calls({"create_credential"}, Loads("POST", {201}))
  \cup Calls({"update_credential"}, Loads("PATCH", {200}))
  \cup Calls({"get_credential", "list_credentials"}, Loads("GET", {200}))
  \cup Calls({"delete_credential"}, Plain("DELETE", {204}))

endpoints_client ==
  Calls({"list_endpoints"}, Loads("GET", {200}))
  \cup Calls({"create_endpoint"}, Loads("POST", {201}))
  \cup Calls({"update_endpoint"}, Loads("PATCH", {200}))
  \cup Calls({"delete_endpoint"}, Plain("DELETE", {204}))

v3_identity_client_users ==
  Calls({"get_api_description", "list_user_projects", "get_users", "get_user"}, Loads("GET",
        {200}))
  \cup Calls({"create_user"}, Loads("POST", {201}))
  \cup Calls({"update_user"}, Loads("PATCH", {200}))
  \cup Calls({"update_user_password"}, Plain("POST", {204}))
  \cup Calls({"delete_user"}, Plain("DELETE", {204}))

v3_identity_client_projects ==
  Calls({"create_project", "create_role"}, Loads("POST", {201}))
  \cup Calls({"list_projects", "get_project", "get_role", "list_roles"}, Loads("GET",
        {200}))
  \cup Calls({"update_project", "update_role"}, Loads("PATCH", {200}))
  \cup Calls({"delete_project", "delete_role"}, Plain("DELETE", {204}))

v3_identity_client_domains ==
  Calls({"assign_user_role"}, Plain("PUT", {204}))
  \cup Calls({"create_domain"}, Loads("POST", {201}))
  \cup Calls({"delete_domain", "delete_token"}, Plain("DELETE", {204}))
  \cup Calls({"list_domains", "get_domain", "get_token"}, Loads("GET", {200}))
  \cup Calls({"update_domain"}, Loads("PATCH", {200}))

v3_identity_client_groups ==
  Calls({"create_group"}, Loads("POST", {201}))
  \cup Calls({"get_group", "list_groups", "list_group_users", "list_user_groups",
        "list_user_roles_on_project", "list_user_roles_on_domain"}, Loads("GET", {200}))
  \cup Calls({"update_group"}, Loads("PATCH", {200}))
  \cup Calls({"delete_group", "delete_group_user", "revoke_role_from_user_on_project",
        "revoke_role_from_user_on_domain"}, Plain("DELETE", {204}))
  \cup Calls({"add_group_user", "assign_user_role_on_project",
        "assign_user_role_on_domain"}, Plain("PUT", {204}))

v3_identity_client_trusts ==
  Calls({"assign_group_role_on_project", "assign_group_role_on_domain"}, Plain("PUT",
        {204}))
  \cup Calls({"list_group_roles_on_project", "list_group_roles_on_domain", "get_trusts",
        "get_trust", "get_trust_roles", "get_trust_role"}, Loads("GET", {200}))
  \cup Calls({"revoke_role_from_group_on_project", "revoke_role_from_group_on_domain",
        "delete_trust"}, Plain("DELETE", {204}))
  \cup Calls({"create_trust"}, Loads("POST", {201}))
  \cup Calls({"check_trust_role"}, Plain("HEAD", {200}))

policy_client ==
  Calls({"create_policy"}, Loads("POST", {201}))
  \cup Calls({"list_policies", "get_policy"}, Loads("GET", {200}))
  \cup Calls({"update_policy"}, Loads("PATCH", {200}))
  \cup Calls({"delete_policy"}, Plain("DELETE", {204}))

region_client ==
  Calls({"create_region"}, Loads("PUT", {201}))
  \cup Calls({"update_region"}, Loads("PATCH", {200}))
  \cup Calls({"get_region", "list_regions"}, Loads("GET", {200}))
  \cup Calls({"delete_region"}, Plain("DELETE", {204}))

v3_service_client ==
  Calls({"update_service"}, Loads("PATCH", {200}))
  \cup Calls({"get_service", "list_services"}, Loads("GET", {200}))
  \cup Calls({"create_service"}, Loads("POST", {201}))
  \cup Calls({"delete_service"}, Plain("DELETE", {204}))

v1_image_client ==
  Calls({"create_image"}, Loads("POST", {201}))
  \cup Calls({"update_image"}, Loads("PUT", {200}))
  \cup Calls({"delete_image"}, Plain("DELETE", {200}))
  \cup Calls({"list_images", "list_image_members", "list_shared_images"}, Loads("GET",
        {200}))
  \cup Calls({"get_image_meta"}, Plain("HEAD", {200}))
  \cup Calls({"show_image"}, Plain("GET", {200}))
  \cup Calls({"add_member"}, Plain("PUT", {204}))
  \cup Calls({"delete_member"}, Plain("DELETE", {204}))

v2_image_client ==
  Calls({"update_image"}, Loads("PATCH", {200}))
  \cup Calls({"create_image"}, Loads("POST", {201}))
  \cup Calls({"deactivate_image", "reactivate_image"}, Plain("POST", {204}))
  \cup Calls({"delete_image", "delete_image_tag", "remove_image_member"}, Plain("DELETE",
        {204}))
  \cup Calls({"list_images", "show_image", "list_image_members", "show_image_member"},
        Loads("GET", {200}))
  \cup Calls({"load_image_file"}, Plain("GET", {200}))
  \cup Calls({"add_image_tag"}, Plain("PUT", {204}))
  \cup Calls({"add_image_member"}, Loads("POST", {200}))
  \cup Calls({"update_image_member"}, Loads("PUT", {200}))

network_client ==
  Calls({"_list_resources", "_show_resource", "show_network", "list_networks",
        "show_subnet", "list_subnets", "show_port", "list_ports"}, Loads("GET", {200}))
  \cup Calls({"_delete_resource", "delete_network", "delete_subnet", "delete_port"},
        Plain("DELETE", {204}))
  \cup Calls({"_create_resource", "create_network", "create_subnet", "create_port"},
        Loads("POST", {201}))
  \cup Calls({"_update_resource", "update_network", "update_subnet", "update_port"},
        Loads("PUT", {200}))

network_client_firewalls ==
  Calls({"create_floatingip", "create_metering_label", "create_metering_label_rule",
        "create_security_group", "create_security_group_rule", "create_firewall_rule",
        "create_firewall_policy", "create_firewall"}, Loads("POST", {201}))
  \cup Calls({"update_floatingip", "update_security_group", "update_firewall_rule",
        "update_firewall_policy", "update_firewall"}, Loads("PUT", {200}))
  \cup Calls({"show_floatingip", "list_floatingips", "show_metering_label",
        "list_metering_labels", "show_metering_label_rule", "list_metering_label_rules",
        "show_security_group", "list_security_groups", "show_security_group_rule",
        "list_security_group_rules", "show_firewall_rule", "show_firewall_policy",
        "show_firewall"}, Loads("GET", {200}))
  \cup Calls({"delete_floatingip", "delete_metering_label", "delete_metering_label_rule",
        "delete_security_group", "delete_security_group_rule", "delete_firewall_rule",
        "delete_firewall_policy", "delete_firewall"}, Plain("DELETE", {204}))

network_client_bulk ==
  Calls({"insert_firewall_policy_rule", "remove_firewall_policy_rule"}, Loads("PUT", {200}))
  \cup Calls({"show_extension", "list_extensions"}, Loads("GET", {200}))
  \cup Calls({"create_bulk_network", "create_bulk_subnet", "create_bulk_port"},
        Loads("POST", {201}))

network_client_routers ==
  Calls({"update_quotas", "_update_router", "add_router_interface_with_subnet_id",
        "add_router_interface_with_port_id", "remove_router_interface_with_subnet_id",
        "remove_router_interface_with_port_id"}, Loads("PUT", {200}))
  \cup Calls({"reset_quotas", "delete_router"}, Plain("DELETE", {204}))
  \cup Calls({"show_quotas", "list_quotas", "show_router", "list_routers",
        "list_router_interfaces"}, Loads("GET", {200}))
  \cup Calls({"create_router"}, Loads("POST", {201}))

network_client_agents ==
  Calls({"update_agent", "update_extra_routes", "delete_extra_routes"}, Loads("PUT", {200}))
  \cup Calls({"show_agent", "list_agents", "list_routers_on_l3_agent",
        "list_l3_agents_hosting_router", "list_dhcp_agent_hosting_network",
        "list_networks_hosted_by_one_dhcp_agent"}, Loads("GET", {200}))
  \cup Calls({"add_router_to_l3_agent", "add_dhcp_agent_to_network"}, Loads("POST", {201}))
  \cup Calls({"remove_router_from_l3_agent", "remove_network_from_dhcp_agent"},
        Plain("DELETE", {204}))

volume_hosts_client ==
  Calls({"list_hosts"}, Loads("GET", {200}))

volume_quotas_client ==
  Calls({"show_default_quota_set", "show_quota_set"}, Loads("GET", {200}))
  \cup Calls({"update_quota_set"}, Loads("PUT", {200}))
  \cup Calls({"delete_quota_set"}, Plain("DELETE", {200}))

volume_services_client ==
  Calls({"list_services"}, Loads("GET", {200}))

volume_types_client ==
  Calls({"list_volume_types", "show_volume_type", "list_volume_types_extra_specs",
        "show_volume_type_extra_specs", "show_encryption_type"}, Loads("GET", {200}))
  \cup Calls({"create_volume_type", "create_volume_type_extra_specs",
        "create_encryption_type"}, Loads("POST", {200}))
  \cup Calls({"delete_volume_type", "delete_volume_type_extra_specs",
        "delete_encryption_type"}, Plain("DELETE", {202}))
  \cup Calls({"update_volume_type_extra_specs"}, Loads("PUT", {200}))

cinder_availability_zone_client ==
  Calls({"list_availability_zones"}, Loads("GET", {200}))

backups_client ==
  Calls({"create_backup", "restore_backup"}, Loads("POST", {202}))
  \cup Calls({"delete_backup"}, Plain("DELETE", {202}))
  \cup Calls({"show_backup", "list_backups", "export_backup"}, Loads("GET", {200}))
  \cup Calls({"import_backup"}, Loads("POST", {201}))

cinder_extensions_client ==
  Calls({"list_extensions"}, Loads("GET", {200}))

qos_client ==
  Calls({"create_qos"}, Loads("POST", {200}))
  \cup Calls({"delete_qos"}, Plain("DELETE", {202}))
  \cup Calls({"list_qos", "show_qos", "show_association_qos"}, Loads("GET", {200}))
  \cup Calls({"set_qos_key"}, Loads("PUT", {200}))
  \cup Calls({"unset_qos_key"}, Plain("PUT", {202}))
  \cup Calls({"associate_qos", "disassociate_qos", "disassociate_all_qos"}, Plain("GET",
        {202}))

snapshots_client ==
  Calls({"list_snapshots", "show_snapshot"}, Loads("GET", {200}))
  \cup Calls({"create_snapshot"}, Loads("POST", {200}))
  \cup Calls({"update_snapshot"}, Loads("PUT", {200}))
  \cup Calls({"delete_snapshot"}, Plain("DELETE", {202}))

snapshots_client_actions ==
  Calls({"reset_snapshot_status", "update_snapshot_status", "force_delete_snapshot"},
        Plain("POST", {202}))
  \cup Calls({"create_snapshot_metadata"}, Loads("POST", {200}))
  \cup Calls({"show_snapshot_metadata"}, Loads("GET", {200}))
  \cup Calls({"update_snapshot_metadata", "update_snapshot_metadata_item"}, Loads("PUT",
        {200}))
  \cup Calls({"delete_snapshot_metadata_item"}, Plain("DELETE", {200}))

volumes_client ==
  Calls({"_ext_get", "show_volume"}, Loads("GET", {200}))
  \cup Calls({"create_volume"}, Loads("POST", {200}))
  \cup Calls({"update_volume"}, Loads("PUT", {200}))
  \cup Calls({"delete_volume"}, Plain("DELETE", {202}))
  \cup Calls({"upload_volume"}, Loads("POST", {202}))

volumes_client_actions ==
  Calls({"attach_volume", "detach_volume", "reserve_volume", "unreserve_volume",
        "extend_volume", "rollback_volume", "reset_volume_status", "volume_begin_detaching",
        "volume_roll_detaching"}, Plain("POST", {202}))
  \cup Calls({"set_bootable_volume"}, Plain("POST", {200}))

volumes_client_transfers ==
  Calls({"create_volume_transfer", "accept_volume_transfer"}, Loads("POST", {202}))
  \cup Calls({"show_volume_transfer", "list_volume_transfers", "show_volume_metadata"},
        Loads("GET", {200}))
  \cup Calls({"delete_volume_transfer"}, Plain("DELETE", {202}))
  \cup Calls({"update_volume_readonly", "force_delete_volume", "retype_volume"},
        Plain("POST", {202}))
  \cup Calls({"create_volume_metadata"}, Loads("POST", {200}))
  \cup Calls({"update_volume_metadata", "update_volume_metadata_item"}, Loads("PUT", {200}))
  \cup Calls({"delete_volume_metadata_item"}, Plain("DELETE", {200}))

(***************************************************************************)
(* The different requests of all clients.                                  *)
(***************************************************************************)
Requests == {call[2] : call \in UNION
  {agents_client, aggregates_client, nova_availability_zone_client, baremetal_nodes_client,
   certificates_client, nova_extensions_client, fixed_ips_client, flavors_client,
   floating_ip_pools_client, floating_ips_bulk_client, floating_ips_client, hosts_client,
   hypervisor_client, images_client, instance_usage_audit_log_client, interfaces_client,
   keypairs_client, limits_client, migrations_client, networks_client,
   quota_classes_client, quotas_client, security_group_default_rules_client,
   security_group_rules_client, security_groups_client, server_groups_client,
   servers_client_zones, servers_client, servers_client_actions, servers_client_metadata,
   servers_client_states, servers_client_qos, services_client, tenant_networks_client,
   tenant_usages_client, volumes_extensions_client, v2_identity_client_tenants,
   v2_identity_client_users, v2_identity_client_services, credentials_client,
   endpoints_client, v3_identity_client_users, v3_identity_client_projects,
   v3_identity_client_domains, v3_identity_client_groups, v3_identity_client_trusts,
   policy_client, region_client, v3_service_client, v1_image_client, v2_image_client,
   network_client, network_client_firewalls, network_client_bulk, network_client_routers,
   network_client_agents, volume_hosts_client, volume_quotas_client,
   volume_services_client, volume_types_client, cinder_availability_zone_client,
   backups_client, cinder_extensions_client, qos_client, snapshots_client,
   snapshots_client_actions, volumes_client, volumes_client_actions,
   volumes_client_transfers}}
=============================================================================
