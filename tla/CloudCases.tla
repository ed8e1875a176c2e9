----------------------------- MODULE CloudCases -----------------------------
(***************************************************************************)
(* The test cases of long_run_tests.py and network_test.py: sequences of   *)
(* requests to the OpenStack services that build a network with one or two *)
(* virtual machines, look whether they answer, and take everything down.   *)
(*                                                                         *)
(* A resource carries the name of the variable that gets its id.  Request  *)
(* bodies, generated names and logging are left out.  CloudRun says what a *)
(* step does.                                                              *)
(***************************************************************************)
EXTENDS Naturals, Sequences

(***************************************************************************)
(* The functions of the scripts, as steps.  A step that creates a resource *)
(* says what the resource holds on to; with As its id goes into the        *)
(* dictionary.                                                             *)
(***************************************************************************)
Step(op, name, held) == [op |-> op, name |-> name, uses |-> held, key |-> "none", at |-> "env"]
As(key, step)        == [step EXCEPT !.key = key]
Minor(step)          == [step EXCEPT !.at = "env_minor"]

network_create(n)                     == Step("new", n, {})
subnet_create(n, net)                 == Step("new", n, {})
router_create                         == Step("new", "router", {})
router_set_external_gw                == Step("ask", "router", {})
router_add_internal_gw(n, sub, net)   == Step("new", n, {"router", sub, net})
securitygroup_create                  == Step("new", "sg", {})
securitygroup_rule_create             == Step("new", "sgrule", {})
securitygroup_rule_create_tcp         == Step("new", "sgrule_tcp", {})
firewall_rule_create(n)               == Step("new", n, {})
firewall_rule_create_tcp              == Step("new", "fwrule_tcp", {})
firewall_policy_create(n)             == Step("new", n, {})
firewall_polcy_insert_rule(p, r)      == Step("hold", p, {r})
firewall_polcy_remove_rule(p, r)      == Step("free", p, {r})
firewall_create(p)                    == Step("new", "fw", {p})
firewall_change_router                == Step("ask", "fw", {})
firewall_change_policy(p)             == Step("swap", "fw", {p})
volume_create(n)                      == Step("new", n, {})
instance_create_by_volume(n, net, v)  == Step("new", n, {net, "sg", v})
instance_find_fix_ip                  == Step("ask", "instance", {})
port_find_by_mac                      == Step("ask", "port", {})
floatingip_create(n)                  == Step("new", n, {})
refresh_arp_cache                     == Step("ask", "fip", {})
instance_wait(n)                      == Step("wait_instance", n, {})
firewall_wait                         == Step("wait_firewall", "fw", {})
volume_wait(n)                        == Step("wait_volume", n, {})
cmd_ping(wanted)                      == Step(IF wanted THEN "answers" ELSE "silent", "fip", {})
instance_wait_sshable                 == Step("ask", "instance", {})
cmd_ping_between_two_ip               == Step("answers", "fip", {})
securitygroup_rule_delete             == Step("drop", "sgrule", {})
firewall_rule_delete(n)               == Step("drop", n, {})
firewall_policy_delete(n)             == Step("drop", n, {})

(***************************************************************************)
(* What the cases have in common, in the order of the code.                *)
(***************************************************************************)
Network ==
  << As("network_id", network_create("network")),
     As("subnet_id", subnet_create("subnet", "network")),
     As("router_id", router_create),
     router_set_external_gw,
     router_add_internal_gw("iface", "subnet", "network"),
     As("securitygroup_id", securitygroup_create) >>

Firewall ==
  << As("firewall_rule_id", firewall_rule_create("fwrule")),
     As("firewall_policy_id", firewall_policy_create("policy")),
     firewall_polcy_insert_rule("policy", "fwrule"),
     As("firewall_id", firewall_create("policy")),
     firewall_change_router,
     firewall_wait >>

Machine ==
  << As("volume_id", volume_create("volume")),
     volume_wait("volume"),
     As("instance_id", instance_create_by_volume("instance", "network", "volume")),
     instance_wait("instance"),
     instance_find_fix_ip,
     port_find_by_mac,
     As("floatingip_id", floatingip_create("fip")),
     refresh_arp_cache >>

Pingable == << As("securitygroup_rule_id", securitygroup_rule_create) >>

testcase_basic == Network \o Pingable \o Firewall \o Machine \o <<cmd_ping(TRUE)>>

testcase_securitygroup ==
  Network \o Machine \o
  << cmd_ping(FALSE),
     As("securitygroup_rule_id", securitygroup_rule_create),
     cmd_ping(TRUE),
     As("securitygroup_rule_id", securitygroup_rule_delete),
     cmd_ping(FALSE) >>

testcase_fw ==
  Network \o Pingable \o Firewall \o Machine \o
  << cmd_ping(FALSE),
     As("firewall_rule_id", firewall_rule_create("fwrule_new")),
     As("firewall_policy_id", firewall_policy_create("policy_new")),
     firewall_polcy_insert_rule("policy_new", "fwrule_new"),
     firewall_change_policy("policy_new"),
     firewall_polcy_remove_rule("policy", "fwrule"),
     firewall_rule_delete("fwrule"),
     firewall_policy_delete("policy"),
     firewall_wait,
     cmd_ping(TRUE) >>

testcase_connectivity_between_two_vlan ==
  Network \o Pingable \o Machine \o
  << cmd_ping(TRUE),
     Minor(As("securitygroup_rule_id", securitygroup_rule_create_tcp)),
     Minor(As("network_id", network_create("network2"))),
     Minor(As("subnet_id", subnet_create("subnet2", "network2"))),
     Minor(As("subnet_gw_id", router_add_internal_gw("iface2", "subnet2", "network2"))),
     Minor(As("volume_id", volume_create("volume2"))),
     volume_wait("volume2"),
     Minor(As("instance_id", instance_create_by_volume("instance2", "network2", "volume2"))),
     instance_wait("instance2"),
     instance_find_fix_ip,
     port_find_by_mac,
     Minor(As("floatingip_id", floatingip_create("fip2"))),
     refresh_arp_cache,
     cmd_ping(TRUE),
     instance_wait_sshable,
     cmd_ping_between_two_ip >>

(***************************************************************************)
(* The environment for testcase_vm_mul_create_delete.  The ids of the two  *)
(* TCP rules are not kept.  network_test.py adds a machine and pings it.   *)
(***************************************************************************)
create_Networkenv ==
  Network \o Pingable \o
  << securitygroup_rule_create_tcp,
     As("firewall_rule_id", firewall_rule_create("fwrule")),
     firewall_rule_create_tcp,
     As("firewall_policy_id", firewall_policy_create("policy")),
     firewall_polcy_insert_rule("policy", "fwrule"),
     firewall_polcy_insert_rule("policy", "fwrule_tcp"),
     As("firewall_id", firewall_create("policy")),
     firewall_change_router,
     firewall_wait >>

create_Networkenv_pinged == create_Networkenv \o Machine \o <<cmd_ping(TRUE)>>

(***************************************************************************)
(* clear_env: the keys in the order in which they are looked up; the steps *)
(* that are not deletions have names of their own.                         *)
(***************************************************************************)
clear_env_without_floatingip ==
  << "instance_id", "instance_gone", "volume_id", "remove_all_router", "firewall_id", "remove_rule",
     "firewall_rule_id", "firewall_policy_id", "securitygroup_rule_id", "securitygroup_id",
     "remove_internal_gw", "subnet_gw_id", "subnet_id", "network_id", "router_id" >>
clear_env_policy_first ==
  << "instance_id", "instance_gone", "volume_id", "remove_all_router", "remove_rule",
     "firewall_rule_id", "firewall_policy_id", "firewall_id", "securitygroup_rule_id",
     "securitygroup_id", "remove_internal_gw", "subnet_gw_id", "subnet_id", "network_id",
     "router_id", "floatingip_id" >>
clear_env ==
  << "instance_id", "instance_gone", "volume_id", "remove_all_router", "firewall_id", "remove_rule",
     "firewall_rule_id", "firewall_policy_id", "securitygroup_rule_id", "securitygroup_id",
     "remove_internal_gw", "subnet_gw_id", "subnet_id", "network_id", "router_id",
     "floatingip_id" >>
=============================================================================
