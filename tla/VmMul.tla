-------------------------------- MODULE VmMul --------------------------------
(***************************************************************************)
(* testcase_vm_mul_create_delete of long_run_tests.py (what that script    *)
(* runs: an endless loop over a pool of machines) and of network_test.py   *)
(* (rounds of machines, taken down after each).  They start where          *)
(* CloudRun's create_Networkenv is over.  Machines, floating ips and       *)
(* volumes have numbers; the quota of the tenant is how many there are.    *)
(***************************************************************************)
EXTENDS CloudRun, SequencesExt

CONSTANTS
  Quota,      \* bound: machines, floating ips and volumes of the tenant
  PoolSize,   \* length of env["instances"] before one is used (30)
  VmCount,    \* TEST_VM_COUNT (6)
  VmRounds    \* TEST_VM_ROUND_COUNT (2)

ASSUME MulAssumption == /\ Quota \in Nat /\ PoolSize \in Nat \ {0, 1}
                        /\ VmCount \in Nat \ {0} /\ VmRounds \in Nat \ {0}

VARIABLES
  at,             \* <<part, step>> of the test case
  instances,      \* env["instances"], or env["instance_ids"] of network_test
  volume_ids, floatingip_ids,
  instance_id,    \* the machine created last, 0 at first
  cur,            \* [vm, fip, vol] the loop is building or using, 0: none yet
  servers,        \* status of the machines that exist, or "none"
  fips, volumes,  \* the others that exist
  attached,       \* <<machine, volume>>
  round, totalCreateVM, totalSuccess,
  passed,         \* what the test case returns
  silent,         \* history: machines whose ping failed
  full            \* history: a quota was reached

lists   == <<instances, volume_ids, floatingip_ids>>
tenant  == <<servers, fips, volumes, attached>>
totals  == <<round, totalCreateVM, totalSuccess, passed>>
mulVars == <<at, lists, instance_id, cur, tenant, totals, silent, full>>

Ids        == 1 .. Quota
Nobody     == [vm |-> 0, fip |-> 0, vol |-> 0]
Machines   == {v \in Ids : servers[v] # "none"}
Unused(S)  == Ids \ S
Lowest(S)  == CHOOSE i \in Unused(S) : \A k \in Unused(S) : i <= k
Goto(p, s) == at' = <<p, s>>
Rounds     == script = "network_test"
net        == result   \* create_Networkenv returned an environment

MulInit ==
  /\ at = <<"setup", "">>
  /\ instances = <<>> /\ volume_ids = <<>> /\ floatingip_ids = <<>>
  /\ instance_id = 0 /\ cur = Nobody
  /\ servers = [v \in Ids |-> "none"] /\ fips = {} /\ volumes = {} /\ attached = {}
  /\ round = 1 /\ totalCreateVM = 0 /\ totalSuccess = 0 /\ passed = FALSE
  /\ silent = {} /\ full = FALSE

(***************************************************************************)
(* create_Networkenv is over.                                              *)
(***************************************************************************)
setup_done ==
  /\ Case = Setup /\ mode = "over" /\ at[1] = "setup"
  /\ IF Rounds THEN Goto("build", "volume") ELSE Goto("build", "create")
  /\ UNCHANGED <<runVars, lists, instance_id, cur, tenant, totals, silent, full>>

(***************************************************************************)
(* An exception: long_run_tests goes round its loop again, network_test    *)
(* returns False and, unless TEST_KEEP_ENV, clears what its lists hold.    *)
(* In the clearing of the finally clause nobody catches it.                *)
(***************************************************************************)
MulRaise ==
  IF ~Rounds
  THEN /\ at' = IF Len(instances) < PoolSize THEN <<"build", "create">> ELSE <<"use", "pop">>
       /\ UNCHANGED passed
  ELSE IF at[1] = "clear" /\ ~keep THEN Goto("dead", "") /\ UNCHANGED passed
  ELSE passed' = FALSE /\ IF keep THEN Goto("over", "") ELSE Goto("clear", "instances")

(***************************************************************************)
(* Building a machine.  network_test makes a volume first and records each *)
(* id as soon as it has it; long_run_tests records the machine at the end. *)
(***************************************************************************)
volume_made ==
  /\ at = <<"build", "volume">> /\ Unused(volumes) # {}
  /\ LET v == Lowest(volumes)
     IN volumes' = volumes \cup {v} /\ volume_ids' = Append(volume_ids, v) /\ cur' = [Nobody EXCEPT !.vol = v]
  /\ Goto("build", "create")
  /\ UNCHANGED <<instances, floatingip_ids, instance_id, servers, fips, attached, totals, faults, silent, full>>

instance_made ==
  /\ at = <<"build", "create">> /\ net /\ Unused(Machines) # {}
  /\ LET v == Lowest(Machines)
     IN /\ servers' = [servers EXCEPT ![v] = "BUILD"]
        /\ instance_id' = v
        /\ cur' = IF Rounds THEN [cur EXCEPT !.vm = v] ELSE [Nobody EXCEPT !.vm = v]
        /\ instances' = IF Rounds THEN Append(instances, v) ELSE instances
        /\ attached' = attached \cup IF Rounds THEN {<<v, cur.vol>>} ELSE {}
        /\ silent' = silent \ {v}
  /\ Goto("build", "ACTIVE")
  /\ UNCHANGED <<volume_ids, floatingip_ids, fips, volumes, totals, faults, full>>

built ==
  /\ at = <<"build", "ACTIVE">>
  /\ servers' = [servers EXCEPT ![cur.vm] = "ACTIVE"]
  /\ totalCreateVM' = IF Rounds THEN totalCreateVM + 1 ELSE totalCreateVM
  /\ Goto("build", "fip")
  /\ UNCHANGED <<lists, instance_id, cur, fips, volumes, attached, round, totalSuccess, passed,
                 faults, silent, full>>

floatingip_made ==
  /\ at = <<"build", "fip">> /\ Unused(fips) # {}
  /\ LET f == Lowest(fips)
     IN /\ fips' = fips \cup {f} /\ cur' = [cur EXCEPT !.fip = f]
        /\ floatingip_ids' = IF Rounds THEN Append(floatingip_ids, f) ELSE floatingip_ids
  /\ Goto("build", "ping")
  /\ UNCHANGED <<instances, volume_ids, instance_id, servers, volumes, attached, totals, faults, silent, full>>

(***************************************************************************)
(* After a machine: the next one, or what follows the loop.                *)
(***************************************************************************)
Made == IF Rounds THEN totalCreateVM - VmCount * (round - 1) ELSE Len(instances')
Onward == at' = IF Rounds
                THEN IF Made < VmCount THEN <<"build", "volume">> ELSE <<"drain", "instances">>
                ELSE IF Made < PoolSize THEN <<"build", "create">> ELSE <<"use", "pop">>

ping_fails_keeps_the_ids ==
  /\ at = <<"build", "ping">> /\ Fault
  /\ silent' = silent \cup {cur.vm}
  /\ UNCHANGED <<lists, instance_id, cur, tenant, totals, full>> /\ Onward
ping_fails ==
  /\ at = <<"build", "ping">> /\ Fault
  /\ silent' = silent \cup {cur.vm}
  /\ IF Rounds /\ keep
     THEN /\ instances' = Remove(instances, cur.vm) /\ volume_ids' = Remove(volume_ids, cur.vol)
          /\ floatingip_ids' = Remove(floatingip_ids, cur.fip)
     ELSE UNCHANGED lists
  /\ Onward
  /\ UNCHANGED <<instance_id, cur, tenant, totals, full>>

ping_answers ==
  /\ at = <<"build", "ping">>
  /\ instances' = IF Rounds THEN instances ELSE <<cur>> \o instances
  /\ totalSuccess' = IF Rounds THEN totalSuccess + 1 ELSE totalSuccess
  /\ Onward
  /\ UNCHANGED <<volume_ids, floatingip_ids, instance_id, cur, tenant, round, totalCreateVM,
                 passed, faults, silent, full>>

(***************************************************************************)
(* long_run_tests: the oldest machine of the pool is stopped, started,     *)
(* resized, given a volume -- that is, the machine created last is --,     *)
(* migrated and deleted.                                                   *)
(***************************************************************************)
pop_keeps_it ==
  /\ at = <<"use", "pop">>
  /\ cur' = Last(instances) /\ UNCHANGED instances
  /\ Goto("use", "os-stop")
  /\ UNCHANGED <<volume_ids, floatingip_ids, instance_id, tenant, totals, faults, silent, full>>
pop ==
  /\ at = <<"use", "pop">>
  /\ cur' = Last(instances) /\ instances' = Front(instances)
  /\ Goto("use", "os-stop")
  /\ UNCHANGED <<volume_ids, floatingip_ids, instance_id, tenant, totals, faults, silent, full>>

(***************************************************************************)
(* A request on the machine and the status instance_wait then waits for.   *)
(***************************************************************************)
Needs == [s \in {"os-stop", "os-start", "resize", "confirmResize", "volume", "os-migrateLive", "compare", "delete"} |->
            IF s = "os-start" THEN "SHUTOFF" ELSE IF s = "confirmResize" THEN "VERIFY_RESIZE" ELSE "ACTIVE"]

ServerAction(s, reached, then) ==
  /\ at = <<"use", s>>
  /\ servers' = [servers EXCEPT ![cur.vm] = reached]
  /\ Goto("use", then)
  /\ UNCHANGED <<lists, instance_id, cur, fips, volumes, attached, totals, faults, silent, full>>

instance_stop           == ServerAction("os-stop", "SHUTOFF", "os-start")
instance_start          == ServerAction("os-start", "ACTIVE", "resize")
instance_resize         == ServerAction("resize", "VERIFY_RESIZE", "confirmResize")
instance_resize_confirm == ServerAction("confirmResize", "ACTIVE", "volume")
instance_live_migrate   == ServerAction("os-migrateLive", "ACTIVE", "compare")

instance_volume_attach ==
  /\ at = <<"use", "volume">> /\ Unused(volumes) # {}
  /\ LET v == Lowest(volumes)
     IN /\ volumes' = volumes \cup {v}
        /\ \/ attached' = attached \cup {<<instance_id, v>>} /\ Goto("use", "os-migrateLive") /\ UNCHANGED <<passed, faults>>
           \/ Fault /\ MulRaise /\ UNCHANGED attached
  /\ UNCHANGED <<lists, instance_id, cur, servers, fips, round, totalCreateVM, totalSuccess, silent, full>>

(***************************************************************************)
(* The answer to the migration is not looked at, only whether the host is  *)
(* another one; if not the machine is left as it is.                       *)
(***************************************************************************)
compare_hosts ==
  /\ at = <<"use", "compare">>
  /\ \/ Goto("use", "delete") /\ UNCHANGED faults
     \/ Fault /\ Goto("build", "create")
  /\ UNCHANGED <<lists, instance_id, cur, tenant, totals, silent, full>>

Vanish(v) == /\ servers' = [servers EXCEPT ![v] = "none"]
           /\ attached' = {a \in attached : a[1] # v}

instance_delete ==
  /\ at = <<"use", "delete">> /\ Vanish(cur.vm) /\ Goto("use", "fip")
  /\ UNCHANGED <<lists, instance_id, cur, fips, volumes, totals, faults, silent, full>>

floatingip_delete ==
  /\ at = <<"use", "fip">> /\ fips' = fips \ {cur.fip} /\ Goto("build", "create")
  /\ UNCHANGED <<lists, instance_id, cur, servers, volumes, attached, totals, faults, silent, full>>

(***************************************************************************)
(* network_test: the lists are emptied from the end, after every round and *)
(* in clear_env.  An id leaves its list before the request to delete it.   *)
(***************************************************************************)
Attached(v) == \E a \in attached : a[2] = v

Drain(s, list, Put(_), Delete(_), then) ==
  /\ at[2] = s /\ at[1] \in {"drain", "clear"}
  /\ \/ /\ list = <<>> /\ at' = <<at[1], then>>
        /\ UNCHANGED <<lists, tenant, faults, passed>>
     \/ /\ list # <<>> /\ Put(Front(list))
        /\ \/ Delete(Last(list)) /\ UNCHANGED <<at, faults, passed>>
           \/ Fault /\ MulRaise /\ UNCHANGED tenant
           \/ s = "volumes" /\ Attached(Last(list)) /\ MulRaise /\ UNCHANGED <<tenant, faults>>
  /\ UNCHANGED <<instance_id, cur, round, totalCreateVM, totalSuccess, silent, full>>

drain_instances ==
  Drain("instances", instances,
        LAMBDA l : instances' = l /\ UNCHANGED <<volume_ids, floatingip_ids>>,
        LAMBDA v : Vanish(v) /\ UNCHANGED <<fips, volumes>>, "volumes")
drain_volumes ==
  Drain("volumes", volume_ids,
        LAMBDA l : volume_ids' = l /\ UNCHANGED <<instances, floatingip_ids>>,
        LAMBDA v : ~Attached(v) /\ volumes' = volumes \ {v} /\ UNCHANGED <<servers, fips, attached>>,
        IF at[1] = "clear" THEN "network" ELSE "fips")
drain_fips ==
  Drain("fips", floatingip_ids,
        LAMBDA l : floatingip_ids' = l /\ UNCHANGED <<instances, volume_ids>>,
        LAMBDA f : fips' = fips \ {f} /\ UNCHANGED <<servers, volumes, attached>>, "end")

(***************************************************************************)
(* The other keys of the dictionary are cleared between the volumes and    *)
(* the floating ips; in the code their machine and volume come first.      *)
(***************************************************************************)
clear_network ==
  /\ at = <<"clear", "network">>
  /\ IF net THEN StartClearing(TRUE) /\ Goto("clear", "waiting")
            ELSE UNCHANGED control /\ Goto("clear", "fips")
  /\ UNCHANGED <<script, keep, env, test_token, cloud, status, lost, refused>>
  /\ UNCHANGED <<lists, instance_id, cur, tenant, totals, faults, silent, full>>

network_cleared ==
  /\ at = <<"clear", "waiting">> /\ mode = "over"
  /\ IF result THEN Goto("clear", "fips") /\ UNCHANGED passed
               ELSE Goto("over", "") /\ passed' = FALSE
  /\ UNCHANGED <<lists, instance_id, cur, tenant, faults, silent, full, round, totalCreateVM, totalSuccess>>

(***************************************************************************)
(* The end of a round, of the rounds, and of clear_env.                    *)
(***************************************************************************)
round_ends ==
  /\ at = <<"drain", "end">> /\ round < VmRounds
  /\ round' = round + 1 /\ Goto("build", "volume")
  /\ UNCHANGED <<lists, instance_id, cur, tenant, totalCreateVM, totalSuccess, passed, faults, silent, full>>

rounds_end ==
  /\ at = <<"drain", "end">> /\ round = VmRounds
  /\ passed' = (totalCreateVM = totalSuccess)
  /\ at' = IF keep /\ totalCreateVM # totalSuccess THEN <<"over", "">> ELSE <<"clear", "instances">>
  /\ UNCHANGED <<lists, instance_id, cur, tenant, round, totalCreateVM, totalSuccess, faults, silent, full>>

clear_ends ==
  /\ at = <<"clear", "end">> /\ Goto("over", "")
  /\ UNCHANGED <<lists, instance_id, cur, tenant, totals, faults, silent, full>>

(***************************************************************************)
(* A request fails, or the tenant has reached its quota.                   *)
(***************************************************************************)
Quiet == {<<"build", "ping">>, <<"use", "pop">>, <<"use", "compare">>}

request_fails ==
  /\ at[1] \in {"build", "use"} /\ at \notin Quiet
  /\ Fault /\ MulRaise
  /\ UNCHANGED <<lists, instance_id, cur, tenant, silent, full, round, totalCreateVM, totalSuccess>>

quota_reached ==
  /\ \/ at = <<"build", "create">> /\ (Unused(Machines) = {} \/ ~net)
     \/ at = <<"build", "fip">> /\ Unused(fips) = {}
     \/ at \in {<<"build", "volume">>, <<"use", "volume">>} /\ Unused(volumes) = {}
  /\ MulRaise /\ full' = TRUE
  /\ UNCHANGED <<lists, instance_id, cur, tenant, silent, round, totalCreateVM, totalSuccess, faults>>

Build == volume_made \/ instance_made \/ built \/ floatingip_made \/ ping_fails \/ ping_answers
Use   == \/ pop \/ instance_stop \/ instance_start \/ instance_resize \/ instance_resize_confirm
         \/ instance_volume_attach \/ instance_live_migrate \/ compare_hosts
         \/ instance_delete \/ floatingip_delete
Drains == drain_instances \/ drain_volumes \/ drain_fips \/ network_cleared

testcase_vm_mul_create_delete ==
  \/ setup_done
  \/ clear_network
  \/ /\ Build \/ Use \/ Drains \/ round_ends \/ rounds_end \/ clear_ends \/ request_fails \/ quota_reached
     /\ UNCHANGED <<script, keep, control, env, test_token, cloud, status, lost, refused>>

-----------------------------------------------------------------------------
(***************************************************************************)
(* long_run_tests: the machine that gets the new volume is one of the      *)
(* pool, although the code names it by the variable of another loop; and a *)
(* request to a machine of the pool finds it in the status Nova wants,     *)
(* whatever failed before it got there.                                    *)
(***************************************************************************)
PoolUsable ==
  /\ at = <<"use", "volume">> => \E i \in DOMAIN instances : instances[i].vm = instance_id
  /\ at[1] = "use" /\ at[2] \in DOMAIN Needs => servers[cur.vm] = Needs[at[2]]

(***************************************************************************)
(* long_run_tests: until a quota is reached every failure costs at most    *)
(* one machine: all others are in the pool or the one at hand.             *)
(***************************************************************************)
FewLost ==
  ~Rounds /\ ~full =>
    Cardinality(Machines \ ({cur.vm} \cup {instances[i].vm : i \in DOMAIN instances})) <= faults

(***************************************************************************)
(* The pool of long_run_tests: what is in it can be used, and little is    *)
(* lost from it.                                                           *)
(***************************************************************************)
PoolIsUsable == PoolUsable /\ FewLost

(***************************************************************************)
(* network_test: with TEST_KEEP_ENV the machines that did not answer are   *)
(* still there at the end, with their volumes, for somebody to look at;    *)
(* True is returned only with the tenant empty again, but for the TCP rule *)
(* of create_Networkenv nobody knows.                                      *)
(***************************************************************************)
KeptOrEmpty ==
  Rounds /\ at[1] = "over" =>
    /\ keep => \A v \in silent : /\ servers[v] = "ACTIVE"
                                 /\ \E w \in volumes : <<v, w>> \in attached
    /\ passed => /\ Machines = {} /\ volumes = {} /\ fips = {}
                 /\ alive \subseteq {Tag("fwrule_tcp")}
=============================================================================
