------------------------------ MODULE CloudRun ------------------------------
(***************************************************************************)
(* How the cases of CloudCases run: run() of the scripts, the handlers of  *)
(* the cases, the polling loops and clear_env.  Of the cloud only what can *)
(* refuse a request is modelled: a resource another one holds on to is not *)
(* deleted.  Everything else it may do to a request is a fault, before the *)
(* request has an effect or after (the answer is lost).                    *)
(***************************************************************************)
EXTENDS CloudCases, FiniteSets, Functions

CONSTANTS
  MaxFaults,  \* bound: requests and pings that fail, tokens that expire
  MaxPolls    \* polls of a bounded loop (50 in instance_wait, 100 in firewall_wait)

ASSUME RunAssumption == MaxFaults \in Nat /\ MaxPolls \in Nat \ {0}

VARIABLES
  script,      \* "long_run_tests" or "network_test"
  keep,        \* TEST_KEEP_ENV
  plan,        \* the cases still to run, the current one first
  pc,          \* next step of the current case
  mode,        \* "try", "clear" (in clear_env), "over", or "dead": nobody caught an exception
  todo,        \* dictionaries still to be cleared, the current one first
  cp,          \* next step of clear_env
  result,      \* what the case returns
  env,         \* the dictionaries of the case: env (or env_main) and env_minor
  test_token,  \* None, good or expired
  alive,       \* resources that exist, as <<case, name>>
  uses,        \* <<a, b>>: resource a holds on to resource b
  status,      \* of the resource the case waits for
  polls,       \* iterations of the polling loop
  faults,
  lost,        \* history: resources whose creation was never answered
  refused      \* history: the cloud refused a request of the script

control == <<plan, pc, mode, todo, cp, result, polls>>
cloud   == <<alive, uses>>
runVars == <<script, keep, control, env, test_token, cloud, status, faults, lost, refused>>

Case   == Head(plan)
Cases  == {"testcase_basic", "testcase_securitygroup", "testcase_fw",
           "testcase_connectivity_between_two_vlan"}
Setup  == "create_Networkenv"
Env1   == "env1"

Steps == CASE Case = "testcase_basic" -> testcase_basic
           [] Case = "testcase_securitygroup" -> testcase_securitygroup
           [] Case = "testcase_fw" -> testcase_fw
           [] Case = "testcase_connectivity_between_two_vlan" ->
                testcase_connectivity_between_two_vlan
           [] Case = Setup /\ script = "long_run_tests" -> create_Networkenv
           [] Case = Setup /\ script = "network_test" -> create_Networkenv_pinged
           [] Case = Env1 -> <<>>

step     == Steps[pc]
Tag(n)   == <<Case, n>>
Empty    == [e \in {"env", "env_minor"} |-> <<>>]
Known(e) == Range(env[e])

(***************************************************************************)
(* The cloud.  A security group is deleted with its rules.                 *)
(***************************************************************************)
InUse(r)  == \E u \in uses : u[2] = r
Parts(r)  == IF r[2] = "sg" THEN {r, <<r[1], "sgrule">>, <<r[1], "sgrule_tcp">>} ELSE {r}
May(op, r, held) ==
  CASE op = "drop" -> r \in alive /\ ~InUse(r)
    [] op = "free" -> \A h \in held : <<r, h>> \in uses
    [] OTHER       -> TRUE
Effect(op, r, held) ==
  CASE op = "new"  -> alive' = alive \cup {r} /\ uses' = uses \cup ({r} \X held)
    [] op = "hold" -> uses' = uses \cup ({r} \X held) /\ UNCHANGED alive
    [] op = "swap" -> /\ uses' = {u \in uses : u[1] # r} \cup ({r} \X held)
                      /\ UNCHANGED alive
    [] op = "free" -> uses' = uses \ ({r} \X held) /\ UNCHANGED alive
    [] op = "drop" -> /\ alive' = alive \ Parts(r)
                      /\ uses' = {u \in uses : u[1] \notin Parts(r)}
    [] OTHER       -> UNCHANGED cloud

Fault == faults < MaxFaults /\ faults' = faults + 1

RunInit ==
  /\ script \in {"long_run_tests", "network_test"} /\ keep \in BOOLEAN
  /\ test_token = "None" /\ polls = 0 /\ status = "BUILD"
  /\ faults = 0 /\ lost = {} /\ refused = FALSE /\ cp = 1 /\ pc = 1
  /\ \/ /\ plan \in { << "testcase_basic", "testcase_securitygroup", "testcase_fw",
                         "testcase_connectivity_between_two_vlan" >>, <<Setup>> }
        /\ mode = "try" /\ todo = <<>> /\ result = FALSE /\ env = Empty
        /\ alive = {} /\ uses = {}
     \/ /\ plan = <<Env1>> /\ script = "network_test"
        /\ mode = "clear" /\ todo = <<"env">> /\ result = TRUE
        /\ LET had == {"network", "subnet", "router", "sg", "fip"}
           IN /\ alive = {<<Env1, n>> : n \in had \cup {"iface"}}
              /\ uses = {<<Env1, "iface">>} \X {<<Env1, n>> : n \in {"network", "subnet", "router"}}
              /\ env = [Empty EXCEPT !["env"] =
                          [network_id |-> "network", subnet_id |-> "subnet",
                           router_id |-> "router", securitygroup_id |-> "sg",
                           floatingip_id |-> "fip"]]

(***************************************************************************)
(* clear_env, step by step: what step s needs in the dictionary.           *)
(***************************************************************************)
Dict     == env[Head(todo)]
Has(key) == key \in DOMAIN Dict
Applies(s) ==
  CASE s = "remove_all_router"  -> Has("firewall_id")
    [] s = "instance_gone"      -> Has("instance_id")
    [] s = "remove_rule"        -> Has("firewall_rule_id") /\ Has("firewall_policy_id")
    [] s = "remove_internal_gw" -> Has("router_id") /\ Has("subnet_id")
    [] OTHER                    -> Has(s)

Swallowed(s) == s = "remove_rule"   \* the only request with a handler of its own

NextStep == /\ IF cp < Len(clear_env)
               THEN cp' = cp + 1 /\ UNCHANGED <<todo, mode>>
               ELSE /\ cp' = 1 /\ todo' = Tail(todo)
                    /\ mode' = IF Len(todo) = 1 THEN "over" ELSE mode
            /\ polls' = 0 /\ UNCHANGED <<plan, pc, result>>

(***************************************************************************)
(* Where an exception goes.  A test case returns False, clearing first if  *)
(* the environment is not kept; create_Networkenv always clears.  In       *)
(* clear_env it reaches the handler of the case only if clear_env was      *)
(* called in the try block, that is with TEST_KEEP_ENV.                    *)
(***************************************************************************)
Dicts == IF Case = "testcase_connectivity_between_two_vlan" THEN <<"env_minor", "env">>
                                                            ELSE <<"env">>
StartClearing(value) == /\ mode' = "clear" /\ todo' = Dicts /\ cp' = 1 /\ result' = value
                        /\ UNCHANGED <<plan, pc>> /\ polls' = 0
Return(value)        == /\ mode' = "over" /\ result' = value
                        /\ UNCHANGED <<plan, pc, todo, cp>> /\ polls' = 0
Die                  == mode' = "dead" /\ UNCHANGED <<plan, pc, todo, cp, result>> /\ polls' = 0

Raise_into_the_case == IF mode = "try" /\ ~(Case \in Cases /\ keep) THEN StartClearing(FALSE)
                       ELSE Return(FALSE)
Raise == IF mode = "clear" /\ Swallowed(clear_env[cp]) THEN NextStep
         ELSE IF mode = "try"
         THEN IF Case \in Cases /\ keep THEN Return(FALSE) ELSE StartClearing(FALSE)
         ELSE IF keep /\ (Case \in Cases \/ (Case = Setup /\ result)) THEN Return(FALSE) ELSE Die

Advance == pc' = pc + 1 /\ polls' = 0 /\ UNCHANGED <<plan, mode, todo, cp, result>>

(***************************************************************************)
(* http_post, http_put, http_get, http_delete: with 401 the script asks    *)
(* Keystone for a token and sends the request again.                       *)
(***************************************************************************)
Requesting == \/ mode = "try" /\ pc <= Len(Steps) /\ step.op \notin {"answers", "silent"}
              \/ mode = "clear" /\ todo # <<>> /\ Applies(clear_env[cp])

_get_Token ==
  /\ Requesting /\ test_token # "good"
  /\ \/ test_token' = "good" /\ UNCHANGED <<control, faults>>
     \/ Fault /\ Raise /\ UNCHANGED test_token
  /\ UNCHANGED <<script, keep, env, cloud, status, lost, refused>>

TokenExpires ==
  /\ test_token = "good" /\ mode \in {"try", "clear"} /\ Fault
  /\ test_token' = "expired"
  /\ UNCHANGED <<script, keep, control, env, cloud, status, lost, refused>>

(***************************************************************************)
(* One request of a case.  Its id is recorded, or forgotten, only when the *)
(* answer is good.                                                         *)
(***************************************************************************)
Waits == {"wait_instance", "wait_firewall", "wait_volume"}
Pings == {"answers", "silent"}

Record == env' = IF step.key = "none" THEN env
                 ELSE IF step.op = "drop"
                      THEN [env EXCEPT ![step.at] = Restrict(@, DOMAIN @ \ {step.key})]
                      ELSE [env EXCEPT ![step.at] =
                             [k \in DOMAIN @ \cup {step.key} |->
                                IF k = step.key THEN step.name ELSE @[k]]]

send_http_request ==
  LET r == Tag(step.name)
      held == {Tag(n) : n \in step.uses}
  IN /\ mode = "try" /\ pc <= Len(Steps) /\ step.op \notin Waits \cup Pings
     /\ test_token = "good"
     /\ \/ /\ May(step.op, r, held) /\ Effect(step.op, r, held) /\ Record /\ Advance
           /\ status' = "BUILD" /\ UNCHANGED <<faults, lost, refused>>
        \/ /\ ~May(step.op, r, held) /\ refused' = TRUE /\ Raise
           /\ UNCHANGED <<env, cloud, status, faults, lost>>
        \/ Fault /\ Raise /\ UNCHANGED <<env, cloud, status, lost, refused>>
        \/ /\ May(step.op, r, held) /\ step.op # "ask" /\ Fault
           /\ Effect(step.op, r, held) /\ Raise
           /\ lost' = IF step.op = "new" THEN lost \cup {r} ELSE lost
           /\ UNCHANGED <<env, status, refused>>
     /\ UNCHANGED <<script, keep, test_token>>

(***************************************************************************)
(* The resource a loop waits for gets ready or goes wrong.                 *)
(***************************************************************************)
Gone == mode = "clear" /\ todo # <<>> /\ clear_env[cp] = "instance_gone"
Waiting == \/ mode = "try" /\ pc <= Len(Steps) /\ step.op \in Waits
           \/ Gone /\ "instance_id" \in DOMAIN env[Head(todo)]

Settles ==
  /\ Waiting /\ status = "BUILD"
  /\ \/ status' = "ready" /\ UNCHANGED faults
     \/ status' = "error" /\ Fault
  /\ UNCHANGED <<script, keep, control, env, test_token, cloud, lost, refused>>

(***************************************************************************)
(* The three loops.  instance_wait notices ERROR and, in long_run_tests,   *)
(* counts; firewall_wait counts; volume_wait does neither: the status of a *)
(* broken volume is "error" and the loop looks for "ERROR".  A poll that  *)
(* is answered with neither the resource nor 401 raises in all three.      *)
(***************************************************************************)
Counted(op) == op = "wait_firewall" \/ (op = "wait_instance" /\ script = "long_run_tests")

PollAgain_for_ever(op) == UNCHANGED <<control>>
PollAgain(op) ==
  IF ~Counted(op) THEN UNCHANGED <<control>>
  ELSE IF polls + 1 < MaxPolls THEN polls' = polls + 1 /\ UNCHANGED <<plan, pc, mode, todo, cp, result>>
  ELSE Raise

PollOf(op, Proceed) ==
  /\ test_token = "good"
  /\ \/ status = "ready" /\ Proceed /\ UNCHANGED faults
     \/ status = "error" /\ op = "wait_instance" /\ Raise /\ UNCHANGED <<env, status, faults>>
     \/ status = "error" /\ op # "wait_instance" /\ PollAgain(op) /\ UNCHANGED <<env, status, faults>>
     \/ status = "BUILD" /\ PollAgain(op) /\ UNCHANGED <<env, status, faults>>
     \/ Fault /\ Raise /\ UNCHANGED <<env, status>>
  /\ UNCHANGED <<script, keep, test_token, cloud, lost, refused>>

Poll == /\ mode = "try" /\ Waiting
        /\ PollOf(step.op, Advance /\ status' = "BUILD" /\ UNCHANGED env)

(***************************************************************************)
(* A ping with another outcome than the case wants ends the case;          *)
(* create_Networkenv of network_test.py then returns False, and its caller *)
(* fails on the subscript.                                                 *)
(***************************************************************************)
cmd_ping_step ==
  /\ mode = "try" /\ pc <= Len(Steps) /\ step.op \in Pings
  /\ \/ Advance /\ UNCHANGED faults
     \/ /\ Fault
        /\ IF Case = Setup THEN Die ELSE IF keep THEN Return(FALSE) ELSE StartClearing(FALSE)
  /\ UNCHANGED <<script, keep, test_token, env, cloud, status, lost, refused>>

StepsDone ==
  /\ mode = "try" /\ pc > Len(Steps)
  /\ IF Case = Setup THEN Return(TRUE) ELSE StartClearing(TRUE)
  /\ UNCHANGED <<script, keep, env, test_token, cloud, status, faults, lost, refused>>

(***************************************************************************)
(* What step s of clear_env asks for, and what it forgets when the answer  *)
(* is good.                                                                *)
(***************************************************************************)
Forget(key) == env' = [env EXCEPT ![Head(todo)] = Restrict(@, DOMAIN @ \ {key})]

Asks(s) ==
  CASE s = "remove_all_router"  -> [op |-> "ask", name |-> Dict["firewall_id"], uses |-> {}]
    [] s = "remove_rule"        -> [op |-> "free", name |-> Dict["firewall_policy_id"],
                                    uses |-> {Dict["firewall_rule_id"]}]
    [] s = "remove_internal_gw" -> [op |-> "drop", name |-> "iface", uses |-> {}]
    [] OTHER                    -> [op |-> "drop", name |-> Dict[s], uses |-> {}]

Forgets(s) == IF s \in {"instance_id", "remove_all_router", "remove_rule", "remove_internal_gw"}
              THEN UNCHANGED env ELSE Forget(s)

clear_env_step ==
  LET s == clear_env[cp]
      a == Asks(s)
      r == Tag(a.name)
      held == {Tag(n) : n \in a.uses}
  IN /\ mode = "clear" /\ todo # <<>> /\ ~(Gone /\ Applies(s))
     /\ \/ ~Applies(s) /\ NextStep /\ UNCHANGED <<env, cloud, status, faults, refused>>
        \/ /\ Applies(s) /\ test_token = "good"
           /\ \/ /\ May(a.op, r, held) /\ Effect(a.op, r, held) /\ Forgets(s) /\ NextStep
                 /\ status' = "BUILD" /\ UNCHANGED <<faults, refused>>
              \/ /\ ~May(a.op, r, held) /\ refused' = TRUE /\ Raise
                 /\ UNCHANGED <<env, cloud, status, faults>>
              \/ Fault /\ Raise /\ UNCHANGED <<env, cloud, status, refused>>
              \/ /\ May(a.op, r, held) /\ a.op # "ask" /\ Fault /\ Effect(a.op, r, held) /\ Raise
                 /\ UNCHANGED <<env, status, refused>>
     /\ UNCHANGED <<script, keep, test_token, lost>>

instance_wait_None ==
  /\ Gone /\ Waiting
  /\ PollOf("wait_instance", NextStep /\ Forget("instance_id") /\ status' = "BUILD")

(***************************************************************************)
(* run(): the next case; with TEST_KEEP_ENV a failed case is the last.     *)
(***************************************************************************)
GoesOn == mode = "over" /\ Len(plan) > 1 /\ (result \/ ~keep)

run ==
  /\ GoesOn
  /\ plan' = Tail(plan) /\ pc' = 1 /\ mode' = "try" /\ todo' = <<>> /\ cp' = 1
  /\ result' = FALSE /\ env' = Empty /\ polls' = 0 /\ status' = "BUILD"
  /\ UNCHANGED <<script, keep, test_token, cloud, faults, lost, refused>>

Script == \/ _get_Token \/ send_http_request \/ Poll \/ cmd_ping_step \/ StepsDone
          \/ clear_env_step \/ instance_wait_None \/ run

-----------------------------------------------------------------------------
(***************************************************************************)
(* A case that returned True has left nothing in the cloud: clear_env      *)
(* knew everything the case had created and took it down in an order the   *)
(* cloud accepts (clear_env and the testcases).                            *)
(***************************************************************************)
SuccessIsClean ==
  mode = "over" /\ result /\ Case # Setup => \A r \in alive : r[1] # Case

(***************************************************************************)
(* While a case runs its dictionaries know every resource it was told of,  *)
(* but for the interface of the router, the two TCP rules of               *)
(* create_Networkenv, and in testcase_fw the rule and policy whose keys    *)
(* the new ones have taken over.  Without TEST_KEEP_ENV what a case leaves *)
(* behind, when its clear_env came to the end, was never answered for or   *)
(* is one of these.                                                        *)
(***************************************************************************)
Unrecorded == {"iface"}
              \cup IF Case = "testcase_fw" THEN {"fwrule", "policy"} ELSE {}
              \cup IF Case = Setup THEN {"sgrule_tcp", "fwrule_tcp"} ELSE {}

LeftBehind ==
  \A r \in alive : r[1] = Case /\ r \notin lost =>
    /\ mode = "try" => r[2] \in Known("env") \cup Known("env_minor") \cup Unrecorded
    /\ mode = "over" /\ ~keep /\ Case # Setup => r[2] \in Unrecorded \ {"iface"}

(***************************************************************************)
(* As long as nothing fails the script never asks for a deletion the cloud *)
(* must refuse: the order of clear_env respects who holds on to what.      *)
(***************************************************************************)
NoRefusal == faults = 0 => ~refused

(***************************************************************************)
(* A script comes to an end or waits forever in a loop that has no bound:  *)
(* volume_wait, or instance_wait of network_test.py.                       *)
(***************************************************************************)
Ended       == mode = "dead" \/ (mode = "over" /\ ~GoesOn)
OpenLoop    == Waiting /\ ~Counted(IF mode = "try" THEN step.op ELSE "wait_instance")
=============================================================================
