------------------------------ MODULE Waiters -------------------------------
(***************************************************************************)
(* The waiting loops of the test framework: automation/common/waiters.py,  *)
(* the wait methods of the service clients and wait_for_resource_deletion  *)
(* of rest_client.py.  Each was written on its own and does the same few   *)
(* things in another order: it reads the state of a resource, looks for    *)
(* the state that is waited for, for an error, at the clock, and sleeps.   *)
(*                                                                         *)
(* Time is counted in half seconds: most loops compare seconds that int()  *)
(* has cut off.  External: the resource moves when it likes.               *)
(***************************************************************************)
EXTENDS Integers, Sequences

CONSTANTS
  build_timeout,   \* in half seconds
  build_interval,
  MaxAnswer        \* bound: half seconds an answer takes

\* an IntOpt: a timeout is a number of whole seconds
ASSUME WaitAssumption ==
  /\ build_timeout \in Nat \ {0} /\ build_timeout % 2 = 0
  /\ build_interval \in Nat \ {0} /\ MaxAnswer \in Nat

VARIABLES
  waiter,    \* the loop that runs
  at,        \* its next step, 0 when it has ended
  resource,  \* state of the resource: "pending", "target", "busy" (the target
             \* with a task in progress), "error" or "gone"
  since,     \* history: when the resource came into that state
  read,      \* state last read: the local server_status, value, body...
  now,
  start,     \* start_time
  dtime,     \* elapsed time, in the loops that keep it
  ended      \* "running", "returned", "failed", "timeout"

waitVars == <<waiter, at, resource, since, read, now, start, dtime, ended>>

(***************************************************************************)
(* A loop is its steps and the step it begins its rounds with.  Looking:   *)
(*   target  returns when the state read is the one waited for             *)
(*   error   raises the exception of the resource                          *)
(*   late    raises TimeoutException                                       *)
(* wait_for_server_status                                                  *)
(***************************************************************************)
Loop(steps, again) == [steps |-> steps, again |-> again]

wait_for_server_status == Loop(<<"read", "clock", "target", "sleep", "read", "error", "late">>, 3)

wait_for_image_status_once == wait_for_server_status
\* "check the status again to avoid a false negative"
wait_for_image_status  == Loop(<<"read", "clock", "target", "sleep", "read", "error", "target", "late">>, 3)

wait_for_volume_status == Loop(<<"read", "clock", "target", "sleep", "read", "error", "late">>, 3)

wait_for_bm_node_status == Loop(<<"read", "clock", "target", "sleep", "read", "target", "late">>, 3)

\* BackupsClient: the same loop as that of the volumes
wait_for_backup_status == wait_for_volume_status

\* RestClient, is_resource_deleted of the service clients
wait_for_resource_deletion == Loop(<<"clock", "read", "target", "late", "sleep">>, 2)

wait_for_backup_deletion == wait_for_resource_deletion

\* QosSpecsClient
wait_for_qos_operations == wait_for_resource_deletion

\* ServersClient: NotFound is what it waits for
wait_for_server_termination == Loop(<<"clock", "read", "target", "error", "late", "sleep">>, 2)

\* NetworkClient: not cut to seconds, and no look after the last sleep
wait_for_resource_status == Loop(<<"clock", "over", "read", "target", "sleep">>, 2)

(***************************************************************************)
(* SnapshotsClient: two sleeps a round, the time is taken before the first *)
(* one, and the error is looked for as soon as a state is read.            *)
(***************************************************************************)
wait_for_snapshot_status ==
  Loop(<<"clock", "read", "error", "note", "sleep", "target", "noted", "sleep", "read", "error">>, 4)

\* ImageClient of version 1: the same with the states killed and active
wait_for_image_status_v1 ==
  Loop(<<"clock", "read", "note", "sleep", "target", "error", "noted", "sleep", "read">>, 3)

Loops == [server |-> wait_for_server_status, image |-> wait_for_image_status,
          volume |-> wait_for_volume_status, backup |-> wait_for_backup_status,
          bm_node |-> wait_for_bm_node_status, deletion |-> wait_for_resource_deletion,
          backup_deletion |-> wait_for_backup_deletion, qos |-> wait_for_qos_operations,
          termination |-> wait_for_server_termination, network |-> wait_for_resource_status,
          snapshot |-> wait_for_snapshot_status, image_v1 |-> wait_for_image_status_v1]

Steps   == Loops[waiter].steps
Goal    == IF waiter \in {"deletion", "backup_deletion", "termination"} THEN "gone" ELSE "target"
Gap(w)  == IF w \in {"snapshot", "image_v1"} THEN 2 * build_interval ELSE build_interval
Failing == {w \in DOMAIN Loops : \E i \in DOMAIN Loops[w].steps : Loops[w].steps[i] = "error"}

Seconds(t) == t \div 2   \* int(time.time())

-----------------------------------------------------------------------------
\* other programs run: a call in progress in RestClient has no waiter
WaitInit(w) ==
  /\ waiter = w /\ at = IF w = "none" THEN 0 ELSE 1
  /\ resource \in IF w = "server" THEN {"pending", "busy", "target", "error"}
                  ELSE IF w = "none" THEN {"pending"} ELSE {"pending", "target", "error"}
  /\ since = 0 /\ now \in IF w = "none" THEN {0} ELSE {0, 1}
  /\ start = 0 /\ dtime = 0 /\ read = "unread"
  /\ ended = "running"

Next(n) == at' = IF at = Len(Steps) THEN Loops[waiter].again ELSE at + n
Go      == Next(1)
End(how) == at' = 0 /\ ended' = how

Step(name) == at > 0 /\ Steps[at] = name

\* external; what is gone stays away
MovesAt(time) ==
  /\ resource # "gone"
  /\ resource' \in {"pending", "target", "error", "busy", "gone"} \ {resource}
  /\ resource' = "busy" => waiter = "server"
  /\ resource' = "gone" => Goal = "gone"
  /\ since' = time

Moves == at > 0 /\ MovesAt(now) /\ UNCHANGED <<waiter, at, read, now, start, dtime, ended>>

\* a service is asked; the resource may move after it was looked at and before the answer is there
show == /\ Step("read") /\ Go
        /\ read' = resource
        /\ \E d \in 0..MaxAnswer :
             /\ now' = now + d
             /\ UNCHANGED <<resource, since>> \/ \E time \in now..(now + d) : MovesAt(time)
        /\ UNCHANGED <<waiter, start, dtime, ended>>

\* the answer is an error of RestClient, or the resource is gone too soon
show_raises == /\ Step("read") /\ End("failed")
               /\ UNCHANGED <<waiter, resource, since, read, now, start, dtime>>

take_time == /\ Step("clock") /\ Go /\ start' = now
             /\ UNCHANGED <<waiter, resource, since, read, now, dtime, ended>>

take_dtime == /\ Step("note") /\ Go /\ dtime' = now - start
              /\ UNCHANGED <<waiter, resource, since, read, now, start, ended>>

sleep == /\ Step("sleep") /\ Go /\ now' = now + build_interval
         /\ UNCHANGED <<waiter, resource, since, read, start, dtime, ended>>

look(name, seen, how) ==
  /\ Step(name) /\ (IF seen THEN End(how) ELSE Go /\ UNCHANGED ended)
  /\ UNCHANGED <<waiter, resource, since, read, now, start, dtime>>

look_for_target == look("target", read = Goal, "returned")
look_for_error  == look("error", read = "error", "failed")

timed_out == Seconds(now) - Seconds(start) >= Seconds(build_timeout)
look_at_clock == look("late", timed_out, "timeout")
look_at_dtime == look("noted", dtime > build_timeout, "timeout")
look_at_time  == look("over", now - start > build_timeout, "timeout")

WaitSteps == \/ show \/ show_raises \/ take_time \/ take_dtime \/ sleep
             \/ look_for_target \/ look_for_error \/ look_at_clock \/ look_at_dtime \/ look_at_time

-----------------------------------------------------------------------------
(***************************************************************************)
(* A wait gives up at its time, less the second int() may cut off, and at  *)
(* most one round later; a resource in error is not reported as slow by a  *)
(* loop that knows the error, as whoever cleans up looks at the exception. *)
(***************************************************************************)
GivesUpInTime ==
  ended = "timeout" =>
    /\ now - start > build_timeout - 2
    /\ now - start <= build_timeout + Gap(waiter) + build_interval + 2 * MaxAnswer
    /\ waiter \in Failing => read # "error"

(***************************************************************************)
(* A state that was there a round before the time was up, and stayed, is   *)
(* not missed: neither by sleeping through it nor by an old reading.  And  *)
(* "to avoid a false negative where we hit the timeout at the same time    *)
(* that the image reached the expected status" (waiters.py:118) the state  *)
(* read last is not the one waited for; only the loops of servers, volumes *)
(* and backups may give up on that.                                        *)
(***************************************************************************)
NothingMissed ==
  ended = "timeout" =>
    /\ resource = Goal => since - start >= build_timeout - 2 - Gap(waiter) - 2 * MaxAnswer
    /\ read = Goal => waiter \in {"server", "volume", "backup"}

(***************************************************************************)
(* What a TimeoutException tells the caller: the time was up, and the      *)
(* state waited for was not there before.                                  *)
(***************************************************************************)
Timeouts == GivesUpInTime /\ NothingMissed
=============================================================================
