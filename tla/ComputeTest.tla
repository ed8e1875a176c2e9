----------------------------- MODULE ComputeTest -----------------------------
(***************************************************************************)
(* compute_test.py: rounds that boot a server from a new volume, take it   *)
(* through reboot, resize and migrations, and clean up.  The ids to clean  *)
(* are global variables, written when a resource has been made and never   *)
(* reset.  A volume, server or floating ip is known by its round; names,   *)
(* hosts and what ssh reads are left out.                                  *)
(***************************************************************************)
EXTENDS Naturals, Sequences

CONSTANTS
  XRounds,    \* rounds of the main loop (200)
  XPolls,     \* polls of a loop (20, 10 or 6)
  XFaults     \* bound: failing requests, slow or broken servers

ASSUME ComputeAssumption == XRounds \in Nat /\ XPolls \in Nat \ {0} /\ XFaults \in Nat

NoId     == 0
SharedId == XRounds + 1       \* 889e0ef2-..., the address 10.160.60.193 everybody may use
Shared   == "the_shared_address"

VARIABLES
  index,                \* round of the main loop
  x,                    \* next step of testcases_one_round, or of clean_env after it
  server_status, goal,  \* of the server of this round; it is on its way to goal
  read,                 \* what get_server_status last returned
  tries,                \* polls of a loop
  floating_ip,          \* the local variable: None, own or Shared
  test_server_id, test_volume_id, test_floating_ip_id,
  xservers, xvolumes, xfips,  \* what exists, by round
  xfaults,
  deleting,             \* servers that Nova has promised to delete and still has
  asked,                \* history: <<kind, round>> whose deletion was asked for
  missed,               \* history: <<kind, round>> whose id reached no global variable, or volume
                        \* that clean_env gave up before it asked
  slow                  \* history: volumes polled for in vain while their server was being deleted

testIds == <<test_server_id, test_volume_id, test_floating_ip_id>>
things  == <<xservers, xvolumes, xfips>>
marks   == <<asked, missed, slow>>
compVars == <<index, x, server_status, goal, read, tries, floating_ip, testIds, things, deleting,
              xfaults, marks>>

(***************************************************************************)
(* The steps of a round.                                                   *)
(***************************************************************************)
Ask(req, now, then)   == <<"ask", req, now, then>>  \* a request: status now, status when done
Must(s)               == <<"must", s>>              \* read the status; raise unless it is s
Loop(S)               == <<"loop", S>>              \* read it until it is in S or XPolls times
Look                  == <<"look">>                 \* read it, for the log
Confirm(always)       == <<"confirm", always>>      \* resize_confirm_server, if `read' says so

test_boot_from_volume == << <<"create_volume">>, <<"volume_loop">>, <<"boot_from_volume">> >>
test_reboot     == << Ask("reboot_server", "REBOOT", "ACTIVE"), Must("REBOOT"), Must("ACTIVE") >>
stop_server     == << Ask("stop_server", "same", "SHUTOFF"), Must("SHUTOFF") >>
start_server    == << Ask("start_server", "same", "ACTIVE") >>
ping_floating_ip == << <<"ping">> >>
test_resize ==
  stop_server \o
  << Ask("resize_server", "RESIZE", "VERIFY_RESIZE"), Loop({"VERIFY_RESIZE"}),
     Must("VERIFY_RESIZE"), Confirm(TRUE) >> \o
  start_server \o << Loop({"ACTIVE"}), Must("ACTIVE") >>
test_live_migrate ==
  << Ask("live_migrate", "MIGRATING", "ACTIVE"), Loop({"VERIFY_RESIZE", "ACTIVE"}), Look,
     Confirm(FALSE), Must("ACTIVE"), <<"ping">> >>
test_migrate ==
  << Ask("migrate", "RESIZE", "VERIFY_RESIZE"), Look, <<"loop_unread">>,
     Confirm(FALSE), Must("ACTIVE"), <<"ping">> >>
testcases_one_round ==
  test_boot_from_volume \o << Look >> \o test_reboot \o stop_server \o start_server \o << Look >> \o
  << <<"floatingip_create">>, <<"floating_ip_associate">> >> \o ping_floating_ip \o
  test_resize \o test_live_migrate \o test_migrate \o << <<"floating_ip_disassociate">> >>

clean_env_volume_first ==
  << <<"floatingip_delete">>, <<"volume_free">>, <<"delete_volume">>, <<"delete_server">> >>
clean_env ==
  << <<"floatingip_delete">>, <<"delete_server">>, <<"volume_free">>, <<"delete_volume">> >>

Program == testcases_one_round \o clean_env
Cleaning == Len(testcases_one_round) + 1
op    == Program[x]
XFault == xfaults < XFaults /\ xfaults' = xfaults + 1

ComputeInit(first) ==
  /\ index = first /\ x = 1 /\ server_status = "none" /\ goal = "none" /\ read = "none" /\ tries = 0
  /\ floating_ip = "None"
  /\ test_server_id = NoId /\ test_volume_id = NoId /\ test_floating_ip_id = NoId
  /\ xservers = {} /\ xvolumes = {} /\ xfips = {SharedId}
  /\ deleting = {} /\ xfaults = 0 /\ asked = {} /\ missed = {} /\ slow = {}

Onwards == x' = x + 1 /\ tries' = 0

(***************************************************************************)
(* An exception in a round goes to the main loop, which cleans up; there   *)
(* floating_ip is None again, whatever the round had.                      *)
(***************************************************************************)
XRaise == x' = Cleaning /\ tries' = 0 /\ floating_ip' = "None"

Running(name) == index <= XRounds /\ x <= Len(Program) /\ op[1] = name

RequestFails ==
  /\ index <= XRounds /\ x < Cleaning /\ op[1] \notin {"confirm", "floatingip_create"}
  /\ XFault /\ XRaise
  /\ \/ UNCHANGED <<xservers, xvolumes>>
     \* the answer is lost
     \/ op[1] = "create_volume" /\ xvolumes' = xvolumes \cup {index} /\ UNCHANGED xservers
     \/ op[1] = "boot_from_volume" /\ xservers' = xservers \cup {index} /\ UNCHANGED xvolumes
  /\ missed' = missed \cup
       (IF op[1] \in {"create_volume", "volume_loop", "boot_from_volume"}
        THEN {<<"volume", r>> : r \in xvolumes' \cap {index}} \cup {<<"server", r>> : r \in xservers' \cap {index}}
        ELSE {})
  /\ UNCHANGED <<index, server_status, goal, read, testIds, xfips, deleting, asked, slow>>

create_volume ==
  /\ Running("create_volume") /\ xvolumes' = xvolumes \cup {index} /\ Onwards
  /\ UNCHANGED <<index, server_status, goal, read, floating_ip, testIds, xservers, xfips,
                 deleting, xfaults, marks>>

(***************************************************************************)
(* The volume may not be available when the loop ends: the server is       *)
(* booted all the same, which Nova may refuse (RequestFails).              *)
(***************************************************************************)
wait_volume ==
  /\ Running("volume_loop") /\ Onwards
  /\ UNCHANGED <<index, server_status, goal, read, floating_ip, testIds, things, deleting, xfaults, marks>>

boot_from_volume ==
  /\ Running("boot_from_volume") /\ xservers' = xservers \cup {index}
  /\ server_status' = "BUILD" /\ goal' = "ACTIVE"
  /\ test_server_id' = index /\ test_volume_id' = index /\ Onwards
  /\ UNCHANGED <<index, read, floating_ip, test_floating_ip_id, xvolumes, xfips,
                 deleting, xfaults, marks>>

(***************************************************************************)
(* Nova gets on with the server, or breaks it.                             *)
(***************************************************************************)
Nova ==
  /\ index <= XRounds /\ x < Cleaning /\ server_status \notin {goal, "none"}
  /\ \/ server_status' = goal /\ UNCHANGED xfaults
     \/ server_status' = "ERROR" /\ XFault
  /\ goal' = server_status'
  /\ UNCHANGED <<index, x, read, tries, floating_ip, testIds, things, deleting, marks>>

ask ==
  /\ Running("ask") /\ Onwards
  /\ IF server_status = "ERROR" THEN UNCHANGED <<server_status, goal>>  \* the answer is not looked at
     ELSE /\ server_status' = IF op[3] = "same" THEN server_status ELSE op[3]
          /\ goal' = op[4]
  /\ UNCHANGED <<index, read, floating_ip, testIds, things, deleting, xfaults, marks>>

must ==
  /\ Running("must") /\ read' = server_status
  /\ IF server_status = op[2] THEN Onwards /\ UNCHANGED floating_ip ELSE XRaise
  /\ UNCHANGED <<index, server_status, goal, testIds, things, deleting, xfaults, marks>>

look ==
  /\ Running("look") /\ read' = server_status /\ Onwards
  /\ UNCHANGED <<index, server_status, goal, floating_ip, testIds, things, deleting, xfaults, marks>>

loop ==
  /\ \/ Running("loop") /\ read' = server_status
        /\ IF server_status \in op[2] \/ tries + 1 = XPolls THEN Onwards ELSE tries' = tries + 1 /\ UNCHANGED x
     \/ Running("loop_unread") /\ UNCHANGED read
        /\ IF server_status \in {"VERIFY_RESIZE", "ACTIVE"} \/ tries + 1 = XPolls THEN Onwards
           ELSE tries' = tries + 1 /\ UNCHANGED x
  /\ UNCHANGED <<index, server_status, goal, floating_ip, testIds, things, deleting, xfaults, marks>>

resize_confirm_server ==
  /\ Running("confirm") /\ Onwards
  /\ IF read = "VERIFY_RESIZE" /\ server_status = "VERIFY_RESIZE"
     THEN server_status' = (IF op[2] THEN "SHUTOFF" ELSE "ACTIVE") /\ goal' = server_status'
     ELSE UNCHANGED <<server_status, goal>>
  /\ UNCHANGED <<index, read, floating_ip, testIds, things, deleting, xfaults, marks>>

create_floatingip ==
  /\ Running("floatingip_create") /\ Onwards
  /\ \/ /\ xfips' = xfips \cup {index} /\ test_floating_ip_id' = index /\ floating_ip' = "own"
        /\ UNCHANGED <<xfaults, missed>>
     \/ /\ XFault /\ floating_ip' = Shared /\ UNCHANGED test_floating_ip_id
        /\ \/ UNCHANGED <<xfips, missed>>
           \/ xfips' = xfips \cup {index} /\ missed' = missed \cup {<<"fip", index>>}
  /\ UNCHANGED <<index, server_status, goal, read, test_server_id, test_volume_id, xservers, xvolumes,
                 deleting, asked, slow>>

floating_ip_requests ==
  /\ \/ Running("floating_ip_associate") \/ Running("floating_ip_disassociate") \/ Running("ping")
  /\ Onwards
  /\ UNCHANGED <<index, server_status, goal, read, floating_ip, testIds, things, deleting, xfaults, marks>>

(***************************************************************************)
(* clean_env: three blocks with a handler each.  Without a volume of any   *)
(* round it returns at once.                                               *)
(***************************************************************************)
NothingToClean == test_volume_id = NoId
Finished       == x' = Len(Program) + 1 /\ tries' = 0

delete_floatingip ==
  /\ Running("floatingip_delete")
  /\ IF NothingToClean THEN Finished ELSE Onwards
  /\ IF NothingToClean \/ floating_ip = Shared \/ test_floating_ip_id = NoId
     THEN UNCHANGED <<xfips, xfaults, asked>>
     ELSE /\ asked' = asked \cup {<<"fip", test_floating_ip_id>>}
          /\ \/ xfips' = xfips \ {test_floating_ip_id} /\ UNCHANGED xfaults
             \/ XFault /\ UNCHANGED xfips
  /\ UNCHANGED <<index, server_status, goal, read, floating_ip, testIds, xservers, xvolumes, deleting,
                 missed, slow>>

\* Nova promises to delete the server, and does when it likes
delete_server ==
  /\ Running("delete_server") /\ Onwards
  /\ asked' = asked \cup {<<"server", test_server_id>>}
  /\ \/ deleting' = deleting \cup ({test_server_id} \cap xservers) /\ UNCHANGED xfaults
     \/ XFault /\ UNCHANGED deleting
  /\ UNCHANGED <<index, server_status, goal, read, floating_ip, testIds, things, missed, slow>>

Nova_deletes ==
  /\ \E r \in deleting :
       /\ deleting' = deleting \ {r}
       /\ \/ xservers' = xservers \ {r} /\ UNCHANGED xfaults
          \/ XFault /\ UNCHANGED xservers
  /\ UNCHANGED <<index, x, server_status, goal, read, tries, floating_ip, testIds, xvolumes, xfips, marks>>

(***************************************************************************)
(* The volume is in use as long as its server exists.  clean_env looks     *)
(* XPolls times whether it is free, and goes on whatever it saw.  The      *)
(* answer of a poll without a volume in it raises: there is no volume any  *)
(* more, or the request has failed, and the deletion is not asked for.     *)
(***************************************************************************)
VolumeInUse == test_volume_id \in xservers

volume_free ==
  /\ Running("volume_free")
  /\ \/ /\ test_volume_id \in xvolumes /\ VolumeInUse /\ tries + 1 < XPolls
        /\ tries' = tries + 1 /\ UNCHANGED <<x, xfaults, missed, slow>>
     \/ /\ test_volume_id \in xvolumes /\ Onwards /\ UNCHANGED <<xfaults, missed>>
        /\ \/ ~VolumeInUse /\ UNCHANGED slow
           \/ VolumeInUse /\ tries + 1 >= XPolls /\ slow' = slow \cup ({test_volume_id} \cap deleting)
     \/ /\ test_volume_id \notin xvolumes /\ Finished /\ UNCHANGED <<xfaults, missed, slow>>
     \/ /\ XFault /\ Finished /\ missed' = missed \cup {<<"volume", test_volume_id>>} /\ UNCHANGED slow
  /\ UNCHANGED <<index, server_status, goal, read, floating_ip, testIds, things, deleting, asked>>

\* the answer is not looked at; Cinder refuses when the volume is in use
delete_volume ==
  /\ Running("delete_volume") /\ Onwards
  /\ asked' = asked \cup {<<"volume", test_volume_id>>}
  /\ IF VolumeInUse
     THEN UNCHANGED <<xvolumes, xfaults>>
     ELSE \/ xvolumes' = xvolumes \ {test_volume_id} /\ UNCHANGED xfaults
          \/ XFault /\ UNCHANGED xvolumes
  /\ UNCHANGED <<index, server_status, goal, read, floating_ip, testIds, xservers, xfips, deleting,
                 missed, slow>>

next_round ==
  /\ index <= XRounds /\ x = Len(Program) + 1
  /\ index' = index + 1 /\ x' = 1 /\ floating_ip' = "None" /\ tries' = 0
  /\ server_status' = "none" /\ goal' = "none" /\ read' = "none"
  /\ UNCHANGED <<testIds, things, deleting, xfaults, marks>>

ComputeSteps == \/ RequestFails \/ create_volume \/ wait_volume \/ boot_from_volume \/ ask
               \/ must \/ look \/ loop \/ resize_confirm_server \/ create_floatingip
               \/ floating_ip_requests \/ delete_floatingip \/ delete_server \/ volume_free
               \/ delete_volume \/ next_round
NovaSteps == Nova \/ Nova_deletes

-----------------------------------------------------------------------------
(***************************************************************************)
(* When a round begins the deletion of everything older that still exists  *)
(* has been asked for, unless its id never reached a global variable (its  *)
(* answer was lost, or the boot after it failed), or a poll failed before  *)
(* the volume was due.  The shared address is never deleted, although      *)
(* clean_env takes the id from a global variable and the address from a    *)
(* local one.                                                              *)
(***************************************************************************)
Exist(k) == CASE k = "server" -> xservers [] k = "volume" -> xvolumes [] k = "fip" -> xfips

OldIsAsked ==
  /\ SharedId \in xfips
  /\ x = 1 => \A k \in {"server", "volume", "fip"} : \A r \in Exist(k) \ {SharedId} :
                r < index => <<k, r>> \in asked \cup missed

(***************************************************************************)
(* Without a fault a round leaves a server only while Nova is deleting it, *)
(* and a volume only when its server, being deleted, outlasted every poll: *)
(* Cinder then refuses, nobody asks again, and the volume stays for good.  *)
(***************************************************************************)
GoodRounds ==
  x = 1 /\ xfaults = 0 => xservers \subseteq deleting /\ xvolumes \subseteq slow /\ xfips = {SharedId}

(***************************************************************************)
(* clean_env of compute_test, after good and after bad rounds.             *)
(***************************************************************************)
RoundsCleanUp == OldIsAsked /\ GoodRounds
=============================================================================
