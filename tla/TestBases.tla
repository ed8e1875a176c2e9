------------------------------ MODULE TestBases ------------------------------
(***************************************************************************)
(* The objects that the test cases of src/automation/testcases work with:  *)
(* class Base of network_tests, compute_tests and volume_tests, and class  *)
(* BaseVolumeTest.  They keep a list of what was made for each kind of     *)
(* resource, and clean up by going through these lists; some of the loops  *)
(* remove what they have deleted from the list they go through.            *)
(*                                                                         *)
(* A thing is a pair, its kind and its number.  External: the cloud, which *)
(* refuses to delete what something else holds on to, takes its time to    *)
(* delete servers, firewalls, images, volumes and snapshots, and may fail. *)
(***************************************************************************)
EXTENDS Integers, Sequences, SequencesExt

CONSTANTS
  MaxBaseFaults, \* bound: requests that fail
  MaxBasePolls   \* rounds of a loop before its time-out

ASSUME BasesAssumption == MaxBaseFaults \in Nat /\ MaxBasePolls \in Nat \ {0}

OfNetwork  == {"firewall", "policy", "rule", "fip", "sgrule", "sg", "router", "subnet", "network"}
OfVolume   == {"snapshot", "volume", "type", "qos"}
ThingKinds == OfNetwork \cup OfVolume \cup {"server", "image"}

\* deleted some time after the request
Slowly == {"server", "image", "volume", "snapshot", "firewall"}

(***************************************************************************)
(* What a test case does, step by step: it makes a thing that holds on to  *)
(* others, ties a thing to others or frees it, or deletes one.  The wait   *)
(* for what was asked for is part of the step, and for a server its host   *)
(* in the monitoring system, which nobody removes.                         *)
(***************************************************************************)
Make(kind, held)  == [op |-> "make", thing |-> <<kind, 0>>, held |-> held]
Tie(thing, held)  == [op |-> "tie", thing |-> thing, held |-> held]
Free(thing, held) == [op |-> "free", thing |-> thing, held |-> held]
Drop(thing)       == [op |-> "drop", thing |-> thing, held |-> {}]

\* anything else that is done with a thing and waited for, and what fails if nothing answers
Act(thing) == Tie(thing, {})
Ping(n)    == Act(<<"fip", n>>)

Snapshot(n)      == Make("snapshot", {<<"volume", n>>})
Capture          == Make("image", {})
FloatingIP(held) == Make("fip", held)
Associate(n)     == Tie(<<"type", n>>, {<<"qos", n>>})
Attach           == Tie(<<"server", 1>>, {<<"volume", 1>>})
Detach           == Free(<<"server", 1>>, {<<"volume", 1>>})

\* extend_volume, update_volume, rollback_volume
Change(n) == Act(<<"volume", n>>)

\* router_add_subnet: the interface keeps subnet and network
Interface(n) == Tie(<<"router", 1>>, {<<"subnet", n>>, <<"network", n>>})

\* a port of the server is in the network and has an address of the subnet
Server(n) == Make("server", {<<"network", n>>, <<"subnet", n>>, <<"sg", 1>>})

Surroundings == <<Make("network", {}), Make("subnet", {}), Make("router", {}), Interface(1),
                  Make("sg", {}), Make("sgrule", {<<"sg", 1>>})>>

(***************************************************************************)
(* A test case: the groups of steps that it tries; whether what fails in a *)
(* group behind the first one is only logged and the next group follows    *)
(* all the same; whether it cleans up twice when the last group fails, in  *)
(* except and in finally; and what it cleans up with beside the base of    *)
(* compute_tests.                                                          *)
(***************************************************************************)
TestCase(base, groups) == [base |-> base, groups |-> groups, logs |-> FALSE, twice |-> FALSE]

TestCases == [
  basic_network |-> TestCase("network", <<Surroundings,
    <<Server(1), FloatingIP({}), Tie(<<"fip", 1>>, {<<"server", 1>>}), Ping(1)>>>>),
  accessibility |-> TestCase("network", <<
    <<Make("router", {}), Make("network", {}), Make("network", {}), Make("subnet", {}),
      Make("subnet", {}), Interface(1), Interface(2), Make("sg", {}),
      Make("sgrule", {<<"sg", 1>>}), Make("sgrule", {<<"sg", 1>>}), Make("sgrule", {<<"sg", 1>>})>>,
    <<Server(1), FloatingIP({}), Tie(<<"fip", 1>>, {<<"server", 1>>}), Ping(1),
      Server(2), Act(<<"server", 2>>)>>>>),
  firewall |-> TestCase("network", <<Surroundings \o
    <<Make("rule", {}), Make("policy", {}), Tie(<<"policy", 1>>, {<<"rule", 1>>}),
      Make("firewall", {<<"policy", 1>>})>>,
    <<Server(1), FloatingIP({}), Tie(<<"fip", 1>>, {<<"server", 1>>}), Ping(1)>>>>),
  securitygroup |-> [TestCase("network", <<Surroundings,
    <<Make("sg", {}), Server(1), FloatingIP({<<"server", 1>>}), Ping(1),
      Drop(<<"sgrule", 1>>), Ping(1)>>>>)
    EXCEPT !.logs = TRUE],
  multipleVM |-> [TestCase("network", <<Surroundings,
    <<Server(1), FloatingIP({<<"server", 1>>}), Ping(1)>>,
    <<Server(1), FloatingIP({<<"server", 2>>}), Ping(2)>>>>) EXCEPT !.logs = TRUE],
  vm_from_capture |-> TestCase("volume", <<<<Make("server", {}), Act(<<"server", 1>>),
    Capture, Make("server", {})>>>>),
  migration |-> [TestCase("volume", <<<<Make("server", {}), Act(<<"server", 1>>)>>>>)
    EXCEPT !.twice = TRUE],
  attach_volume |-> TestCase("volume", <<<<Make("server", {}), Make("volume", {}),
    Attach, Detach>>>>),
  rollback_snapshot |-> TestCase("volume", <<<<Make("volume", {})>>, <<Snapshot(1)>>, <<Change(1)>>>>),
  volume_snapshot |-> [TestCase("volume", <<<<Make("volume", {})>>,
    <<Snapshot(1)>>>>) EXCEPT !.twice = TRUE],
  volume_from_snapshot |-> TestCase("volume", <<<<Make("volume", {})>>,
    <<Snapshot(1)>>, <<Make("volume", {})>>>>),
  delete_snapshot |-> TestCase("volume", <<<<Make("volume", {})>>,
    <<Snapshot(1)>>, <<Drop(<<"snapshot", 1>>)>>>>),
  volume_with_qos |-> [TestCase("volume", <<<<Make("type", {})>>, <<Make("qos", {})>>,
    <<Associate(1)>>, <<Make("volume", {<<"type", 1>>})>>>>)
    EXCEPT !.twice = TRUE],
  update_volume_qos |-> TestCase("volume", <<<<Make("type", {}), Make("type", {})>>,
    <<Make("qos", {}), Make("qos", {})>>, <<Associate(1), Associate(2)>>,
    <<Make("volume", {<<"type", 1>>})>>,
    <<Tie(<<"volume", 1>>, {<<"type", 2>>}), Free(<<"volume", 1>>, {<<"type", 1>>})>>>>),
  volume_class |-> TestCase("class", <<<<Make("volume", {}), Snapshot(1),
    Make("qos", {}), Make("qos", {})>>>>)]

(***************************************************************************)
(* The clean-up as a sequence of loops: over a list to ask for deletions,  *)
(* over it again and again until it is empty, and what each delete_all     *)
(* decides at its end; removing the rules from the policies is one step.   *)
(***************************************************************************)
AskLoop(kind)  == [does |-> "ask", kind |-> kind]
PollLoop(kind) == [does |-> "poll", kind |-> kind]
EndLoop(kind)  == [does |-> "end", kind |-> kind]

ComputeLoops == <<AskLoop("server"), PollLoop("server"), AskLoop("image"), PollLoop("image"),
                  EndLoop("server")>>
NetworkLoops == <<AskLoop("firewall"), [does |-> "unlink", kind |-> "policy"], AskLoop("policy"),
                  AskLoop("rule"), AskLoop("fip"), AskLoop("sgrule"), AskLoop("sg"),
                  AskLoop("router"), AskLoop("subnet"), AskLoop("network"), EndLoop("network")>>
VolumeLoops  == <<AskLoop("snapshot"), AskLoop("volume"), PollLoop("volume"), EndLoop("volume"),
                  AskLoop("type"), AskLoop("qos"), PollLoop("qos"), EndLoop("qos")>>
ClassLoops   == <<AskLoop("qos"), PollLoop("qos"), AskLoop("snapshot"), AskLoop("volume")>>

LoopsOf == [network |-> ComputeLoops \o NetworkLoops, volume |-> ComputeLoops \o VolumeLoops,
          class |-> ClassLoops]

VARIABLES
  testName,   \* the test case
  group,      \* where it is: the group of steps
  stepAt,     \* and the step of the group
  loopAt,     \* 0 in the test, the loop of the clean-up, or behind the last one
  turn,       \* index of the loop
  roundsLeft, \* rounds it has left
  inLists,    \* what each kind has in its list
  madeOf,     \* things made of each kind
  onCloud,    \* external: things on the cloud
  holdsOn,    \* external: pairs of a thing and what it holds on to
  going,      \* external: things being deleted
  bound,      \* delete_all of the volumes: e has a value
  kept,       \* delete_all of the volumes: not is_successfully_deleted
  oncemore,   \* the clean-up comes a second time
  told,       \* an exception leaves the test
  failures,   \* requests that have failed
  unheard,    \* history: made by a request whose answer was lost
  owed,       \* history: the lists when the clean-up began
  askedFor,   \* history: things whose deletion was asked for
  failedFor,  \* history: things whose deletion was answered with an error
  refusals    \* history: pairs of a thing and who held on to it when it was refused

caseVars  == <<testName, group, stepAt, madeOf>>
thingVars == <<onCloud, holdsOn, going>>
flagVars  == <<bound, kept, oncemore, told>>
histVars  == <<unheard, owed, askedFor, failedFor, refusals>>
baseVars  ==
  <<caseVars, loopAt, turn, roundsLeft, inLists, thingVars, flagVars, failures, histVars>>

test  == TestCases[testName]
Group == test.groups[group]
allLoops == LoopsOf[test.base]
thisLoop == allLoops[loopAt]
inLoop   == inLists[thisLoop.kind]

OneFails == failures < MaxBaseFaults /\ failures' = failures + 1

(***************************************************************************)
(* External.  A floating address keeps no server, but the gateway and the  *)
(* interfaces of the router.  With a network its subnets go, with a        *)
(* security group its rules.                                               *)
(***************************************************************************)
Floating == {y \in onCloud : y[1] = "fip" /\ \E z \in onCloud : <<y, z>> \in holdsOn}
Holders(x) ==
  {y \in onCloud : <<y, x>> \in holdsOn /\ y[1] \notin {"fip", "sgrule"}}
    \cup (IF x[1] = "router" THEN Floating ELSE {})

With(x) == {x} \cup CASE x[1] = "network" -> {<<"subnet", x[2]>>}
                      [] x[1] = "sg"      -> {y \in onCloud : y[1] = "sgrule" /\ <<y, x>> \in holdsOn}
                      [] OTHER            -> {}

GoesAway(x) ==
  /\ x \in onCloud
  /\ Holders(x) = {}
  /\ IF x[1] \in Slowly
     THEN going' = going \cup {x} /\ UNCHANGED onCloud
     ELSE onCloud' = onCloud \ With(x) /\ UNCHANGED going

DeletionDone ==
  /\ \E x \in going : going' = going \ {x} /\ onCloud' = onCloud \ {x}
  /\ UNCHANGED <<caseVars, loopAt, turn, roundsLeft, inLists, holdsOn, flagVars, failures, histVars>>

(***************************************************************************)
(* A request to delete x and the error it ends with: none, NotFound or any *)
(* other, with or without an effect.  delete_router detaches the subnets   *)
(* first, as far as that succeeds.                                         *)
(***************************************************************************)
Interfaces(x) == IF x[1] = "router" THEN {p \in holdsOn : p[1] = x} ELSE {}

Deleted(x) == GoesAway(x) /\ holdsOn' = holdsOn \ Interfaces(x)
NotDeleted(x) ==
  UNCHANGED <<onCloud, going>> /\ \E S \in SUBSET Interfaces(x) : holdsOn' = holdsOn \ S

DeleteRequest(x, error) ==
  /\ askedFor' = askedFor \cup {x}
  /\ failedFor' = IF error = "none" THEN failedFor ELSE failedFor \cup {x}
  /\ refusals' = IF x \in onCloud THEN refusals \cup ({x} \X Holders(x)) ELSE refusals
  /\ \/ error = "none" /\ Deleted(x) /\ UNCHANGED failures
     \/ error = "NotFound" /\ x \notin onCloud /\ UNCHANGED <<thingVars, failures>>
     \/ error = "other" /\ x \in onCloud /\ Holders(x) # {} /\ NotDeleted(x) /\ UNCHANGED failures
     \/ error = "other" /\ OneFails /\ (Deleted(x) \/ NotDeleted(x))

-----------------------------------------------------------------------------
StartLoop(n) == loopAt' = n /\ turn' = 1 /\ roundsLeft' = MaxBasePolls - 1

\* the clean-up begins
CleanUp ==
  /\ StartLoop(1)
  /\ owed' = inLists'
  /\ UNCHANGED <<group, stepAt>>

Forward ==
  \/ /\ stepAt < Len(Group)
     /\ stepAt' = stepAt + 1
     /\ UNCHANGED <<group, loopAt, turn, roundsLeft, owed>>
  \/ /\ stepAt = Len(Group)
     /\ group < Len(test.groups)
     /\ group' = group + 1 /\ stepAt' = 1
     /\ UNCHANGED <<loopAt, turn, roundsLeft, owed>>
  \/ /\ stepAt = Len(Group)
     /\ group = Len(test.groups)
     /\ CleanUp

Goes == Forward /\ UNCHANGED <<told, oncemore, failures>>

\* an exception ends the group, and the test unless it is only logged
Raises ==
  /\ OneFails
  /\ LET logged == test.logs /\ group > 1
     IN  /\ told' = (told \/ ~logged)
         /\ oncemore' = (test.twice /\ group = Len(test.groups))
         /\ IF logged /\ group < Len(test.groups)
            THEN group' = group + 1 /\ stepAt' = 1 /\ UNCHANGED <<loopAt, turn, roundsLeft, owed>>
            ELSE CleanUp

InTest(op) == loopAt = 0 /\ Group[stepAt].op = op

(***************************************************************************)
(* create_server and its like: a thing is listed before it is waited for;  *)
(* the wait may end with an exception, the request may be refused, or its  *)
(* answer be lost.                                                         *)
(***************************************************************************)
Makes ==
  /\ InTest("make")
  /\ LET kind == Group[stepAt].thing[1]
         x    == <<kind, madeOf[kind] + 1>>
         IsMade   == /\ onCloud' = onCloud \cup {x}
                     /\ holdsOn' = holdsOn \cup ({x} \X Group[stepAt].held)
         IsListed == inLists' = [inLists EXCEPT ![kind] = Append(@, x)]
     IN  /\ madeOf' = [madeOf EXCEPT ![kind] = @ + 1]
         /\ \/ IsMade /\ IsListed /\ (Goes \/ Raises) /\ UNCHANGED unheard
            \/ UNCHANGED <<onCloud, holdsOn, inLists, unheard>> /\ Raises
            \/ IsMade /\ unheard' = unheard \cup {x} /\ UNCHANGED inLists /\ Raises
  /\ UNCHANGED <<testName, going, bound, kept, askedFor, failedFor, refusals>>

\* associate_floating_ip, router_add_subnet, attach_volume, detach_volume and their like
Ties ==
  /\ InTest("tie") \/ InTest("free")
  /\ LET pairs == {Group[stepAt].thing} \X Group[stepAt].held
         done  == IF InTest("tie") THEN holdsOn \cup pairs ELSE holdsOn \ pairs
     IN  /\ UNCHANGED inLists
         /\ \/ holdsOn' = done /\ (Goes \/ Raises)
            \/ UNCHANGED holdsOn /\ Raises
  /\ UNCHANGED <<testName, madeOf, onCloud, going, bound, kept, unheard, askedFor, failedFor, refusals>>

\* delete_sec_group_rule and delete_snapshot, called by a test
Drops ==
  /\ InTest("drop")
  /\ LET x == Group[stepAt].thing
     IN  /\ askedFor' = askedFor \cup {x}
         /\ \/ /\ inLists' = [inLists EXCEPT ![x[1]] = Remove(@, x)]
               /\ GoesAway(x) /\ Goes
            \/ /\ UNCHANGED inLists
               /\ GoesAway(x) \/ UNCHANGED <<onCloud, going>>
               /\ Raises
  /\ UNCHANGED <<testName, madeOf, holdsOn, bound, kept, unheard, failedFor, refusals>>

-----------------------------------------------------------------------------
(***************************************************************************)
(* An exception leaves a loop: from delete_all of the servers and images   *)
(* to the test, which goes on to the next clean-up; clear_volume_types and *)
(* clear_qos_specs to delete_all, which remembers it; elsewhere out of the *)
(* test.                                                                   *)
(***************************************************************************)
ExceptionLeaves ==
  LET remembered == test.base = "volume" /\ thisLoop.kind \in {"type", "qos"}
  IN  /\ kept' = (kept \/ remembered)
      /\ told' = (told \/ ~remembered)
      /\ StartLoop(CASE thisLoop.kind \in {"server", "image"} -> Len(ComputeLoops) + 1
                     [] remembered /\ thisLoop.kind = "type"  -> loopAt + 1
                     [] remembered /\ thisLoop.kind = "qos"   -> Len(allLoops)
                     [] OTHER                                 -> Len(allLoops) + 1)

NextLoop == StartLoop(loopAt + 1) /\ UNCHANGED <<kept, told>>

(***************************************************************************)
(* Who catches what: the loops over images nothing, because exceptions is  *)
(* a module; those over types and qos specs NotFound; the others anything. *)
(***************************************************************************)
Caught(error) ==
  CASE thisLoop.kind = "image"           -> error = "none"
    [] thisLoop.kind \in {"type", "qos"} -> error # "other"
    [] OTHER                             -> TRUE

\* what is deleted leaves its list: in the loop over it, or in one over a copy
LeavesList == test.base # "class" /\ thisLoop.kind \in OfNetwork \cup {"snapshot", "type", "qos"}
OverCopy   == thisLoop.kind \in {"type", "qos"}

\* Python goes on with the next index whatever became of the list
AfterDeletion_forgets_failures(error) ==
  /\ inLists' = [inLists EXCEPT ![thisLoop.kind] = IF LeavesList THEN RemoveAt(@, turn) ELSE @]
  /\ turn' = IF OverCopy THEN turn ELSE turn + 1
  /\ UNCHANGED <<loopAt, roundsLeft, kept, told>>
AfterDeletion(error) ==
  LET leaves == error = "none" /\ LeavesList
  IN  /\ inLists' = IF leaves THEN [inLists EXCEPT ![thisLoop.kind] = RemoveAt(@, turn)] ELSE inLists
      /\ turn' = IF leaves /\ OverCopy THEN turn ELSE turn + 1
      /\ UNCHANGED <<loopAt, roundsLeft, kept, told>>

InLoop(does) == loopAt \in DOMAIN allLoops /\ thisLoop.does = does

\* one turn of a loop that asks for deletions
AskTurn ==
  /\ InLoop("ask") /\ turn \in DOMAIN inLoop
  /\ \E error \in {"none", "NotFound", "other"} :
       /\ DeleteRequest(inLoop[turn], error)
       /\ IF Caught(error) THEN AfterDeletion(error) ELSE ExceptionLeaves /\ UNCHANGED inLists
       /\ bound' = (bound \/ (error # "none" /\ thisLoop.kind \in {"snapshot", "volume"}))
  /\ UNCHANGED <<caseVars, oncemore, unheard, owed>>

(***************************************************************************)
(* One turn of a loop that polls: what is not found leaves the list, an    *)
(* image by its status; any other answer than the expected one escapes.    *)
(* wait_for_resource_deletion takes NotFound as the end, and of the qos    *)
(* specs only those that were not found when they were deleted are listed. *)
(***************************************************************************)
PollTurn ==
  /\ InLoop("poll") /\ turn \in DOMAIN inLoop
  /\ \/ /\ inLoop[turn] \in onCloud
        /\ turn' = turn + 1
        /\ UNCHANGED <<loopAt, roundsLeft, inLists, kept, told, failures>>
     \/ /\ inLoop[turn] \notin onCloud
        /\ turn' = turn + 1
        /\ inLists' = IF thisLoop.kind = "qos" THEN inLists
                       ELSE [inLists EXCEPT ![thisLoop.kind] = RemoveAt(@, turn)]
        /\ UNCHANGED <<loopAt, roundsLeft, kept, told, failures>>
     \/ /\ thisLoop.kind = "image" /\ inLoop[turn] \notin onCloud
        /\ ExceptionLeaves /\ UNCHANGED <<inLists, failures>>
     \/ OneFails /\ ExceptionLeaves /\ UNCHANGED inLists
  /\ UNCHANGED <<caseVars, thingVars, bound, oncemore, histVars>>

\* the end of a pass; the next one unless the list is empty or the time is over
NextRound == turn' = 1 /\ roundsLeft' = roundsLeft - 1 /\ UNCHANGED <<loopAt, kept, told>>

PassEnds ==
  /\ InLoop("ask") \/ InLoop("poll")
  /\ turn > Len(inLoop)
  /\ IF thisLoop.does = "poll" /\ thisLoop.kind # "qos" /\ inLoop # <<>> /\ roundsLeft > 0
     THEN NextRound ELSE NextLoop
  /\ UNCHANGED <<caseVars, inLists, thingVars, bound, oncemore, failures, histVars>>

\* firewall_policy_remove_rule for every policy and rule; errors are ignored
Unlinks ==
  /\ InLoop("unlink")
  /\ LET pairs == Range(inLists["policy"]) \X Range(inLists["rule"])
     IN  \/ holdsOn' = holdsOn \ pairs /\ UNCHANGED failures
         \/ OneFails /\ \E S \in SUBSET (pairs \cap holdsOn) : holdsOn' = holdsOn \ S
  /\ NextLoop
  /\ UNCHANGED <<caseVars, inLists, onCloud, going, bound, oncemore, histVars>>

(***************************************************************************)
(* The ends of delete_all.  Servers and images that are left are forgotten *)
(* and raised, left network resources are raised.  Volumes that are left   *)
(* are forgotten and logged with e, which has a value only if an exception *)
(* was caught before; then what was remembered is raised.                  *)
(***************************************************************************)
AllEmpty(kinds) == \A k \in kinds : inLists[k] = <<>>
EmptyList(kind) == inLists' = [inLists EXCEPT ![kind] = <<>>]

EndsCompute ==
  /\ thisLoop.kind = "server"
  /\ told' = (told \/ ~AllEmpty({"server", "image"}))
  /\ IF AllEmpty({"server"}) THEN EmptyList("image") ELSE EmptyList("server")
  /\ StartLoop(loopAt + 1) /\ UNCHANGED kept

EndsNetwork ==
  /\ thisLoop.kind = "network"
  /\ told' = (told \/ ~AllEmpty(OfNetwork))
  /\ StartLoop(loopAt + 1) /\ UNCHANGED <<inLists, kept>>

EndsVolumes ==
  /\ thisLoop.kind = "volume"
  /\ EmptyList("volume")
  /\ IF AllEmpty({"volume"}) THEN NextLoop
     ELSE IF bound THEN kept' = TRUE /\ StartLoop(loopAt + 1) /\ UNCHANGED told
     ELSE ExceptionLeaves

EndsRemembered ==
  /\ thisLoop.kind = "qos"
  /\ told' = (told \/ kept)
  /\ StartLoop(loopAt + 1) /\ UNCHANGED <<inLists, kept>>

LoopsEnd ==
  /\ InLoop("end")
  /\ EndsCompute \/ EndsNetwork \/ EndsVolumes \/ EndsRemembered
  /\ UNCHANGED <<caseVars, thingVars, bound, oncemore, failures, histVars>>

\* the clean-up in finally, after the one in except
CleansAgain ==
  /\ loopAt = Len(allLoops) + 1 /\ oncemore
  /\ StartLoop(1)
  /\ oncemore' = FALSE /\ bound' = FALSE /\ kept' = FALSE
  /\ UNCHANGED <<caseVars, inLists, thingVars, told, failures, histVars>>

TestOver == loopAt = Len(allLoops) + 1 /\ ~oncemore

-----------------------------------------------------------------------------
NothingBegun ==
  /\ group = 1 /\ stepAt = 1 /\ loopAt = 0 /\ turn = 1 /\ roundsLeft = 0
  /\ onCloud = {} /\ holdsOn = {} /\ going = {}
  /\ bound = FALSE /\ kept = FALSE /\ oncemore = FALSE /\ told = FALSE /\ failures = 0
  /\ unheard = {} /\ askedFor = {} /\ failedFor = {} /\ refusals = {}

BasesInit ==
  /\ testName \in DOMAIN TestCases /\ NothingBegun
  /\ inLists = [k \in ThingKinds |-> <<>>] /\ owed = [k \in ThingKinds |-> <<>>]
  /\ madeOf = [k \in ThingKinds |-> 0]

BasesSteps ==
  Makes \/ Ties \/ Drops \/ AskTurn \/ PollTurn \/ PassEnds \/ Unlinks \/ LoopsEnd \/ CleansAgain

-----------------------------------------------------------------------------
LeftThere == onCloud \ going

(***************************************************************************)
(* A test that ends without an exception leaves nothing on the cloud but   *)
(* what was made by a request whose answer was lost: whatever delete_all   *)
(* catches, jumps over or forgets, something is raised for it.  For a      *)
(* class nothing is raised for the deletions that fail.                    *)
(***************************************************************************)
QuietIsClean ==
  TestOver /\ ~told =>
    LeftThere \subseteq unheard \cup (IF test.base = "class" THEN failedFor ELSE {})

\* things behind one that was deleted: the loop may have jumped over them
JumpedOver ==
  UNION {{owed[k][n] : n \in {m \in 2..Len(owed[k]) : owed[k][m - 1] \in askedFor}} :
         k \in ThingKinds}

(***************************************************************************)
(* delete_all of network_tests and volume_tests: of what the lists have    *)
(* when it begins it asks for the first of every kind, and of two in       *)
(* succession at least for one, although it takes from the lists it goes   *)
(* through.                                                                *)
(***************************************************************************)
OneOfTwoAsked ==
  TestOver /\ test.base # "class" =>
    \A k \in ThingKinds \ {"image", "type", "qos"} : Range(owed[k]) \subseteq askedFor \cup JumpedOver

(***************************************************************************)
(* The order of the loops: what is refused because somebody still holds on *)
(* to it is refused for a thing whose deletion was asked for before, one   *)
(* that was jumped over or one the test knows nothing of.                  *)
(***************************************************************************)
OrderIsRight == \A p \in refusals : p[2] \in askedFor \cup JumpedOver \cup unheard

(***************************************************************************)
(* What the base classes of the tests are for: a test tells of what it     *)
(* leaves, and cleans up in the right order and as far as it says.         *)
(***************************************************************************)
TidiesUp == QuietIsClean /\ OneOfTwoAsked /\ OrderIsRight
=============================================================================
