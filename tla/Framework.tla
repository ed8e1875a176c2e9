------------------------------ MODULE Framework ------------------------------
(***************************************************************************)
(* The OpenStack test framework of src/automation: who a test runs as      *)
(* (Credentials), the object that says so (CredentialFields), the calls it *)
(* makes (RestClient, with the methods of ServiceCalls), its waiting for   *)
(* what the cloud does (Waiters), and what the base classes of the tests   *)
(* of src/automation/testcases clean up (TestBases).  They share no state  *)
(* but the cached token, which RestClient and CredentialFields each look   *)
(* at on their own: one of them is looked at in a behaviour.               *)
(***************************************************************************)
EXTENDS Credentials, RestClient, Waiters, TestBases, CredentialFields

VARIABLE looked   \* "credentials", "call", "wait", "test" or "fields"

frameVars == <<looked, credVars, restVars, waitVars, baseVars, fieldsVars>>

\* what is not looked at stays as it is
CredIdle == CredInit /\ ~allow_tenant_isolation
RestIdle == RestInit /\ version = "v2" /\ {tenant0, default} = {Nil} /\ catalog = <<>>
WaitIdle == WaitInit("none")
TestIdle == /\ NothingBegun /\ testName = "volume_class"
            /\ inLists = <<>> /\ owed = <<>> /\ madeOf = <<>>
FieldsIdle == /\ NothingMade /\ keystone = "v2" /\ configured = FALSE
              /\ initial = <<>> /\ defaultProject = Unknown

FrameInit ==
  \/ looked = "credentials" /\ CredInit /\ RestIdle /\ WaitIdle /\ TestIdle /\ FieldsIdle
  \/ looked = "call" /\ CredIdle /\ RestInit /\ WaitIdle /\ TestIdle /\ FieldsIdle
  \/ /\ looked = "wait" /\ \E w \in DOMAIN Loops : WaitInit(w)
     /\ CredIdle /\ RestIdle /\ TestIdle /\ FieldsIdle
  \/ looked = "test" /\ CredIdle /\ RestIdle /\ WaitIdle /\ BasesInit /\ FieldsIdle
  \/ looked = "fields" /\ CredIdle /\ RestIdle /\ WaitIdle /\ TestIdle /\ FieldsInit

OnlyCreds(A) ==
  looked = "credentials" /\ A /\ UNCHANGED <<looked, restVars, waitVars, baseVars, fieldsVars>>
OnlyCall(A) ==
  looked = "call" /\ A /\ UNCHANGED <<looked, credVars, waitVars, baseVars, fieldsVars>>
OnlyWait(A) ==
  looked = "wait" /\ A /\ UNCHANGED <<looked, credVars, restVars, baseVars, fieldsVars>>
OnlyTest(A) ==
  looked = "test" /\ A /\ UNCHANGED <<looked, credVars, restVars, waitVars, fieldsVars>>
OnlyFields(A) ==
  looked = "fields" /\ A /\ UNCHANGED <<looked, credVars, restVars, waitVars, baseVars>>

FrameNext == \/ OnlyCreds(get_isolated_credentials)
             \/ OnlyCall(RestNext)
             \/ OnlyWait(WaitSteps \/ Moves)
             \/ OnlyTest(BasesSteps \/ DeletionDone)
             \/ OnlyFields(FieldsNext)

PoolWork(p) == ~allow_tenant_isolation /\ Work(p) /\ UNCHANGED <<isoVars, allow_tenant_isolation>>

\* a process of tests, a call, a loop and a test go on; nobody has to begin a class or a call
FrameSpec == /\ FrameInit /\ [][FrameNext]_frameVars
             /\ \A p \in Procs : WF_frameVars(OnlyCreds(PoolWork(p)))
             /\ WF_frameVars(OnlyCall(InCall))
             /\ WF_frameVars(OnlyWait(WaitSteps))
             /\ WF_frameVars(OnlyTest(BasesSteps))

(***************************************************************************)
(* Whatever the cloud answers, whoever crashes: an account that is held    *)
(* comes back, or is known to be leaked; a call ends; so does a wait,      *)
(* however often the resource changes; and so does a test with its         *)
(* clean-up, whatever is still being deleted.                              *)
(***************************************************************************)
OnTheWay(a) == \/ looked = "credentials" /\ lock[a] # None /\ a \notin leaked
               \/ looked = "call" /\ phase # "idle"
               \/ looked = "wait" /\ at > 0
               \/ looked = "test" /\ ~TestOver

FrameEnds == \A a \in Accounts : []<>~OnTheWay(a)
=============================================================================
