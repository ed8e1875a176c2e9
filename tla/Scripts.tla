------------------------------- MODULE Scripts -------------------------------
(***************************************************************************)
(* The programs people run by hand: the long tests of src/automation,      *)
(* long_run_tests.py and network_test.py (CloudRun, VmMul) and             *)
(* compute_test.py (ComputeTest); upload.py (ReviewUpload); and the setup  *)
(* of a card on a host (CardSetup).  One of them runs in a behaviour; they *)
(* share nothing.                                                          *)
(***************************************************************************)
EXTENDS VmMul, ComputeTest, ReviewUpload, CardSetup

VARIABLE program  \* "cloud", "compute", "upload" or "card"

cloudVars   == <<runVars, mulVars>>
scriptsVars == <<program, cloudVars, compVars, uploadVars, cardVars>>

\* what does not run stays as it is
CloudIdle   == /\ RunInit /\ plan = <<Env1>> /\ keep /\ MulInit
ComputeIdle == ComputeInit(XRounds + 1)
UploadIdle  == /\ UploadInit /\ vcs = "svn" /\ compare = "full" 
               /\ change = [what |-> "added", kind |-> "text", local |-> FALSE]
CardIdle    == CardInit /\ installed = "none"

ScriptsInit ==
  \/ program = "cloud" /\ RunInit /\ MulInit /\ ComputeIdle /\ UploadIdle /\ CardIdle
  \/ program = "compute" /\ CloudIdle /\ ComputeInit(1) /\ UploadIdle /\ CardIdle
  \/ program = "upload" /\ CloudIdle /\ ComputeIdle /\ UploadInit /\ CardIdle
  \/ program = "card" /\ CloudIdle /\ ComputeIdle /\ UploadIdle /\ CardInit

Cloud(A)   == program = "cloud" /\ A /\ UNCHANGED <<program, compVars, uploadVars, cardVars>>
Compute(A) == program = "compute" /\ A /\ UNCHANGED <<program, cloudVars, uploadVars, cardVars>>
Upload(A)  == program = "upload" /\ A /\ UNCHANGED <<program, cloudVars, compVars, cardVars>>
Card(A)    == program = "card" /\ A /\ UNCHANGED <<program, cloudVars, compVars, uploadVars>>

ProgramSteps ==
  \/ Cloud((Script /\ UNCHANGED mulVars) \/ testcase_vm_mul_create_delete)
  \/ Compute(ComputeSteps)
  \/ Upload(UploadSteps)
  \/ Card(Commands)

\* what the cloud, the cookie, the host and the operator do when they like
OtherSteps ==
  \/ Cloud((TokenExpires \/ Settles) /\ UNCHANGED mulVars)
  \/ Compute(NovaSteps)
  \/ Upload(CookieExpires \/ QueryFails)
  \/ Card(Restart \/ \E o \in DOMAIN opCall : rpcCall(o))

ScriptsSpec == /\ ScriptsInit /\ [][ProgramSteps \/ OtherSteps]_scriptsVars
               /\ WF_scriptsVars(ProgramSteps)

(***************************************************************************)
(* However slow the cloud is and whatever fails, a program comes to its    *)
(* end; a test of CloudRun may also wait forever in a loop that has no     *)
(* bound (volume_wait, instance_wait of network_test.py).                  *)
(***************************************************************************)
Busy == \/ program = "compute" /\ index <= XRounds
        \/ program = "upload" /\ next # "idle"
        \/ program = "card" /\ cmds # <<>>

ScriptsEnd == <>[](IF program = "cloud" THEN Ended \/ OpenLoop ELSE ~Busy)
=============================================================================
