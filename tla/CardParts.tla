------------------------------- MODULE CardParts ------------------------------
(***************************************************************************)
(* Two parts of the driver that share no state: the loops over a bitmap    *)
(* that an open runs for every channel (AreaScan), and the callers of one  *)
(* card (CardSession).  One of them is looked at in a behaviour.           *)
(***************************************************************************)
EXTENDS AreaScan, CardSession

VARIABLE part   \* "scan" or "session"

partsVars == <<part, scanVars, sessionVars>>

\* the loop when it is not looked at
ScanIdle == /\ loop = "merge" /\ map0 = {} /\ map = {} /\ size = 0 /\ pass = DONE
            /\ start = 0 /\ found = [type \in Types |-> {}] /\ count = 0

PartsInit == /\ \/ part = "scan" /\ ScanInit
                \/ part = "session" /\ ScanIdle
             /\ SessionInit

OnlyScan(A)    == part = "scan" /\ A /\ UNCHANGED <<part, sessionVars>>
OnlySession(A) == part = "session" /\ A /\ UNCHANGED <<part, scanVars>>

PartsNext == OnlyScan(Scan) \/ OnlySession(SessionNext)

(***************************************************************************)
(* The loop runs on one processor and waits for nothing.  The callers of   *)
(* the card are threads that are scheduled, and a channel operation ends   *)
(* by its time-out; nobody has to call.                                    *)
(***************************************************************************)
PartsSpec == /\ PartsInit /\ [][PartsNext]_partsVars
             /\ WF_partsVars(OnlyScan(Scan))
             /\ \A t \in Callers : WF_partsVars(OnlySession(DriverStep(t)))
-----------------------------------------------------------------------------
(***************************************************************************)
(* What is called comes to an end: the scan of bitmap_merge and            *)
(* ssd_reload_bitmap, because every iteration moves the start forward, and *)
(* every request to the card but for the marked cases.                     *)
(***************************************************************************)
CallsEnd == <>[](part = "scan" => pass = DONE) /\ CallsReturn
=============================================================================
