----------------------------- MODULE CardSession -----------------------------
(***************************************************************************)
(* One card between open and close: the threads of a process that uses the *)
(* library (api/ssd_api.c), a tool that calls SSD_close_force, and the     *)
(* requests as the driver runs them (ssd_drv.c), down to where one thread  *)
(* can come between two steps of another.  The flag of the library is      *)
(* tested without a lock and the flag of the driver outside flush_sema.    *)
(*                                                                         *)
(* One thread opens: opening from many is listed among the tests that do   *)
(* not pass (systest/src/nopass).  Ids are on channels of their own.  How  *)
(* a flush reaches the rings is FlushMeta's, where an id lies IdStore's:   *)
(* here a flush leaves its list of ids behind, or fails and leaves the old *)
(* one.                                                                    *)
(***************************************************************************)
EXTENDS Naturals, Sequences, FiniteSets

CONSTANTS
  Threads, Opener,   \* of the process that uses the library
  Tools,             \* other programs, which call SSD_close_force
  Ids,
  Attempts,          \* of SSD_open and SSD_close_force: 5
  MaxCalls, MaxFaults, MaxCrashes   \* bounds

ASSUME SessionAssumption ==
  /\ Opener \in Threads /\ Threads \cap Tools = {}
  /\ Attempts \in Nat \ {0} /\ {MaxCalls, MaxFaults, MaxCrashes} \subseteq Nat

VARIABLES
  lib,      \* g_opened_flag of the library
  opened,   \* g_opened_flag of the driver
  slab,     \* the slab of the hash nodes exists
  hash,     \* ids in the hash table
  sema,     \* flush_sema: [count, waiting]
  saved,    \* external: the newest metadata on flash and its list of ids
  th,       \* every caller: [at, op, ids, tries]
  told,     \* history: what the callers know of an id
  overlap,  \* history: ids with a request since the list of a closing flush was copied
  marks,    \* history: what has gone wrong, and "saved" after a closing flush
  calls, faults, crashes

bounds      == <<calls, faults, crashes>>
history     == <<told, overlap, marks>>
driver      == <<opened, slab, hash, sema, saved>>
sessionVars == <<lib, driver, th, history, bounds>>

Callers == Threads \cup Tools
Resting == [at |-> "idle", op |-> "none", ids |-> {}, tries |-> 0]
Unlocked == [count |-> 1, waiting |-> <<>>]
Closing == {"close", "force"}

SessionInit ==
  /\ lib = FALSE /\ opened = FALSE /\ slab = FALSE /\ hash = {} /\ sema = Unlocked
  /\ saved = [magic |-> "close", ids |-> {}]
  /\ th = [t \in Callers |-> Resting]
  /\ told = [i \in Ids |-> "absent"] /\ overlap = {} /\ marks = {}
  /\ calls = 0 /\ faults = 0 /\ crashes = 0

At(t, place)   == th[t].at = place
Goto(t, place) == th' = [th EXCEPT ![t].at = place]
Return(t)      == th' = [th EXCEPT ![t] = Resting]
Mark(m)        == marks' = marks \cup {m}
Faults         == faults < MaxFaults /\ faults' = faults + 1

InDriver == {"insert", "erase"}
InFlight == UNION {th[t].ids : t \in {u \in Threads : th[u].at \in InDriver}}
Flushing == {t \in Callers : th[t].at \in {"enter", "down", "waiting", "tables", "meta", "flag", "destroy"}}
InFlush  == {t \in Callers : th[t].at \in {"tables", "meta"}}

-----------------------------------------------------------------------------
(***************************************************************************)
(* The library.  What it returns without asking the driver is left out;    *)
(* its device files are opened and closed with the card.                   *)
(***************************************************************************)
Call(t, op, ids, place) ==
  /\ At(t, "idle") /\ calls < MaxCalls /\ calls' = calls + 1
  /\ th' = [th EXCEPT ![t] = [at |-> place, op |-> op, ids |-> ids, tries |-> 0]]
  /\ UNCHANGED <<lib, driver, history, faults, crashes>>

SSD_open(t)         == t = Opener /\ ~lib /\ Call(t, "open", {}, "attempt")
SSD_open_newcard(t) == t = Opener /\ ~lib /\ Call(t, "newcard", {}, "attempt")
SSD_flush(t)        == t \in Threads /\ lib /\ Call(t, "flush", {}, "enter")
SSD_close(t)        == t \in Threads /\ lib /\ Call(t, "close", {}, "ioctl")
SSD_close_force(t)  == t \in Tools /\ Call(t, "force", {}, "ioctl")
SSD_write(t)        == t \in Threads /\ lib /\ \E i \in Ids : Call(t, "write", {i}, "request")
SSD_delete(t)       == t \in Threads /\ lib /\ \E i \in Ids : Call(t, "delete", {i}, "request")

(***************************************************************************)
(* An open request has failed.  SSD_open configures the card anew and      *)
(* tries again; what cfg_s6_times returned stays in ret, so that the last  *)
(* failure is forgotten.                                                   *)
(***************************************************************************)
OpenFails(t) ==
  \/ Return(t) /\ UNCHANGED <<lib, marks>>
  \/ /\ th[t].op = "open" /\ th[t].tries + 1 < Attempts
     /\ th' = [th EXCEPT ![t].at = "attempt", ![t].tries = @ + 1]
     /\ UNCHANGED <<lib, marks>>
  \/ /\ th[t].op = "open" /\ th[t].tries + 1 = Attempts
     /\ lib' = TRUE /\ Mark("forgotten") /\ Return(t)

-----------------------------------------------------------------------------
(***************************************************************************)
(* To use a slab that is freed, or to free it once more, is undefined: it  *)
(* goes well, or the caller dies there.                                    *)
(***************************************************************************)
Dies(t) == Goto(t, "dead") /\ Mark("oops")

(***************************************************************************)
(* ssd_sys_open and ssd_sys_open_newcard begin: the flag, the slab, an     *)
(* empty table.  A new card is erased block by block, the metadata first.  *)
(***************************************************************************)
ssd_sys_open(t) ==
  /\ At(t, "attempt")
  /\ IF opened THEN OpenFails(t) /\ UNCHANGED <<slab, hash, saved, told>>
     ELSE /\ slab' = TRUE /\ hash' = {} /\ Goto(t, "loading")
          /\ IF th[t].op = "newcard"
             THEN saved' = [magic |-> "none", ids |-> {}] /\ told' = [i \in Ids |-> "either"]
             ELSE UNCHANGED <<saved, told>>
          /\ UNCHANGED <<lib, marks>>
  /\ UNCHANGED <<opened, sema, overlap, bounds>>

(***************************************************************************)
(* The metadata is read and must be of a close; the table is built, the    *)
(* semaphore made anew whoever waits for it, and the flag set.             *)
(***************************************************************************)
Load(t) ==
  /\ At(t, "loading")
  /\ th[t].op = "open" => saved.magic = "close"
  /\ hash' = hash \cup saved.ids
  /\ sema' = Unlocked /\ opened' = TRUE /\ lib' = TRUE /\ Return(t)
  /\ told' = [i \in Ids |-> IF i \in overlap THEN "either"
                            ELSE IF th[t].op = "newcard" THEN "absent" ELSE told[i]]
  /\ overlap' = InFlight
  /\ marks' = (marks \ {"saved"}) \cup (IF Flushing = {} THEN {} ELSE {"late"})
  /\ UNCHANGED <<slab, saved, bounds>>

\* a close that came late has freed the slab of this open
LoadDies(t) ==
  /\ At(t, "loading") /\ ~slab /\ Dies(t)
  /\ UNCHANGED <<lib, driver, told, overlap, bounds>>

LoadFails(t) ==
  /\ At(t, "loading")
  /\ \/ th[t].op = "open" /\ saved.magic # "close" /\ UNCHANGED faults
     \/ Faults
  /\ slab' = FALSE /\ hash' = {}
  /\ OpenFails(t)
  /\ UNCHANGED <<opened, sema, saved, told, overlap, calls, crashes>>

-----------------------------------------------------------------------------
(***************************************************************************)
(* IOCTL_CLOSE, and then ssd_sys_flush, test the flag of the driver.  What *)
(* SSD_close does comes first: it clears the flag of the library.  A close *)
(* that finds the card closed by the second test goes on to close it.      *)
(***************************************************************************)
CloseRequest_keeps_flag(t) ==
  /\ At(t, "ioctl")
  /\ IF opened THEN Goto(t, "enter") ELSE Return(t)
  /\ UNCHANGED <<lib, driver, history, bounds>>
CloseRequest(t) ==
  /\ At(t, "ioctl")
  /\ lib' = (lib /\ th[t].op # "close")
  /\ IF opened THEN Goto(t, "enter") ELSE Return(t)
  /\ UNCHANGED <<driver, history, bounds>>

FlushRequest(t) ==
  /\ At(t, "enter")
  /\ IF opened THEN Goto(t, "down")
     ELSE IF th[t].op \in Closing THEN Goto(t, "flag") ELSE Return(t)
  /\ UNCHANGED <<lib, driver, history, bounds>>

down_skipped(t) ==
  /\ At(t, "down") /\ Goto(t, "tables")
  /\ UNCHANGED <<lib, driver, history, bounds>>
down(t) ==
  /\ At(t, "down")
  /\ IF sema.count > 0
     THEN sema' = [sema EXCEPT !.count = @ - 1] /\ Goto(t, "tables")
     ELSE sema' = [sema EXCEPT !.waiting = Append(@, t)] /\ Goto(t, "waiting")
  /\ UNCHANGED <<lib, opened, slab, hash, saved, history, bounds>>

\* hands the semaphore to the first one who waits; t goes on as next
up(t, next) ==
  IF sema.waiting = <<>>
  THEN sema' = [sema EXCEPT !.count = @ + 1] /\ th' = [th EXCEPT ![t] = next]
  ELSE /\ sema' = [sema EXCEPT !.waiting = Tail(@)]
       /\ th' = [th EXCEPT ![t] = next, ![Head(sema.waiting)].at = "tables"]

\* steps 1 and 2 of a flush; the channels are not locked for the second
copy_id_hash(t) ==
  /\ At(t, "tables")
  /\ th' = [th EXCEPT ![t].at = "meta", ![t].ids = hash]
  /\ overlap' = IF th[t].op \in Closing THEN overlap \cup InFlight ELSE overlap
  /\ UNCHANGED <<lib, driver, told, marks, bounds>>

\* steps 3 and 4
flush_metadata(t) ==
  /\ At(t, "meta")
  /\ saved' = [magic |-> IF th[t].op \in Closing THEN "close" ELSE "normal", ids |-> th[t].ids]
  /\ up(t, IF th[t].op \in Closing THEN [th[t] EXCEPT !.at = "flag"] ELSE Resting)
  /\ marks' = marks \cup (IF "saved" \in marks THEN {"late"} ELSE {})
                    \cup (IF th[t].op \in Closing THEN {"saved"} ELSE {})
  /\ UNCHANGED <<lib, opened, slab, hash, told, overlap, bounds>>

flush_fails_locked(t) ==
  /\ th[t].at \in {"tables", "meta"} /\ Faults
  /\ Return(t)
  /\ UNCHANGED <<lib, opened, slab, hash, sema, saved, history, calls, crashes>>
flush_fails_ignored(t) ==
  /\ th[t].at \in {"tables", "meta"} /\ Faults
  /\ up(t, IF th[t].op \in Closing THEN [th[t] EXCEPT !.at = "flag"] ELSE Resting)
  /\ UNCHANGED <<lib, opened, slab, hash, saved, history, calls, crashes>>
flush_fails(t) ==
  /\ th[t].at \in {"tables", "meta"} /\ Faults
  /\ up(t, IF th[t].op = "force" /\ th[t].tries + 1 < Attempts
           THEN [th[t] EXCEPT !.at = "ioctl", !.ids = {}, !.tries = @ + 1] ELSE Resting)
  /\ UNCHANGED <<lib, opened, slab, hash, saved, history, calls, crashes>>

\* ssd_sys_close after its flush; a tool closes without the library's knowledge
ssd_sys_close(t) ==
  /\ At(t, "flag") /\ opened' = FALSE /\ Goto(t, "destroy")
  /\ IF th[t].op = "force" THEN Mark("forced") ELSE UNCHANGED marks
  /\ UNCHANGED <<lib, slab, hash, sema, saved, told, overlap, bounds>>

\* the slab is freed with its nodes
ssd_destory_slab(t) ==
  /\ At(t, "destroy") /\ hash' = {} /\ slab' = FALSE
  /\ \/ Return(t) /\ UNCHANGED marks
     \/ ~slab /\ Dies(t)
  /\ UNCHANGED <<lib, opened, sema, saved, told, overlap, bounds>>

-----------------------------------------------------------------------------
\* a request that comes now is not in the list of the flush that closes, or was closed
TooLate == ~opened \/ \E t \in Callers : th[t].op \in Closing /\ th[t].at \in {"meta", "flag", "destroy"}

(***************************************************************************)
(* The driver does not look at its flag.  The channel semaphore is held to *)
(* the end of the request.                                                 *)
(***************************************************************************)
EnterRequest(t, i) ==
  /\ At(t, "request") /\ th[t].ids = {i}
  /\ \A u \in Threads : th[u].at \in InDriver \cup {"dead"} => i \notin th[u].ids
  /\ overlap' = IF TooLate THEN overlap \cup {i} ELSE overlap

ssd_id_write(t) ==
  \E i \in Ids :
    /\ EnterRequest(t, i) /\ th[t].op = "write"
    /\ \/ i \notin hash /\ Goto(t, "insert") /\ UNCHANGED faults
       \/ i \in hash /\ Return(t) /\ UNCHANGED faults
       \/ i \notin hash /\ Faults /\ Return(t)
    /\ UNCHANGED <<lib, driver, told, marks, calls, crashes>>

\* a node of the slab enters the table again, or for the first time
set_id_info(t) ==
  \/ hash' = hash \cup th[t].ids /\ Return(t) /\ UNCHANGED marks
  \/ ~slab /\ Dies(t) /\ UNCHANGED hash

FinishWrite(t) ==
  /\ At(t, "insert")
  /\ set_id_info(t)
  /\ told' = [i \in Ids |-> IF i \in th[t].ids THEN "present" ELSE told[i]]
  /\ UNCHANGED <<lib, opened, slab, sema, saved, overlap, bounds>>

ssd_id_delete(t) ==
  \E i \in Ids :
    /\ EnterRequest(t, i) /\ th[t].op = "delete"
    /\ hash' = hash \ {i}
    /\ \/ i \in hash /\ Goto(t, "erase") /\ UNCHANGED marks
       \/ i \in hash /\ ~slab /\ Dies(t)
       \/ i \notin hash /\ Return(t) /\ UNCHANGED marks
    /\ UNCHANGED <<lib, opened, slab, sema, saved, told, bounds>>

FinishDelete(t) ==
  /\ At(t, "erase") /\ Return(t)
  /\ told' = [i \in Ids |-> IF i \in th[t].ids THEN "absent" ELSE told[i]]
  /\ UNCHANGED <<lib, driver, overlap, marks, bounds>>

EraseFails_lost(t) ==
  /\ At(t, "erase") /\ Faults /\ Return(t)
  /\ UNCHANGED <<lib, driver, history, calls, crashes>>
EraseFails(t) ==
  /\ At(t, "erase") /\ Faults
  /\ set_id_info(t)
  /\ UNCHANGED <<lib, opened, slab, sema, saved, told, overlap, calls, crashes>>

-----------------------------------------------------------------------------
(***************************************************************************)
(* The machine stops.  Only the flash is left; the callers do not know how *)
(* requests ended that were under way.                                     *)
(***************************************************************************)
Crash ==
  /\ crashes < MaxCrashes /\ crashes' = crashes + 1
  /\ lib' = FALSE /\ opened' = FALSE /\ slab' = FALSE /\ hash' = {} /\ sema' = Unlocked
  /\ th' = [t \in Callers |-> Resting]
  /\ told' = [i \in Ids |-> IF i \in overlap \cup InFlight THEN "either" ELSE told[i]]
  /\ overlap' = {}
  /\ marks' = marks \cup (IF ~opened \/ "saved" \in marks THEN {}
                          ELSE IF saved.magic = "close" THEN {"unnoticed"} ELSE {"crashed"})
  /\ UNCHANGED <<saved, calls, faults>>

LibraryCall(t) ==
  \/ SSD_open(t) \/ SSD_open_newcard(t) \/ SSD_flush(t) \/ SSD_close(t) \/ SSD_close_force(t)
  \/ SSD_write(t) \/ SSD_delete(t)

DriverStep(t) ==
  \/ ssd_sys_open(t) \/ Load(t) \/ LoadDies(t) \/ LoadFails(t)
  \/ CloseRequest(t) \/ FlushRequest(t) \/ down(t) \/ copy_id_hash(t) \/ flush_metadata(t) \/ flush_fails(t)
  \/ ssd_sys_close(t) \/ ssd_destory_slab(t)
  \/ ssd_id_write(t) \/ FinishWrite(t) \/ ssd_id_delete(t) \/ FinishDelete(t) \/ EraseFails(t)

SessionNext == Crash \/ \E t \in Callers : LibraryCall(t) \/ DriverStep(t)

\* the threads are scheduled; a channel operation ends by its time-out
SessionSpec == /\ SessionInit /\ [][SessionNext]_sessionVars
               /\ \A t \in Callers : WF_sessionVars(DriverStep(t))

-----------------------------------------------------------------------------
(***************************************************************************)
(* What the callers were told is what the card has, open or closed,        *)
(* through any number of sessions: but for ids with a request that ran     *)
(* while the card was being closed (ssd_sys_flush copies the table without *)
(* the channel semaphores, and the driver takes requests after that).      *)
(***************************************************************************)
OnCard == IF opened THEN hash ELSE saved.ids

AsTold ==
  \A i \in Ids \ (overlap \cup InFlight) : /\ told[i] = "present" => i \in OnCard
                                           /\ told[i] = "absent" => i \notin OnCard

KeptAsTold ==
  opened \/ saved.magic = "close" => AsTold \/ marks \cap {"late", "unnoticed", "oops"} # {}

(***************************************************************************)
(* A card that is not open can be opened, unless it crashed after a flush, *)
(* a flush ended after the close, or it was never finished as a new card.  *)
(***************************************************************************)
CanBeOpened ==
  ~opened /\ saved.magic # "close" => \/ marks \cap {"late", "crashed"} # {}
                                      \/ saved.magic = "none"

(***************************************************************************)
(* The library believes in an open card only if there is one, unless a     *)
(* tool has closed it or SSD_open has forgotten its failures.              *)
(***************************************************************************)
LibraryFollows == lib => opened \/ marks \cap {"forced", "forgotten", "late"} # {}

(***************************************************************************)
(* flush_sema does what it is for, as long as no flush outlives its card.  *)
(***************************************************************************)
OneFlush == Cardinality(InFlush) <= 1 \/ "late" \in marks

(***************************************************************************)
(* Every call returns, whatever fails: but a flush that waits while the    *)
(* card is opened again, when init_MUTEX forgets who is waiting, and who   *)
(* waits for a channel whose owner has died.                               *)
(***************************************************************************)
CallsReturn == \A t \in Callers : []<>(At(t, "idle") \/ marks \cap {"late", "oops"} # {})

(***************************************************************************)
(* What the tests that close from many threads rely on: the second close   *)
(* does not replace what the first has saved.                              *)
(***************************************************************************)
CloseKeepsIds ==
  "saved" \in marks /\ opened = FALSE /\ saved.magic = "close" => AsTold
=============================================================================
