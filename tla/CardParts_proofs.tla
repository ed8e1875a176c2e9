--------------------------- MODULE CardParts_proofs ---------------------------
(***************************************************************************)
(* The safety properties of the two parts.  CardSession, for any number of *)
(* threads, tools and ids, any number of calls, failures and crashes:      *)
(* OneFlush and LibraryFollows from the flags and the semaphore, CanBeOpened *)
(* from the metadata on flash, KeptAsTold from what the table, the copy of a *)
(* close and the metadata have of each id.  AreaScan, for every size of a  *)
(* channel and of a data block and every bitmap: ClosedForm.               *)
(***************************************************************************)
EXTENDS CardParts, BlockMaps_proofs, SequenceTheorems

(***************************************************************************)
(* The types the steps need.                                               *)
(***************************************************************************)
Places == {"idle", "attempt", "loading", "ioctl", "enter", "down", "waiting", "tables",
           "meta", "flag", "destroy", "request", "insert", "erase", "dead"}
Ops    == {"none", "open", "newcard", "flush", "close", "force", "write", "delete"}
Caller == [at : Places, op : Ops, ids : SUBSET Ids, tries : Nat]

SessionTypes ==
  /\ th \in [Callers -> Caller]
  /\ sema \in [count : Nat, waiting : Seq(Callers)]
  /\ hash \in SUBSET Ids
  /\ saved \in [magic : {"close", "normal", "none"}, ids : SUBSET Ids]

(***************************************************************************)
(* Who has the semaphore is alone and has taken its only token; who is in  *)
(* the queue waits, and is there once.                                     *)
(***************************************************************************)
Holders == {"tables", "meta"}

Mutex ==
  /\ sema.count \in {0, 1}
  /\ \A t \in Callers : th[t].at \in Holders => sema.count = 0
  /\ \A t, u \in Callers : th[t].at \in Holders /\ th[u].at \in Holders => t = u
  /\ \A k \in 1 .. Len(sema.waiting) : At(sema.waiting[k], "waiting")
  /\ \A j, k \in 1 .. Len(sema.waiting) : sema.waiting[j] = sema.waiting[k] => j = k

MutexUnlessLate == "late" \in marks \/ Mutex

(***************************************************************************)
(* A thread on its way to close the card has told the library, unless one  *)
(* of the marks says how the library came to believe in the card again.    *)
(***************************************************************************)
Excused == marks \cap {"forced", "forgotten", "late"} # {}
ClosePlaces == {"enter", "down", "waiting", "tables", "meta", "flag"}

CloseTold ==
  \A t \in Callers : /\ th[t].op = "close" /\ th[t].at \in ClosePlaces => ~lib \/ Excused
                     /\ th[t].at = "flag" => th[t].op \in Closing

Follows == lib => opened \/ Excused

SessionInv == SessionTypes /\ MutexUnlessLate /\ CloseTold /\ Follows
-----------------------------------------------------------------------------
(***************************************************************************)
(* Steps of one thread that leave the semaphore alone.                     *)
(***************************************************************************)
Alone(t) == \A u \in Callers \ {t} : th'[u] = th[u]

LEMMA QueueKept ==
  ASSUME SessionTypes, NEW t \in Callers, MutexUnlessLate, Alone(t), sema' = sema,
         "late" \in marks => "late" \in marks',
         th[t].at # "waiting", th'[t].at \in Holders => th[t].at \in Holders
  PROVE  MutexUnlessLate'
<1>1. CASE "late" \in marks
  BY <1>1 DEF MutexUnlessLate
<1>2. CASE "late" \notin marks
  <2>1. Mutex
    BY <1>2 DEF MutexUnlessLate
  <2>2. \A u \in Callers : th'[u].at \in Holders => th[u].at \in Holders
    BY DEF Alone
  <2>3. \A u \in Callers : th[u].at = "waiting" => th'[u].at = "waiting"
    BY DEF Alone
  <2>4. \A k \in 1 .. Len(sema.waiting) : sema.waiting[k] \in Callers
    BY DEF SessionTypes
  <2>5. Mutex'
    BY <2>1, <2>2, <2>3, <2>4 DEF Mutex, At
  <2> QED
    BY <2>5 DEF MutexUnlessLate
<1> QED
  BY <1>1, <1>2

(***************************************************************************)
(* Steps that leave a mark when they make the library believe in the card, *)
(* close it, or send a thread that closes to a place it has not earned.    *)
(***************************************************************************)
LEMMA FollowsKept ==
  ASSUME NEW t \in Callers, CloseTold, Follows, Alone(t),
         (lib' => lib) \/ Excused', (opened => opened') \/ ~lib' \/ Excused',
         Excused => Excused',
         th'[t].op = "close" /\ th'[t].at \in ClosePlaces
           => ~lib' \/ Excused' \/ (th[t].op = "close" /\ th[t].at \in ClosePlaces),
         th'[t].at = "flag" => th'[t].op \in Closing
  PROVE  CloseTold' /\ Follows'
<1>1. Follows'
  BY DEF Follows
<1>2. ASSUME NEW u \in Callers
      PROVE  /\ th'[u].op = "close" /\ th'[u].at \in ClosePlaces => ~lib' \/ Excused'
             /\ th'[u].at = "flag" => th'[u].op \in Closing
  <2>1. CASE u = t
    BY <2>1 DEF CloseTold
  <2>2. CASE u # t
    BY <2>2 DEF CloseTold, Alone
  <2> QED
    BY <2>1, <2>2
<1>3. CloseTold'
  BY <1>2 DEF CloseTold, ClosePlaces, Closing
<1> QED
  BY <1>1, <1>3

Bad == {"forced", "forgotten", "late"}

\* the two together: what most steps need
LEMMA MoveOn ==
  ASSUME SessionInv, NEW t \in Callers, SessionTypes', Alone(t), sema' = sema,
         marks \cap Bad \subseteq marks',
         (lib' => lib) \/ Excused', (opened => opened') \/ ~lib' \/ Excused',
         th[t].at # "waiting", th'[t].at \in Holders => th[t].at \in Holders,
         th'[t].op = "close" /\ th'[t].at \in ClosePlaces
           => ~lib' \/ Excused' \/ (th[t].op = "close" /\ th[t].at \in ClosePlaces),
         th'[t].at = "flag" => th'[t].op \in Closing
  PROVE  SessionInv'
<1>1. "late" \in marks => "late" \in marks'
  BY DEF Bad
<1>2. Excused => Excused'
  BY DEF Excused, Bad
<1>3. MutexUnlessLate'
  BY <1>1, QueueKept DEF SessionInv
<1>4. CloseTold' /\ Follows'
  BY <1>2, FollowsKept DEF SessionInv
<1> QED
  BY <1>3, <1>4 DEF SessionInv

-----------------------------------------------------------------------------
(***************************************************************************)
(* The steps.                                                              *)
(***************************************************************************)
LEMMA LibraryCallKeeps ==
  ASSUME SessionInv, NEW t \in Callers, LibraryCall(t)
  PROVE  SessionInv'
<1>1. \E op \in Ops, ids \in SUBSET Ids, place \in {"attempt", "enter", "ioctl", "request"} :
        /\ Call(t, op, ids, place)
        /\ place = "enter" => op = "flush"
  <2>1. CASE \E i \in Ids : Call(t, "write", {i}, "request") \/ Call(t, "delete", {i}, "request")
    BY <2>1 DEF Ops
  <2>2. CASE Call(t, "flush", {}, "enter")
    BY <2>2 DEF Ops
  <2>3. CASE \/ Call(t, "open", {}, "attempt") \/ Call(t, "newcard", {}, "attempt")
             \/ Call(t, "close", {}, "ioctl") \/ Call(t, "force", {}, "ioctl")
    BY <2>3 DEF Ops
  <2> QED
    BY <2>1, <2>2, <2>3 DEF LibraryCall, SSD_open, SSD_open_newcard, SSD_flush, SSD_close,
       SSD_close_force, SSD_write, SSD_delete
<1>2. PICK op \in Ops, ids \in SUBSET Ids,
           place \in {"attempt", "enter", "ioctl", "request"} :
        /\ Call(t, op, ids, place)
        /\ place = "enter" => op = "flush"
  BY <1>1
<1> DEFINE r == [at |-> place, op |-> op, ids |-> ids, tries |-> 0]
<1>3. /\ th' = [th EXCEPT ![t] = r]
      /\ At(t, "idle") /\ UNCHANGED <<lib, driver, marks>>
  BY <1>2 DEF Call, history
<1>4. r \in Caller /\ r.at = place /\ r.op = op
  BY DEF Caller, Places
<1> HIDE DEF r
<1>5. th'[t] = r /\ Alone(t) /\ th' \in [Callers -> Caller]
  BY <1>3, <1>4 DEF SessionInv, SessionTypes, Alone
<1>6. SessionTypes'
  BY <1>3, <1>5 DEF SessionInv, SessionTypes, driver
<1> QED
  BY <1>2, <1>3, <1>4, <1>5, <1>6, MoveOn DEF ClosePlaces, Holders, At, driver

LEMMA GoneOn ==
  ASSUME SessionTypes, NEW t \in Callers, NEW place \in Places, Goto(t, place)
  PROVE  /\ th' \in [Callers -> Caller]
         /\ Alone(t)
         /\ th'[t].at = place /\ th'[t].op = th[t].op /\ th'[t].ids = th[t].ids
<1>1. th[t] \in Caller
  BY DEF SessionTypes, Caller
<1> DEFINE r == [th[t] EXCEPT !.at = place]
<1>2. r \in Caller
  BY <1>1 DEF Caller
<1>3. th' = [th EXCEPT ![t] = r]
  BY DEF Goto
<1>4. r.at = place /\ r.op = th[t].op /\ r.ids = th[t].ids
  BY <1>1 DEF Caller
<1>5. th' = [th EXCEPT ![t] = r] /\ r \in Caller /\ r.at = place /\ r.op = th[t].op
      /\ r.ids = th[t].ids
  BY <1>2, <1>3, <1>4
<1> HIDE DEF r
<1> QED
  BY <1>5 DEF SessionTypes, Alone, Caller

LEMMA Returned ==
  ASSUME SessionTypes, NEW t \in Callers, Return(t)
  PROVE  /\ th' \in [Callers -> Caller]
         /\ Alone(t)
         /\ th'[t].at = "idle" /\ th'[t].op = "none"
<1>1. Resting \in Caller /\ Resting.at = "idle" /\ Resting.op = "none"
  BY DEF Resting, Caller, Places, Ops
<1> QED
  BY <1>1 DEF SessionTypes, Alone, Return

LEMMA OpenFailed ==
  ASSUME SessionTypes, NEW t \in Callers, OpenFails(t)
  PROVE  /\ th' \in [Callers -> Caller] /\ Alone(t) /\ th'[t].at \in {"idle", "attempt"}
         /\ th'[t].at = "attempt" => th'[t].op = "open"
         /\ marks \subseteq marks' /\ marks' \subseteq marks \cup {"forgotten"}
         /\ (lib' => lib) \/ "forgotten" \in marks'
<1>1. CASE Return(t) /\ UNCHANGED <<lib, marks>>
  BY <1>1, Returned
<1>2. CASE /\ th' = [th EXCEPT ![t].at = "attempt", ![t].tries = @ + 1]
           /\ th[t].op = "open" /\ UNCHANGED <<lib, marks>>
  <2> DEFINE q == [th[t] EXCEPT !.at = "attempt"]
             r == [q EXCEPT !.tries = th[t].tries + 1]
  <2>1. th[t] \in Caller
    BY DEF SessionTypes
  <2>2. th[t].tries + 1 \in Nat
    BY <2>1 DEF Caller
  <2>3. q \in Caller /\ q.at = "attempt" /\ q.op = "open"
    BY <1>2, <2>1 DEF Caller, Places
  <2>4. th' = [th EXCEPT ![t] = r]
    BY <1>2, <2>1 DEF SessionTypes, Caller
  <2> HIDE DEF q
  <2>5. r \in Caller /\ r.at = "attempt" /\ r.op = "open"
    BY <2>2, <2>3 DEF Caller
  <2> HIDE DEF r
  <2>6. th' \in [Callers -> Caller] /\ th'[t] = r /\ Alone(t)
    BY <2>4, <2>5 DEF SessionTypes, Alone
  <2> QED
    BY <1>2, <2>5, <2>6
<1>3. CASE lib' = TRUE /\ Mark("forgotten") /\ Return(t)
  BY <1>3, Returned DEF Mark
<1> QED
  BY <1>1, <1>2, <1>3 DEF OpenFails

LEMMA OpenKeeps ==
  ASSUME SessionInv, NEW t \in Callers, ssd_sys_open(t)
  PROVE  SessionInv'
<1>1. SessionTypes /\ sema' = sema /\ opened' = opened /\ th[t].at = "attempt"
  BY DEF ssd_sys_open, SessionInv, At
<1>2. hash' \in SUBSET Ids /\ saved' \in [magic : {"close", "normal", "none"}, ids : SUBSET Ids]
  BY <1>1 DEF ssd_sys_open, SessionTypes
<1>3. /\ th' \in [Callers -> Caller] /\ Alone(t) /\ th'[t].at \in {"idle", "attempt", "loading"}
      /\ marks \subseteq marks' /\ ((lib' => lib) \/ "forgotten" \in marks')
  <2>1. CASE opened
    BY <1>1, <2>1, OpenFailed DEF ssd_sys_open
  <2>2. CASE ~opened
    <3>1. Goto(t, "loading") /\ UNCHANGED <<lib, marks>>
      BY <2>2 DEF ssd_sys_open
    <3> QED
      BY <1>1, <3>1, GoneOn DEF Places
  <2> QED
    BY <2>1, <2>2
<1>4. SessionTypes'
  BY <1>1, <1>2, <1>3 DEF SessionTypes
<1>5. (lib' => lib) \/ Excused'
  BY <1>3 DEF Excused
<1>6. marks \cap Bad \subseteq marks'
  BY <1>3
<1> QED
  BY <1>1, <1>3, <1>4, <1>5, <1>6, MoveOn DEF ClosePlaces, Holders

LEMMA LoadFailsKeeps ==
  ASSUME SessionInv, NEW t \in Callers, LoadFails(t)
  PROVE  SessionInv'
<1>1. /\ SessionTypes /\ th[t].at = "loading" /\ hash' = {}
      /\ sema' = sema /\ opened' = opened /\ saved' = saved
  BY DEF LoadFails, SessionInv, At
<1>2. /\ th' \in [Callers -> Caller] /\ Alone(t) /\ th'[t].at \in {"idle", "attempt"}
      /\ marks \subseteq marks' /\ ((lib' => lib) \/ "forgotten" \in marks')
  BY <1>1, OpenFailed DEF LoadFails
<1>3. SessionTypes'
  BY <1>1, <1>2 DEF SessionTypes
<1>4. (lib' => lib) \/ Excused'
  BY <1>2 DEF Excused
<1>5. marks \cap Bad \subseteq marks'
  BY <1>2
<1> QED
  BY <1>1, <1>2, <1>3, <1>4, <1>5, MoveOn DEF ClosePlaces, Holders

\* a thread goes on or returns, and neither flag is touched
LEMMA SimpleMove ==
  ASSUME SessionInv, NEW t \in Callers, NEW place \in Places,
         Goto(t, place) \/ Return(t),
         hash' \in SUBSET Ids, sema' = sema, saved' = saved, lib' = lib, opened' = opened,
         marks \cap Bad \subseteq marks',
         th[t].at # "waiting", place \in Holders => th[t].at \in Holders,
         place \in ClosePlaces => th[t].at \in ClosePlaces,
         place = "flag" => th[t].op \in Closing
  PROVE  SessionInv'
<1>1. SessionTypes
  BY DEF SessionInv
<1>2. CASE Goto(t, place)
  <2>1. /\ th' \in [Callers -> Caller] /\ Alone(t)
        /\ th'[t].at = place /\ th'[t].op = th[t].op
    BY <1>1, <1>2, GoneOn
  <2>2. SessionTypes'
    BY <1>1, <2>1 DEF SessionTypes
  <2> QED
    BY <2>1, <2>2, MoveOn
<1>3. CASE Return(t)
  <2>1. /\ th' \in [Callers -> Caller] /\ Alone(t)
        /\ th'[t].at = "idle" /\ th'[t].op = "none"
    BY <1>1, <1>3, Returned
  <2>2. SessionTypes'
    BY <1>1, <2>1 DEF SessionTypes
  <2> QED
    BY <2>1, <2>2, MoveOn DEF ClosePlaces, Holders
<1> QED
  BY <1>2, <1>3

LEMMA LoadDiesKeeps ==
  ASSUME SessionInv, NEW t \in Callers, LoadDies(t)
  PROVE  SessionInv'
<1>1. /\ SessionTypes /\ th[t].at = "loading" /\ Goto(t, "dead")
      /\ UNCHANGED <<lib, driver>> /\ marks \subseteq marks'
  BY DEF LoadDies, Dies, Mark, SessionInv, At
<1>2. hash' \in SUBSET Ids /\ "dead" \in Places /\ marks \cap Bad \subseteq marks'
  BY <1>1 DEF SessionTypes, driver, Places
<1> QED
  BY <1>1, <1>2, SimpleMove DEF driver, ClosePlaces, Holders

LEMMA CloseRequestKeeps ==
  ASSUME SessionInv, NEW t \in Callers, CloseRequest(t)
  PROVE  SessionInv'
<1>1. /\ SessionTypes /\ th[t].at = "ioctl" /\ lib' = (lib /\ th[t].op # "close")
      /\ UNCHANGED <<driver, marks>> /\ (Goto(t, "enter") \/ Return(t))
  BY DEF CloseRequest, SessionInv, At, history
<1>2. /\ th' \in [Callers -> Caller] /\ Alone(t)
      /\ \/ th'[t].at = "enter" /\ th'[t].op = th[t].op
         \/ th'[t].at = "idle" /\ th'[t].op = "none"
  BY <1>1, GoneOn, Returned DEF Places
<1>3. SessionTypes'
  BY <1>1, <1>2 DEF SessionTypes, driver
<1> QED
  BY <1>1, <1>2, <1>3, MoveOn DEF driver, ClosePlaces, Holders

LEMMA FlushRequestKeeps ==
  ASSUME SessionInv, NEW t \in Callers, FlushRequest(t)
  PROVE  SessionInv'
<1>1. /\ SessionTypes /\ th[t].at = "enter" /\ UNCHANGED <<lib, driver, marks>>
      /\ \/ Goto(t, "down") \/ Return(t)
         \/ Goto(t, "flag") /\ th[t].op \in Closing
  BY DEF FlushRequest, SessionInv, At, history
<1>2. hash' \in SUBSET Ids /\ {"down", "flag"} \subseteq Places
  BY <1>1 DEF SessionTypes, driver, Places
<1> QED
  BY <1>1, <1>2, SimpleMove DEF driver, ClosePlaces, Holders

LEMMA SysCloseKeeps ==
  ASSUME SessionInv, NEW t \in Callers, ssd_sys_close(t)
  PROVE  SessionInv'
<1>1. /\ SessionTypes /\ CloseTold /\ th[t].at = "flag" /\ Goto(t, "destroy")
      /\ UNCHANGED <<lib, hash, sema, saved>> /\ marks \subseteq marks'
      /\ th[t].op = "force" => "forced" \in marks'
  BY DEF ssd_sys_close, SessionInv, At, Mark
<1>2. /\ th' \in [Callers -> Caller] /\ Alone(t) /\ th'[t].at = "destroy"
  BY <1>1, GoneOn DEF Places
<1>3. SessionTypes'
  BY <1>1, <1>2 DEF SessionTypes
<1>4. ~lib' \/ Excused'
  <2>1. CASE th[t].op = "force"
    BY <1>1, <2>1 DEF Excused
  <2>2. CASE th[t].op = "close"
    BY <1>1, <2>2 DEF CloseTold, ClosePlaces, Excused
  <2> QED
    BY <1>1, <2>1, <2>2 DEF CloseTold, Closing
<1>5. marks \cap Bad \subseteq marks'
  BY <1>1
<1> QED
  BY <1>1, <1>2, <1>3, <1>4, <1>5, MoveOn DEF ClosePlaces, Holders

LEMMA DestroyKeeps ==
  ASSUME SessionInv, NEW t \in Callers, ssd_destory_slab(t)
  PROVE  SessionInv'
<1>1. /\ SessionTypes /\ th[t].at = "destroy" /\ (Goto(t, "dead") \/ Return(t))
      /\ UNCHANGED <<lib, opened, sema, saved>> /\ hash' = {} /\ marks \subseteq marks'
  BY DEF ssd_destory_slab, Dies, Mark, SessionInv, At
<1>2. hash' \in SUBSET Ids /\ "dead" \in Places /\ marks \cap Bad \subseteq marks'
  BY <1>1 DEF Places
<1> QED
  BY <1>1, <1>2, SimpleMove DEF ClosePlaces, Holders

LEMMA RequestKeeps ==
  ASSUME SessionInv, NEW t \in Callers,
         \/ ssd_id_write(t) \/ FinishWrite(t)
         \/ ssd_id_delete(t) \/ FinishDelete(t) \/ EraseFails(t)
  PROVE  SessionInv'
<1>1. SessionTypes /\ th[t] \in Caller
  BY DEF SessionInv, SessionTypes
<1>2. th[t].ids \subseteq Ids /\ hash \subseteq Ids
  BY <1>1 DEF Caller, SessionTypes
<1> DEFINE Enters(place) ==
      /\ Goto(t, place) \/ Return(t)
      /\ hash' \subseteq Ids /\ sema' = sema /\ saved' = saved /\ lib' = lib /\ opened' = opened
      /\ marks \subseteq marks' /\ th[t].at \in {"request", "insert", "erase"}
<1>3. Enters("insert") \/ Enters("erase") \/ Enters("dead")
  <2>1. CASE ssd_id_write(t)
    BY <1>2, <2>1 DEF ssd_id_write, EnterRequest, At, driver
  <2>2. CASE FinishWrite(t)
    BY <1>2, <2>2 DEF FinishWrite, set_id_info, Dies, Mark, At
  <2>3. CASE ssd_id_delete(t)
    <3>1. PICK i \in Ids :
            /\ EnterRequest(t, i) /\ hash' = hash \ {i}
            /\ \/ Goto(t, "erase") /\ UNCHANGED marks
               \/ Dies(t)
               \/ Return(t) /\ UNCHANGED marks
            /\ UNCHANGED <<lib, opened, sema, saved>>
      BY <2>3 DEF ssd_id_delete
    <3> QED
      BY <1>2, <3>1 DEF EnterRequest, At, Dies, Mark
  <2>4. CASE FinishDelete(t)
    BY <1>2, <2>4 DEF FinishDelete, At, driver
  <2>5. CASE EraseFails(t)
    BY <1>2, <2>5 DEF EraseFails, set_id_info, Dies, Mark, At
  <2> QED
    BY <2>1, <2>2, <2>3, <2>4, <2>5
<1>4. PICK place \in {"insert", "erase", "dead"} : Enters(place)
  BY <1>3
<1>5. place \in Places /\ hash' \in SUBSET Ids /\ marks \cap Bad \subseteq marks'
  BY <1>4 DEF Places
<1>6. place \notin Holders /\ place \notin ClosePlaces /\ place # "flag"
  BY DEF Holders, ClosePlaces
<1> QED
  BY <1>4, <1>5, <1>6, SimpleMove

LEMMA CopyKeeps ==
  ASSUME SessionInv, NEW t \in Callers, copy_id_hash(t)
  PROVE  SessionInv'
<1>1. /\ SessionTypes /\ th[t] \in Caller /\ th[t].at = "tables"
      /\ th' = [th EXCEPT ![t].at = "meta", ![t].ids = hash]
      /\ UNCHANGED <<lib, driver, marks>>
  BY DEF copy_id_hash, SessionInv, SessionTypes, At
<1> DEFINE q == [th[t] EXCEPT !.at = "meta"]
           r == [q EXCEPT !.ids = hash]
<1>2. q \in Caller /\ q.at = "meta" /\ q.op = th[t].op
  BY <1>1 DEF Caller, Places
<1>3. th' = [th EXCEPT ![t] = r]
  BY <1>1 DEF SessionTypes, Caller
<1> HIDE DEF q
<1>4. r \in Caller /\ r.at = "meta" /\ r.op = th[t].op
  BY <1>1, <1>2 DEF Caller, SessionTypes
<1> HIDE DEF r
<1>5. th' \in [Callers -> Caller] /\ Alone(t) /\ th'[t].at = "meta" /\ th'[t].op = th[t].op
  BY <1>1, <1>3, <1>4 DEF SessionTypes, Alone
<1>6. SessionTypes'
  BY <1>1, <1>5 DEF SessionTypes, driver
<1> QED
  BY <1>1, <1>5, <1>6, MoveOn DEF driver, ClosePlaces, Holders

(***************************************************************************)
(* Opening makes a new semaphore: either no flush is under way, or it is   *)
(* marked as late.                                                         *)
(***************************************************************************)
LEMMA LoadKeeps ==
  ASSUME SessionInv, NEW t \in Callers, Load(t)
  PROVE  SessionInv'
<1>1. /\ SessionTypes /\ CloseTold /\ hash' = hash \cup saved.ids /\ saved' = saved
      /\ sema' = Unlocked /\ opened' = TRUE /\ Return(t)
      /\ marks' = (marks \ {"saved"}) \cup (IF Flushing = {} THEN {} ELSE {"late"})
  BY DEF Load, SessionInv
<1>2. /\ th' \in [Callers -> Caller] /\ Alone(t)
      /\ th'[t].at = "idle" /\ th'[t].op = "none"
  BY <1>1, Returned
<1>3. Unlocked \in [count : Nat, waiting : Seq(Callers)] /\ hash' \in SUBSET Ids
  BY <1>1 DEF Unlocked, SessionTypes
<1>4. SessionTypes'
  BY <1>1, <1>2, <1>3 DEF SessionTypes
<1>5. Follows'
  BY <1>1 DEF Follows
<1>6. CASE Flushing # {}
  <2>1. "late" \in marks'
    BY <1>1, <1>6
  <2>2. CloseTold'
    BY <1>1, <1>2, <2>1 DEF CloseTold, Alone, Excused, Closing
  <2> QED
    BY <1>4, <1>5, <2>1, <2>2 DEF SessionInv, MutexUnlessLate
<1>7. CASE Flushing = {}
  <2>1. \A u \in Callers : th[u].at \notin ClosePlaces
    BY <1>7 DEF Flushing, ClosePlaces
  <2>2. \A u \in Callers : th'[u].at \notin ClosePlaces
    BY <1>2, <2>1 DEF Alone, ClosePlaces
  <2>3. CloseTold'
    BY <2>2 DEF CloseTold, ClosePlaces
  <2>4. \A u \in Callers : th'[u].at \notin Holders
    BY <2>2 DEF ClosePlaces, Holders
  <2>5. sema'.count = 1 /\ sema'.waiting = <<>> /\ Len(sema'.waiting) = 0
    BY <1>1 DEF Unlocked
  <2>6. Mutex'
    BY <2>4, <2>5 DEF Mutex
  <2> QED
    BY <1>4, <1>5, <2>3, <2>6 DEF SessionInv, MutexUnlessLate
<1> QED
  BY <1>6, <1>7

LEMMA CrashKeeps ==
  ASSUME SessionInv, Crash
  PROVE  SessionInv'
<1>1. /\ SessionTypes /\ ~lib' /\ hash' = {} /\ saved' = saved /\ sema' = Unlocked
      /\ th' = [t \in Callers |-> Resting]
  BY DEF Crash, SessionInv
<1>2. Resting \in Caller /\ Resting.at = "idle" /\ Resting.op = "none"
  BY DEF Resting, Caller, Places, Ops
<1>3. \A t \in Callers : th'[t].at = "idle" /\ th'[t].op = "none"
  BY <1>1, <1>2
<1>4. Unlocked \in [count : Nat, waiting : Seq(Callers)]
  BY DEF Unlocked
<1>5. SessionTypes'
  BY <1>1, <1>2, <1>4 DEF SessionTypes
<1>6. sema'.count = 1 /\ sema'.waiting = <<>> /\ Len(sema'.waiting) = 0
  BY <1>1 DEF Unlocked
<1>7. Mutex'
  BY <1>3, <1>6 DEF Mutex, Holders
<1>8. CloseTold' /\ Follows'
  BY <1>1, <1>3 DEF CloseTold, Follows
<1> QED
  BY <1>5, <1>7, <1>8 DEF SessionInv, MutexUnlessLate

(***************************************************************************)
(* The semaphore: down takes its token or joins the queue, up leaves the   *)
(* token to the first of the queue.                                        *)
(***************************************************************************)
LEMMA DownKeeps ==
  ASSUME SessionInv, NEW t \in Callers, down(t)
  PROVE  SessionInv'
<1>1. /\ SessionTypes /\ CloseTold /\ Follows /\ th[t].at = "down"
      /\ sema.count \in Nat /\ sema.waiting \in Seq(Callers)
      /\ lib' = lib /\ opened' = opened /\ hash' = hash /\ saved' = saved /\ marks' = marks
  BY DEF down, SessionInv, SessionTypes, At, history
<1>2. \/ /\ sema.count > 0
         /\ sema' = [sema EXCEPT !.count = sema.count - 1] /\ Goto(t, "tables")
      \/ /\ sema' = [sema EXCEPT !.waiting = Append(sema.waiting, t)] /\ Goto(t, "waiting")
  BY DEF down
<1>3. /\ th' \in [Callers -> Caller] /\ Alone(t)
      /\ th'[t].at \in {"tables", "waiting"} /\ th'[t].op = th[t].op
  BY <1>1, <1>2, GoneOn DEF Places
<1>4. Append(sema.waiting, t) \in Seq(Callers)
  BY <1>1, AppendProperties
<1>5. sema' \in [count : Nat, waiting : Seq(Callers)]
  <2>1. sema \in [count : Nat, waiting : Seq(Callers)]
    BY <1>1 DEF SessionTypes
  <2>2. CASE sema' = [sema EXCEPT !.waiting = Append(sema.waiting, t)]
    BY <1>4, <2>1, <2>2
  <2>3. CASE sema.count > 0 /\ sema' = [sema EXCEPT !.count = sema.count - 1]
    <3>1. sema.count - 1 \in Nat
      BY <1>1, <2>3
    <3> QED
      BY <2>1, <2>3, <3>1
  <2> QED
    BY <1>2, <2>2, <2>3
<1>6. SessionTypes'
  BY <1>1, <1>3, <1>5 DEF SessionTypes
<1>7. CloseTold' /\ Follows'
  BY <1>1, <1>3, FollowsKept DEF ClosePlaces, Excused
<1>8. ASSUME "late" \notin marks
      PROVE  Mutex'
  <2>1. Mutex
    BY <1>8 DEF SessionInv, MutexUnlessLate
  <2>2. CASE /\ sema.count > 0
             /\ sema' = [sema EXCEPT !.count = sema.count - 1] /\ Goto(t, "tables")
    <3>1. sema.count = 1 /\ \A u \in Callers : th[u].at \notin Holders
      BY <2>1, <2>2 DEF Mutex
    <3>2. sema'.count = 0 /\ sema'.waiting = sema.waiting
      BY <1>1, <2>2, <3>1 DEF SessionTypes
    <3>3. \A u \in Callers : th'[u].at \in Holders => u = t
      BY <1>3, <3>1 DEF Alone
    <3>4. \A k \in 1 .. Len(sema.waiting) :
            sema.waiting[k] \in Callers /\ th[sema.waiting[k]].at = "waiting"
      BY <1>1, <2>1, ElementOfSeq DEF Mutex, At
    <3>5. \A k \in 1 .. Len(sema.waiting) : th'[sema.waiting[k]].at = "waiting"
      BY <1>1, <1>3, <3>4 DEF Alone
    <3> QED
      BY <2>1, <3>2, <3>3, <3>5 DEF Mutex, At
  <2>3. CASE /\ sema' = [sema EXCEPT !.waiting = Append(sema.waiting, t)] /\ Goto(t, "waiting")
    <3> DEFINE n == Len(sema.waiting)
               w == Append(sema.waiting, t)
    <3>1. sema'.count = sema.count /\ sema'.waiting = w
      BY <1>1, <2>3 DEF SessionTypes
    <3>2. th'[t].at = "waiting"
      BY <1>1, <2>3, GoneOn DEF Places
    <3>3. /\ n \in Nat /\ Len(w) = n + 1 /\ w[n + 1] = t
          /\ \A k \in 1 .. n : w[k] = sema.waiting[k]
      BY <1>1, AppendProperties, LenProperties
    <3>4. \A k \in 1 .. n : sema.waiting[k] \in Callers /\ th[sema.waiting[k]].at = "waiting"
      BY <1>1, <2>1, ElementOfSeq DEF Mutex, At
    <3>5. \A k \in 1 .. n : w[k] # t /\ th'[w[k]].at = "waiting"
      BY <1>1, <1>3, <3>3, <3>4 DEF Alone
    <3>6. \A j, k \in 1 .. n : w[j] = w[k] => j = k
      BY <2>1, <3>3 DEF Mutex
    <3> HIDE DEF w, n
    <3>7. \A k \in 1 .. Len(w) : th'[w[k]].at = "waiting"
      BY <3>2, <3>3, <3>5
    <3>8. \A j, k \in 1 .. Len(w) : w[j] = w[k] => j = k
      BY <3>3, <3>5, <3>6
    <3>9. \A u \in Callers : th'[u].at \in Holders => th[u].at \in Holders
      BY <1>3, <3>2 DEF Alone, Holders
    <3> QED
      BY <2>1, <3>1, <3>7, <3>8, <3>9 DEF Mutex, At
  <2> QED
    BY <1>2, <2>2, <2>3
<1> QED
  BY <1>1, <1>6, <1>7, <1>8 DEF SessionInv, MutexUnlessLate

LEMMA UpKeeps ==
  ASSUME SessionInv, NEW t \in Callers, NEW next \in Caller, th[t].at \in Holders, up(t, next),
         next.at \notin Holders, next.at # "waiting",
         next.at = "flag" => next.op \in Closing,
         next.op = "close" /\ next.at \in ClosePlaces => th[t].op = "close",
         lib' = lib, opened' = opened, hash' = hash,
         saved' \in [magic : {"close", "normal", "none"}, ids : SUBSET Ids],
         marks \cap Bad \subseteq marks'
  PROVE  SessionInv'
<1>1. /\ th \in [Callers -> Caller] /\ sema \in [count : Nat, waiting : Seq(Callers)]
      /\ hash \in SUBSET Ids /\ CloseTold /\ Follows /\ MutexUnlessLate
  BY DEF SessionInv, SessionTypes
<1>2. (Excused => Excused') /\ ("late" \in marks => "late" \in marks')
  BY DEF Excused, Bad
<1> DEFINE g == [th EXCEPT ![t] = next]
           h == Head(sema.waiting)
<1>3. g \in [Callers -> Caller] /\ g[t] = next /\ \A u \in Callers \ {t} : g[u] = th[u]
  BY <1>1
<1>4. \A u \in Callers : g[u].at \notin Holders \/ (u # t /\ th[u].at \in Holders)
  BY <1>3
<1>5. CASE sema.waiting = <<>>
  <2>1. th' = g /\ sema' = [sema EXCEPT !.count = sema.count + 1]
    BY <1>5 DEF up
  <2>2. /\ sema' \in [count : Nat, waiting : Seq(Callers)]
        /\ sema'.count = sema.count + 1 /\ sema'.waiting = sema.waiting
    <3>1. sema.count + 1 \in Nat
      BY <1>1
    <3> QED
      BY <1>1, <2>1, <3>1
  <2>3. SessionTypes'
    BY <1>1, <1>3, <2>1, <2>2 DEF SessionTypes
  <2>4. Alone(t) /\ th'[t] = next
    BY <1>3, <2>1 DEF Alone
  <2>5. th[t].at \in ClosePlaces
    BY DEF Holders, ClosePlaces
  <2>6. CloseTold' /\ Follows'
    BY <1>1, <1>2, <2>4, <2>5, FollowsKept
  <2>7. ASSUME Mutex PROVE Mutex'
    <3>1. sema.count = 0
      BY <2>7 DEF Mutex
    <3>2. \A u \in Callers : th'[u].at \notin Holders
      BY <1>4, <2>1, <2>7 DEF Mutex
    <3>3. sema'.count = 1 /\ Len(sema'.waiting) = 0
      BY <1>5, <2>2, <3>1
    <3> QED
      BY <3>2, <3>3 DEF Mutex
  <2> QED
    BY <1>1, <1>2, <2>3, <2>6, <2>7 DEF SessionInv, MutexUnlessLate
<1>6. CASE sema.waiting # <<>>
  <2>1. /\ sema' = [sema EXCEPT !.waiting = Tail(sema.waiting)]
        /\ th' = [th EXCEPT ![t] = next, ![h].at = "tables"]
    BY <1>6 DEF up
  <2>2. h \in Callers /\ Tail(sema.waiting) \in Seq(Callers)
    BY <1>1, <1>6, HeadTailProperties
  <2>3. th' = [g EXCEPT ![h].at = "tables"]
    BY <2>1
  <2> HIDE DEF g
  <2> DEFINE q == [g[h] EXCEPT !.at = "tables"]
  <2>4. q \in Caller /\ q.at = "tables" /\ q.op = g[h].op
    BY <1>3, <2>2 DEF Caller, Places
  <2>5. th' = [g EXCEPT ![h] = q]
    BY <2>3
  <2> HIDE DEF q
  <2>6. /\ th' \in [Callers -> Caller] /\ th'[h].at = "tables" /\ th'[h].op = g[h].op
        /\ \A u \in Callers \ {h} : th'[u] = g[u]
    BY <1>3, <2>2, <2>4, <2>5
  <2>7. /\ sema' \in [count : Nat, waiting : Seq(Callers)]
        /\ sema'.count = sema.count /\ sema'.waiting = Tail(sema.waiting)
    BY <1>1, <2>1, <2>2
  <2>8. SessionTypes'
    BY <1>1, <2>6, <2>7 DEF SessionTypes
  <2>9. Follows'
    BY <1>1, <1>2 DEF Follows
  <2> HIDE DEF h
  <2>10. \A u \in Callers : th'[u].at = "flag" => th'[u].op \in Closing
    BY <1>1, <1>3, <2>6 DEF CloseTold
  <2>11. CASE Mutex
    <3>1. /\ Len(sema.waiting) \in Nat /\ Len(sema.waiting) >= 1 /\ h = sema.waiting[1]
          /\ Len(Tail(sema.waiting)) = Len(sema.waiting) - 1
          /\ \A k \in 1 .. Len(Tail(sema.waiting)) : Tail(sema.waiting)[k] = sema.waiting[k + 1]
      BY <1>1, <1>6, HeadTailProperties, EmptySeq, LenProperties DEF h
    <3> DEFINE w == sema.waiting
               v == Tail(sema.waiting)
               n == Len(sema.waiting)
    <3>2. \A k \in 1 .. n : w[k] \in Callers /\ th[w[k]].at = "waiting"
      BY <1>1, <2>11, ElementOfSeq DEF Mutex, At
    <3>3. \A j, k \in 1 .. n : w[j] = w[k] => j = k
      BY <2>11 DEF Mutex
    <3>4. th[h].at = "waiting" /\ h # t
      BY <3>1, <3>2 DEF Holders
    <3>5. \A u \in Callers : th[u].at \in Holders => u = t
      BY <2>11 DEF Mutex
    <3>6. \A u \in Callers : th'[u].at \in Holders => u = h
      BY <1>4, <2>6, <3>5
    <3> HIDE DEF w, v, n
    <3>7. Len(v) = n - 1 /\ \A k \in 1 .. Len(v) : k + 1 \in 1 .. n /\ v[k] = w[k + 1]
      BY <3>1 DEF w, v, n
    <3>8. \A k \in 1 .. Len(v) : v[k] # h /\ v[k] # t /\ v[k] \in Callers /\ th[v[k]].at = "waiting"
      <4> TAKE k \in 1 .. Len(v)
      <4>1. k + 1 \in 1 .. n /\ v[k] = w[k + 1] /\ 1 \in 1 .. n /\ h = w[1] /\ k + 1 # 1
        BY <3>1, <3>7 DEF w, n
      <4>2. v[k] # h
        BY <3>3, <4>1
      <4>3. v[k] \in Callers /\ th[v[k]].at = "waiting"
        BY <3>2, <4>1
      <4> QED
        BY <4>2, <4>3 DEF Holders
    <3>9. \A k \in 1 .. Len(v) : th'[v[k]].at = "waiting"
      BY <1>3, <2>6, <3>8
    <3>10. \A j, k \in 1 .. Len(v) : v[j] = v[k] => j = k
      <4> TAKE j, k \in 1 .. Len(v)
      <4>1. j \in Int /\ k \in Int /\ (v[j] = v[k] => j + 1 = k + 1)
        BY <3>3, <3>7
      <4> QED
        BY <4>1
    <3>11. sema'.waiting = v /\ sema'.count = 0
      BY <2>7, <2>11 DEF Mutex, v
    <3>12. Mutex'
      BY <3>6, <3>9, <3>10, <3>11 DEF Mutex, At
    <3>13. \A u \in Callers : th'[u].op = "close" /\ th'[u].at \in ClosePlaces => ~lib \/ Excused
      <4> TAKE u \in Callers
      <4>1. CASE u = h
        BY <1>1, <1>3, <2>6, <3>4, <4>1 DEF CloseTold, ClosePlaces
      <4>2. CASE u = t
        <5>1. th'[t] = next
          BY <1>3, <2>6, <3>4
        <5> QED
          BY <1>1, <4>2, <5>1 DEF CloseTold, ClosePlaces, Holders
      <4>3. CASE u # h /\ u # t
        <5>1. th'[u] = th[u]
          BY <1>3, <2>6, <4>3
        <5> QED
          BY <1>1, <5>1 DEF CloseTold
      <4> QED
        BY <4>1, <4>2, <4>3
    <3>14. CloseTold'
      BY <1>2, <2>10, <3>13 DEF CloseTold, ClosePlaces, Closing
    <3> QED
      BY <2>8, <2>9, <3>12, <3>14 DEF SessionInv, MutexUnlessLate
  <2>12. CASE "late" \in marks
    <3>1. Excused'
      BY <1>2, <2>12 DEF Excused
    <3>2. CloseTold'
      BY <2>10, <3>1 DEF CloseTold, Closing
    <3> QED
      BY <1>2, <2>8, <2>9, <2>12, <3>2 DEF SessionInv, MutexUnlessLate
  <2> QED
    BY <1>1, <2>11, <2>12 DEF MutexUnlessLate
<1> QED
  BY <1>5, <1>6

LEMMA MetadataKeeps ==
  ASSUME SessionInv, NEW t \in Callers, flush_metadata(t)
  PROVE  SessionInv'
<1>1. /\ SessionTypes /\ th[t] \in Caller /\ th[t].at = "meta" /\ marks \subseteq marks'
      /\ lib' = lib /\ opened' = opened /\ hash' = hash
      /\ saved' = [magic |-> IF th[t].op \in Closing THEN "close" ELSE "normal",
                   ids |-> th[t].ids]
  BY DEF flush_metadata, SessionInv, SessionTypes, At
<1>2. saved' \in [magic : {"close", "normal", "none"}, ids : SUBSET Ids]
  BY <1>1 DEF Caller
<1>3. marks \cap Bad \subseteq marks'
  BY <1>1
<1>4. CASE th[t].op \in Closing
  <2> DEFINE next == [th[t] EXCEPT !.at = "flag"]
  <2>1. next \in Caller /\ next.at = "flag" /\ next.op = th[t].op
    BY <1>1 DEF Caller, Places
  <2>2. up(t, next)
    BY <1>4 DEF flush_metadata
  <2> HIDE DEF next
  <2> QED
    BY <1>1, <1>2, <1>3, <1>4, <2>1, <2>2, UpKeeps DEF Holders
<1>5. CASE th[t].op \notin Closing
  <2>1. Resting \in Caller /\ Resting.at = "idle" /\ Resting.op = "none"
    BY DEF Resting, Caller, Places, Ops
  <2>2. up(t, Resting)
    BY <1>5 DEF flush_metadata
  <2> QED
    BY <1>1, <1>2, <1>3, <2>1, <2>2, UpKeeps DEF Holders
<1> QED
  BY <1>4, <1>5

LEMMA FlushFailsKeeps ==
  ASSUME SessionInv, NEW t \in Callers, flush_fails(t)
  PROVE  SessionInv'
<1>1. /\ SessionTypes /\ th[t] \in Caller /\ th[t].at \in Holders /\ marks' = marks
      /\ lib' = lib /\ opened' = opened /\ hash' = hash /\ saved' = saved
  BY DEF flush_fails, SessionInv, SessionTypes, Holders, history
<1>2. saved' \in [magic : {"close", "normal", "none"}, ids : SUBSET Ids]
  BY <1>1 DEF SessionTypes
<1>3. marks \cap Bad \subseteq marks'
  BY <1>1
<1> DEFINE Again == th[t].op = "force" /\ th[t].tries + 1 < Attempts
<1>4. CASE Again
  <2> DEFINE next == [th[t] EXCEPT !.at = "ioctl", !.ids = {}, !.tries = @ + 1]
             p == [th[t] EXCEPT !.at = "ioctl"]
             q == [p EXCEPT !.ids = {}]
             r == [q EXCEPT !.tries = th[t].tries + 1]
  <2>1. p \in Caller /\ p.at = "ioctl"
    BY <1>1 DEF Caller, Places
  <2>2. next = r
    BY <1>1 DEF Caller
  <2> HIDE DEF p
  <2>3. q \in Caller /\ q.at = "ioctl"
    BY <2>1 DEF Caller
  <2>4. th[t].tries + 1 \in Nat
    BY <1>1 DEF Caller
  <2> HIDE DEF q
  <2>5. r \in Caller /\ r.at = "ioctl"
    BY <2>3, <2>4 DEF Caller
  <2>6. up(t, next)
    BY <1>4 DEF flush_fails
  <2> HIDE DEF next, r
  <2>7. next \in Caller /\ next.at = "ioctl"
    BY <2>2, <2>5
  <2> QED
    BY <1>1, <1>2, <1>3, <2>6, <2>7, UpKeeps DEF Holders, ClosePlaces
<1>5. CASE ~Again
  <2>1. Resting \in Caller /\ Resting.at = "idle" /\ Resting.op = "none"
    BY DEF Resting, Caller, Places, Ops
  <2>2. up(t, Resting)
    BY <1>5 DEF flush_fails
  <2> QED
    BY <1>1, <1>2, <1>3, <2>1, <2>2, UpKeeps DEF Holders
<1> QED
  BY <1>4, <1>5

-----------------------------------------------------------------------------
(***************************************************************************)
(* The invariant holds in every state of a session.                        *)
(***************************************************************************)
LEMMA InitSession == SessionInit => SessionInv
<1> SUFFICES ASSUME SessionInit PROVE SessionInv
  OBVIOUS
<1>1. Resting \in Caller /\ Resting.at = "idle" /\ Resting.op = "none"
  BY DEF Resting, Caller, Places, Ops
<1>2. Unlocked \in [count : Nat, waiting : Seq(Callers)]
  BY DEF Unlocked
<1>3. SessionTypes
  BY <1>1, <1>2 DEF SessionInit, SessionTypes
<1>4. \A t \in Callers : th[t].at = "idle" /\ th[t].op = "none"
  BY <1>1 DEF SessionInit
<1>5. sema.count = 1 /\ Len(sema.waiting) = 0
  BY DEF SessionInit, Unlocked
<1>6. Mutex
  BY <1>4, <1>5 DEF Mutex, Holders
<1>7. CloseTold /\ Follows
  BY <1>4 DEF SessionInit, CloseTold, Follows
<1> QED
  BY <1>3, <1>6, <1>7 DEF SessionInv, MutexUnlessLate

(***************************************************************************)
(* Every step keeps it, by the lemma of its action.                        *)
(***************************************************************************)
LEMMA StepKeeps == SessionInv /\ [SessionNext]_sessionVars => SessionInv'
<1> SUFFICES ASSUME SessionInv, [SessionNext]_sessionVars PROVE SessionInv'
  OBVIOUS
<1>1. CASE UNCHANGED sessionVars
  BY <1>1 DEF sessionVars, driver, history, SessionInv, SessionTypes, MutexUnlessLate, Mutex,
     At, CloseTold, Follows, Excused
<1>2. CASE Crash
  BY <1>2, CrashKeeps
<1>3. ASSUME NEW t \in Callers, LibraryCall(t) \/ DriverStep(t)
      PROVE  SessionInv'
  BY <1>3, LibraryCallKeeps, OpenKeeps, LoadKeeps, LoadDiesKeeps, LoadFailsKeeps,
     CloseRequestKeeps, FlushRequestKeeps, DownKeeps, CopyKeeps, MetadataKeeps,
     FlushFailsKeeps, SysCloseKeeps, DestroyKeeps, RequestKeeps DEF DriverStep
<1> QED
  BY <1>1, <1>2, <1>3 DEF SessionNext

(***************************************************************************)
(* What the flags and the semaphore mean for the callers.                  *)
(***************************************************************************)
LEMMA InvMeans == ASSUME SessionInv PROVE LibraryFollows /\ OneFlush
<1>1. LibraryFollows
  BY DEF SessionInv, Follows, Excused, LibraryFollows
<1>2. ASSUME Mutex PROVE Cardinality(InFlush) <= 1
  <2>1. CASE InFlush = {}
    BY <2>1, FS_EmptySet
  <2>2. CASE InFlush # {}
    <3>1. PICK t : t \in InFlush
      BY <2>2
    <3>2. InFlush = {t}
      BY <1>2, <3>1 DEF Mutex, InFlush, Holders
    <3>3. Cardinality({t}) = 1
      BY FS_Singleton
    <3> QED
      BY <3>2, <3>3
  <2> QED
    BY <2>1, <2>2
<1>3. OneFlush
  BY <1>2 DEF SessionInv, MutexUnlessLate, OneFlush
<1> QED
  BY <1>1, <1>3

(***************************************************************************)
(* SSD_close clears the flag of the library before it asks the driver, and *)
(* no interleaving of calls lets the library believe in a card that is     *)
(* closed, but for a forced close, a forgotten failure and a late flush.   *)
(***************************************************************************)
THEOREM LibraryFollowsHolds == SessionSpec => []LibraryFollows
BY InvMeans, InitSession, StepKeeps, PTL DEF SessionSpec

(***************************************************************************)
(* Only one thread at a time copies the tables and writes them, as long as *)
(* no flush is under way when the card is opened.                          *)
(***************************************************************************)
THEOREM OneFlushHolds == SessionSpec => []OneFlush
BY InvMeans, InitSession, StepKeeps, PTL DEF SessionSpec
-----------------------------------------------------------------------------
(***************************************************************************)
(* What the metadata on flash says while calls are under way: a close that *)
(* has written it is marked, a flush finds the card open or a close that   *)
(* came before it, and the slab goes when the card is closed.              *)
(***************************************************************************)
InPlay == {"down", "waiting", "tables", "meta"}

CloseMade ==
  /\ "saved" \in marks => saved.magic # "normal"
  /\ ~opened => saved.magic # "normal" \/ "crashed" \in marks
  /\ \A t \in Callers : /\ th[t].at = "flag" => th[t].op \in Closing /\ (opened => "saved" \in marks)
                        /\ th[t].at \in InPlay /\ ~opened => "saved" \in marks
                        /\ th[t].at = "destroy" => ~opened

CloseMadeUnlessLate == "late" \in marks \/ CloseMade

(***************************************************************************)
(* Who reaches a place other than by the places before it.                 *)
(***************************************************************************)
Others(t) ==
  \A u \in Callers \ {t} :
    \/ th'[u] = th[u]
    \/ /\ th[u].at = "waiting" /\ th'[u].at = "tables"
       /\ th'[u].op = th[u].op /\ th'[u].ids = th[u].ids

\* a step of t that neither opens nor closes the card and writes no metadata of a flush
LEMMA CloseMadeMove ==
  ASSUME CloseMade, NEW t \in Callers, Others(t), opened' = opened,
         saved' = saved \/ saved'.magic # "normal",
         "saved" \in marks' <=> "saved" \in marks, "crashed" \in marks => "crashed" \in marks',
         th'[t].at \in InPlay => opened \/ th[t].at \in InPlay,
         th'[t].at = "flag" => ~opened /\ th'[t].op \in Closing,
         th'[t].at = "destroy" => ~opened
  PROVE  CloseMade'
<1>1. ASSUME NEW u \in Callers
      PROVE  /\ th'[u].at = "flag" => th'[u].op \in Closing /\ (opened => "saved" \in marks)
             /\ th'[u].at \in InPlay /\ ~opened => "saved" \in marks
             /\ th'[u].at = "destroy" => ~opened
  <2>1. CASE u = t
    BY <2>1 DEF CloseMade
  <2>2. CASE u # t
    BY <2>2 DEF CloseMade, Others, InPlay
  <2> QED
    BY <2>1, <2>2
<1> QED
  BY <1>1 DEF CloseMade, Closing

\* the first in the queue of the semaphore is one who waits
LEMMA UpMoves ==
  ASSUME SessionInv, "late" \notin marks, NEW t \in Callers, NEW next \in Caller,
         th[t].at \in Holders, up(t, next)
  PROVE  th'[t] = next /\ Others(t)
<1>1. /\ th \in [Callers -> Caller] /\ sema.waiting \in Seq(Callers) /\ Mutex
  BY DEF SessionInv, SessionTypes, MutexUnlessLate
<1>2. CASE sema.waiting = <<>>
  BY <1>1, <1>2 DEF up, Others
<1>3. CASE sema.waiting # <<>>
  <2> DEFINE h == Head(sema.waiting)
             g == [th EXCEPT ![t] = next]
             q == [g[h] EXCEPT !.at = "tables"]
  <2>1. h \in Callers /\ h = sema.waiting[1] /\ Len(sema.waiting) \in Nat /\ Len(sema.waiting) >= 1
    BY <1>1, <1>3, HeadTailProperties, EmptySeq, LenProperties
  <2>2. th[h].at = "waiting" /\ h # t
    BY <1>1, <2>1 DEF Mutex, At, Holders
  <2>3. th' = [g EXCEPT ![h] = q]
    BY <1>3 DEF up
  <2>4. g \in [Callers -> Caller] /\ g[t] = next /\ \A u \in Callers \ {t} : g[u] = th[u]
    BY <1>1
  <2> HIDE DEF g, h
  <2>5. q.at = "tables" /\ q.op = th[h].op /\ q.ids = th[h].ids
    BY <1>1, <2>1, <2>2, <2>4 DEF Caller
  <2> HIDE DEF q
  <2>6. th'[h] = q /\ \A u \in Callers \ {h} : th'[u] = g[u]
    BY <2>1, <2>3, <2>4
  <2> QED
    BY <2>1, <2>2, <2>4, <2>5, <2>6 DEF Others
<1> QED
  BY <1>2, <1>3

(***************************************************************************)
(* A caller that moves alone leaves what is said of the others as it is.   *)
(***************************************************************************)
LEMMA AloneOthers ==
  ASSUME NEW t \in Callers, Alone(t)
  PROVE  Others(t)
BY DEF Alone, Others

-----------------------------------------------------------------------------
(***************************************************************************)
(* What the callers were told and the card has.  An id is left out as long *)
(* as a request for it is under way, and from then on when a close may not *)
(* have seen the request.                                                  *)
(***************************************************************************)
Excuse == marks \cap {"late", "unnoticed", "oops"} # {}

Matches(S) ==
  \A i \in Ids \ (overlap \cup InFlight) : /\ told[i] = "present" => i \in S
                                           /\ told[i] = "absent" => i \notin S

Copied(t) == th[t].op \in Closing /\ th[t].at = "meta"
Ending    == ~opened \/ "saved" \in marks \/ \E t \in Callers : Copied(t)

(***************************************************************************)
(* The table matches while the card is open, the copy that a close is      *)
(* writing matches, and so does the metadata of the close once it is       *)
(* written.                                                                *)
(***************************************************************************)
TableMatches == opened => Matches(hash)
CopyMatches  == \A t \in Callers : Copied(t) /\ "saved" \notin marks => Matches(th[t].ids)
FlashMatches == (~opened \/ "saved" \in marks) /\ saved.magic = "close" => Matches(saved.ids)

(***************************************************************************)
(* Once a close has copied the table no request goes unlisted, and until   *)
(* it has closed the card it has not come past its flag.                   *)
(***************************************************************************)
LateListed  == Ending => InFlight \subseteq overlap
SavedAtFlag == "saved" \in marks /\ opened => \E t \in Callers : th[t].at = "flag"

(***************************************************************************)
(* Who opens is alone, and the table is empty but for requests that are    *)
(* too late; only threads of the process send requests.                    *)
(***************************************************************************)
Roles ==
  \A t \in Callers :
    /\ th[t].at \in {"attempt", "loading"} => t = Opener /\ th[t].op \in {"open", "newcard"}
    /\ th[t].at \in InDriver \cup {"request"} => t \in Threads

Loading ==
  th[Opener].at = "loading" => /\ ~opened /\ hash \subseteq overlap
                               /\ th[Opener].op = "newcard" => saved.ids = {} /\ saved.magic = "none"

(***************************************************************************)
(* Two requests are never for the same id, and an id that is being deleted *)
(* has left the table and was not known to be absent.                      *)
(***************************************************************************)
Apart ==
  \A t, u \in Threads : t # u /\ th[t].at \in InDriver /\ th[u].at \in InDriver
                          => th[t].ids \cap th[u].ids = {}

Erasing ==
  \A t \in Threads : th[t].at = "erase"
    => \A i \in th[t].ids \ overlap : told[i] # "absent" /\ i \notin hash

Kept ==
  /\ TableMatches /\ CopyMatches /\ FlashMatches
  /\ LateListed /\ SavedAtFlag
  /\ Roles /\ Loading /\ Apart /\ Erasing

HistoryInv ==
  /\ SessionInv /\ CloseMadeUnlessLate
  /\ told \in [Ids -> {"present", "absent", "either"}] /\ overlap \subseteq Ids
  /\ Excuse \/ Kept
-----------------------------------------------------------------------------
\* membership in place of the union
LEMMA InFlightIs ==
  /\ \A i : i \in InFlight
            <=> \E u \in Threads : th[u].at \in InDriver /\ i \in th[u].ids
  /\ \A i : i \in InFlight'
            <=> \E u \in Threads : th'[u].at \in InDriver /\ i \in th'[u].ids
BY DEF InFlight

(***************************************************************************)
(* A step of t outside requests, that changes neither the card nor what is *)
(* known.                                                                  *)
(***************************************************************************)
LEMMA CalmKeeps ==
  ASSUME Kept, NEW t \in Callers, Others(t),
         opened' = opened, saved' = saved, told' = told, overlap \subseteq overlap',
         hash' = hash \/ (hash' = {} /\ ~opened), "saved" \in marks' <=> "saved" \in marks,
         th[t].at \notin InDriver, th[t].at # "flag",
         th'[t].at \notin InDriver \cup {"meta", "loading"},
         th'[t].at = "attempt" => t = Opener /\ th'[t].op \in {"open", "newcard"},
         th'[t].at = "request" => t \in Threads
  PROVE  Kept'
<1>1. Threads \subseteq Callers
  BY DEF Callers
<1>2. \A u \in Callers : th'[u].at \in InDriver <=> th[u].at \in InDriver
  BY DEF Others, InDriver
<1>3. \A u \in Callers : th[u].at \in InDriver => th'[u] = th[u]
  BY DEF Others, InDriver
<1>4. \A i : i \in InFlight' <=> i \in InFlight
  BY <1>1, <1>2, <1>3, InFlightIs
<1>5. ASSUME NEW S, Matches(S)
      PROVE  \A i \in Ids \ (overlap' \cup InFlight') : /\ told'[i] = "present" => i \in S
                                                        /\ told'[i] = "absent" => i \notin S
  BY <1>4, <1>5 DEF Matches
<1>6. \A u \in Callers : Copied(u)' => Copied(u) /\ th'[u].ids = th[u].ids
  BY DEF Copied, Others
<1>7. TableMatches'
  BY <1>5 DEF Kept, TableMatches, Matches
<1>8. CopyMatches'
  <2> SUFFICES ASSUME NEW u \in Callers, Copied(u)', "saved" \notin marks'
               PROVE  Matches(th[u].ids)' /\ th'[u].ids = th[u].ids
    BY DEF CopyMatches, Matches
  <2>1. Matches(th[u].ids) /\ th'[u].ids = th[u].ids
    BY <1>6 DEF Kept, CopyMatches
  <2> QED
    BY <1>5, <2>1 DEF Matches
<1>9. FlashMatches'
  BY <1>5 DEF Kept, FlashMatches, Matches
<1>10. LateListed'
  BY <1>4, <1>6 DEF Kept, LateListed, Ending
<1>11. SavedAtFlag'
  BY DEF Kept, SavedAtFlag, Others
<1>12. Roles'
  <2>1. ASSUME NEW u \in Callers
        PROVE  /\ th'[u].at \in {"attempt", "loading"} => u = Opener /\ th'[u].op \in {"open", "newcard"}
               /\ th'[u].at \in InDriver \cup {"request"} => u \in Threads
    BY DEF Kept, Roles, Others, InDriver
  <2> QED
    BY <2>1 DEF Roles, InDriver
<1>13. Loading'
  <2>1. CASE Opener = t
    BY <2>1 DEF Loading
  <2>2. CASE Opener # t
    BY <1>1, <2>2, SessionAssumption DEF Kept, Loading, Others
  <2> QED
    BY <2>1, <2>2
<1>14. Apart'
  BY <1>1, <1>2, <1>3 DEF Kept, Apart
<1>15. Erasing'
  BY <1>1, <1>2, <1>3 DEF Kept, Erasing, InDriver
<1> QED
  BY <1>7, <1>8, <1>9, <1>10, <1>11, <1>12, <1>13, <1>14, <1>15 DEF Kept

\* a request for i begins; a request that is too late is listed
LEMMA EnterKeeps ==
  ASSUME CloseMade, Kept, NEW t \in Callers, NEW i \in Ids, EnterRequest(t, i), Alone(t),
         th'[t].at \in InDriver, th'[t].ids = th[t].ids,
         opened' = opened, saved' = saved, told' = told, marks' = marks,
         \/ th'[t].at = "insert" /\ hash' = hash
         \/ th'[t].at = "erase" /\ i \in hash /\ hash' = hash \ {i}
  PROVE  Kept'
<1>1. /\ Threads \subseteq Callers /\ t \in Threads /\ th[t].at = "request" /\ th[t].ids = {i}
      /\ \A u \in Threads : th[u].at \in InDriver => i \notin th[u].ids
      /\ overlap' = IF TooLate THEN overlap \cup {i} ELSE overlap
  BY DEF Callers, Kept, Roles, EnterRequest, At
<1>2. i \notin InFlight /\ \A j : j \in InFlight' <=> j \in InFlight \/ j = i
  BY <1>1, InFlightIs DEF Alone, InDriver
<1>3. ASSUME NEW S, NEW R, Matches(S), \A j \in Ids \ {i} : j \in R <=> j \in S
      PROVE  \A j \in Ids \ (overlap' \cup InFlight') : /\ told'[j] = "present" => j \in R
                                                        /\ told'[j] = "absent" => j \notin R
  BY <1>1, <1>2, <1>3 DEF Matches
<1>4. ASSUME NEW S, Matches(S)
       PROVE  \A j \in Ids \ (overlap' \cup InFlight') : /\ told'[j] = "present" => j \in S
                                                         /\ told'[j] = "absent" => j \notin S
  BY <1>3, <1>4
<1>5. \A u \in Callers : Copied(u)' <=> Copied(u)
  BY <1>1 DEF Copied, Alone, InDriver
<1>6. Ending' <=> Ending
  BY <1>5 DEF Ending
<1>7. Ending => TooLate
  BY DEF Ending, TooLate, Copied, Kept, SavedAtFlag, CloseMade
<1>8. TableMatches'
  BY <1>3 DEF Kept, TableMatches, Matches
<1>9. CopyMatches'
  <2> SUFFICES ASSUME NEW u \in Callers, Copied(u)', "saved" \notin marks'
               PROVE  Matches(th[u].ids)'
    BY DEF CopyMatches, Matches
  <2>1. Matches(th[u].ids) /\ th'[u].ids = th[u].ids
    BY <1>5 DEF Kept, CopyMatches, Alone
  <2> QED
    BY <1>4, <2>1 DEF Matches
<1>10. FlashMatches'
  BY <1>3 DEF Kept, FlashMatches, Matches
<1>11. LateListed'
  BY <1>1, <1>2, <1>6, <1>7 DEF Kept, LateListed
<1>12. SavedAtFlag'
  BY <1>1 DEF Kept, SavedAtFlag, Alone
<1>13. Roles'
  <2>1. ASSUME NEW u \in Callers
        PROVE  /\ th'[u].at \in {"attempt", "loading"} => u = Opener /\ th'[u].op \in {"open", "newcard"}
               /\ th'[u].at \in InDriver \cup {"request"} => u \in Threads
    BY <1>1 DEF Kept, Roles, Alone, InDriver
  <2> QED
    BY <2>1 DEF Roles, InDriver
<1>14. Loading'
  <2>1. th'[Opener].at = "loading" => th'[Opener] = th[Opener]
    BY <1>1, SessionAssumption DEF Alone, InDriver
  <2> QED
    BY <1>1, <2>1 DEF Kept, Loading
<1>15. Apart'
  BY <1>1 DEF Kept, Apart, Alone
<1>16. Erasing'
  <2> SUFFICES ASSUME NEW u \in Threads, th'[u].at = "erase", NEW j \in th'[u].ids \ overlap'
               PROVE  told'[j] # "absent" /\ j \notin hash'
    BY DEF Erasing
  <2>1. CASE u = t
    <3>1. j = i /\ ~TooLate /\ i \in hash /\ hash' = hash \ {i} /\ i \notin overlap
      BY <1>1, <2>1
    <3>2. Matches(hash)
      BY <3>1 DEF TooLate, Kept, TableMatches
    <3> QED
      BY <1>2, <3>1, <3>2 DEF Matches
  <2>2. CASE u # t
    BY <1>1, <2>2 DEF Alone, Kept, Erasing
  <2> QED
    BY <2>1, <2>2
<1> QED
  BY <1>8, <1>9, <1>10, <1>11, <1>12, <1>13, <1>14, <1>15, <1>16 DEF Kept

\* a request ends, and what is told then is true of the table
LEMMA LeaveKeeps ==
  ASSUME SessionTypes, Kept, NEW t \in Callers, Alone(t), th[t].at \in InDriver, th'[t].at = "idle",
         opened' = opened, saved' = saved, overlap' = overlap, marks' = marks,
         \A i \in Ids \ th[t].ids : told'[i] = told[i], hash \ th[t].ids = hash' \ th[t].ids,
         \A i \in th[t].ids \ overlap : /\ told'[i] = "present" => i \in hash'
                                        /\ told'[i] = "absent" => i \notin hash'
  PROVE  Kept'
<1>1. Threads \subseteq Callers /\ t \in Threads
  BY DEF Callers, Kept, Roles
<1>2. \A i : i \in InFlight <=> i \in InFlight' \/ i \in th[t].ids
  BY <1>1, InFlightIs DEF Alone, InDriver
<1>3. \A i : i \in InFlight' => i \notin th[t].ids
  BY <1>1, InFlightIs DEF Alone, Kept, Apart, InDriver
<1>4. Ending => th[t].ids \subseteq overlap
  BY <1>2 DEF Kept, LateListed
<1>5. ASSUME NEW S, Matches(S), Ending
      PROVE  \A i \in Ids \ (overlap' \cup InFlight') : /\ told'[i] = "present" => i \in S
                                                        /\ told'[i] = "absent" => i \notin S
  BY <1>2, <1>4, <1>5 DEF Matches
<1>6. \A u \in Callers : Copied(u)' => Copied(u) /\ th'[u].ids = th[u].ids
  BY DEF Copied, Alone
<1>7. TableMatches'
  BY <1>2, <1>3 DEF Kept, TableMatches, Matches
<1>8. CopyMatches'
  <2> SUFFICES ASSUME NEW u \in Callers, Copied(u)', "saved" \notin marks'
               PROVE  Matches(th[u].ids)'
    BY DEF CopyMatches, Matches
  <2>1. Matches(th[u].ids) /\ th'[u].ids = th[u].ids /\ Ending
    BY <1>6 DEF Kept, CopyMatches, Ending
  <2> QED
    BY <1>5, <2>1 DEF Matches
<1>9. FlashMatches'
  BY <1>5 DEF Kept, FlashMatches, Matches, Ending
<1>10. LateListed'
  BY <1>2, <1>6 DEF Kept, LateListed, Ending
<1>11. SavedAtFlag'
  BY DEF Kept, SavedAtFlag, Alone, InDriver
<1>12. Roles'
  <2>1. ASSUME NEW u \in Callers
        PROVE  /\ th'[u].at \in {"attempt", "loading"} => u = Opener /\ th'[u].op \in {"open", "newcard"}
               /\ th'[u].at \in InDriver \cup {"request"} => u \in Threads
    BY <1>1 DEF Kept, Roles, Alone, InDriver
  <2> QED
    BY <2>1 DEF Roles, InDriver
<1>13. Loading'
  <2>1. th'[Opener].at = "loading" => th'[Opener] = th[Opener]
    BY <1>1, SessionAssumption DEF Alone
  <2> QED
    BY <1>4, <2>1 DEF Kept, Loading, Ending
<1>14. Apart'
  BY <1>1 DEF Kept, Apart, Alone, InDriver
<1>15. Erasing'
  <2> SUFFICES ASSUME NEW u \in Threads, th'[u].at = "erase", NEW i \in th'[u].ids \ overlap'
               PROVE  told'[i] # "absent" /\ i \notin hash'
    BY DEF Erasing
  <2>1. u # t /\ th'[u] = th[u] /\ i \notin th[t].ids
    BY <1>1 DEF Alone, Kept, Apart, InDriver
  <2>2. told[i] # "absent" /\ i \notin hash /\ i \in Ids
    BY <1>1, <2>1 DEF Kept, Erasing, SessionTypes, Caller
  <2> QED
    BY <2>1, <2>2
<1> QED
  BY <1>7, <1>8, <1>9, <1>10, <1>11, <1>12, <1>13, <1>14, <1>15 DEF Kept

-----------------------------------------------------------------------------
(***************************************************************************)
(* The steps on the card as a whole.                                       *)
(***************************************************************************)
\* a card that is not open begins to be opened: its table is empty
LEMMA OpenBegins ==
  ASSUME SessionInv, CloseMade, Kept, told \in [Ids -> {"present", "absent", "either"}],
         NEW t \in Callers, ssd_sys_open(t), ~opened
  PROVE  CloseMade' /\ Kept'
<1>1. /\ th[t].at = "attempt" /\ hash' = {} /\ Goto(t, "loading") /\ opened' = opened
      /\ marks' = marks /\ overlap' = overlap
      /\ \/ /\ th[t].op = "newcard" /\ saved' = [magic |-> "none", ids |-> {}]
            /\ told' = [i \in Ids |-> "either"]
         \/ th[t].op # "newcard" /\ UNCHANGED <<saved, told>>
  BY DEF ssd_sys_open, At
<1>2. /\ th' \in [Callers -> Caller] /\ Alone(t) /\ th'[t].at = "loading"
      /\ th'[t].op = th[t].op /\ th'[t].ids = th[t].ids
  BY <1>1, GoneOn DEF SessionInv, Places
<1>3. Threads \subseteq Callers /\ t = Opener /\ th[t].op \in {"open", "newcard"} /\ t \in Threads
  BY <1>1, SessionAssumption DEF Callers, Kept, Roles
<1>4. CloseMade'
  BY <1>1, <1>2, AloneOthers, CloseMadeMove DEF InPlay
<1>5. \A u \in Callers : th'[u].at \in InDriver <=> th[u].at \in InDriver
  BY <1>1, <1>2 DEF Alone, InDriver
<1>6. \A u \in Callers : th[u].at \in InDriver => th'[u] = th[u]
  BY <1>1, <1>2 DEF Alone, InDriver
<1>7. \A i : i \in InFlight' <=> i \in InFlight
  BY <1>3, <1>5, <1>6, InFlightIs
<1>8. ASSUME NEW S, Matches(S)
      PROVE  \A i \in Ids \ (overlap' \cup InFlight') : /\ told'[i] = "present" => i \in S
                                                        /\ told'[i] = "absent" => i \notin S
  BY <1>1, <1>7, <1>8 DEF Matches
<1>9. \A u \in Callers : Copied(u)' => Copied(u) /\ th'[u].ids = th[u].ids
  BY <1>1, <1>2 DEF Copied, Alone
<1>10. CopyMatches'
  <2> SUFFICES ASSUME NEW u \in Callers, Copied(u)', "saved" \notin marks'
               PROVE  Matches(th[u].ids)'
    BY DEF CopyMatches, Matches
  <2>1. Matches(th[u].ids) /\ th'[u].ids = th[u].ids
    BY <1>1, <1>9 DEF Kept, CopyMatches
  <2> QED
    BY <1>8, <2>1 DEF Matches
<1>11. TableMatches' /\ SavedAtFlag'
  BY <1>1 DEF TableMatches, SavedAtFlag
<1>12. FlashMatches'
  BY <1>1, <1>8 DEF Kept, FlashMatches, Matches
<1>13. LateListed'
  BY <1>1, <1>7 DEF Kept, LateListed, Ending
<1>14. Roles'
  <2>1. ASSUME NEW u \in Callers
        PROVE  /\ th'[u].at \in {"attempt", "loading"} => u = Opener /\ th'[u].op \in {"open", "newcard"}
               /\ th'[u].at \in InDriver \cup {"request"} => u \in Threads
    BY <1>2, <1>3 DEF Kept, Roles, Alone, InDriver
  <2> QED
    BY <2>1 DEF Roles, InDriver
<1>15. Loading'
  BY <1>1, <1>2, <1>3 DEF Loading
<1>16. Apart'
  BY <1>3, <1>5, <1>6 DEF Kept, Apart
<1>17. Erasing'
  <2> SUFFICES ASSUME NEW u \in Threads, th'[u].at = "erase", NEW i \in th'[u].ids \ overlap'
               PROVE  told'[i] # "absent" /\ i \notin hash'
    BY DEF Erasing
  <2>1. th'[u] = th[u] /\ i \in Ids
    BY <1>2, <1>3 DEF Alone, SessionInv, SessionTypes, Caller
  <2>2. told[i] # "absent"
    BY <1>1, <2>1 DEF Kept, Erasing
  <2> QED
    BY <1>1, <2>1, <2>2
<1> QED
  BY <1>4, <1>10, <1>11, <1>12, <1>13, <1>14, <1>15, <1>16, <1>17 DEF Kept

\* the card is open: what was listed is not known, and requests under way are listed
LEMMA LoadMatches ==
  ASSUME SessionInv, Kept, told \in [Ids -> {"present", "absent", "either"}],
         NEW t \in Callers, Load(t), Flushing = {}
  PROVE  Kept'
<1>1. /\ th[t].at = "loading" /\ Return(t) /\ opened' = TRUE /\ saved' = saved
      /\ th[t].op = "open" => saved.magic = "close"
      /\ hash' = hash \cup saved.ids /\ overlap' = InFlight /\ "saved" \notin marks'
      /\ told' = [i \in Ids |-> IF i \in overlap THEN "either"
                                ELSE IF th[t].op = "newcard" THEN "absent" ELSE told[i]]
  BY DEF Load, At
<1>2. th' \in [Callers -> Caller] /\ Alone(t) /\ th'[t].at = "idle"
  BY <1>1, Returned DEF SessionInv
<1>3. /\ Threads \subseteq Callers /\ t = Opener /\ th[t].op \in {"open", "newcard"} /\ t \in Threads
      /\ ~opened /\ hash \subseteq overlap /\ (th[t].op = "newcard" => saved.ids = {})
  BY <1>1, SessionAssumption DEF Callers, Kept, Roles, Loading
<1>4. \A i : i \in InFlight' <=> i \in InFlight
  BY <1>1, <1>2, <1>3, InFlightIs DEF Alone, InDriver
<1>5. InFlight \subseteq overlap /\ (saved.magic = "close" => Matches(saved.ids))
  BY <1>3 DEF Kept, LateListed, Ending, FlashMatches
<1>6. TableMatches'
  <2> SUFFICES ASSUME NEW i \in Ids, i \notin overlap' \cup InFlight'
               PROVE  /\ told'[i] = "present" => i \in hash'
                      /\ told'[i] = "absent" => i \notin hash'
    BY DEF TableMatches, Matches
  <2>1. CASE i \in overlap
    BY <1>1, <2>1
  <2>2. CASE i \notin overlap
    <3>1. i \in hash' <=> i \in saved.ids
      BY <1>1, <1>3, <2>2
    <3>2. CASE th[t].op = "newcard"
      BY <1>1, <1>3, <2>2, <3>1, <3>2
    <3>3. CASE th[t].op = "open"
      BY <1>1, <1>5, <2>2, <3>1, <3>3 DEF Matches
    <3> QED
      BY <1>3, <3>2, <3>3
  <2> QED
    BY <2>1, <2>2
<1>7. \A u \in Callers : th[u].at # "meta" /\ th'[u].at # "meta"
  BY <1>2 DEF Flushing, Alone
<1>8. CopyMatches' /\ FlashMatches' /\ SavedAtFlag'
  BY <1>1, <1>7 DEF CopyMatches, Copied, FlashMatches, SavedAtFlag
<1>9. LateListed'
  BY <1>1, <1>4 DEF LateListed
<1>10. Roles'
  <2>1. ASSUME NEW u \in Callers
        PROVE  /\ th'[u].at \in {"attempt", "loading"} => u = Opener /\ th'[u].op \in {"open", "newcard"}
               /\ th'[u].at \in InDriver \cup {"request"} => u \in Threads
    BY <1>2, <1>3 DEF Kept, Roles, Alone, InDriver
  <2> QED
    BY <2>1 DEF Roles, InDriver
<1>11. Loading'
  BY <1>2, <1>3 DEF Loading
<1>12. Apart'
  BY <1>2, <1>3 DEF Kept, Apart, Alone, InDriver
<1>13. Erasing'
  BY <1>1, <1>2, <1>3, <1>4, InFlightIs DEF Erasing, Alone, InDriver
<1> QED
  BY <1>6, <1>8, <1>9, <1>10, <1>11, <1>12, <1>13 DEF Kept

\* no flush is under way, so none is left behind
LEMMA LoadMakes ==
  ASSUME SessionInv, CloseMade, NEW t \in Callers, Load(t), Flushing = {}
  PROVE  CloseMade'
<1>1. /\ Return(t) /\ opened' = TRUE /\ "saved" \notin marks'
  BY DEF Load
<1>2. th' \in [Callers -> Caller] /\ Alone(t) /\ th'[t].at = "idle"
  BY <1>1, Returned DEF SessionInv
<1>3. \A u \in Callers : th'[u].at \notin InPlay \cup {"flag", "destroy"}
  BY <1>2 DEF Flushing, Alone, InPlay
<1> QED
  BY <1>1, <1>3 DEF CloseMade, InPlay

\* a close goes past its flag: its metadata is what the card has from then on
LEMMA CloseEnds ==
  ASSUME SessionInv, CloseMade, NEW t \in Callers, ssd_sys_close(t)
  PROVE  CloseMade' /\ (Kept => Kept')
<1>1. /\ th[t].at = "flag" /\ opened' = FALSE /\ Goto(t, "destroy")
      /\ hash' = hash /\ saved' = saved /\ told' = told /\ overlap' = overlap
      /\ marks \subseteq marks' /\ marks' \subseteq marks \cup {"forced"}
  BY DEF ssd_sys_close, At, Mark
<1>2. /\ th' \in [Callers -> Caller] /\ Alone(t) /\ th'[t].at = "destroy"
  BY <1>1, GoneOn DEF SessionInv, Places
<1>3. /\ opened => "saved" \in marks
      /\ "saved" \in marks' <=> "saved" \in marks
      /\ "crashed" \in marks' <=> "crashed" \in marks
  BY <1>1 DEF CloseMade
<1>4. CloseMade'
  <2>1. ASSUME NEW u \in Callers
        PROVE  /\ th'[u].at = "flag" => th'[u].op \in Closing /\ (opened' => "saved" \in marks')
               /\ th'[u].at \in InPlay /\ ~opened' => "saved" \in marks'
               /\ th'[u].at = "destroy" => ~opened'
    <3>1. CASE u = t
      BY <1>1, <1>2, <3>1 DEF InPlay
    <3>2. CASE u # t
      BY <1>1, <1>2, <1>3, <3>2 DEF CloseMade, Alone, InPlay
    <3> QED
      BY <3>1, <3>2
  <2>2. "saved" \in marks' => saved'.magic # "normal"
    BY <1>1, <1>3 DEF CloseMade
  <2>3. saved'.magic # "normal" \/ "crashed" \in marks'
    BY <1>1, <1>3 DEF CloseMade
  <2> QED
    BY <2>1, <2>2, <2>3 DEF CloseMade, Closing, InPlay
<1>5. ASSUME Kept
      PROVE  Kept'
  <2>1. Threads \subseteq Callers
    BY DEF Callers
  <2>2. \A u \in Callers : th'[u].at \in InDriver <=> th[u].at \in InDriver
    BY <1>1, <1>2 DEF Alone, InDriver
  <2>3. \A u \in Callers : th[u].at \in InDriver => th'[u] = th[u]
    BY <1>1, <1>2 DEF Alone, InDriver
  <2>4. \A i : i \in InFlight' <=> i \in InFlight
    BY <2>1, <2>2, <2>3, InFlightIs
  <2>5. \A u \in Callers : Copied(u)' => Copied(u) /\ th'[u].ids = th[u].ids
    BY <1>2 DEF Copied, Alone
  <2>6. \A i : i \in overlap' \cup InFlight' <=> i \in overlap \cup InFlight
    BY <1>1, <2>4
  <2>7. CopyMatches'
    BY <1>1, <1>3, <1>5, <2>5, <2>6 DEF Kept, CopyMatches, Matches
  <2>8. FlashMatches'
    BY <1>1, <1>3, <1>5, <2>6 DEF Kept, FlashMatches, Matches
  <2>9. TableMatches' /\ SavedAtFlag'
    BY <1>1 DEF TableMatches, SavedAtFlag
  <2>10. LateListed'
    BY <1>1, <1>3, <1>5, <2>4, <2>5 DEF Kept, LateListed, Ending
  <2>11. Roles'
    <3>1. ASSUME NEW u \in Callers
          PROVE  /\ th'[u].at \in {"attempt", "loading"} => u = Opener /\ th'[u].op \in {"open", "newcard"}
                 /\ th'[u].at \in InDriver \cup {"request"} => u \in Threads
      BY <1>2, <1>5 DEF Kept, Roles, Alone, InDriver
    <3> QED
      BY <3>1 DEF Roles, InDriver
  <2>12. Loading'
    <3>1. th'[Opener].at = "loading" => th'[Opener] = th[Opener]
      BY <1>2, <2>1, SessionAssumption DEF Alone
    <3> QED
      BY <1>1, <1>5, <3>1 DEF Kept, Loading
  <2>13. Apart' /\ Erasing'
    BY <1>1, <1>5, <2>1, <2>2, <2>3 DEF Kept, Apart, Erasing, InDriver
  <2> QED
    BY <2>7, <2>8, <2>9, <2>10, <2>11, <2>12, <2>13 DEF Kept
<1> QED
  BY <1>4, <1>5

\* a flush copies the table; a close lists the requests it has not seen
LEMMA CopyMade ==
  ASSUME SessionInv, CloseMade, NEW t \in Callers, copy_id_hash(t)
  PROVE  CloseMade' /\ (Kept => Kept')
<1>1. /\ th[t] \in Caller /\ th[t].at = "tables"
      /\ th' = [th EXCEPT ![t].at = "meta", ![t].ids = hash]
      /\ opened' = opened /\ hash' = hash /\ saved' = saved /\ told' = told /\ marks' = marks
      /\ overlap' = IF th[t].op \in Closing THEN overlap \cup InFlight ELSE overlap
  BY DEF copy_id_hash, SessionInv, SessionTypes, At, driver
<1> DEFINE q == [th[t] EXCEPT !.at = "meta"]
           r == [q EXCEPT !.ids = hash]
<1>2. q \in Caller /\ q.at = "meta" /\ q.op = th[t].op
  BY <1>1 DEF Caller, Places
<1>3. th' = [th EXCEPT ![t] = r]
  BY <1>1 DEF SessionInv, SessionTypes, Caller
<1> HIDE DEF q
<1>4. r.at = "meta" /\ r.op = th[t].op /\ r.ids = hash
  BY <1>2 DEF Caller
<1> HIDE DEF r
<1>5. /\ Alone(t) /\ th'[t].at = "meta" /\ th'[t].op = th[t].op /\ th'[t].ids = hash
  BY <1>1, <1>3, <1>4 DEF SessionInv, SessionTypes, Alone
<1>6. CloseMade'
  BY <1>1, <1>5, AloneOthers, CloseMadeMove DEF InPlay
<1>7. ASSUME Kept
      PROVE  Kept'
  <2>1. Threads \subseteq Callers
    BY DEF Callers
  <2>2. \A u \in Callers : th'[u].at \in InDriver <=> th[u].at \in InDriver
    BY <1>1, <1>5 DEF Alone, InDriver
  <2>3. \A u \in Callers : th[u].at \in InDriver => th'[u] = th[u]
    BY <1>1, <1>5 DEF Alone, InDriver
  <2>4. \A i : i \in InFlight' <=> i \in InFlight
    BY <2>1, <2>2, <2>3, InFlightIs
  <2>5. ASSUME NEW S, Matches(S)
        PROVE  \A i \in Ids \ (overlap' \cup InFlight') : /\ told'[i] = "present" => i \in S
                                                          /\ told'[i] = "absent" => i \notin S
    BY <1>1, <2>4, <2>5 DEF Matches
  <2>6. CopyMatches'
    <3> SUFFICES ASSUME NEW u \in Callers, Copied(u)', "saved" \notin marks'
                 PROVE  Matches(th[u].ids)'
      BY DEF CopyMatches, Matches
    <3>1. CASE u = t
      <4>1. th[t].at \in InPlay /\ "saved" \notin marks
        BY <1>1 DEF InPlay
      <4>2. Matches(hash) /\ th'[u].ids = hash
        BY <1>5, <1>7, <3>1, <4>1 DEF CloseMade, Kept, TableMatches
      <4> QED
        BY <2>5, <4>2 DEF Matches
    <3>2. CASE u # t
      <4>1. Matches(th[u].ids) /\ th'[u].ids = th[u].ids
        BY <1>1, <1>5, <1>7, <3>2 DEF Kept, CopyMatches, Copied, Alone
      <4> QED
        BY <2>5, <4>1 DEF Matches
    <3> QED
      BY <3>1, <3>2
  <2>7. TableMatches' /\ FlashMatches'
    BY <1>1, <1>7, <2>5 DEF Kept, TableMatches, FlashMatches, Matches
  <2>8. SavedAtFlag'
    BY <1>1, <1>5, <1>7 DEF Kept, SavedAtFlag, Alone
  <2>9. LateListed'
    <3> SUFFICES ASSUME Ending' PROVE InFlight \subseteq overlap'
      BY <2>4 DEF LateListed
    <3>1. CASE th[t].op \in Closing
      BY <1>1, <3>1
    <3>2. CASE th[t].op \notin Closing
      BY <1>1, <1>5, <1>7, <3>2 DEF Ending, Copied, Kept, LateListed, Alone, Closing
    <3> QED
      BY <3>1, <3>2
  <2>10. Roles'
    <3>1. ASSUME NEW u \in Callers
          PROVE  /\ th'[u].at \in {"attempt", "loading"} => u = Opener /\ th'[u].op \in {"open", "newcard"}
                 /\ th'[u].at \in InDriver \cup {"request"} => u \in Threads
      BY <1>5, <1>7 DEF Kept, Roles, Alone, InDriver
    <3> QED
      BY <3>1 DEF Roles, InDriver
  <2>11. Loading'
    <3>1. th'[Opener].at = "loading" => th'[Opener] = th[Opener]
      BY <1>5, <2>1, SessionAssumption DEF Alone
    <3> QED
      BY <1>1, <1>7, <3>1 DEF Kept, Loading
  <2>12. Apart' /\ Erasing'
    BY <1>1, <1>7, <2>1, <2>2, <2>3 DEF Kept, Apart, Erasing, InDriver
  <2> QED
    BY <2>6, <2>7, <2>8, <2>9, <2>10, <2>11, <2>12 DEF Kept
<1> QED
  BY <1>6, <1>7

\* a flush writes its metadata: it is the first since the card was opened, or late
LEMMA MetadataMade ==
  ASSUME SessionInv, CloseMade, NEW t \in Callers, flush_metadata(t), "late" \notin marks
  PROVE  "late" \in marks' \/ (CloseMade' /\ (Kept => Kept'))
<1>1. CASE "saved" \in marks
  BY <1>1 DEF flush_metadata
<1>2. CASE "saved" \notin marks
  <2> DEFINE closing == th[t].op \in Closing
             next == IF closing THEN [th[t] EXCEPT !.at = "flag"] ELSE Resting
  <2>1. /\ th[t] \in Caller /\ th[t].at = "meta" /\ up(t, next)
        /\ opened' = opened /\ hash' = hash /\ told' = told /\ overlap' = overlap
        /\ saved'.magic = (IF closing THEN "close" ELSE "normal") /\ saved'.ids = th[t].ids
        /\ marks' = marks \cup (IF closing THEN {"saved"} ELSE {})
    BY <1>2 DEF flush_metadata, SessionInv, SessionTypes, At
  <2>2. /\ next \in Caller /\ next.at = (IF closing THEN "flag" ELSE "idle")
        /\ closing => next.op = th[t].op
    BY <2>1 DEF Caller, Places, Ops, Resting
  <2> HIDE DEF next
  <2>3. th'[t] = next /\ Others(t)
    BY <2>1, <2>2, UpMoves DEF Holders
  <2>4. opened
    BY <1>2, <2>1 DEF CloseMade, InPlay
  <2>5. CloseMade'
    <3>1. ASSUME NEW u \in Callers
          PROVE  /\ th'[u].at = "flag" => th'[u].op \in Closing /\ "saved" \in marks'
                 /\ th'[u].at # "destroy"
      <4>1. CASE u = t
        BY <2>1, <2>2, <2>3, <4>1
      <4>2. CASE u # t
        BY <2>1, <2>3, <2>4, <4>2 DEF CloseMade, Others
      <4> QED
        BY <4>1, <4>2
    <3>2. "saved" \in marks' => saved'.magic # "normal"
      BY <1>2, <2>1
    <3> QED
      BY <2>1, <2>4, <3>1, <3>2 DEF CloseMade, Closing, InPlay
  <2>6. ASSUME Kept
        PROVE  Kept'
    <3>1. Threads \subseteq Callers
      BY DEF Callers
    <3>2. \A u \in Callers : th'[u].at \in InDriver <=> th[u].at \in InDriver
      BY <2>1, <2>2, <2>3 DEF Others, InDriver
    <3>3. \A u \in Callers : th[u].at \in InDriver => th'[u] = th[u]
      BY <2>1, <2>3 DEF Others, InDriver
    <3>4. \A i : i \in InFlight' <=> i \in InFlight
      BY <3>1, <3>2, <3>3, InFlightIs
    <3>5. \A i : i \in overlap' \cup InFlight' <=> i \in overlap \cup InFlight
      BY <2>1, <3>4
    <3>6. \A u \in Callers : Copied(u)' => Copied(u) /\ th'[u].ids = th[u].ids
      BY <2>2, <2>3 DEF Copied, Others
    <3>7. TableMatches'
      BY <2>1, <2>6, <3>5 DEF Kept, TableMatches, Matches
    <3>8. CopyMatches'
      BY <1>2, <2>1, <2>6, <3>5, <3>6 DEF Kept, CopyMatches, Matches
    <3>9. FlashMatches'
      <4> SUFFICES ASSUME saved'.magic = "close" PROVE Matches(saved.ids)'
        BY DEF FlashMatches, Matches
      <4>1. Copied(t)
        BY <2>1 DEF Copied
      <4>2. Matches(th[t].ids)
        BY <1>2, <2>6, <4>1 DEF Kept, CopyMatches
      <4> QED
        BY <2>1, <3>5, <4>2 DEF Matches
    <3>10. LateListed'
      <4>1. Ending' => Ending
        BY <2>1, <3>6 DEF Ending, Copied
      <4> QED
        BY <2>1, <2>6, <3>4, <4>1 DEF Kept, LateListed
    <3>11. SavedAtFlag'
      BY <1>2, <2>1, <2>2, <2>3 DEF SavedAtFlag
    <3>12. Roles'
      <4>1. ASSUME NEW u \in Callers
            PROVE  /\ th'[u].at \in {"attempt", "loading"} => u = Opener /\ th'[u].op \in {"open", "newcard"}
                   /\ th'[u].at \in InDriver \cup {"request"} => u \in Threads
        BY <2>2, <2>3, <2>6 DEF Kept, Roles, Others, InDriver
      <4> QED
        BY <4>1 DEF Roles, InDriver
    <3>13. Loading'
      <4>1. th[Opener].at # "loading"
        BY <2>4, <2>6 DEF Kept, Loading
      <4>2. th'[Opener].at # "loading"
        BY <2>2, <2>3, <3>1, <4>1, SessionAssumption DEF Others
      <4> QED
        BY <4>2 DEF Loading
    <3>14. Apart' /\ Erasing'
      BY <2>1, <2>6, <3>1, <3>2, <3>3 DEF Kept, Apart, Erasing, InDriver
    <3> QED
      BY <3>7, <3>8, <3>9, <3>10, <3>11, <3>12, <3>13, <3>14 DEF Kept
  <2> QED
    BY <2>5, <2>6
<1> QED
  BY <1>1, <1>2

\* the machine stops: what is on flash matches, or is marked
LEMMA CrashMade ==
  ASSUME Crash
  PROVE  /\ CloseMade => CloseMade'
         /\ told \in [Ids -> {"present", "absent", "either"}] /\ Kept => Excuse' \/ Kept'
<1>1. /\ opened' = FALSE /\ hash' = {} /\ saved' = saved /\ overlap' = {}
      /\ th' = [t \in Callers |-> Resting]
      /\ told' = [i \in Ids |-> IF i \in overlap \cup InFlight THEN "either" ELSE told[i]]
      /\ marks' = marks \cup (IF ~opened \/ "saved" \in marks THEN {}
                              ELSE IF saved.magic = "close" THEN {"unnoticed"} ELSE {"crashed"})
  BY DEF Crash
<1>2. \A u \in Callers : th'[u].at = "idle"
  BY <1>1 DEF Resting
<1>3. CloseMade => CloseMade'
  <2> SUFFICES ASSUME CloseMade PROVE CloseMade'
    OBVIOUS
  <2>1. "saved" \in marks' => saved'.magic # "normal"
    BY <1>1 DEF CloseMade
  <2>2. saved'.magic # "normal" \/ "crashed" \in marks'
    BY <1>1 DEF CloseMade
  <2> QED
    BY <1>1, <1>2, <2>1, <2>2 DEF CloseMade, InPlay
<1>4. ASSUME told \in [Ids -> {"present", "absent", "either"}], Kept
      PROVE  Excuse' \/ Kept'
  <2>1. Threads \subseteq Callers /\ Opener \in Callers
    BY SessionAssumption DEF Callers
  <2>2. FlashMatches' \/ Excuse'
    <3> SUFFICES ASSUME saved.magic = "close", ~Excuse' PROVE Matches(saved.ids)'
      BY <1>1 DEF FlashMatches, Matches
    <3>1. ~opened \/ "saved" \in marks
      BY <1>1 DEF Excuse
    <3>2. Matches(saved.ids)
      BY <1>4, <3>1 DEF Kept, FlashMatches
    <3> QED
      BY <1>1, <3>2 DEF Matches
  <2>3. \A i : i \notin InFlight'
    BY <1>2, <2>1, InFlightIs DEF InDriver
  <2>4. TableMatches' /\ SavedAtFlag' /\ CopyMatches' /\ LateListed'
    BY <1>1, <1>2, <2>3 DEF TableMatches, SavedAtFlag, CopyMatches, Copied, LateListed
  <2>5. Roles' /\ Loading' /\ Apart' /\ Erasing'
    BY <1>2, <2>1 DEF Roles, Loading, Apart, Erasing, InDriver
  <2> QED
    BY <2>2, <2>4, <2>5 DEF Kept
<1> QED
  BY <1>3, <1>4

-----------------------------------------------------------------------------
(***************************************************************************)
(* The steps that only move one caller on.                                 *)
(***************************************************************************)
CalmStep(t) ==
  /\ Others(t)
  /\ opened' = opened /\ saved' = saved /\ told' = told /\ overlap \subseteq overlap'
  /\ hash' = hash \/ (hash' = {} /\ th[t].at \in {"loading", "destroy"})
  /\ marks \subseteq marks' /\ marks' \subseteq marks \cup {"forgotten", "oops"}
  /\ th[t].at \notin InDriver \cup {"flag"}
  /\ th'[t].at \notin InDriver \cup {"meta", "loading", "destroy"}
  /\ th'[t].at \in InPlay => opened \/ th[t].at \in InPlay
  /\ th'[t].at = "flag" => ~opened /\ th'[t].op \in Closing
  /\ th'[t].at = "attempt" => /\ th'[t].op \in {"open", "newcard"}
                              /\ t = Opener \/ th[t].at \in {"attempt", "loading"}
  /\ th'[t].at = "request" => t \in Threads

(***************************************************************************)
(* A calm step keeps the metadata of a close and all that is told.         *)
(***************************************************************************)
LEMMA CalmMade ==
  ASSUME CloseMade, NEW t \in Callers, CalmStep(t)
  PROVE  CloseMade' /\ (Kept => Kept')
<1>1. CloseMade'
  BY CloseMadeMove DEF CalmStep
<1>2. ASSUME Kept
      PROVE  Kept'
  <2>1. hash' = hash \/ (hash' = {} /\ ~opened)
    <3>1. th[t].at = "loading" => ~opened
      BY <1>2 DEF Kept, Roles, Loading
    <3> QED
      BY <3>1 DEF CalmStep, CloseMade
  <2>2. th'[t].at = "attempt" => t = Opener
    BY <1>2 DEF CalmStep, Kept, Roles
  <2> QED
    BY <1>2, <2>1, <2>2, CalmKeeps DEF CalmStep
<1> QED
  BY <1>1, <1>2

(***************************************************************************)
(* A call of the library is a calm step.                                   *)
(***************************************************************************)
LEMMA CallIsCalm ==
  ASSUME SessionInv, NEW t \in Callers, LibraryCall(t)
  PROVE  CalmStep(t)
<1>1. \E op \in Ops, ids \in SUBSET Ids, place \in {"attempt", "enter", "ioctl", "request"} :
        /\ Call(t, op, ids, place)
        /\ place = "attempt" => t = Opener /\ op \in {"open", "newcard"}
        /\ place = "request" => t \in Threads
  <2>1. CASE SSD_write(t) \/ SSD_delete(t)
    BY <2>1 DEF SSD_write, SSD_delete, Ops
  <2>2. CASE SSD_flush(t) \/ SSD_close(t) \/ SSD_close_force(t)
    BY <2>2 DEF SSD_flush, SSD_close, SSD_close_force, Ops
  <2>3. CASE SSD_open(t) \/ SSD_open_newcard(t)
    BY <2>3 DEF SSD_open, SSD_open_newcard, Ops
  <2> QED
    BY <2>1, <2>2, <2>3 DEF LibraryCall
<1>2. PICK op \in Ops, ids \in SUBSET Ids, place \in {"attempt", "enter", "ioctl", "request"} :
        /\ Call(t, op, ids, place)
        /\ place = "attempt" => t = Opener /\ op \in {"open", "newcard"}
        /\ place = "request" => t \in Threads
  BY <1>1
<1> DEFINE r == [at |-> place, op |-> op, ids |-> ids, tries |-> 0]
<1>3. /\ th' = [th EXCEPT ![t] = r] /\ r.at = place /\ r.op = op
      /\ th[t].at = "idle" /\ UNCHANGED <<opened, hash, saved, told, overlap, marks>>
  BY <1>2 DEF Call, At, driver, history
<1> HIDE DEF r
<1>4. th'[t] = r /\ Alone(t)
  BY <1>3 DEF SessionInv, SessionTypes, Alone
<1> QED
  BY <1>2, <1>3, <1>4, AloneOthers DEF CalmStep, InDriver, InPlay

(***************************************************************************)
(* An open that is refused or fails is a calm step.                        *)
(***************************************************************************)
LEMMA OpenFailsIsCalm ==
  ASSUME SessionInv, NEW t \in Callers, (ssd_sys_open(t) /\ opened) \/ LoadFails(t)
  PROVE  CalmStep(t)
<1>1. /\ OpenFails(t) /\ th[t].at \in {"attempt", "loading"}
      /\ UNCHANGED <<opened, saved, told, overlap>>
      /\ hash' = hash \/ (hash' = {} /\ th[t].at = "loading")
  BY DEF ssd_sys_open, LoadFails, At
<1>2. /\ Alone(t) /\ th'[t].at \in {"idle", "attempt"}
      /\ th'[t].at = "attempt" => th'[t].op = "open"
      /\ marks \subseteq marks' /\ marks' \subseteq marks \cup {"forgotten"}
  BY <1>1, OpenFailed DEF SessionInv
<1> QED
  BY <1>1, <1>2, AloneOthers DEF CalmStep, InDriver, InPlay

(***************************************************************************)
(* So is a step that only moves its caller on in the driver.               *)
(***************************************************************************)
LEMMA MoveIsCalm ==
  ASSUME SessionInv, NEW t \in Callers,
         \/ LoadDies(t) \/ CloseRequest(t) \/ FlushRequest(t) \/ down(t) \/ ssd_destory_slab(t)
  PROVE  CalmStep(t)
<1>1. /\ UNCHANGED <<opened, saved, told, overlap>>
      /\ hash' = hash \/ (hash' = {} /\ th[t].at = "destroy")
      /\ marks \subseteq marks' /\ marks' \subseteq marks \cup {"oops"}
  BY DEF LoadDies, CloseRequest, FlushRequest, down, ssd_destory_slab, Dies, Mark, At, driver, history
<1>2. \/ /\ th[t].at \in {"loading", "destroy"} /\ Goto(t, "dead")
      \/ /\ th[t].at = "ioctl" /\ opened /\ Goto(t, "enter")
      \/ /\ th[t].at = "enter" /\ opened /\ Goto(t, "down")
      \/ /\ th[t].at = "enter" /\ ~opened /\ th[t].op \in Closing /\ Goto(t, "flag")
      \/ /\ th[t].at = "down" /\ (Goto(t, "tables") \/ Goto(t, "waiting"))
      \/ /\ th[t].at \in {"ioctl", "enter", "destroy"} /\ Return(t)
  BY DEF LoadDies, CloseRequest, FlushRequest, down, ssd_destory_slab, Dies, At
<1>3. CASE Return(t)
  <2>1. Alone(t) /\ th'[t].at = "idle" /\ th[t].at \in {"loading", "destroy", "ioctl", "enter", "down"}
    BY <1>2, <1>3, Returned DEF SessionInv
  <2> QED
    BY <1>1, <2>1, AloneOthers DEF CalmStep, InDriver, InPlay
<1>4. ASSUME NEW place \in {"dead", "enter", "down", "flag", "tables", "waiting"}, Goto(t, place),
             th[t].at \in {"loading", "destroy", "ioctl", "enter", "down"},
             place \in {"tables", "waiting"} => th[t].at = "down", place = "down" => opened,
             place = "flag" => ~opened /\ th[t].op \in Closing
      PROVE  CalmStep(t)
  <2>1. Alone(t) /\ th'[t].at = place /\ th'[t].op = th[t].op
    BY <1>4, GoneOn DEF SessionInv, Places
  <2> QED
    BY <1>1, <1>4, <2>1, AloneOthers DEF CalmStep, InDriver, InPlay
<1> QED
  BY <1>2, <1>3, <1>4

(***************************************************************************)
(* So is a flush that fails, whether its caller gives up or tries again.   *)
(***************************************************************************)
LEMMA FlushFailsIsCalm ==
  ASSUME SessionInv, NEW t \in Callers, flush_fails(t), "late" \notin marks
  PROVE  CalmStep(t)
<1>1. /\ th[t] \in Caller /\ th[t].at \in Holders
      /\ UNCHANGED <<opened, hash, saved, told, overlap, marks>>
  BY DEF flush_fails, SessionInv, SessionTypes, Holders, history
<1>2. \E next \in Caller : up(t, next) /\ next.at \in {"ioctl", "idle"}
  <2> DEFINE Again == th[t].op = "force" /\ th[t].tries + 1 < Attempts
             again == [th[t] EXCEPT !.at = "ioctl", !.ids = {}, !.tries = @ + 1]
  <2>1. CASE Again
    <3> DEFINE p == [th[t] EXCEPT !.at = "ioctl"]
               q == [p EXCEPT !.ids = {}]
               r == [q EXCEPT !.tries = th[t].tries + 1]
    <3>1. p \in Caller /\ p.at = "ioctl" /\ again = r
      BY <1>1 DEF Caller, Places
    <3>2. up(t, again)
      BY <2>1 DEF flush_fails
    <3> HIDE DEF p, again
    <3>3. q \in Caller /\ q.at = "ioctl" /\ th[t].tries + 1 \in Nat
      BY <1>1, <3>1 DEF Caller
    <3> HIDE DEF q
    <3>4. r \in Caller /\ r.at = "ioctl"
      BY <3>3 DEF Caller
    <3> QED
      BY <3>1, <3>2, <3>4
  <2>2. CASE ~Again
    <3>1. Resting \in Caller /\ Resting.at = "idle"
      BY DEF Resting, Caller, Places, Ops
    <3>2. up(t, Resting)
      BY <2>2 DEF flush_fails
    <3> QED
      BY <3>1, <3>2
  <2> QED
    BY <2>1, <2>2
<1>3. PICK next \in Caller : up(t, next) /\ next.at \in {"ioctl", "idle"}
  BY <1>2
<1>4. th'[t].at \in {"ioctl", "idle"} /\ Others(t)
  BY <1>1, <1>3, UpMoves
<1> QED
  BY <1>1, <1>4 DEF CalmStep, Holders, InDriver, InPlay

(***************************************************************************)
(* The steps of a request.                                                 *)
(***************************************************************************)
LEMMA RequestMade ==
  ASSUME SessionInv, CloseMade, NEW t \in Callers,
         \/ ssd_id_write(t) \/ FinishWrite(t)
         \/ ssd_id_delete(t) \/ FinishDelete(t) \/ EraseFails(t)
  PROVE  CloseMade'
<1>1. /\ \/ Return(t)
         \/ \E place \in {"insert", "erase", "dead"} : Goto(t, place)
      /\ opened' = opened /\ saved' = saved
      /\ marks \subseteq marks' /\ marks' \subseteq marks \cup {"oops"}
  <2>1. CASE ssd_id_write(t)
    BY <2>1 DEF ssd_id_write, driver
  <2>2. CASE ssd_id_delete(t)
    BY <2>2 DEF ssd_id_delete, Dies, Mark
  <2>3. CASE FinishWrite(t) \/ FinishDelete(t) \/ EraseFails(t)
    BY <2>3 DEF FinishWrite, FinishDelete, EraseFails, set_id_info, Dies, Mark, driver
  <2> QED
    BY <2>1, <2>2, <2>3
<1>2. Alone(t) /\ th'[t].at \in {"idle", "insert", "erase", "dead"}
  BY <1>1, GoneOn, Returned DEF SessionInv, Places
<1> QED
  BY <1>1, <1>2, AloneOthers, CloseMadeMove DEF InPlay

(***************************************************************************)
(* A write begins: its ids join the requests under way.                    *)
(***************************************************************************)
LEMMA WriteBegins ==
  ASSUME SessionInv, CloseMade, Kept, NEW t \in Callers, ssd_id_write(t)
  PROVE  Kept'
<1>1. PICK i \in Ids : /\ EnterRequest(t, i) /\ th[t].at = "request"
                       /\ Goto(t, "insert") \/ Return(t)
                       /\ UNCHANGED <<opened, hash, saved, told, marks>>
  BY DEF ssd_id_write, EnterRequest, At, driver
<1>2. CASE Goto(t, "insert")
  <2>1. Alone(t) /\ th'[t].at = "insert" /\ th'[t].ids = th[t].ids
    BY <1>2, GoneOn DEF SessionInv, Places
  <2> QED
    BY <1>1, <2>1, EnterKeeps DEF InDriver
<1>3. CASE Return(t)
  <2>1. Alone(t) /\ th'[t].at = "idle" /\ overlap \subseteq overlap'
    BY <1>1, <1>3, Returned DEF SessionInv, EnterRequest
  <2> QED
    BY <1>1, <2>1, AloneOthers, CalmKeeps DEF InDriver
<1> QED
  BY <1>1, <1>2, <1>3

(***************************************************************************)
(* A delete begins: the entry of its id leaves the table before the block  *)
(* is erased.                                                              *)
(***************************************************************************)
LEMMA DeleteBegins ==
  ASSUME SessionInv, CloseMade, Kept, NEW t \in Callers, ssd_id_delete(t)
  PROVE  Excuse' \/ Kept'
<1>1. PICK i \in Ids : /\ EnterRequest(t, i) /\ th[t].at = "request" /\ hash' = hash \ {i}
                       /\ \/ i \in hash /\ Goto(t, "erase") /\ UNCHANGED marks
                          \/ Dies(t)
                          \/ i \notin hash /\ Return(t) /\ UNCHANGED marks
                       /\ UNCHANGED <<opened, saved, told>>
  BY DEF ssd_id_delete, EnterRequest, At
<1>2. CASE i \in hash /\ Goto(t, "erase") /\ UNCHANGED marks
  <2>1. Alone(t) /\ th'[t].at = "erase" /\ th'[t].ids = th[t].ids
    BY <1>2, GoneOn DEF SessionInv, Places
  <2> QED
    BY <1>1, <1>2, <2>1, EnterKeeps DEF InDriver
<1>3. CASE Dies(t)
  BY <1>3 DEF Dies, Mark, Excuse
<1>4. CASE i \notin hash /\ Return(t) /\ UNCHANGED marks
  <2>1. Alone(t) /\ th'[t].at = "idle" /\ overlap \subseteq overlap' /\ hash' = hash
    BY <1>1, <1>4, Returned DEF SessionInv, EnterRequest
  <2> QED
    BY <1>1, <1>4, <2>1, AloneOthers, CalmKeeps DEF InDriver
<1> QED
  BY <1>1, <1>2, <1>3, <1>4

(***************************************************************************)
(* A request ends: the table and what the caller is told change together.  *)
(***************************************************************************)
LEMMA RequestEnds ==
  ASSUME SessionInv, Kept, told \in [Ids -> {"present", "absent", "either"}], NEW t \in Callers,
         FinishWrite(t) \/ FinishDelete(t) \/ EraseFails(t)
  PROVE  Excuse' \/ Kept'
<1>1. t \in Threads /\ SessionTypes /\ th[t].at \in InDriver /\ th[t].ids \subseteq Ids
  BY DEF Kept, Roles, SessionInv, SessionTypes, Caller, FinishWrite, FinishDelete, EraseFails, At, InDriver
<1>2. UNCHANGED <<opened, saved, overlap>>
  BY DEF FinishWrite, FinishDelete, EraseFails, driver
<1> DEFINE Written == /\ hash' = hash \cup th[t].ids
                      /\ told' = [i \in Ids |-> IF i \in th[t].ids THEN "present" ELSE told[i]]
           Deleted == /\ hash' = hash /\ th[t].at = "erase"
                      /\ told' = [i \in Ids |-> IF i \in th[t].ids THEN "absent" ELSE told[i]]
           Failed  == hash' = hash \cup th[t].ids /\ th[t].at = "erase" /\ told' = told
<1>3. Dies(t) \/ (Return(t) /\ UNCHANGED marks /\ (Written \/ Deleted \/ Failed))
  BY DEF FinishWrite, FinishDelete, EraseFails, set_id_info, At, driver
<1>4. CASE Dies(t)
  BY <1>4 DEF Dies, Mark, Excuse
<1>5. CASE Return(t) /\ UNCHANGED marks /\ (Written \/ Deleted \/ Failed)
  <2>1. Alone(t) /\ th'[t].at = "idle"
    BY <1>1, <1>5, Returned
  <2>2. CASE Written
    BY <1>1, <1>2, <1>5, <2>1, <2>2, LeaveKeeps
  <2>3. CASE Deleted
    <3>1. \A i \in th[t].ids \ overlap : i \notin hash
      BY <1>1, <2>3 DEF Kept, Erasing
    <3> QED
      BY <1>1, <1>2, <1>5, <2>1, <2>3, <3>1, LeaveKeeps
  <2>4. CASE Failed
    <3>1. \A i \in th[t].ids \ overlap : told[i] # "absent"
      BY <1>1, <2>4 DEF Kept, Erasing
    <3> QED
      BY <1>1, <1>2, <1>5, <2>1, <2>4, <3>1, LeaveKeeps
  <2> QED
    BY <1>5, <2>2, <2>3, <2>4
<1> QED
  BY <1>3, <1>4, <1>5

-----------------------------------------------------------------------------
(***************************************************************************)
(* The invariant of the history holds in every state.                      *)
(***************************************************************************)
LEMMA HistoryTyped ==
  ASSUME SessionInv, told \in [Ids -> {"present", "absent", "either"}], overlap \subseteq Ids,
         [SessionNext]_sessionVars
  PROVE  told' \in [Ids -> {"present", "absent", "either"}] /\ overlap' \subseteq Ids
<1>1. InFlight \subseteq Ids
  BY DEF InFlight, SessionInv, SessionTypes, Caller, Callers
<1>2. CASE UNCHANGED sessionVars
  BY <1>2 DEF sessionVars, history
<1>3. CASE Crash
  BY <1>3 DEF Crash
<1>4. ASSUME NEW t \in Callers, LibraryCall(t)
      PROVE  UNCHANGED <<told, overlap>>
  BY <1>4 DEF LibraryCall, SSD_open, SSD_open_newcard, SSD_flush, SSD_close, SSD_close_force,
     SSD_write, SSD_delete, Call, history
<1>5. ASSUME NEW t \in Callers, DriverStep(t)
      PROVE  told' \in [Ids -> {"present", "absent", "either"}] /\ overlap' \subseteq Ids
  <2>1. CASE ssd_sys_open(t) \/ Load(t) \/ LoadDies(t) \/ LoadFails(t)
    BY <1>1, <2>1 DEF ssd_sys_open, Load, LoadDies, LoadFails
  <2>2. CASE \/ CloseRequest(t) \/ FlushRequest(t) \/ down(t) \/ copy_id_hash(t)
             \/ flush_metadata(t) \/ flush_fails(t) \/ ssd_sys_close(t) \/ ssd_destory_slab(t)
    BY <1>1, <2>2 DEF CloseRequest, FlushRequest, down, copy_id_hash, flush_metadata, flush_fails,
       ssd_sys_close, ssd_destory_slab, history
  <2>3. CASE \/ ssd_id_write(t) \/ FinishWrite(t) \/ ssd_id_delete(t) \/ FinishDelete(t)
             \/ EraseFails(t)
    BY <2>3 DEF ssd_id_write, FinishWrite, ssd_id_delete, FinishDelete, EraseFails, EnterRequest,
       history
  <2> QED
    BY <1>5, <2>1, <2>2, <2>3 DEF DriverStep
<1> QED
  BY <1>2, <1>3, <1>4, <1>5 DEF SessionNext

(***************************************************************************)
(* A machine that starts has told its callers nothing that the card does   *)
(* not have.                                                               *)
(***************************************************************************)
LEMMA InitHistory == SessionInit => HistoryInv
<1> SUFFICES ASSUME SessionInit PROVE HistoryInv
  OBVIOUS
<1>1. \A t \in Callers : th[t].at = "idle"
  BY DEF SessionInit, Resting
<1>2. Threads \subseteq Callers /\ Opener \in Callers
  BY SessionAssumption DEF Callers
<1>3. CloseMade
  BY <1>1 DEF SessionInit, CloseMade, InPlay
<1>4. TableMatches /\ CopyMatches /\ FlashMatches /\ SavedAtFlag
  BY <1>1 DEF SessionInit, TableMatches, CopyMatches, Copied, FlashMatches, SavedAtFlag, Matches
<1>5. \A i : i \notin InFlight
  BY <1>1, <1>2, InFlightIs DEF InDriver
<1>6. LateListed /\ Roles /\ Loading /\ Apart /\ Erasing
  BY <1>1, <1>2, <1>5 DEF LateListed, Roles, Loading, Apart, Erasing, InDriver
<1> QED
  BY <1>3, <1>4, <1>6, InitSession DEF SessionInit, HistoryInv, CloseMadeUnlessLate, Kept

(***************************************************************************)
(* Every step of a session keeps the invariant: a call or a crash is dealt *)
(* with first, then the steps of the driver, each by the lemma of its      *)
(* kind.                                                                   *)
(***************************************************************************)
LEMMA HistoryStep == HistoryInv /\ [SessionNext]_sessionVars => HistoryInv'
<1> SUFFICES ASSUME HistoryInv, [SessionNext]_sessionVars PROVE HistoryInv'
  OBVIOUS
<1> DEFINE Known == told \in [Ids -> {"present", "absent", "either"}]
<1>1. SessionInv /\ CloseMadeUnlessLate /\ Known /\ overlap \subseteq Ids /\ (Excuse \/ Kept)
  BY DEF HistoryInv
<1>2. SessionInv' /\ Known' /\ overlap' \subseteq Ids
  BY <1>1, StepKeeps, HistoryTyped
<1>3. \A m \in {"late", "unnoticed", "oops"} : m \in marks => m \in marks'
  <2>1. CASE UNCHANGED sessionVars
    BY <2>1 DEF sessionVars, history
  <2>2. CASE Crash
    BY <2>2 DEF Crash
  <2>3. ASSUME NEW t \in Callers, LibraryCall(t)
        PROVE  marks \subseteq marks'
    BY <1>1, <2>3, CallIsCalm DEF CalmStep
  <2>4. ASSUME NEW t \in Callers, DriverStep(t)
        PROVE  marks \ {"saved"} \subseteq marks'
    BY <2>4 DEF DriverStep, ssd_sys_open, OpenFails, Load, LoadDies, LoadFails, CloseRequest, FlushRequest,
       down, copy_id_hash, flush_metadata, flush_fails, ssd_sys_close, ssd_destory_slab,
       ssd_id_write, FinishWrite, ssd_id_delete, FinishDelete, EraseFails, set_id_info, Dies, Mark,
       driver, history
  <2> QED
    BY <2>1, <2>2, <2>3, <2>4 DEF SessionNext
<1>4. CASE "late" \in marks
  BY <1>2, <1>3, <1>4 DEF HistoryInv, CloseMadeUnlessLate, Excuse
<1>5. CASE "late" \notin marks
  <2>1. CloseMade
    BY <1>1, <1>5 DEF CloseMadeUnlessLate
  <2>2. ("late" \in marks' \/ CloseMade') /\ (Kept => Excuse' \/ Kept')
    <3>1. CASE UNCHANGED sessionVars
      <4>1. CloseMade'
        BY <2>1, <3>1 DEF CloseMade, sessionVars, driver, history
      <4>2. \A i : i \in InFlight' <=> i \in InFlight
        BY <3>1 DEF InFlight, sessionVars
      <4>3. Kept => Kept'
        BY <3>1, <4>2 DEF Kept, TableMatches, CopyMatches, FlashMatches, LateListed, SavedAtFlag,
           Roles, Loading, Apart, Erasing, Matches, Copied, Ending, sessionVars, driver, history
      <4> QED
        BY <4>1, <4>3
    <3>2. CASE Crash
      BY <1>1, <2>1, <3>2, CrashMade
    <3>3. ASSUME NEW t \in Callers, LibraryCall(t) \/ DriverStep(t)
          PROVE  ("late" \in marks' \/ CloseMade') /\ (Kept => Excuse' \/ Kept')
      <4>1. CASE \/ LibraryCall(t) \/ (ssd_sys_open(t) /\ opened) \/ LoadFails(t)
                 \/ LoadDies(t) \/ CloseRequest(t) \/ FlushRequest(t) \/ down(t)
                 \/ ssd_destory_slab(t) \/ flush_fails(t)
        <5>1. CalmStep(t)
          BY <1>1, <1>5, <4>1, CallIsCalm, OpenFailsIsCalm, MoveIsCalm, FlushFailsIsCalm
        <5> QED
          BY <2>1, <5>1, CalmMade
      <4>2. CASE ssd_sys_open(t) /\ ~opened
        <5>1. CASE Kept
          BY <1>1, <2>1, <4>2, <5>1, OpenBegins
        <5>2. CASE ~Kept
          <6>1. /\ Goto(t, "loading") /\ UNCHANGED <<opened, marks>>
                /\ saved' = saved \/ saved'.magic # "normal"
            BY <4>2 DEF ssd_sys_open
          <6>2. Alone(t) /\ th'[t].at = "loading"
            BY <1>1, <6>1, GoneOn DEF SessionInv, Places
          <6>3. CloseMade'
            BY <2>1, <6>1, <6>2, AloneOthers, CloseMadeMove DEF InPlay
          <6> QED
            BY <5>2, <6>3
        <5> QED
          BY <5>1, <5>2
      <4>3. CASE Load(t)
        <5>1. CASE Flushing = {}
          BY <1>1, <2>1, <4>3, <5>1, LoadMakes, LoadMatches
        <5>2. CASE Flushing # {}
          BY <4>3, <5>2 DEF Load, Excuse
        <5> QED
          BY <5>1, <5>2
      <4>4. CASE copy_id_hash(t) \/ flush_metadata(t) \/ ssd_sys_close(t)
        BY <1>1, <1>5, <2>1, <4>4, CopyMade, MetadataMade, CloseEnds DEF Excuse
      <4>5. CASE \/ ssd_id_write(t) \/ FinishWrite(t)
                 \/ ssd_id_delete(t) \/ FinishDelete(t) \/ EraseFails(t)
        BY <1>1, <2>1, <4>5, RequestMade, WriteBegins, DeleteBegins, RequestEnds
      <4> QED
        BY <3>3, <4>1, <4>2, <4>3, <4>4, <4>5 DEF DriverStep
    <3> QED
      BY <3>1, <3>2, <3>3 DEF SessionNext
  <2>3. Excuse => Excuse'
    BY <1>3 DEF Excuse
  <2> QED
    BY <1>1, <1>2, <2>2, <2>3 DEF HistoryInv, CloseMadeUnlessLate
<1> QED
  BY <1>4, <1>5

(***************************************************************************)
(* What the invariant about the history of a card means for its callers.   *)
(***************************************************************************)
LEMMA HistoryMeans == ASSUME HistoryInv PROVE CanBeOpened /\ KeptAsTold
<1>1. CanBeOpened
  <2> SUFFICES ASSUME ~opened, saved.magic # "close", saved.magic # "none"
               PROVE  "late" \in marks \/ "crashed" \in marks
    BY DEF CanBeOpened
  <2>1. saved.magic = "normal"
    BY DEF HistoryInv, SessionInv, SessionTypes
  <2> QED
    BY <2>1 DEF HistoryInv, CloseMadeUnlessLate, CloseMade
<1>2. KeptAsTold
  <2> SUFFICES ASSUME opened \/ saved.magic = "close", ~Excuse
               PROVE  AsTold
    BY DEF KeptAsTold, Excuse
  <2>1. TableMatches /\ FlashMatches
    BY DEF HistoryInv, Kept
  <2> QED
    BY <2>1 DEF TableMatches, FlashMatches, Matches, AsTold, OnCard
<1> QED
  BY <1>1, <1>2

(***************************************************************************)
(* A card that is not open has the metadata of a close or none, and can be *)
(* opened: whatever calls of ssd_sys_flush and ssd_sys_close meet, but for *)
(* a crash after a flush and a flush that ends after the close.            *)
(***************************************************************************)
THEOREM CanBeOpenedHolds == SessionSpec => []CanBeOpened
BY HistoryMeans, InitHistory, HistoryStep, PTL DEF SessionSpec

(***************************************************************************)
(* What ssd_id_write and ssd_id_delete have told the callers is what the   *)
(* card has, through any number of sessions, failures and crashes, for ids *)
(* without a request while ssd_sys_close was at work.                      *)
(***************************************************************************)
THEOREM KeptAsToldHolds == SessionSpec => []KeptAsTold
BY HistoryMeans, InitHistory, HistoryStep, PTL DEF SessionSpec
-----------------------------------------------------------------------------
(***************************************************************************)
(* A multiple of a number leaves no remainder.                             *)
(***************************************************************************)
LEMMA MultipleMod ==
  ASSUME NEW k \in Nat, NEW d \in Nat, d > 0
  PROVE  (k * d) % d = 0
<1> DEFINE x == k * d
           q == x \div d
           m == x % d
<1>1. x \in Nat
  OBVIOUS
<1>2. q \in Nat /\ m \in 0 .. (d - 1) /\ x = q * d + m
  BY <1>1, Z3
<1>3. (k - q) * d = m
  <2>1. (k - q) * d = k * d - q * d
    BY <1>2, Z3
  <2> QED
    BY <1>2, <2>1
<1> HIDE DEF q, m
<1>4. k - q = 0
  <2>1. CASE k - q >= 1
    <3>1. (k - q) * d >= d
      BY <1>2, <2>1, Z3
    <3> QED
      BY <1>2, <1>3, <3>1
  <2>2. CASE k - q <= -1
    <3>1. (k - q) * d <= -d
      BY <1>2, <2>2, Z3
    <3> QED
      BY <1>2, <1>3, <3>1
  <2> QED
    BY <1>2, <2>1, <2>2
<1>5. (k - q) * d = 0
  BY <1>4
<1> QED
  BY <1>3, <1>5 DEF m

(***************************************************************************)
(* The scans of AreaScan, for every size of the channel and of a data      *)
(* block and every bitmap.  A place where a data block fits and that no    *)
(* earlier run reaches into is where the next run starts.                  *)
(***************************************************************************)
LEMMA FitsBetweenRuns ==
  ASSUME NEW S, S \subseteq Nat, NEW b \in Nat, b .. (b + DSize - 1) \subseteq S,
         \A r \in Runs(S) : ~(r < b /\ b < r + DSize)
  PROVE  b \in Runs(S)
<1>1. DSize \in Nat /\ DSize > 0 /\ b \in S
  BY SizesAssumption
<1> DEFINE r0 == RunStart(S, b)
           m  == (b - r0) % DSize
           c  == b - m
<1>2. /\ r0 \in Nat /\ r0 <= b /\ r0 .. b \subseteq S
      /\ \A a \in S : a .. b \subseteq S => r0 <= a
  BY <1>1, RunStartProperty
<1> HIDE DEF r0
<1>3. /\ m \in 0 .. (DSize - 1) /\ m <= b - r0
      /\ (b - r0 - m) % DSize = 0
  <2> DEFINE x == b - r0
             k == x \div DSize
  <2>1. x \in Nat
    BY <1>2
  <2>2. k \in Nat /\ x % DSize \in 0 .. (DSize - 1) /\ x = k * DSize + (x % DSize)
    BY <1>1, <2>1, Z3
  <2>3. (k * DSize) % DSize = 0
    BY <1>1, <2>2, MultipleMod
  <2>4. x - (x % DSize) = k * DSize /\ k * DSize \in Nat
    BY <1>1, <2>2
  <2> HIDE DEF k
  <2> QED
    BY <1>1, <1>2, <2>1, <2>2, <2>3, <2>4
<1> HIDE DEF m
<1>4. CASE m = 0
  BY <1>1, <1>2, <1>3, <1>4 DEF Runs, Extent, BlockSize, DBLOCK, IBLOCK, m, r0
<1>5. CASE m # 0
  <2>1. c \in Nat /\ r0 <= c /\ c < b /\ b < c + DSize
    BY <1>1, <1>2, <1>3, <1>5
  <2>2. c .. (c + DSize - 1) \subseteq S
    BY <1>1, <1>2, <2>1
  <2>3. c \in S /\ r0 .. c \subseteq S /\ r0 \in S
    BY <1>1, <1>2, <2>1
  <2> DEFINE q == RunStart(S, c)
  <2>4. /\ q \in Nat /\ q <= c /\ q .. c \subseteq S
        /\ \A a \in S : a .. c \subseteq S => q <= a
    BY <2>3, RunStartProperty
  <2> HIDE DEF q
  <2>5. q <= r0
    BY <2>3, <2>4
  <2>6. q \in S /\ q .. b \subseteq S
    BY <1>2, <2>1, <2>4
  <2>7. q = r0
    BY <1>2, <2>4, <2>5, <2>6
  <2>8. (c - q) % DSize = 0
    <3>1. c - q = b - r0 - m
      BY <1>2, <1>3, <2>7
    <3> QED
      BY <1>3, <3>1
  <2>9. c \in Runs(S)
    BY <2>2, <2>3, <2>8 DEF Runs, Extent, BlockSize, DBLOCK, IBLOCK, q
  <2> QED
    BY <2>1, <2>9
<1> QED
  BY <1>4, <1>5

(***************************************************************************)
(* The first pass, one iteration: the first area found in what is left is  *)
(* the next run of the original bitmap.                                    *)
(***************************************************************************)
LEMMA NextRun ==
  ASSUME NEW S, S \subseteq Nat, NEW sz \in Nat, \A s \in S : s < sz, NEW st \in Nat,
         NEW F, \A r : r \in F <=> r \in Runs(S) /\ r < st,
         NEW M, M = S \ Covered(F)
  PROVE  /\ \A b \in Runs(S) : b >= st => b \in Areas(M, sz, st, DSize)
         /\ \A index \in bitmap_find_next_zero_area(M, sz, st, DSize) :
              /\ index \in Runs(S) /\ index >= st
              /\ \A r : r \in Runs(S) /\ r < index + DSize <=> r \in F \cup {index}
<1>1. DSize \in Nat /\ DSize > 0
  BY SizesAssumption
<1>2. /\ Runs(S) \subseteq S
      /\ \A d, e \in Runs(S) : d # e => Extent(d, DBLOCK) \cap Extent(e, DBLOCK) = {}
  BY RunsApart
<1>3. \A d : Extent(d, DBLOCK) = d .. (d + DSize - 1)
  BY DEF Extent, BlockSize, DBLOCK, IBLOCK
<1>4. \A b \in Runs(S) : b \in Nat /\ b .. (b + DSize - 1) \subseteq S
  BY <1>2, <1>3 DEF Runs
<1>5. ASSUME NEW b \in Runs(S), b >= st
      PROVE  b \in Areas(M, sz, st, DSize)
  <2>1. b \in Nat /\ b + DSize - 1 \in S
    BY <1>1, <1>4
  <2>2. b \in st .. (sz - DSize)
    BY <1>1, <1>5, <2>1
  <2>3. \A r \in F : r \in Runs(S) /\ r # b
    BY <1>4, <1>5
  <2>4. Extent(b, DBLOCK) \cap Covered(F) = {}
    BY <1>2, <2>3 DEF Covered
  <2> QED
    BY <1>3, <1>4, <2>2, <2>4 DEF Areas
<1>6. ASSUME NEW index \in bitmap_find_next_zero_area(M, sz, st, DSize)
      PROVE  /\ index \in Runs(S) /\ index >= st
             /\ \A r : r \in Runs(S) /\ r < index + DSize <=> r \in F \cup {index}
  <2>1. /\ index \in st .. (sz - DSize) /\ index .. (index + DSize - 1) \subseteq M
        /\ \A a \in Areas(M, sz, st, DSize) : index <= a
    BY DEF bitmap_find_next_zero_area, Areas
  <2>2. index \in Nat /\ index >= st
    BY <1>1, <2>1
  <2>3. ASSUME NEW b \in Runs(S), ~(b < st)
        PROVE  index <= b
    <3>1. b >= st
      BY <1>4, <2>3
    <3>2. b \in Areas(M, sz, st, DSize)
      BY <1>5, <3>1
    <3> QED
      BY <2>1, <3>2
  <2>4. ASSUME NEW r \in Runs(S), r < index, index < r + DSize
        PROVE  FALSE
    <3>1. r \in F
      BY <2>2, <2>3, <2>4, <1>4
    <3>2. index \in Extent(r, DBLOCK)
      BY <1>1, <1>3, <1>4, <2>2, <2>4
    <3>3. index \in Covered(F)
      BY <3>1, <3>2 DEF Covered
    <3> QED
      BY <1>1, <2>1, <2>2, <3>3
  <2>5. index \in Runs(S)
    BY <2>1, <2>2, <2>4, FitsBetweenRuns
  <2>6. ASSUME NEW r \in Runs(S), r < index + DSize, r # index
        PROVE  r < st
    <3>1. CASE r >= st
      <4>1. r \in index .. (index + DSize - 1)
        BY <1>1, <1>4, <2>2, <2>3, <2>6, <3>1
      <4>2. r \in r .. (r + DSize - 1)
        BY <1>1, <1>4
      <4> QED
        BY <1>2, <1>3, <2>5, <2>6, <4>1, <4>2
    <3> QED
      BY <1>4, <3>1
  <2>7. \A r \in F : r < index + DSize
    BY <1>1, <1>4, <2>2
  <2>8. \A r : r \in Runs(S) /\ r < index + DSize <=> r \in F \cup {index}
    <3>1. index < index + DSize
      BY <1>1, <2>2
    <3> QED
      BY <2>5, <2>6, <2>7, <3>1
  <2> QED
    BY <2>2, <2>5, <2>8
<1> QED
  BY <1>5, <1>6

(***************************************************************************)
(* What one more run does to the blocks covered and to the number of runs. *)
(***************************************************************************)
LEMMA OneRunMore ==
  ASSUME NEW F, NEW index, IsFiniteSet(F), index \notin F
  PROVE  /\ Covered(F \cup {index}) = Covered(F) \cup Extent(index, DBLOCK)
         /\ IsFiniteSet(F \cup {index})
         /\ Cardinality(F \cup {index}) = Cardinality(F) + 1
         /\ Cardinality(F) \in Nat
<1>1. Covered(F \cup {index}) = Covered(F) \cup Extent(index, DBLOCK)
  BY DEF Covered
<1> QED
  BY <1>1, FS_AddElement, FS_CardinalityType

(***************************************************************************)
(* The bitmap fits below the size handed to the search.                    *)
(***************************************************************************)
ScanTypes ==
  /\ loop \in {"merge", "reload"} /\ pass \in {IBLOCK, DBLOCK, DONE}
  /\ pass = IBLOCK => loop = "reload"
  /\ size \in Nat /\ start \in Nat
  /\ map0 \subseteq Nat /\ IsFiniteSet(map0) /\ \A b \in map0 : b < size
  /\ DOMAIN found = Types

\* what is left when all runs are cut out, and what the count starts from and grows by
Left0  == map0 \ Covered(Runs(map0))
Count0 == IF loop = "merge" THEN 0 ELSE NBlocks - size
PerRun == IF loop = "merge" THEN 1 ELSE DSize

DataPass ==
  /\ found[DBLOCK] = {b \in Runs(map0) : b < start} /\ found[IBLOCK] = {}
  /\ map = map0 \ Covered(found[DBLOCK])
  /\ count = Count0 + PerRun * Cardinality(found[DBLOCK])

IndexPass ==
  /\ found[DBLOCK] = Runs(map0) /\ found[IBLOCK] = {b \in Left0 : b < start}
  /\ map = Left0 \ found[IBLOCK]
  /\ count = Count0 + PerRun * Cardinality(Runs(map0)) + Cardinality(found[IBLOCK])

ScanInv ==
  /\ ScanTypes
  /\ pass = DBLOCK => DataPass
  /\ pass = IBLOCK => IndexPass
  /\ Computed

(***************************************************************************)
(* The sets that are counted are finite.                                   *)
(***************************************************************************)
LEMMA RunsFinite ==
  ASSUME ScanTypes
  PROVE  /\ Runs(map0) \subseteq map0
         /\ IsFiniteSet(Runs(map0)) /\ Cardinality(Runs(map0)) \in Nat
         /\ IsFiniteSet(Left0) /\ Cardinality(Left0) \in Nat
  BY RunsApart, FS_Subset, FS_CardinalityType DEF ScanTypes, Left0

(***************************************************************************)
(* An iteration of either pass keeps what has been found so far in step    *)
(* with the scan position and the count.                                   *)
(***************************************************************************)
LEMMA IterateKeeps ==
  ASSUME ScanInv, Iterate
  PROVE  ScanInv'
<1> USE DEF IBLOCK, DBLOCK, DONE
<1>1. ScanTypes /\ pass \in {IBLOCK, DBLOCK}
  BY DEF ScanInv, Iterate, Types
<1>2. UNCHANGED <<loop, map0, size, pass>>
  BY DEF Iterate
<1>3. DSize \in Nat /\ DSize > 1 /\ NBlocks \in Nat
  BY SizesAssumption
<1>4. Computed'
  BY <1>1, <1>2 DEF Computed
<1>5. PICK index \in bitmap_find_next_zero_area(map, size, start, BlockSize(pass)) :
        /\ map' = Take(index, pass)
        /\ found' = [found EXCEPT ![pass] = @ \cup {index}]
        /\ start' = Resume(index, pass)
        /\ count' = Step(count, pass)
  BY DEF Iterate
<1>6. index \in start .. (size - BlockSize(pass)) /\ index \in Nat
  BY <1>1, <1>3, <1>5 DEF bitmap_find_next_zero_area, Areas, ScanTypes, BlockSize
<1>7. start' \in Nat /\ DOMAIN found' = Types
  BY <1>1, <1>3, <1>5, <1>6 DEF Resume, BlockSize, ScanTypes
<1>8. ScanTypes'
  BY <1>1, <1>2, <1>7 DEF ScanTypes
<1>9. CASE pass = DBLOCK
  <2>1. DataPass /\ BlockSize(pass) = DSize
    BY <1>9 DEF ScanInv, BlockSize
  <2> DEFINE F == {r \in Runs(map0) : r < start}
  <2>2. found[DBLOCK] = F /\ map = map0 \ Covered(F)
    BY <2>1 DEF DataPass
  <2>3. /\ index \in Runs(map0) /\ index >= start
        /\ {r \in Runs(map0) : r < index + DSize} = F \cup {index}
    <3>1. map0 \subseteq Nat /\ size \in Nat /\ start \in Nat /\ \A s \in map0 : s < size
      BY <1>1 DEF ScanTypes
    <3>2. index \in bitmap_find_next_zero_area(map, size, start, DSize)
      BY <1>5, <2>1
    <3>3. \A r : r \in F <=> r \in Runs(map0) /\ r < start
      OBVIOUS
    <3> HIDE DEF F
    <3>4. /\ index \in Runs(map0) /\ index >= start
          /\ \A r : r \in Runs(map0) /\ r < index + DSize <=> r \in F \cup {index}
      <4>1. map = map0 \ Covered(F)
        BY <2>2
      <4>2. /\ \A i \in bitmap_find_next_zero_area(map, size, start, DSize) :
                 /\ i \in Runs(map0) /\ i >= start
                 /\ \A r : r \in Runs(map0) /\ r < i + DSize <=> r \in F \cup {i}
        BY ONLY <3>1, <3>3, <4>1, NextRun, ZenonT(30)
      <4> QED
        BY ONLY <3>2, <4>2, Zenon
    <3> QED
      BY <3>4
  <2>4. IsFiniteSet(F) /\ index \notin F
    <3>1. IsFiniteSet(F)
      BY <1>1, RunsFinite, FS_Subset
    <3> QED
      BY <1>1, <1>6, <2>3, <3>1 DEF ScanTypes
  <2> HIDE DEF F
  <2>5. /\ found'[DBLOCK] = F \cup {index} /\ found'[IBLOCK] = {}
        /\ start' = index + DSize
        /\ map' = map \ Extent(index, DBLOCK)
        /\ count' = count + PerRun
    BY <1>1, <1>5, <1>9, <2>1, <2>2 DEF DataPass, ScanTypes, Types, Resume, Take, Step, PerRun, BlockSize
  <2>6. map' = map0 \ Covered(F \cup {index})
    BY <2>2, <2>4, <2>5, OneRunMore
  <2>7. count' = Count0 + PerRun * Cardinality(F \cup {index})
    <3>1. /\ Cardinality(F) \in Nat /\ Cardinality(F \cup {index}) = Cardinality(F) + 1
      BY <2>4, OneRunMore
    <3>2. count = Count0 + PerRun * Cardinality(F) /\ Count0 \in Int
      BY <1>1, <1>3, <2>1, <2>2 DEF DataPass, Count0, ScanTypes
    <3>3. PerRun = 1 \/ PerRun = DSize
      BY DEF PerRun
    <3>4. PerRun * (Cardinality(F) + 1) = PerRun * Cardinality(F) + PerRun
      BY <1>3, <3>1, <3>3
    <3>5. PerRun * Cardinality(F) \in Int /\ PerRun \in Int
      BY <1>3, <3>1, <3>3
    <3> HIDE DEF PerRun
    <3> QED
      BY <2>5, <3>1, <3>2, <3>4, <3>5
  <2>8. DataPass'
    BY <1>2, <2>3, <2>5, <2>6, <2>7 DEF DataPass, Count0, PerRun
  <2> QED
    BY <1>2, <1>4, <1>8, <1>9, <2>8 DEF ScanInv
<1>10. CASE pass = IBLOCK
  <2>1. IndexPass /\ BlockSize(pass) = 1 /\ loop = "reload"
    BY <1>1, <1>10 DEF ScanInv, BlockSize, ScanTypes
  <2> DEFINE G == {b \in Left0 : b < start}
  <2>2. found[IBLOCK] = G /\ map = Left0 \ G /\ found[DBLOCK] = Runs(map0) /\ Left0 \subseteq Nat
    BY <1>1, <2>1 DEF IndexPass, Left0, ScanTypes
  <2>3. /\ index \in Left0 /\ index \notin G
        /\ \A a \in Areas(map, size, start, 1) : index <= a
    BY <1>5, <1>6, <2>1, <2>2 DEF bitmap_find_next_zero_area, Areas
  <2>4. \A b \in Left0 : b < index + 1 => b \in G \cup {index}
    <3> SUFFICES ASSUME NEW b \in Left0, b < index + 1, b \notin G
                 PROVE  b = index
      OBVIOUS
    <3>1. b \in Nat /\ b \in map /\ b < size /\ b >= start
      BY <1>1, <2>2 DEF ScanTypes, Left0
    <3>2. b \in start .. (size - 1) /\ b .. (b + 1 - 1) \subseteq map
      BY <1>1, <3>1 DEF ScanTypes
    <3>3. b \in Areas(map, size, start, 1)
      BY <3>2 DEF Areas
    <3>4. index <= b
      BY <2>3, <3>3
    <3> QED
      BY <1>6, <3>1, <3>4
  <2>5. \A b \in G \cup {index} : b \in Left0 /\ b < index + 1
    BY <1>1, <1>6, <2>2, <2>3 DEF ScanTypes
  <2>6. {b \in Left0 : b < index + 1} = G \cup {index}
    BY <2>4, <2>5
  <2>7. IsFiniteSet(G)
    BY <1>1, RunsFinite, FS_Subset
  <2> HIDE DEF G
  <2>8. /\ found'[IBLOCK] = G \cup {index} /\ found'[DBLOCK] = Runs(map0)
        /\ start' = index + 1
        /\ map' = map \ {index}
        /\ count' = count + 1
    <3>1. Extent(index, IBLOCK) = {index}
      BY <1>6 DEF Extent, BlockSize
    <3> QED
      BY <1>1, <1>5, <1>10, <2>1, <2>2, <3>1 DEF ScanTypes, Types, Resume, Take, Step, BlockSize
  <2>9. count' = Count0 + PerRun * Cardinality(Runs(map0)) + Cardinality(G \cup {index})
    <3>1. Cardinality(G) \in Nat /\ Cardinality(G \cup {index}) = Cardinality(G) + 1
      BY <2>3, <2>7, OneRunMore
    <3>2. count = Count0 + PerRun * Cardinality(Runs(map0)) + Cardinality(G)
      BY <2>1, <2>2 DEF IndexPass
    <3>3. Count0 \in Int /\ PerRun * Cardinality(Runs(map0)) \in Int
      <4>1. PerRun \in Nat /\ Cardinality(Runs(map0)) \in Nat
        BY <1>1, <1>3, RunsFinite DEF PerRun
      <4> QED
        BY <1>1, <1>3, <4>1 DEF Count0, ScanTypes
    <3> QED
      BY <2>8, <3>1, <3>2, <3>3
  <2>10. IndexPass'
    BY <1>2, <2>2, <2>6, <2>8, <2>9 DEF IndexPass, Left0, Count0, PerRun
  <2> QED
    BY <1>2, <1>4, <1>8, <1>10, <2>10 DEF ScanInv
<1> QED
  BY <1>1, <1>9, <1>10

(***************************************************************************)
(* A search that finds nothing means that no area is left.                 *)
(***************************************************************************)
LEMMA NothingFound ==
  ASSUME NEW S, NEW sz \in Nat, NEW st \in Nat, NEW nr \in Nat,
         bitmap_find_next_zero_area(S, sz, st, nr) = {}
  PROVE  Areas(S, sz, st, nr) = {}
<1> DEFINE A == Areas(S, sz, st, nr)
<1> SUFFICES ASSUME A # {} PROVE FALSE
  OBVIOUS
<1>1. A \subseteq Nat
  BY DEF Areas
<1>2. PICK b \in A : \A a \in A : b <= a
  BY <1>1, LeastProperty
<1> QED
  BY <1>2 DEF bitmap_find_next_zero_area

(***************************************************************************)
(* The end of a pass: every run, or every single block, has been found.    *)
(***************************************************************************)
LEMMA EndPassKeeps ==
  ASSUME ScanInv, EndPass
  PROVE  ScanInv'
<1> USE DEF IBLOCK, DBLOCK, DONE
<1>1. /\ ScanTypes /\ pass \in {IBLOCK, DBLOCK} /\ Over
      /\ UNCHANGED <<loop, map0, map, size, found, count>>
      /\ start' = 0 /\ pass' = IF loop = "reload" /\ pass = DBLOCK THEN IBLOCK ELSE DONE
  BY DEF ScanInv, EndPass, Types
<1>2. DSize \in Nat /\ DSize > 1 /\ NBlocks \in Nat
  BY SizesAssumption
<1>3. ScanTypes'
  BY <1>1 DEF ScanTypes
<1>4. start >= size \/ Areas(map, size, start, BlockSize(pass)) = {}
  BY <1>1, <1>2, NothingFound DEF Over, ScanTypes, BlockSize
<1>5. CASE pass = DBLOCK
  <2>1. DataPass /\ BlockSize(pass) = DSize
    BY <1>5 DEF ScanInv, BlockSize
  <2>2. \A b \in Runs(map0) : b < start
    <3> SUFFICES ASSUME NEW b \in Runs(map0), ~(b < start) PROVE FALSE
      OBVIOUS
    <3> DEFINE F == {r \in Runs(map0) : r < start}
    <3>1. map0 \subseteq Nat /\ size \in Nat /\ start \in Nat /\ \A s \in map0 : s < size
      BY <1>1 DEF ScanTypes
    <3>2. b \in Nat /\ b < size /\ b >= start
      <4>1. b \in map0
        BY <1>1, RunsFinite
      <4> QED
        BY <3>1, <4>1
    <3>3. map = map0 \ Covered(F)
      BY <2>1 DEF DataPass
    <3>4. \A r : r \in F <=> r \in Runs(map0) /\ r < start
      OBVIOUS
    <3> HIDE DEF F
    <3>5. b \in Areas(map, size, start, DSize)
      BY <3>1, <3>2, <3>3, <3>4, NextRun
    <3> QED
      BY <1>4, <2>1, <3>1, <3>2, <3>3, <3>5
  <2>3. found[DBLOCK] = Runs(map0) /\ found[IBLOCK] = {} /\ map = Left0
    BY <2>1, <2>2 DEF DataPass, Left0
  <2>4. count = Count0 + PerRun * Cardinality(Runs(map0))
    BY <2>1, <2>3 DEF DataPass
  <2>5. CASE loop = "merge"
    <3>1. count = Cardinality(Runs(map0))
      BY <1>1, <2>4, <2>5, RunsFinite DEF Count0, PerRun
    <3>2. Computed'
      BY <1>1, <1>5, <2>3, <2>5, <3>1 DEF Computed, Left0
    <3> QED
      BY <1>1, <1>3, <1>5, <2>5, <3>2 DEF ScanInv
  <2>6. CASE loop = "reload"
    <3>1. pass' = IBLOCK
      BY <1>1, <1>5, <2>6
    <3>2. {b \in Left0 : b < start'} = {}
      <4>1. \A b \in Left0 : b \in Nat
        BY <1>1 DEF Left0, ScanTypes
      <4> QED
        BY <1>1, <4>1
    <3>3. count = Count0 + PerRun * Cardinality(Runs(map0)) + Cardinality({})
      <4>1. Cardinality({}) = 0
        BY FS_EmptySet
      <4>2. PerRun \in Nat /\ Count0 \in Int /\ Cardinality(Runs(map0)) \in Nat
        BY <1>1, <1>2, RunsFinite DEF PerRun, Count0, ScanTypes
      <4>3. PerRun * Cardinality(Runs(map0)) \in Int
        BY <4>2
      <4> QED
        BY <2>4, <4>1, <4>2, <4>3
    <3>4. IndexPass'
      BY <1>1, <2>3, <3>2, <3>3 DEF IndexPass, Left0, Count0, PerRun
    <3>5. Computed'
      BY <3>1 DEF Computed
    <3> QED
      BY <1>3, <3>1, <3>4, <3>5 DEF ScanInv
  <2> QED
    BY <1>1, <2>5, <2>6 DEF ScanTypes
<1>6. CASE pass = IBLOCK
  <2>1. IndexPass /\ BlockSize(pass) = 1 /\ loop = "reload"
    BY <1>1, <1>6 DEF ScanInv, BlockSize, ScanTypes
  <2>2. \A b \in Left0 : b < start
    <3> SUFFICES ASSUME NEW b \in Left0, ~(b < start) PROVE FALSE
      OBVIOUS
    <3>1. b \in Nat /\ b < size /\ b >= start /\ size \in Nat /\ start \in Nat
      BY <1>1 DEF ScanTypes, Left0
    <3>2. b \in map
      BY <2>1 DEF IndexPass
    <3>3. b \in start .. (size - 1) /\ b .. (b + 1 - 1) \subseteq map
      BY <3>1, <3>2
    <3>4. b \in Areas(map, size, start, 1)
      BY <3>3 DEF Areas
    <3> QED
      BY <1>4, <2>1, <3>1, <3>4
  <2>3. found[IBLOCK] = Left0 /\ found[DBLOCK] = Runs(map0) /\ map = {}
    BY <2>1, <2>2 DEF IndexPass
  <2>4. count = NBlocks - size + DSize * Cardinality(Runs(map0)) + Cardinality(Left0)
    BY <2>1, <2>3 DEF IndexPass, Count0, PerRun
  <2>5. Computed'
    BY <1>1, <2>1, <2>3, <2>4 DEF Computed, Left0
  <2> QED
    BY <1>1, <1>3, <1>6, <2>5 DEF ScanInv
<1> QED
  BY <1>1, <1>5, <1>6

(***************************************************************************)
(* The scan starts with nothing found; the loop that is not looked at is   *)
(* over and had nothing to find.                                           *)
(***************************************************************************)
LEMMA ScanStarts ==
  ASSUME ScanInit \/ ScanIdle
  PROVE  ScanInv
<1> USE DEF IBLOCK, DBLOCK, DONE
<1>1. NBlocks \in Nat /\ NBlocks > 0 /\ DSize \in Nat
  BY SizesAssumption
<1>2. Cardinality({}) = 0
  BY FS_EmptySet
<1>3. CASE ScanInit
  <2>1. /\ loop \in {"merge", "reload"} /\ size \in Nat /\ start = 0 /\ pass = DBLOCK
        /\ map0 \subseteq 0 .. (size - 1) /\ map = map0 /\ found = [type \in Types |-> {}]
        /\ count = Count0
    BY <1>1, <1>3 DEF ScanInit, Blocks, Count0
  <2>2. IsFiniteSet(map0)
    <3>1. IsFiniteSet(0 .. (size - 1))
      BY <2>1, FS_Interval
    <3> QED
      BY <2>1, <3>1, FS_Subset
  <2>3. ScanTypes
    BY <2>1, <2>2 DEF ScanTypes
  <2>4. {b \in Runs(map0) : b < start} = {} /\ found[DBLOCK] = {} /\ found[IBLOCK] = {}
    <3>1. \A b \in Runs(map0) : b \in Nat
      <4>1. Runs(map0) \subseteq map0
        BY <2>3, RunsFinite
      <4>2. map0 \subseteq Nat
        BY <2>3 DEF ScanTypes
      <4> QED
        BY <4>1, <4>2
    <3> QED
      BY <2>1, <3>1 DEF Types
  <2>5. map = map0 \ Covered({})
    BY <2>1 DEF Covered
  <2>6. count = Count0 + PerRun * Cardinality({})
    BY <1>1, <1>2, <2>1 DEF PerRun, Count0
  <2>7. DataPass
    BY <2>4, <2>5, <2>6 DEF DataPass
  <2> QED
    BY <2>1, <2>3, <2>7 DEF ScanInv, Computed
<1>4. CASE ScanIdle
  <2>1. Runs(map0) = {} /\ map0 \ Covered(Runs(map0)) = {}
    BY <1>4 DEF ScanIdle, Runs
  <2>2. ScanTypes
    BY <1>4, FS_EmptySet DEF ScanIdle, ScanTypes
  <2>3. Computed
    BY <1>2, <1>4, <2>1 DEF ScanIdle, Computed, Types
  <2> QED
    BY <1>4, <2>2, <2>3 DEF ScanInv, ScanIdle
<1> QED
  BY <1>3, <1>4

(***************************************************************************)
(* A step of the two parts moves the scan by an iteration, by the end of a *)
(* pass, or not at all.                                                    *)
(***************************************************************************)
LEMMA ScanStep ==
  ASSUME ScanInv, [PartsNext]_partsVars
  PROVE  ScanInv'
<1>1. CASE Scan
  BY <1>1, IterateKeeps, EndPassKeeps DEF Scan
<1>2. CASE UNCHANGED scanVars
  BY <1>2 DEF scanVars, ScanInv, ScanTypes, DataPass, IndexPass, Computed, Left0, Count0, PerRun
<1> QED
  BY <1>1, <1>2 DEF PartsNext, OnlyScan, OnlySession, partsVars

(***************************************************************************)
(* bitmap_merge and the last loop of ssd_reload_bitmap compute what the    *)
(* rest of the model takes from them in closed form: the runs of the       *)
(* bitmap they started from, the blocks left over and their number; and    *)
(* during the first pass they have found the runs in front of the scan.    *)
(***************************************************************************)
THEOREM ClosedFormHolds == PartsSpec => []ClosedForm
<1>1. PartsInit => ScanInv
  BY ScanStarts DEF PartsInit
<1>2. ScanInv /\ [PartsNext]_partsVars => ScanInv'
  BY ScanStep
<1>3. ScanInv => ClosedForm
  BY DEF ScanInv, ClosedForm, GreedySoFar, DataPass
<1> QED
  BY <1>1, <1>2, <1>3, PTL DEF PartsSpec

(***************************************************************************)
(* The four properties of the callers are those of the composition too: a  *)
(* scan leaves the state of the callers alone.                             *)
(***************************************************************************)
LEMMA SessionPart ==
  /\ PartsInit => SessionInit
  /\ [PartsNext]_partsVars => [SessionNext]_sessionVars
BY DEF PartsInit, PartsNext, OnlyScan, OnlySession, partsVars

(***************************************************************************)
(* What ssd_sys_open, ssd_sys_flush, ssd_sys_close and the requests of ids *)
(* promise, next to the scans of the bitmaps.                              *)
(***************************************************************************)
THEOREM SessionHolds ==
  PartsSpec => [](OneFlush /\ LibraryFollows /\ CanBeOpened /\ KeptAsTold)
<1>1. SessionInv => OneFlush /\ LibraryFollows
  BY InvMeans
<1>2. HistoryInv => SessionInv /\ CanBeOpened /\ KeptAsTold
  BY HistoryMeans DEF HistoryInv
<1>3. PartsInit => HistoryInv
  BY SessionPart, InitHistory
<1>4. HistoryInv /\ [PartsNext]_partsVars => HistoryInv'
  BY SessionPart, HistoryStep
<1> QED
  BY <1>1, <1>2, <1>3, <1>4, PTL DEF PartsSpec
=============================================================================
