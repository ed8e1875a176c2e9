----------------------------- MODULE BlockStore ------------------------------
(***************************************************************************)
(* What the card promises its users, as a map from block ids to data.  An  *)
(* id is "absent", "data" (it can be read back) or "unsure": a delete or a *)
(* bad-block request failed half way, so the id is still listed but its    *)
(* contents are not to be trusted.  Only a request for that very id or the *)
(* initialisation of the card changes an entry; closing and opening the    *)
(* card changes none.                                                      *)
(***************************************************************************)
CONSTANTS Ids

VARIABLES
  store,    \* [Ids -> {"absent", "data", "unsure"}]
  opened,   \* the card is open
  reply     \* [code |-> ..., good |-> ...]: what the last call returned

vars == <<store, opened, reply>>

Answer(code) == [code |-> code, good |-> FALSE]
OK == Answer("SSD_OK")
Refusals == {Answer("SSD_ERR_NO_INVALID_BLOCKS"), Answer("error")}

Init ==
  /\ store = [i \in Ids |-> "absent"]
  /\ opened = TRUE
  /\ reply = OK

Write(id) ==
  /\ opened
  /\ UNCHANGED opened
  /\ \/ /\ store[id] # "absent"
        /\ reply' = Answer("SSD_ID_ALREADY_EXIST")
        /\ UNCHANGED store
     \/ /\ store[id] = "absent"
        /\ reply' \in Refusals
        /\ UNCHANGED store
     \/ /\ store[id] = "absent"
        /\ reply' = OK
        /\ store' = [store EXCEPT ![id] = "data"]

(***************************************************************************)
(* A successful read of an id with data returns good data.                 *)
(***************************************************************************)
Read(id) ==
  /\ opened
  /\ UNCHANGED <<store, opened>>
  /\ \/ store[id] = "absent" /\ reply' = Answer("SSD_ID_NO_EXIST")
     \/ store[id] # "absent" /\ reply' = Answer("error")
     \/ store[id] = "data" /\ reply' = [code |-> "SSD_OK", good |-> TRUE]
     \/ store[id] = "unsure" /\ reply' = OK

Delete(id) ==
  /\ opened
  /\ UNCHANGED opened
  /\ \/ /\ store[id] = "absent"
        /\ reply' = Answer("SSD_ID_NO_EXIST")
        /\ UNCHANGED store
     \/ /\ store[id] # "absent"
        /\ reply' = OK
        /\ store' = [store EXCEPT ![id] = "absent"]
     \/ /\ store[id] # "absent"
        /\ reply' = Answer("error")
        /\ \E s \in {store[id], "unsure"} : store' = [store EXCEPT ![id] = s]

(***************************************************************************)
(* Marking the bad blocks of an id drops the id; the request may still     *)
(* fail after the id is gone.                                              *)
(***************************************************************************)
MarkBad(id) ==
  /\ opened
  /\ UNCHANGED opened
  /\ \/ /\ reply' \in {Answer("SSD_ID_NO_EXIST"), Answer("SSD_ERR_NOT_BAD_BLOCK"),
                       Answer("error")}
        /\ UNCHANGED store
     \/ /\ store[id] # "absent"
        /\ reply' \in {OK, Answer("error")}
        /\ store' = [store EXCEPT ![id] = "absent"]
     \/ /\ store[id] # "absent"
        /\ reply' = Answer("error")
        /\ store' = [store EXCEPT ![id] = "unsure"]

Close ==
  /\ opened
  /\ UNCHANGED store
  /\ \/ reply' = OK /\ opened' = FALSE
     \/ reply' = Answer("error") /\ UNCHANGED opened

Open ==
  /\ ~opened
  /\ UNCHANGED store
  /\ \/ reply' = OK /\ opened' = TRUE
     \/ reply' = Answer("error") /\ UNCHANGED opened

(***************************************************************************)
(* Initialising the card drops every id; when it fails half way the        *)
(* contents of the ids that are still listed are lost or not.              *)
(***************************************************************************)
OpenNew ==
  /\ ~opened
  /\ \/ /\ reply' = OK
        /\ opened' = TRUE
        /\ store' = [i \in Ids |-> "absent"]
     \/ /\ reply' = Answer("error")
        /\ UNCHANGED opened
        /\ \E lost \in SUBSET {i \in Ids : store[i] # "absent"} :
             store' = [i \in Ids |-> IF i \in lost THEN "unsure" ELSE store[i]]

Next ==
  \/ \E id \in Ids : Write(id) \/ Read(id) \/ Delete(id) \/ MarkBad(id)
  \/ Close
  \/ Open
  \/ OpenNew

Spec == Init /\ [][Next]_vars
=============================================================================
