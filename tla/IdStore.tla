------------------------------- MODULE IdStore -------------------------------
(***************************************************************************)
(* One channel of the card as the driver keeps it: the id hash table, the  *)
(* two free-area bitmaps with the untouched tail behind current_free_area, *)
(* the free-block count and the contents of the logical blocks.  The       *)
(* channel semaphore is held from the first to the last step of every id   *)
(* request, so a request is one action; id2channel sends an id to one      *)
(* channel for ever and channels share none of this state.                 *)
(*                                                                         *)
(* The users' library refuses id requests while the card is not open, so   *)
(* id requests are enabled only when it is.                                *)
(***************************************************************************)
EXTENDS BlockMaps

CONSTANTS
  Ids,      \* block ids of this channel
  Erased,   \* contents of an erased logical block
  Dirty     \* contents left by a failed program or erase operation

ASSUME ContentsAssumption == Erased \notin Ids /\ Dirty \notin Ids /\ Erased # Dirty

VARIABLES
  hash,     \* nodes of the id hash table, {[id, block, len]}
  fabI,     \* free blocks of fab[IBLOCK]
  fabD,     \* starts of the free runs of fab[DBLOCK]
  current,  \* current_free_area
  free,     \* sdev->free_blocks
  stat,     \* free_blocks[], the copy shown in /proc
  flash,    \* contents of every logical block
  opened,   \* g_opened_flag = SSD_OPENED
  saved,    \* the id table of the last close flush
  reply     \* code returned by the last request, and whether the buffer of
            \* a read holds what was written under the id

area == <<fabI, fabD, current, free>>
vars == <<hash, area, stat, flash, opened, saved, reply>>

Nodes == [id : Ids, block : Blocks, len : Types]
Held(n) == Extent(n.block, n.len)
Owned(nodes) == UNION {Held(n) : n \in nodes}
Contents == Ids \cup {Erased, Dirty}

Codes == {"SSD_OK", "SSD_ID_ALREADY_EXIST", "SSD_ID_NO_EXIST", "SSD_ERR_NO_INVALID_BLOCKS",
          "SSD_ERR_NOT_BAD_BLOCK", "error"}
Replies == [code : Codes, good : BOOLEAN]
Answer(code) == [code |-> code, good |-> FALSE]
OK == Answer("SSD_OK")
-----------------------------------------------------------------------------
(***************************************************************************)
(* The id hash table: looking an id up, linking a node and unlinking the   *)
(* node of an id.                                                          *)
(***************************************************************************)
get_id_info_no_block_0(id) == {n \in hash : n.id = id /\ n.block # 0}
get_id_info(id) == {n \in hash : n.id = id}

set_id_info(nodes, n) == nodes \cup {n}

del_id_info(n) == hash \ {n}
-----------------------------------------------------------------------------
(***************************************************************************)
(* The flash behind channel_op.  A failed program operation leaves each    *)
(* block of its extent erased or dirty, a failed erase leaves it erased,   *)
(* dirty or as it was.                                                     *)
(***************************************************************************)
Holding_misses_the_last(E, contents) ==
  [b \in Blocks |-> IF b \in E /\ b + 1 \in E THEN contents ELSE flash[b]]
Holding_erases_one_less(E, contents) ==
  [b \in Blocks |-> IF b \in E /\ (contents # Erased \/ b + 1 \in E) THEN contents ELSE flash[b]]
Holding(E, contents) == [b \in Blocks |-> IF b \in E THEN contents ELSE flash[b]]

TornWrite(E) == {[b \in Blocks |-> IF b \in K THEN Erased
                                   ELSE IF b \in E THEN Dirty ELSE flash[b]] : K \in SUBSET E}

TornErase(E) == {[b \in Blocks |-> IF b \in K THEN Erased
                                   ELSE IF b \in L THEN Dirty ELSE flash[b]] :
                   K \in SUBSET E, L \in SUBSET E}
-----------------------------------------------------------------------------
(***************************************************************************)
(* ssd_alloc_logic_block: the allocation of one block of the given type,   *)
(* as a set holding the block and the maps it leaves, empty on failure.    *)
(* An index block comes from its map, else from the first data run split   *)
(* (bitmap_split), else from the tail.  A data block comes from its map,   *)
(* else from the tail, else from the index runs merged (bitmap_merge).     *)
(***************************************************************************)
bitmap_split ==
  LET d == Least(fabD)
  IN [index |-> d, fabI |-> Extent(d, DBLOCK) \ {d}, fabD |-> fabD \ {d}, current |-> current]

bitmap_merge_keeps_index_bits ==
  LET merged == Runs(fabI)
      d == Least(merged)
  IN [index |-> d, fabI |-> fabI, fabD |-> merged \ {d}, current |-> current]

bitmap_merge ==
  LET merged == Runs(fabI)
      d == Least(merged)
  IN [index |-> d, fabI |-> fabI \ Covered(merged), fabD |-> merged \ {d}, current |-> current]

FromTail(type) ==
  [index |-> current, fabI |-> fabI, fabD |-> fabD, current |-> current + BlockSize(type)]

AllocI_wastes_the_last_block ==
  IF fabI # {} THEN {[index |-> Least(fabI), fabI |-> fabI \ {Least(fabI)}, fabD |-> fabD,
                      current |-> current]}
  ELSE IF fabD # {} THEN {bitmap_split}
  ELSE IF current + BlockSize(IBLOCK) < NBlocks THEN {FromTail(IBLOCK)}
  ELSE {}

AllocI ==
  IF fabI # {} THEN {[index |-> Least(fabI), fabI |-> fabI \ {Least(fabI)}, fabD |-> fabD,
                      current |-> current]}
  ELSE IF fabD # {} THEN {bitmap_split}
  ELSE IF current + BlockSize(IBLOCK) <= NBlocks THEN {FromTail(IBLOCK)}
  ELSE {}

AllocD ==
  IF fabD # {} THEN {[index |-> Least(fabD), fabI |-> fabI, fabD |-> fabD \ {Least(fabD)},
                      current |-> current]}
  ELSE IF current + BlockSize(DBLOCK) <= NBlocks THEN {FromTail(DBLOCK)}
  ELSE IF Runs(fabI) # {} THEN {bitmap_merge}
  ELSE {}

ssd_alloc_logic_block(type) == IF type = IBLOCK THEN AllocI ELSE AllocD

(***************************************************************************)
(* delete_logic_block: the first bit of the extent is cleared in the map   *)
(* of its type.  I and D are the maps it starts from.                      *)
(***************************************************************************)
delete_logic_block(I, D, start, type) ==
  /\ fabI' = IF type = IBLOCK THEN I \cup {start} ELSE I
  /\ fabD' = IF type = DBLOCK THEN D \cup {start} ELSE D
-----------------------------------------------------------------------------
(***************************************************************************)
(* ssd_id_write.  The copy from the user and the five tries to program the *)
(* blocks (each failure followed by an erase, which must succeed for the   *)
(* next try) end with the data on flash or with a torn extent that goes    *)
(* back to the map of its type.  stat is copied before the outcome is      *)
(* known.                                                                  *)
(***************************************************************************)
ssd_id_write(id, type) ==
  /\ opened
  /\ UNCHANGED <<opened, saved>>
  /\ \/ /\ get_id_info(id) # {}
        /\ reply' = Answer("SSD_ID_ALREADY_EXIST")
        /\ UNCHANGED <<hash, area, stat, flash>>
     \/ /\ get_id_info(id) = {}
        /\ ssd_alloc_logic_block(type) = {}
        /\ reply' = Answer("SSD_ERR_NO_INVALID_BLOCKS")
        /\ UNCHANGED <<hash, area, stat, flash>>
     \/ /\ get_id_info(id) = {}
        /\ \E a \in ssd_alloc_logic_block(type) :
             /\ hash' = set_id_info(hash, [id |-> id, block |-> a.index, len |-> type])
             /\ flash' = Holding(Extent(a.index, type), id)
             /\ fabI' = a.fabI
             /\ fabD' = a.fabD
             /\ current' = a.current
        /\ free' = free - BlockSize(type)
        /\ stat' = free'
        /\ reply' = OK
     \/ /\ get_id_info(id) = {}
        /\ \E a \in ssd_alloc_logic_block(type) :
             /\ flash' \in TornWrite(Extent(a.index, type))
             /\ delete_logic_block(a.fabI, a.fabD, a.index, type)
             /\ current' = a.current
        /\ stat' = free - BlockSize(type)
        /\ free' = free - BlockSize(type) + BlockSize(type)
        /\ reply' = Answer("error")
        /\ UNCHANGED hash

(***************************************************************************)
(* check_id_info: the bounds check on a node of the table before its       *)
(* extent is read or erased.                                               *)
(***************************************************************************)
check_id_info(n) ==
  /\ n.block < NBlocks
  /\ n.len \in Types
  /\ n.block + BlockSize(n.len) <= NBlocks

(***************************************************************************)
(* ssd_id_read.  A failed channel operation or copy to the user is an      *)
(* error.                                                                  *)
(***************************************************************************)
ssd_id_read(id) ==
  /\ opened
  /\ UNCHANGED <<hash, area, stat, flash, opened, saved>>
  /\ \/ /\ get_id_info(id) = {}
        /\ reply' = Answer("SSD_ID_NO_EXIST")
     \/ \E n \in get_id_info(id) :
          /\ \/ reply' = Answer("error")
             \/ /\ check_id_info(n)
                /\ reply' = [code |-> "SSD_OK", good |-> \A b \in Held(n) : flash[b] = id]

(***************************************************************************)
(* ssd_id_delete: the node leaves the table, the extent is erased and goes *)
(* back to its map.  When the check of the node or the erase fails the     *)
(* node is put back.                                                       *)
(***************************************************************************)
ssd_id_delete(id) ==
  /\ opened
  /\ UNCHANGED <<current, opened, saved>>
  /\ \/ /\ get_id_info(id) = {}
        /\ reply' = Answer("SSD_ID_NO_EXIST")
        /\ UNCHANGED <<hash, fabI, fabD, free, stat, flash>>
     \/ \E n \in get_id_info(id) :
          /\ check_id_info(n)
          /\ hash' = del_id_info(n)
          /\ flash' = Holding(Held(n), Erased)
          /\ delete_logic_block(fabI, fabD, n.block, n.len)
          /\ free' = free + BlockSize(n.len)
          /\ stat' = free'
          /\ reply' = OK
     \/ \E n \in get_id_info(id) :
          /\ hash' = set_id_info(del_id_info(n), n)
          /\ flash' \in TornErase(Held(n))
          /\ reply' = Answer("error")
          /\ UNCHANGED <<fabI, fabD, free, stat>>

(***************************************************************************)
(* ssd_mark_bad_block of an id.  When a block cannot be read the id is     *)
(* dropped as by a delete, without the copy to stat; the table operations  *)
(* that follow may fail.                                                   *)
(***************************************************************************)
ssd_mark_bad_block(id) ==
  /\ opened
  /\ UNCHANGED <<current, stat, opened, saved>>
  /\ \/ /\ get_id_info(id) = {}
        /\ reply' = Answer("SSD_ID_NO_EXIST")
        /\ UNCHANGED <<hash, fabI, fabD, free, flash>>
     \/ /\ get_id_info(id) # {}
        /\ reply' \in {Answer("SSD_ERR_NOT_BAD_BLOCK"), Answer("error")}
        /\ UNCHANGED <<hash, fabI, fabD, free, flash>>
     \/ \E n \in get_id_info(id) :
          /\ hash' = del_id_info(n)
          /\ flash' = Holding(Held(n), Erased)
          /\ delete_logic_block(fabI, fabD, n.block, n.len)
          /\ free' = free + BlockSize(n.len)
          /\ reply' \in {OK, Answer("error")}
     \/ \E n \in get_id_info(id) :
          /\ hash' = set_id_info(del_id_info(n), n)
          /\ flash' \in TornErase(Held(n))
          /\ reply' = Answer("error")
          /\ UNCHANGED <<fabI, fabD, free>>
-----------------------------------------------------------------------------
(***************************************************************************)
(* free_blocks as ssd_reload_bitmap counts it: the blocks behind the last  *)
(* used one and what the two scans found.                                  *)
(***************************************************************************)
ReloadFree_runs_only(size, runs, rest) == NBlocks - size + DSize * Cardinality(runs)
ReloadFree(size, runs, rest) == NBlocks - size + DSize * Cardinality(runs) + Cardinality(rest)

(***************************************************************************)
(* ssd_reload_bitmap from a rebuilt id table: the tail starts behind the   *)
(* last used block and the pre-allocated areas, which exist only while the *)
(* last used block lies in the first half; the holes before the last used  *)
(* block become data runs first, index blocks with what is left.           *)
(***************************************************************************)
UsedSize(used) == Least({s \in 0 .. NBlocks : used \subseteq 0 .. (s - 1)})    \* end + 1

PreSize(size) == IF size - 1 < NBlocks \div 2 THEN PreAlloc ELSE 0

ssd_reload_bitmap(nodes) ==
  LET size  == UsedSize(Owned(nodes))
      pre   == PreSize(size)
      holes == (0 .. (size - 1)) \ Owned(nodes)
      runs  == Runs(holes)
      rest  == holes \ Covered(runs)
  IN /\ fabI' = PreI(size, pre) \cup rest
     /\ fabD' = PreD(size, pre) \cup runs
     /\ current' = size + pre + pre * DSize
     /\ free' = ReloadFree(size, runs, rest)

(***************************************************************************)
(* ssd_sys_close: the close flush saves the id table; when it fails the    *)
(* card stays open.                                                        *)
(***************************************************************************)
ssd_sys_close ==
  /\ opened
  /\ UNCHANGED <<area, stat, flash>>
  /\ \/ /\ saved' = hash
        /\ hash' = {}
        /\ opened' = FALSE
        /\ reply' = OK
     \/ /\ reply' = Answer("error")
        /\ UNCHANGED <<hash, opened, saved>>

(***************************************************************************)
(* ssd_sys_open of a card that was closed: the id table is rebuilt from    *)
(* the last flush and the bitmaps from the id table, or the card stays     *)
(* closed.                                                                 *)
(***************************************************************************)
ssd_sys_open ==
  /\ ~opened
  /\ UNCHANGED <<flash, saved>>
  /\ \/ /\ hash' = saved
        /\ ssd_reload_bitmap(saved)
        /\ stat' = free'
        /\ opened' = TRUE
        /\ reply' = OK
     \/ /\ reply' = Answer("error")
        /\ UNCHANGED <<hash, area, stat, opened>>

(***************************************************************************)
(* ssd_sys_open_newcard: every block is erased, in an order the address    *)
(* table decides; the first failing erase ends the initialisation and      *)
(* leaves the card closed.                                                 *)
(***************************************************************************)
ssd_sys_open_newcard ==
  /\ ~opened
  /\ \/ /\ hash' = {}
        /\ saved' = {}
        /\ flash' = [b \in Blocks |-> Erased]
        /\ ssd_reload_bitmap({})
        /\ stat' = free'
        /\ opened' = TRUE
        /\ reply' = OK
     \/ /\ \E E \in SUBSET Blocks :
             \/ flash' = Holding(E, Erased)
             \/ \E b \in Blocks \ E : flash' = [Holding(E, Erased) EXCEPT ![b] = Dirty]
        /\ reply' = Answer("error")
        /\ UNCHANGED <<hash, area, stat, opened, saved>>

(***************************************************************************)
(* A card ssd_sys_open_newcard has just initialised for the first time.    *)
(***************************************************************************)
Init ==
  /\ hash = {}
  /\ saved = {}
  /\ fabI = PreI(0, PreAlloc)
  /\ fabD = PreD(0, PreAlloc)
  /\ current = PreAlloc + PreAlloc * DSize
  /\ free = NBlocks
  /\ stat = free
  /\ flash = [b \in Blocks |-> Erased]
  /\ opened = TRUE
  /\ reply = OK

Next ==
  \/ \E id \in Ids, type \in Types : ssd_id_write(id, type)
  \/ \E id \in Ids : ssd_id_read(id) \/ ssd_id_delete(id) \/ ssd_mark_bad_block(id)
  \/ ssd_sys_close
  \/ ssd_sys_open
  \/ ssd_sys_open_newcard

Spec == Init /\ [][Next]_vars
-----------------------------------------------------------------------------
(***************************************************************************)
(* Every variable has its type.                                            *)
(***************************************************************************)
TypeOK ==
  /\ hash \subseteq Nodes
  /\ saved \subseteq Nodes
  /\ fabI \subseteq Blocks
  /\ fabD \subseteq Blocks
  /\ current \in 0 .. NBlocks
  /\ free \in Int
  /\ stat \in Int
  /\ flash \in [Blocks -> Contents]
  /\ opened \in BOOLEAN
  /\ reply \in Replies

(***************************************************************************)
(* While the card is open every logical block in front of                  *)
(* current_free_area is in exactly one place: held by one id, free as an   *)
(* index block, or inside one free data run.  No sequence of allocations,  *)
(* splits, merges, failed writes, deletes and re-opens loses a block or    *)
(* hands it out twice.  The table on flash gives no block to two ids.      *)
(***************************************************************************)
Apart(nodes) == \A m, n \in nodes : m # n => Held(m) \cap Held(n) = {}

RunsDisjoint(D) == \A d, e \in D : d # e => Extent(d, DBLOCK) \cap Extent(e, DBLOCK) = {}

\* nodes, the maps I and D, and the extent E of a request in progress share
\* no block and leave none out below cur
Tiled(nodes, I, D, cur, E) ==
  /\ Apart(nodes)
  /\ RunsDisjoint(D)
  /\ I \cap Owned(nodes) = {}
  /\ Covered(D) \cap (Owned(nodes) \cup I) = {}
  /\ E \cap (Owned(nodes) \cup I \cup Covered(D)) = {}
  /\ Owned(nodes) \cup I \cup Covered(D) \cup E = 0 .. (cur - 1)

SavedSound ==
  /\ Apart(saved)
  /\ Owned(saved) \subseteq Blocks

Partition ==
  /\ opened => Tiled(hash, fabI, fabD, current, {})
  /\ SavedSound

(***************************************************************************)
(* free_blocks counts the blocks that no id holds, although it is only     *)
(* ever moved up and down by block sizes and is computed afresh by a scan  *)
(* when the card is opened.                                                *)
(***************************************************************************)
FreeCount == opened => free = Cardinality(Blocks \ Owned(hash))

(***************************************************************************)
(* The table never lists an id twice, in memory or on flash, so a lookup   *)
(* and a delete find the same node.                                        *)
(***************************************************************************)
UniqueIds ==
  /\ \A m, n \in hash : m.id = n.id => m = n
  /\ \A m, n \in saved : m.id = n.id => m = n

(***************************************************************************)
(* A block that no id holds carries no data: a delete that has answered    *)
(* SSD_OK, or a write that has failed, leaves nothing readable behind.     *)
(***************************************************************************)
FreeNotLive ==
  \A b \in Blocks \ Owned(IF opened THEN hash ELSE saved) : flash[b] \in {Erased, Dirty}

(***************************************************************************)
(* A write is refused for want of blocks only when they are not there: an  *)
(* index block only when every block is held, a data block only when no    *)
(* DSize consecutive free blocks lie on one side of current_free_area.     *)
(***************************************************************************)
RefusalsJustified ==
  opened =>
    /\ ssd_alloc_logic_block(IBLOCK) = {} => Owned(hash) = Blocks
    /\ ssd_alloc_logic_block(DBLOCK) = {} =>
         \A b \in 0 .. (NBlocks - DSize) :
           \/ Extent(b, DBLOCK) \cap Owned(hash) # {}
           \/ b < current /\ current < b + DSize

(***************************************************************************)
(* The channel implements BlockStore: an id has data when every block of   *)
(* its extent still holds what was written under it.                       *)
(***************************************************************************)
Table == IF opened THEN hash ELSE saved

StoreOf(id) ==
  IF \A n \in Table : n.id # id THEN "absent"
  ELSE IF \E n \in Table : n.id = id /\ \A b \in Held(n) : flash[b] = id THEN "data"
  ELSE "unsure"

BS == INSTANCE BlockStore WITH store <- [i \in Ids |-> StoreOf(i)]

(***************************************************************************)
(* Every request answers as BlockStore allows and changes no id but its    *)
(* own, whatever the allocator does with the blocks.                       *)
(***************************************************************************)
StoreSpec == BS!Spec
=============================================================================
