------------------------------ MODULE FlushMeta ------------------------------
(***************************************************************************)
(* How the driver makes its tables durable.  A flush writes the table data *)
(* block by block, each block twice, along a ring of reserved positions,   *)
(* and then one page of metadata that says where the table data is, once   *)
(* per plane, along a ring of reserved blocks: a block is filled page by   *)
(* page and erased plane by plane when the ring comes round to it.         *)
(* Opening the card searches the metadata ring for the latest page.        *)
(*                                                                         *)
(* One step is one table block with its duplicate, or one plane of a       *)
(* metadata page; the power may fail between any two steps.  flush_sema    *)
(* keeps a second flush out, so one flush is in progress at a time.        *)
(***************************************************************************)
EXTENDS Integers, FiniteSets

CONSTANTS
  NMeta,        \* META_BITMAP_SIZE, blocks of the metadata ring (10)
  NPages,       \* SSD_PAGES_PER_BLOCK
  NPlanes,      \* SSD_MAX_PLANES (4)
  MinDuplicate, \* SSD_MIN_META_DUPLICATE (3)
  MetaRetry,    \* SSD_MAX_FLUSH_META_RETRY (3)
  NTable,       \* TABLE_BITMAP_SIZE, positions of the table ring (420)
  BlockNums,    \* how many blocks a flush may need, 1 .. SSD_MAX_FLUSH_BLOCK
  TableRetry,   \* SSD_MAX_FLUSH_TABLE_RETRY (5)
  Erased,       \* contents of an erased page or block
  Dirty,        \* contents of a page or block that cannot be read
  MaxFlushes,   \* bound: flush calls
  MaxFaults,    \* bound: failed flash operations
  MaxCrashes,   \* bound: power failures
  MaxReads      \* bound: calls of SSD_read_flush

ASSUME FlushAssumption ==
  /\ {NMeta, NPages, NPlanes, MetaRetry, NTable, TableRetry} \subseteq Nat \ {0}
  /\ MinDuplicate \in 1 .. NPlanes
  /\ BlockNums \subseteq 1 .. NTable /\ BlockNums # {}
  /\ {MaxFlushes, MaxFaults, MaxCrashes, MaxReads} \subseteq Nat
  /\ Erased # Dirty

MetaBlocks == 0 .. (NMeta - 1)
Pages == 0 .. (NPages - 1)
Planes == 0 .. (NPlanes - 1)
TablePos == 0 .. (NTable - 1)
Duplicates == 0 .. 1                                          \* TABLE_DUPLICATE
TableBlocks == {i \in 0 .. NTable : \E n \in BlockNums : i < n}

Magics == {"FLUSH_MAGIC_NORMAL", "FLUSH_MAGIC_CLOSE"}

(***************************************************************************)
(* struct ssd_metadata.  snap stands for timestamp, id_num and the other   *)
(* fields that describe the tables: it is the number of the flush call.    *)
(* num is 1 on a new card.                                                 *)
(***************************************************************************)
Metadata == [magic : Magics, num : BlockNums \cup {1}, version : Nat, snap : Nat,
             pos : [TableBlocks -> TablePos]]

VARIABLES
  pages,    \* the metadata ring, by block, plane and page
  table,    \* the table ring, by duplicate and position: <<flush, block>>
  meta,     \* sdev->meta
  metaPos,  \* sdev->meta_pos, [block, page]
  opened,   \* g_opened_flag = SSD_OPENED
  flush,    \* progress of the flush that holds flush_sema
  calls,    \* number of flush calls so far
  acked,    \* the last flush that returned SSD_OK, 0 when there is none
  sure,     \* every open so far met an orderly ring, no old version was read
  faults, crashes, reads

ring == <<pages, metaPos>>
bounds == <<faults, crashes, reads>>
vars == <<ring, table, meta, opened, flush, calls, acked, sure, bounds>>

Idle == [step |-> "idle"]
-----------------------------------------------------------------------------
(***************************************************************************)
(* Positions.                                                              *)
(***************************************************************************)
find_new_table_pos(cur) == (cur + 1) % NTable

find_new_meta_block(block) == (block + 1) % NMeta

find_new_meta_pos_same_page(at, success) ==
  IF ~success \/ at.page = NPages - 1
  THEN [block |-> find_new_meta_block(at.block), page |-> 0]
  ELSE at

find_new_meta_pos(at, success) ==
  IF ~success \/ at.page = NPages - 1
  THEN [block |-> find_new_meta_block(at.block), page |-> 0]
  ELSE [at EXCEPT !.page = @ + 1]
-----------------------------------------------------------------------------
(***************************************************************************)
(* The search for the latest metadata.  metadata_check_val looks at the    *)
(* magic only.                                                             *)
(***************************************************************************)
Valid(b, p, q) == pages[b][p][q] \notin {Erased, Dirty}

\* the version search_block_metadata sees in a block: page 0 of its first valid plane
BlockVersions(b) ==
  {pages[b][p][0].version : p \in {p \in Planes : /\ Valid(b, p, 0)
                                                  /\ \A o \in 0 .. (p - 1) : ~Valid(b, o, 0)}}

search_block_metadata ==
  {b \in MetaBlocks : \E v \in BlockVersions(b) :
     \A c \in MetaBlocks : \A w \in BlockVersions(c) : w < v \/ (w = v /\ b <= c)}

\* the pages of a block that pass metadata_check_val
Shown(b) == {at \in [plane : Planes, page : Pages] : Valid(b, at.plane, at.page)}

search_page_metadata_bottom_up(b) ==
  {[block |-> b, page |-> at.page, meta |-> pages[b][at.plane][at.page]] :
     at \in {x \in Shown(b) : \A y \in Shown(b) :
              x.page < y.page \/ (x.page = y.page /\ x.plane <= y.plane)}}

\* the last page, and the first plane that shows it
search_page_metadata(b) ==
  {[block |-> b, page |-> at.page, meta |-> pages[b][at.plane][at.page]] :
     at \in {x \in Shown(b) : \A y \in Shown(b) :
              y.page < x.page \/ (y.page = x.page /\ x.plane <= y.plane)}}

ssd_search_metadata == UNION {search_page_metadata(b) : b \in search_block_metadata}

(***************************************************************************)
(* ssd_read_flush_tabledata: the contents of each table block, from its    *)
(* first duplicate that can be read; empty when some block has none.       *)
(***************************************************************************)
ssd_read_flush_tabledata(m) ==
  LET Readable(i) == {d \in Duplicates : table[d][m.pos[i]] # Dirty}
      Chosen(i) == CHOOSE d \in Readable(i) : \A e \in Readable(i) : d <= e
  IN IF \E i \in 0 .. (m.num - 1) : Readable(i) = {} THEN {}
     ELSE {[i \in 0 .. (m.num - 1) |-> table[Chosen(i)][m.pos[i]]]}
-----------------------------------------------------------------------------
(***************************************************************************)
(* ssd_sys_flush begins: the tables are copied (an error there ends the    *)
(* flush before it has changed anything) and flush_tabledata starts from   *)
(* the last position in the metadata.                                      *)
(***************************************************************************)
ssd_sys_flush(type, num) ==
  /\ opened
  /\ flush = Idle
  /\ calls < MaxFlushes
  /\ calls' = calls + 1
  /\ flush' = [step |-> "table", type |-> type, num |-> num, block |-> 0, tries |-> 0,
               cur |-> meta.pos[meta.num - 1]]
  /\ UNCHANGED <<ring, table, meta, opened, acked, sure, bounds>>

(***************************************************************************)
(* update_meta, and the first find_new_meta_pos of flush_metadata, which   *)
(* starts every flush as after a success.                                  *)
(***************************************************************************)
update_meta_same_version(pos) ==
  /\ meta' = [magic |-> flush.type, num |-> flush.num, version |-> meta.version,
              snap |-> calls, pos |-> pos]
  /\ metaPos' = find_new_meta_pos(metaPos, TRUE)
  /\ flush' = [step |-> "meta", type |-> flush.type, tries |-> 0, plane |-> 0, good |-> 0]

update_meta(pos) ==
  /\ meta' = [magic |-> flush.type, num |-> flush.num, version |-> meta.version + 1,
              snap |-> calls, pos |-> pos]
  /\ metaPos' = find_new_meta_pos(metaPos, TRUE)
  /\ flush' = [step |-> "meta", type |-> flush.type, tries |-> 0, plane |-> 0, good |-> 0]

(***************************************************************************)
(* One try of retry_write_tabledata_block: both duplicates of the next     *)
(* position are erased, written and read back.  The positions in the       *)
(* metadata follow at once, the rest of it after the last block.           *)
(***************************************************************************)
write_tabledata_block_duplicate ==
  /\ flush.step = "table"
  /\ LET at  == find_new_table_pos(flush.cur)
         new == <<calls, flush.block>>
         pos == [meta.pos EXCEPT ![flush.block] = at]
     IN \/ /\ table' = [d \in Duplicates |-> [table[d] EXCEPT ![at] = new]]
           /\ IF flush.block = flush.num - 1
              THEN update_meta(pos)
              ELSE /\ meta' = [meta EXCEPT !.pos = pos]
                   /\ flush' = [flush EXCEPT !.block = @ + 1, !.tries = 0, !.cur = at]
                   /\ UNCHANGED metaPos
           /\ UNCHANGED faults
        \/ /\ faults < MaxFaults
           /\ faults' = faults + 1
           /\ \E d \in Duplicates, c \in {Erased, Dirty, new} :
                table' = [e \in Duplicates |->
                            [table[e] EXCEPT ![at] = IF e < d THEN new ELSE IF e = d THEN c ELSE @]]
           /\ flush' = IF flush.tries + 1 = TableRetry THEN Idle
                       ELSE [flush EXCEPT !.tries = @ + 1, !.cur = at]
           /\ UNCHANGED <<meta, metaPos>>
  /\ UNCHANGED <<pages, opened, calls, acked, sure, crashes, reads>>

(***************************************************************************)
(* The contents one plane of the block at metaPos can be left with when    *)
(* write_meta_page succeeds and when it fails: at the erase (page 0 only), *)
(* which leaves the plane unreadable or as it was; at the write; or at the *)
(* read of a page that was written.  To the search an unreadable page and  *)
(* one that shows no magic are the same, Dirty stands for both.            *)
(***************************************************************************)
Programmed(plane, contents) ==
  [(IF metaPos.page = 0 THEN [q \in Pages |-> Erased] ELSE plane)
     EXCEPT ![metaPos.page] = contents]

FailedPlanes(plane) ==
  {Programmed(plane, c) : c \in {Dirty, meta}}
    \cup (IF metaPos.page = 0 THEN {plane, [q \in Pages |-> Dirty]} ELSE {})

(***************************************************************************)
(* The end of write_metadata_page_duplicate after its last plane:          *)
(* flush_metadata breaks out of its loop, goes on to the next block or     *)
(* gives up; ssd_sys_close closes the card after a successful close flush. *)
(***************************************************************************)
LastTry == flush.tries + 1 = MetaRetry

flush_metadata(good) ==
  \/ /\ good >= MinDuplicate
     /\ flush' = Idle
     /\ acked' = calls
     /\ opened' = (flush.type # "FLUSH_MAGIC_CLOSE")
     /\ UNCHANGED metaPos
  \/ /\ good < MinDuplicate
     /\ ~LastTry
     /\ metaPos' = find_new_meta_pos(metaPos, FALSE)
     /\ flush' = [flush EXCEPT !.tries = @ + 1, !.plane = 0, !.good = 0]
     /\ UNCHANGED <<acked, opened>>
  \/ /\ good < MinDuplicate
     /\ LastTry
     /\ flush' = Idle
     /\ UNCHANGED <<acked, opened, metaPos>>

PlaneDone(good) ==
  IF flush.plane = NPlanes - 1
  THEN flush_metadata(good)
  ELSE /\ flush' = [flush EXCEPT !.plane = @ + 1, !.good = good]
       /\ UNCHANGED <<acked, opened, metaPos>>

write_meta_page ==
  /\ flush.step = "meta"
  /\ LET plane == pages[metaPos.block][flush.plane]
     IN \/ /\ pages' = [pages EXCEPT ![metaPos.block][flush.plane] = Programmed(plane, meta)]
           /\ PlaneDone(flush.good + 1)
           /\ UNCHANGED faults
        \/ /\ faults < MaxFaults
           /\ faults' = faults + 1
           /\ \E c \in FailedPlanes(plane) :
                pages' = [pages EXCEPT ![metaPos.block][flush.plane] = c]
           /\ PlaneDone(flush.good)
  /\ UNCHANGED <<table, meta, calls, sure, crashes, reads>>
-----------------------------------------------------------------------------
(***************************************************************************)
(* Four marks a disturbed flush can leave on the metadata ring.  A block   *)
(* is mixed when a page of it is older than another plane's page with the  *)
(* same or a smaller number: a plane was not erased when the ring came     *)
(* round.  Two blocks are twins when their first pages show one version:   *)
(* the first try of a flush failed on page 0 but not in every plane.  A    *)
(* block is headless when a later flush has used it although its page 0    *)
(* failed in every plane.  It is overtaken by another block when that      *)
(* one's first page is newer than its own but not newer than all of its    *)
(* pages: a later flush has used it although its page 0 failed and left    *)
(* an old one in sight.                                                    *)
(***************************************************************************)
Mixed(b) ==
  \E p, o \in Planes, q \in Pages : \E r \in 0 .. q :
    Valid(b, p, q) /\ Valid(b, o, r) /\ pages[b][p][q].version < pages[b][o][r].version

Twins(b, c) == b # c /\ BlockVersions(b) \cap BlockVersions(c) # {}

Headless(b) == BlockVersions(b) = {} /\ \E p \in Planes, q \in Pages : Valid(b, p, q)

Overtaken(b, c) ==
  \E v \in BlockVersions(b), w \in BlockVersions(c), p \in Planes, q \in Pages :
    v < w /\ Valid(b, p, q) /\ w <= pages[b][p][q].version

Orderly ==
  \A b \in MetaBlocks :
    ~Mixed(b) /\ ~Headless(b) /\ \A c \in MetaBlocks : ~Twins(b, c) /\ ~Overtaken(b, c)

(***************************************************************************)
(* ssd_sys_init as ssd_sys_open calls it.  The metadata that was found     *)
(* stays in memory even when the open is refused: because a table block    *)
(* cannot be read, or because the last flush was not a close (-44).  A     *)
(* read that times out refuses the open and changes nothing that lasts.    *)
(***************************************************************************)
ssd_sys_init ==
  /\ ~opened
  /\ flush = Idle
  /\ \E found \in ssd_search_metadata :
       /\ meta' = found.meta
       /\ metaPos' = [block |-> found.block, page |-> found.page]
       /\ opened' = /\ ssd_read_flush_tabledata(found.meta) # {}
                    /\ found.meta.magic = "FLUSH_MAGIC_CLOSE"
  /\ sure' = (sure /\ Orderly)
  /\ UNCHANGED <<pages, table, flush, calls, acked, bounds>>

(***************************************************************************)
(* ssd_read_flush, for a tool that saves an old version: it asks for one   *)
(* page of one block, here of the first plane.  That page becomes the      *)
(* metadata in memory, its place the place the next flush goes on from,    *)
(* whether the card is open, closed or being flushed.                      *)
(***************************************************************************)
ssd_read_flush(b, q) ==
  /\ reads < MaxReads
  /\ reads' = reads + 1
  /\ Valid(b, 0, q)
  /\ meta' = [pages[b][0][q] EXCEPT !.magic = "FLUSH_MAGIC_CLOSE"]
  /\ metaPos' = [block |-> b, page |-> q]
  /\ sure' = /\ sure /\ Orderly
             /\ flush = Idle
             /\ [block |-> b, page |-> q, meta |-> pages[b][0][q]] \in ssd_search_metadata
  /\ UNCHANGED <<pages, table, opened, flush, calls, acked, faults, crashes>>

(***************************************************************************)
(* ssd_sys_init_newcard: the reserved blocks are erased with all others,   *)
(* in the order of their physical addresses (calc_phyblock: planes 0 and 1 *)
(* of every block, then planes 2 and 3), before the table blocks, which    *)
(* lie on later channels; then ssd_init_meta puts the first flush on page  *)
(* 0 of block 1.  A failing erase ends it and leaves the card closed.      *)
(***************************************************************************)
NewMeta == [magic |-> "FLUSH_MAGIC_NORMAL", num |-> 1, version |-> 1, snap |-> 0,
            pos |-> [i \in TableBlocks |-> 0]]
NewMetaPos == [block |-> 0, page |-> NPages - 1]
ErasedPlane == [q \in Pages |-> Erased]
ErasedPages == [b \in MetaBlocks |-> [p \in Planes |-> ErasedPlane]]
ErasedTable == [d \in Duplicates |-> [t \in TablePos |-> Erased]]

EraseRank(b, p) == 2 * NMeta * (p \div 2) + 2 * b + (p % 2)

ssd_sys_init_newcard ==
  /\ ~opened
  /\ \/ /\ pages' = ErasedPages
        /\ table' = ErasedTable
        /\ meta' = NewMeta
        /\ metaPos' = NewMetaPos
        /\ opened' = TRUE
        /\ sure' = TRUE
        /\ UNCHANGED faults
     \/ /\ faults < MaxFaults
        /\ faults' = faults + 1
        /\ \E b \in MetaBlocks, p \in Planes :
             \E c \in {pages[b][p], [q \in Pages |-> Dirty]} :
               pages' = [a \in MetaBlocks |-> [o \in Planes |->
                           IF EraseRank(a, o) < EraseRank(b, p) THEN ErasedPlane
                           ELSE IF <<a, o>> = <<b, p>> THEN c ELSE pages[a][o]]]
        /\ UNCHANGED <<table, meta, metaPos, opened, sure>>
  /\ acked' = 0
  /\ UNCHANGED <<flush, calls, crashes, reads>>

(***************************************************************************)
(* The power fails, in the middle of a flush or outside one.               *)
(***************************************************************************)
Crash ==
  /\ opened
  /\ crashes < MaxCrashes
  /\ crashes' = crashes + 1
  /\ opened' = FALSE
  /\ flush' = Idle
  /\ UNCHANGED <<ring, table, meta, calls, acked, sure, faults, reads>>

Init ==
  /\ pages = ErasedPages
  /\ table = ErasedTable
  /\ meta = NewMeta
  /\ metaPos = NewMetaPos
  /\ opened = TRUE
  /\ flush = Idle
  /\ calls = 0
  /\ acked = 0
  /\ sure = TRUE
  /\ faults = 0
  /\ crashes = 0
  /\ reads = 0

Next ==
  \/ \E type \in Magics, num \in BlockNums : ssd_sys_flush(type, num)
  \/ write_tabledata_block_duplicate
  \/ write_meta_page
  \/ ssd_sys_init
  \/ \E b \in MetaBlocks, q \in Pages : ssd_read_flush(b, q)
  \/ ssd_sys_init_newcard
  \/ Crash

Spec == Init /\ [][Next]_vars
-----------------------------------------------------------------------------
(***************************************************************************)
(* What the search of the next open finds now: the last acknowledged flush *)
(* or a later one, with all of its table data.                             *)
(***************************************************************************)
LatestFound ==
  acked # 0 =>
    \E found \in ssd_search_metadata :
      /\ found.meta.snap >= acked
      /\ ssd_read_flush_tabledata(found.meta)
           = {[i \in 0 .. (found.meta.num - 1) |-> <<found.meta.snap, i>>]}

(***************************************************************************)
(* ssd_sys_open of a card that is not open, after a close or a crash,      *)
(* works on the latest flush ("ssd is open but latest flush data is not    *)
(* normal close!" is its complaint about that flush).                      *)
(***************************************************************************)
OpensLatest == ~opened => LatestFound

(***************************************************************************)
(* At every moment, in the middle of a flush, after failed flushes and     *)
(* after a crash included, the next open finds the last acknowledged flush *)
(* or a later one, complete, unless the ring shows one of the four marks.  *)
(* That is so for fewer failures in a row than it takes to come round one  *)
(* of the rings: failed flushes move along both, and enough of them after  *)
(* an acknowledged one erase it.                                           *)
(***************************************************************************)
Recoverable == sure /\ Orderly => LatestFound

(***************************************************************************)
(* A version number identifies a flush: two metadata pages with the same   *)
(* version are copies, whatever failed and however often the ring and the  *)
(* counter in memory were reloaded.                                        *)
(***************************************************************************)
VersionIdentifies ==
  LET stored == {pages[b][p][q] : b \in MetaBlocks, p \in Planes, q \in Pages} \ {Erased, Dirty}
  IN sure => \A m, n \in stored : m.version = n.version => m = n
=============================================================================
