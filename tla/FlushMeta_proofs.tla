--------------------------- MODULE FlushMeta_proofs --------------------------
(***************************************************************************)
(* Version numbers identify flushes, for rings of any size and any number  *)
(* of failures, crashes and reloads.  The counter lives in memory and is   *)
(* reloaded from the page an open finds, so the argument rests on what the *)
(* search finds: the newest page, when the ring is orderly.                *)
(***************************************************************************)
EXTENDS FlushMeta, TLAPS

Stored == {pages[b][p][q] : b \in MetaBlocks, p \in Planes, q \in Pages} \ {Erased, Dirty}

Plane == [Pages -> Metadata \cup {Erased, Dirty}]

PageTypes == pages \in [MetaBlocks -> [Planes -> Plane]]

FlushTypes ==
  /\ flush.step \in {"idle", "table", "meta"}
  /\ flush.step = "idle" => flush = Idle
  /\ flush.step # "idle" => flush.type \in Magics
  /\ flush.step = "table" => /\ flush \in [step : {"table"}, type : Magics, num : BlockNums,
                                           block : TableBlocks, tries : Nat, cur : TablePos]
                             /\ flush.block < flush.num
  /\ flush.step = "meta" => flush \in [step : {"meta"}, type : Magics, tries : Nat,
                                       plane : Planes, good : Nat]

TypeOK ==
  /\ PageTypes
  /\ meta \in Metadata
  /\ metaPos \in [block : MetaBlocks, page : Pages]
  /\ calls \in Nat
  /\ FlushTypes

(***************************************************************************)
(* Whatever the ring looks like, the search finds a page that is on it.    *)
(***************************************************************************)
LEMMA FoundIsStored ==
  ASSUME PageTypes, NEW found \in ssd_search_metadata
  PROVE  found.meta \in Metadata /\ found.block \in MetaBlocks /\ found.page \in Pages
<1>1. PICK c \in MetaBlocks : found \in search_page_metadata(c)
  BY DEF ssd_search_metadata, search_block_metadata
<1>2. PICK at \in Shown(c) :
        found = [block |-> c, page |-> at.page, meta |-> pages[c][at.plane][at.page]]
  BY <1>1 DEF search_page_metadata
<1> QED  BY <1>1, <1>2 DEF Shown, Valid, PageTypes, Plane

(***************************************************************************)
(* The search of an orderly ring finds the newest page: no page in any     *)
(* plane of any block has a larger version.                                *)
(***************************************************************************)
LEMMA SearchFindsNewest ==
  ASSUME PageTypes, Orderly, NEW found \in ssd_search_metadata
  PROVE  /\ found.meta \in Stored
         /\ found.block \in MetaBlocks /\ found.page \in Pages
         /\ \A m \in Stored : m.version <= found.meta.version
<1>1. PICK c \in search_block_metadata : found \in search_page_metadata(c)
  BY DEF ssd_search_metadata
<1>2. c \in MetaBlocks
  BY <1>1 DEF search_block_metadata
<1>3. PICK p1 \in Planes, q1 \in Pages :
        /\ Valid(c, p1, q1)
        /\ \A o \in Planes, r \in Pages : Valid(c, o, r) => r <= q1
        /\ found = [block |-> c, page |-> q1, meta |-> pages[c][p1][q1]]
  <2>1. PICK at \in Shown(c) :
          /\ \A y \in Shown(c) : y.page < at.page \/ (y.page = at.page /\ at.plane <= y.plane)
          /\ found = [block |-> c, page |-> at.page, meta |-> pages[c][at.plane][at.page]]
    BY <1>1 DEF search_page_metadata
  <2>2. \A o \in Planes, r \in Pages : Valid(c, o, r) => r <= at.page
    <3> SUFFICES ASSUME NEW o \in Planes, NEW r \in Pages, Valid(c, o, r)
                 PROVE  r <= at.page
      OBVIOUS
    <3>1. [plane |-> o, page |-> r] \in Shown(c)
      BY DEF Shown
    <3> QED  BY <3>1, <2>1 DEF Shown, Pages
  <2> QED  BY <2>1, <2>2 DEF Shown
<1>4. \A b \in MetaBlocks, p \in Planes, q \in Pages :
        Valid(b, p, q) => /\ pages[b][p][q] \in Metadata
                          /\ pages[b][p][q].version \in Nat
  BY DEF PageTypes, Plane, Valid, Metadata
<1>5. \A o \in Planes, r \in Pages :
        Valid(c, o, r) => pages[c][o][r].version <= pages[c][p1][q1].version
  <2> SUFFICES ASSUME NEW o \in Planes, NEW r \in Pages, Valid(c, o, r)
               PROVE  pages[c][o][r].version <= pages[c][p1][q1].version
    OBVIOUS
  <2>1. r \in 0 .. q1
    BY <1>3 DEF Pages
  <2>2. ~Mixed(c)
    BY <1>2 DEF Orderly
  <2>3. ~(pages[c][p1][q1].version < pages[c][o][r].version)
    BY <2>1, <2>2, <1>3 DEF Mixed
  <2> QED  BY <2>3, <1>2, <1>3, <1>4
<1>6. PICK v \in BlockVersions(c) :
        \A b \in MetaBlocks : \A w \in BlockVersions(b) : w < v \/ (w = v /\ c <= b)
  BY <1>1 DEF search_block_metadata
<1>7. v \in Nat /\ v <= pages[c][p1][q1].version
  <2>1. PICK p \in Planes : Valid(c, p, 0) /\ v = pages[c][p][0].version
    BY <1>6 DEF BlockVersions
  <2>2. 0 \in Pages
    BY FlushAssumption DEF Pages
  <2> QED  BY <2>1, <2>2, <1>2, <1>4, <1>5
<1>8. ASSUME NEW b \in MetaBlocks, NEW p \in Planes, NEW q \in Pages, Valid(b, p, q), b # c
      PROVE  pages[b][p][q].version <= pages[c][p1][q1].version
  <2>1. PICK w \in BlockVersions(b) : TRUE
    BY <1>8 DEF Orderly, Headless
  <2>2. ~Twins(b, c) /\ ~Overtaken(b, c)
    BY <1>2 DEF Orderly
  <2>3. w < v
    BY <2>1, <2>2, <1>6, <1>8 DEF Twins
  <2>4. ~(v <= pages[b][p][q].version)
    BY <2>2, <2>1, <1>6, <2>3, <1>8 DEF Overtaken
  <2>5. pages[b][p][q].version \in Nat /\ pages[c][p1][q1].version \in Nat
    BY <1>8, <1>2, <1>3, <1>4
  <2> QED  BY <2>4, <2>5, <1>7
<1>9. found.meta \in Stored
  BY <1>2, <1>3 DEF Stored, Valid
<1>10. ASSUME NEW m \in Stored
       PROVE  m.version <= found.meta.version
  <2>1. PICK b \in MetaBlocks, p \in Planes, q \in Pages : m = pages[b][p][q] /\ Valid(b, p, q)
    BY DEF Stored, Valid
  <2> QED  BY <2>1, <1>3, <1>5, <1>8
<1> QED  BY <1>2, <1>3, <1>9, <1>10
(***************************************************************************)
(* What makes the numbers unique while the card is open: none on the ring  *)
(* is larger than the counter in memory, and while a page is being written *)
(* only copies of it carry its number.  Nothing but an open card flushes.  *)
(***************************************************************************)
Numbered ==
  /\ \A m, n \in Stored : m.version = n.version => m = n
  /\ opened => \A m \in Stored : m.version <= meta.version
  /\ flush.step = "meta" => \A m \in Stored : m.version = meta.version => m = meta

IInv ==
  /\ TypeOK
  /\ flush # Idle => opened
  /\ sure => Numbered

(***************************************************************************)
(* The positions of the table data in the metadata are table positions.    *)
(***************************************************************************)
LEMMA NextPos ==
  ASSUME NEW cur \in TablePos
  PROVE  find_new_table_pos(cur) \in TablePos
BY FlushAssumption, SMTT(30) DEF TablePos, find_new_table_pos

(***************************************************************************)
(* The blocks of a table that is written are blocks of the ring.           *)
(***************************************************************************)
LEMMA BlocksOfNum ==
  ASSUME NEW num \in BlockNums \cup {1}
  PROVE  /\ num \in Nat \ {0}
         /\ \A i \in 0 .. (num - 1) : i \in TableBlocks
<1>1. PICK n \in BlockNums : n \in 1 .. NTable
  BY FlushAssumption
<1>2. NTable \in Nat /\ BlockNums \subseteq 1 .. NTable
  BY FlushAssumption
<1>3. CASE num \in BlockNums
  BY <1>2, <1>3 DEF TableBlocks
<1>4. CASE num = 1
  BY <1>1, <1>2, <1>4 DEF TableBlocks
<1> QED  BY <1>3, <1>4

(***************************************************************************)
(* The next position of a metadata page lies on the ring, after a success  *)
(* and after a failure.                                                    *)
(***************************************************************************)
LEMMA NextMetaPos ==
  ASSUME NEW at \in [block : MetaBlocks, page : Pages], NEW success \in BOOLEAN
  PROVE  find_new_meta_pos(at, success) \in [block : MetaBlocks, page : Pages]
<1>1. find_new_meta_block(at.block) \in MetaBlocks /\ 0 \in Pages
  BY FlushAssumption, SMTT(30) DEF MetaBlocks, Pages, find_new_meta_block
<1>2. at.page # NPages - 1 => at.page + 1 \in Pages
  BY FlushAssumption DEF Pages
<1> QED  BY <1>1, <1>2 DEF find_new_meta_pos

(***************************************************************************)
(* What a new card starts from is well typed, and nothing is stored on it. *)
(***************************************************************************)
LEMMA NewCardTypes ==
  /\ ErasedPages \in [MetaBlocks -> [Planes -> Plane]]
  /\ NewMeta \in Metadata
  /\ NewMetaPos \in [block : MetaBlocks, page : Pages]
<1>1. 0 \in TablePos /\ NMeta - 1 >= 0 /\ NPages - 1 \in Pages /\ 0 \in MetaBlocks
  BY FlushAssumption DEF TablePos, Pages, MetaBlocks
<1>2. NewMeta \in Metadata
  BY <1>1 DEF NewMeta, Metadata, Magics
<1>3. ErasedPages \in [MetaBlocks -> [Planes -> Plane]]
  BY DEF ErasedPages, ErasedPlane, Plane
<1> QED  BY <1>1, <1>2, <1>3 DEF NewMetaPos

(***************************************************************************)
(* Initially the card is new.                                              *)
(***************************************************************************)
LEMMA InitNumbered == Init => IInv
<1> SUFFICES ASSUME Init PROVE IInv
  OBVIOUS
<1>1. TypeOK
  BY NewCardTypes DEF Init, TypeOK, PageTypes, FlushTypes, Idle
<1>2. Stored = {}
  BY DEF Init, Stored, ErasedPages, ErasedPlane
<1>3. Numbered
  BY <1>2 DEF Init, Numbered, Idle
<1> QED  BY <1>1, <1>3 DEF IInv, Init

(***************************************************************************)
(* A flush begins: nothing is stored yet.                                  *)
(***************************************************************************)
LEMMA FlushBegins ==
  ASSUME IInv, NEW type \in Magics, NEW num \in BlockNums, ssd_sys_flush(type, num)
  PROVE  IInv'
<1>1. 0 \in TableBlocks /\ num \in Nat \ {0}
  BY BlocksOfNum
<1>2. meta.num - 1 \in TableBlocks /\ meta \in Metadata
  <2>1. meta.num \in BlockNums \cup {1} /\ meta \in Metadata
    BY DEF IInv, TypeOK, Metadata
  <2> QED  BY <2>1, BlocksOfNum
<1>3. meta.pos[meta.num - 1] \in TablePos
  BY <1>2 DEF Metadata
<1>4. TypeOK'
  BY <1>1, <1>3 DEF IInv, TypeOK, PageTypes, FlushTypes, ssd_sys_flush, ring
<1>5. Stored' = Stored /\ meta' = meta /\ opened' = opened /\ sure' = sure /\ opened
      /\ flush'.step # "meta"
  BY DEF ssd_sys_flush, Stored, ring
<1>6. sure' => Numbered'
  BY <1>5 DEF IInv, Numbered
<1> QED  BY <1>4, <1>5, <1>6 DEF IInv

(***************************************************************************)
(* A table block changes no metadata page; after the last one the counter  *)
(* is past every stored version.                                           *)
(***************************************************************************)
LEMMA TableBlockWritten ==
  ASSUME IInv, write_tabledata_block_duplicate
  PROVE  IInv'
<1> DEFINE at == find_new_table_pos(flush.cur)
           pos == [meta.pos EXCEPT ![flush.block] = at]
<1>1. /\ flush \in [step : {"table"}, type : Magics, num : BlockNums,
                    block : TableBlocks, tries : Nat, cur : TablePos]
      /\ flush.block < flush.num
      /\ meta \in Metadata /\ calls \in Nat
      /\ metaPos \in [block : MetaBlocks, page : Pages]
  BY DEF IInv, TypeOK, FlushTypes, write_tabledata_block_duplicate
<1>2. at \in TablePos
  BY <1>1, NextPos
<1>3. pos \in [TableBlocks -> TablePos]
  BY <1>1, <1>2 DEF Metadata
<1>4. /\ UNCHANGED <<pages, opened, calls, sure>>
      /\ Stored' = Stored
      /\ opened
      /\ flush # Idle
  BY DEF write_tabledata_block_duplicate, Stored, IInv, Idle
<1>5. CASE update_meta(pos)
  <2>1. meta' = [magic |-> flush.type, num |-> flush.num, version |-> meta.version + 1,
                 snap |-> calls, pos |-> pos]
    BY <1>5 DEF update_meta
  <2>2. meta' \in Metadata /\ meta'.version = meta.version + 1 /\ meta.version \in Nat
    BY <2>1, <1>1, <1>3 DEF Metadata
  <2>3. metaPos' \in [block : MetaBlocks, page : Pages]
    BY <1>5, <1>1, NextMetaPos DEF update_meta
  <2>4. flush' = [step |-> "meta", type |-> flush.type, tries |-> 0, plane |-> 0, good |-> 0]
    BY <1>5 DEF update_meta
  <2>5. 0 \in Planes
    BY FlushAssumption DEF Planes
  <2>6. TypeOK'
    BY <1>1, <1>4, <2>2, <2>3, <2>4, <2>5 DEF IInv, TypeOK, PageTypes, FlushTypes
  <2>7. ASSUME sure PROVE Numbered'
    <3>1. \A m \in Stored : m.version \in Nat /\ m.version <= meta.version
      BY <2>7, <1>4 DEF IInv, Numbered, TypeOK, PageTypes, Plane, Stored, Metadata
    <3> QED  BY <3>1, <2>2, <2>7, <1>4 DEF IInv, Numbered
  <2> QED  BY <2>6, <2>7, <1>4 DEF IInv
<1>6. CASE meta' = [meta EXCEPT !.pos = pos] /\ flush.block # flush.num - 1
           /\ flush' = [flush EXCEPT !.block = @ + 1, !.tries = 0, !.cur = at] /\ UNCHANGED metaPos
  <2>1. meta' \in Metadata /\ meta'.version = meta.version
    BY <1>6, <1>1, <1>3 DEF Metadata
  <2>2. flush.block + 1 \in TableBlocks /\ flush.block + 1 < flush.num
    <3>3. flush.num \in BlockNums \cup {1} /\ flush.block \in TableBlocks
      BY <1>1
    <3>1. flush.num \in Nat \ {0} /\ flush.block \in Nat
      BY <3>3, BlocksOfNum, FlushAssumption DEF TableBlocks
    <3>2. flush.block + 1 \in 0 .. (flush.num - 1)
      BY <3>1, <1>1, <1>6
    <3> QED  BY <3>1, <3>2, <3>3, BlocksOfNum
  <2>5. /\ flush' \in [step : {"table"}, type : Magics, num : BlockNums,
                       block : TableBlocks, tries : Nat, cur : TablePos]
        /\ flush'.block = flush.block + 1 /\ flush'.num = flush.num
    BY <1>1, <1>2, <1>6, <2>2
  <2>3. TypeOK'
    BY <1>1, <1>4, <1>6, <2>1, <2>2, <2>5 DEF IInv, TypeOK, PageTypes, FlushTypes
  <2>4. flush'.step = "table"
    BY <1>1, <1>6
  <2> QED  BY <2>1, <2>3, <2>4, <1>4 DEF IInv, Numbered
<1>7. CASE /\ flush' = IF flush.tries + 1 = TableRetry THEN Idle
                      ELSE [flush EXCEPT !.tries = @ + 1, !.cur = at]
           /\ UNCHANGED <<meta, metaPos>>
  <2>3. ASSUME flush' = Idle PROVE TypeOK'
    BY <2>3, <1>1, <1>4, <1>7 DEF IInv, TypeOK, PageTypes, FlushTypes, Idle
  <2>4. ASSUME flush' = [flush EXCEPT !.tries = @ + 1, !.cur = at] PROVE TypeOK'
    <3>2. flush.tries + 1 \in Nat
      BY <1>1
    <3>3. flush' = [[flush EXCEPT !.tries = flush.tries + 1] EXCEPT !.cur = at]
      BY <2>4
    <3>4. [flush EXCEPT !.tries = flush.tries + 1]
            \in [step : {"table"}, type : Magics, num : BlockNums,
                block : TableBlocks, tries : Nat, cur : TablePos]
      BY <1>1, <3>2
    <3>1. /\ flush' \in [step : {"table"}, type : Magics, num : BlockNums,
                         block : TableBlocks, tries : Nat, cur : TablePos]
          /\ flush'.block = flush.block /\ flush'.num = flush.num
      BY <1>1, <1>2, <3>3, <3>4
    <3> QED  BY <3>1, <1>1, <1>4, <1>7 DEF IInv, TypeOK, PageTypes, FlushTypes
  <2>1. TypeOK'
    BY <2>3, <2>4, <1>7
  <2>2. flush'.step # "meta"
    BY <1>1, <1>7 DEF Idle
  <2> QED  BY <2>1, <2>2, <1>4, <1>7 DEF IInv, Numbered
<1> QED  BY <1>5, <1>6, <1>7 DEF write_tabledata_block_duplicate

(***************************************************************************)
(* Whatever becomes of one plane of a metadata block, erased, written or   *)
(* unreadable, nothing new is stored but copies of the metadata in memory. *)
(***************************************************************************)
LEMMA PlaneWritten ==
  ASSUME IInv, flush.step = "meta",
         NEW c \in FailedPlanes(pages[metaPos.block][flush.plane])
                    \cup {Programmed(pages[metaPos.block][flush.plane], meta)},
         pages' = [pages EXCEPT ![metaPos.block][flush.plane] = c]
  PROVE  PageTypes' /\ Stored' \subseteq Stored \cup {meta}
<1> DEFINE b == metaPos.block
           k == flush.plane
           old == pages[b][k]
<1>1. b \in MetaBlocks /\ k \in Planes /\ metaPos.page \in Pages /\ meta \in Metadata
  BY DEF IInv, TypeOK, FlushTypes
<1>2. old \in Plane
  BY <1>1 DEF IInv, TypeOK, PageTypes
<1>3. c \in Plane /\ \A q \in Pages : c[q] \in {Erased, Dirty, meta, old[q]}
  <2>1. ASSUME NEW x \in {Dirty, meta}
        PROVE  /\ Programmed(old, x) \in Plane
               /\ \A q \in Pages : Programmed(old, x)[q] \in {Erased, Dirty, meta, old[q]}
    <3>1. ASSUME NEW base \in Plane, \A q \in Pages : base[q] \in {Erased, old[q]}
          PROVE  /\ [base EXCEPT ![metaPos.page] = x] \in Plane
                 /\ \A q \in Pages : [base EXCEPT ![metaPos.page] = x][q]
                                      \in {Erased, Dirty, meta, old[q]}
      BY <3>1, <1>1 DEF Plane
    <3>2. CASE metaPos.page = 0
      <4>1. [q \in Pages |-> Erased] \in Plane
        BY DEF Plane
      <4> QED  BY <4>1, <3>1, <3>2 DEF Programmed
    <3>3. CASE metaPos.page # 0
      BY <1>2, <3>1, <3>3 DEF Programmed
    <3> QED  BY <3>2, <3>3
  <2>2. c \in {Programmed(old, x) : x \in {Dirty, meta}} \cup {old, [q \in Pages |-> Dirty]}
    BY DEF FailedPlanes
  <2>3. CASE c = [q \in Pages |-> Dirty]
    BY <2>3 DEF Plane
  <2>4. CASE c = old
    BY <2>4, <1>2
  <2> QED  BY <2>1, <2>2, <2>3, <2>4
<1>4. /\ pages' \in [MetaBlocks -> [Planes -> Plane]]
      /\ \A a \in MetaBlocks, o \in Planes :
            pages'[a][o] = IF a = b /\ o = k THEN c ELSE pages[a][o]
  BY <1>1, <1>3 DEF IInv, TypeOK, PageTypes
<1>5. ASSUME NEW m \in Stored' PROVE m \in Stored \cup {meta}
  <2>1. PICK a \in MetaBlocks, o \in Planes, q \in Pages : m = pages'[a][o][q]
    BY <1>5 DEF Stored
  <2>2. m \notin {Erased, Dirty}
    BY <1>5 DEF Stored
  <2>3. m = meta \/ m = pages[a][o][q]
    BY <2>1, <2>2, <1>3, <1>4
  <2> QED  BY <2>2, <2>3 DEF Stored
<1> QED  BY <1>4, <1>5 DEF PageTypes

(***************************************************************************)
(* One plane of a metadata page is written, or fails; after the last plane *)
(* the flush ends or moves to the next block with the same metadata.       *)
(***************************************************************************)
LEMMA MetaPageWritten ==
  ASSUME IInv, write_meta_page
  PROVE  IInv'
<1> DEFINE Place == [block : MetaBlocks, page : Pages]
           InMeta == [step : {"meta"}, type : Magics, tries : Nat, plane : Planes, good : Nat]
<1>1. flush.step = "meta" /\ flush \in InMeta /\ meta \in Metadata /\ metaPos \in Place
      /\ calls \in Nat /\ opened
  BY DEF write_meta_page, IInv, TypeOK, FlushTypes, Idle
<1>2. UNCHANGED <<meta, calls, sure>>
  BY DEF write_meta_page
<1>3. PageTypes' /\ Stored' \subseteq Stored \cup {meta}
  BY <1>1, PlaneWritten DEF write_meta_page
<1>4. PICK good \in Nat : PlaneDone(good)
  BY <1>1 DEF write_meta_page
<1>5. /\ metaPos' \in Place
      /\ \/ flush' = Idle
         \/ flush' \in InMeta /\ opened'
  <2>1. CASE flush.plane # NPlanes - 1
    <3>1. flush.plane + 1 \in Planes
      BY <1>1, <2>1, FlushAssumption DEF Planes
    <3>2. flush' = [[flush EXCEPT !.plane = flush.plane + 1] EXCEPT !.good = good]
          /\ UNCHANGED <<opened, metaPos>>
      BY <1>4, <2>1 DEF PlaneDone
    <3>3. [flush EXCEPT !.plane = flush.plane + 1] \in InMeta
      BY <1>1, <3>1
    <3> QED  BY <1>1, <3>2, <3>3
  <2>2. CASE flush.plane = NPlanes - 1
    <3>1. flush_metadata(good)
      BY <1>4, <2>2 DEF PlaneDone
    <3>2. CASE flush' = Idle /\ UNCHANGED metaPos
      BY <1>1, <3>2
    <3>3. CASE /\ metaPos' = find_new_meta_pos(metaPos, FALSE)
               /\ flush' = [flush EXCEPT !.tries = @ + 1, !.plane = 0, !.good = 0]
               /\ UNCHANGED opened
      <4>1. metaPos' \in Place
        BY <1>1, <3>3, NextMetaPos
      <4>2. 0 \in Planes /\ flush.tries + 1 \in Nat
        BY <1>1, FlushAssumption DEF Planes
      <4>3. flush' \in InMeta
        BY <1>1, <3>3, <4>2
      <4> QED  BY <1>1, <3>3, <4>1, <4>3
    <3> QED  BY <3>1, <3>2, <3>3 DEF flush_metadata
  <2> QED  BY <2>1, <2>2
<1>6. FlushTypes' /\ (flush' # Idle => opened')
  BY <1>5 DEF FlushTypes, Idle
<1>7. TypeOK'
  BY <1>1, <1>2, <1>3, <1>5, <1>6 DEF TypeOK
<1>8. ASSUME sure PROVE Numbered'
  <2>1. /\ \A m, n \in Stored : m.version = n.version => m = n
        /\ \A m \in Stored : m.version <= meta.version
        /\ \A m \in Stored : m.version = meta.version => m = meta
    BY <1>1, <1>8 DEF IInv, Numbered
  <2>2. meta.version \in Nat
    BY <1>1 DEF Metadata
  <2>3. \A m, n \in Stored' : m.version = n.version => m = n
    BY <1>3, <2>1
  <2>4. \A m \in Stored' : m.version <= meta.version /\ (m.version = meta.version => m = meta)
    BY <1>3, <2>1, <2>2
  <2> QED  BY <1>2, <2>3, <2>4 DEF Numbered
<1> QED  BY <1>2, <1>6, <1>7, <1>8 DEF IInv

(***************************************************************************)
(* An open of an orderly ring takes over the largest number.               *)
(***************************************************************************)
LEMMA InitTakesNewest ==
  ASSUME IInv, ssd_sys_init
  PROVE  IInv'
<1>1. PICK found \in ssd_search_metadata :
        /\ meta' = found.meta
        /\ metaPos' = [block |-> found.block, page |-> found.page]
  BY DEF ssd_sys_init
<1>2. /\ UNCHANGED <<pages, flush, calls>> /\ Stored' = Stored /\ flush = Idle
      /\ sure' = (sure /\ Orderly)
  BY DEF ssd_sys_init, Stored
<1>3. found.meta \in Metadata /\ found.block \in MetaBlocks /\ found.page \in Pages
  BY FoundIsStored DEF IInv, TypeOK
<1>4. TypeOK'
  BY <1>1, <1>2, <1>3 DEF IInv, TypeOK, PageTypes, FlushTypes
<1>5. ASSUME sure' PROVE Numbered'
  <2>1. \A m \in Stored : m.version <= found.meta.version
    BY <1>2, <1>5, SearchFindsNewest DEF IInv, TypeOK
  <2> QED  BY <2>1, <1>1, <1>2, <1>5 DEF IInv, Numbered, Idle
<1> QED  BY <1>2, <1>4, <1>5 DEF IInv

(***************************************************************************)
(* Reading a page by hand keeps the numbers when it reads the newest one   *)
(* and no flush is in progress; otherwise it is marked in sure.            *)
(***************************************************************************)
LEMMA ReadTakesNewest ==
  ASSUME IInv, NEW b \in MetaBlocks, NEW q \in Pages, ssd_read_flush(b, q)
  PROVE  IInv'
<1>1. 0 \in Planes
  BY FlushAssumption DEF Planes
<1>2. pages[b][0][q] \in Metadata
  BY <1>1 DEF ssd_read_flush, Valid, IInv, TypeOK, PageTypes, Plane
<1>3. /\ meta' = [pages[b][0][q] EXCEPT !.magic = "FLUSH_MAGIC_CLOSE"]
      /\ metaPos' = [block |-> b, page |-> q]
      /\ UNCHANGED <<pages, opened, flush, calls>> /\ Stored' = Stored
  BY DEF ssd_read_flush, Stored
<1>4. meta' \in Metadata /\ meta'.version = pages[b][0][q].version
  BY <1>2, <1>3 DEF Metadata, Magics
<1>5. TypeOK'
  BY <1>3, <1>4 DEF IInv, TypeOK, PageTypes, FlushTypes
<1>6. ASSUME sure' PROVE Numbered'
  <2>1. /\ sure /\ Orderly /\ flush = Idle
        /\ [block |-> b, page |-> q, meta |-> pages[b][0][q]] \in ssd_search_metadata
    BY <1>6 DEF ssd_read_flush
  <2>2. \A m \in Stored : m.version <= pages[b][0][q].version
    BY <2>1, SearchFindsNewest DEF IInv, TypeOK
  <2> QED  BY <2>1, <2>2, <1>3, <1>4 DEF IInv, Numbered, Idle
<1> QED  BY <1>3, <1>5, <1>6 DEF IInv

(***************************************************************************)
(* A new card starts its numbers over on erased blocks; an attempt that    *)
(* fails only takes pages away.                                            *)
(***************************************************************************)
LEMMA NewCard ==
  ASSUME IInv, ssd_sys_init_newcard
  PROVE  IInv'
<1>1. ~opened /\ flush = Idle /\ UNCHANGED <<flush, calls>>
  BY DEF ssd_sys_init_newcard, IInv
<1>2. CASE /\ pages' = ErasedPages /\ meta' = NewMeta /\ metaPos' = NewMetaPos /\ opened'
  <2>1. Stored' = {}
    BY <1>2 DEF Stored, ErasedPages, ErasedPlane
  <2>2. TypeOK'
    BY <1>1, <1>2, NewCardTypes DEF IInv, TypeOK, PageTypes, FlushTypes
  <2>3. Numbered'
    BY <2>1, <1>1 DEF Numbered, Idle
  <2> QED  BY <1>1, <2>2, <2>3 DEF IInv
<1>3. CASE /\ UNCHANGED <<meta, metaPos, opened, sure>>
           /\ \E b \in MetaBlocks, p \in Planes :
                \E c \in {pages[b][p], [q \in Pages |-> Dirty]} :
                  pages' = [a \in MetaBlocks |-> [o \in Planes |->
                              IF EraseRank(a, o) < EraseRank(b, p) THEN ErasedPlane
                              ELSE IF <<a, o>> = <<b, p>> THEN c ELSE pages[a][o]]]
  <2>1. PICK b \in MetaBlocks, p \in Planes :
          \E c \in {pages[b][p], [q \in Pages |-> Dirty]} :
            pages' = [a \in MetaBlocks |-> [o \in Planes |->
                        IF EraseRank(a, o) < EraseRank(b, p) THEN ErasedPlane
                        ELSE IF <<a, o>> = <<b, p>> THEN c ELSE pages[a][o]]]
    BY <1>3
  <2>2. \A a \in MetaBlocks, o \in Planes :
          pages'[a][o] \in {ErasedPlane, [q \in Pages |-> Dirty], pages[a][o]}
    BY <2>1
  <2>3. PageTypes'
    <3>1. ErasedPlane \in Plane /\ [q \in Pages |-> Dirty] \in Plane
      BY DEF ErasedPlane, Plane
    <3>2. \A a \in MetaBlocks, o \in Planes : pages'[a][o] \in Plane
      BY <2>2, <3>1 DEF IInv, TypeOK, PageTypes
    <3>3. pages' = [a \in MetaBlocks |-> [o \in Planes |-> pages'[a][o]]]
      BY <2>1
    <3> QED  BY <3>2, <3>3 DEF PageTypes
  <2>4. Stored' \subseteq Stored
    BY <2>2 DEF Stored, ErasedPlane
  <2>5. TypeOK'
    BY <1>1, <1>3, <2>3 DEF IInv, TypeOK, FlushTypes
  <2>6. sure => Numbered'
    BY <1>1, <1>3, <2>4 DEF IInv, Numbered, Idle
  <2> QED  BY <1>1, <1>3, <2>5, <2>6 DEF IInv
<1> QED  BY <1>2, <1>3 DEF ssd_sys_init_newcard

(***************************************************************************)
(* The power fails: the ring keeps its pages.                              *)
(***************************************************************************)
LEMMA PowerFails ==
  ASSUME IInv, Crash
  PROVE  IInv'
<1>1. UNCHANGED <<pages, metaPos, meta, calls, sure>> /\ opened' = FALSE /\ flush' = Idle
      /\ Stored' = Stored
  BY DEF Crash, ring, Stored
<1>2. TypeOK'
  BY <1>1 DEF IInv, TypeOK, PageTypes, FlushTypes, Idle
<1> QED  BY <1>1, <1>2 DEF IInv, Numbered, Idle

(***************************************************************************)
(* Every step keeps the numbers.                                           *)
(***************************************************************************)
LEMMA NextNumbered == IInv /\ [Next]_vars => IInv'
<1> SUFFICES ASSUME IInv, [Next]_vars PROVE IInv'
  OBVIOUS
<1>1. ASSUME UNCHANGED vars PROVE IInv'
  <2>1. UNCHANGED <<pages, metaPos, meta, opened, flush, calls, sure>> /\ Stored' = Stored
    BY <1>1 DEF vars, ring, Stored
  <2> QED  BY <2>1 DEF IInv, TypeOK, PageTypes, FlushTypes, Numbered
<1> QED  BY <1>1, FlushBegins, TableBlockWritten, MetaPageWritten, InitTakesNewest,
            ReadTakesNewest, NewCard, PowerFails DEF Next

(***************************************************************************)
(* Whatever fails and however often the ring and the counter in memory are *)
(* reloaded, two metadata pages with one version are copies of one flush,  *)
(* as long as no open met a disturbed ring and no old version was read.    *)
(***************************************************************************)
THEOREM VersionIdentifiesHolds == Spec => []VersionIdentifies
<1>1. IInv => VersionIdentifies
  BY DEF IInv, Numbered, Stored, VersionIdentifies
<1> QED  BY <1>1, InitNumbered, NextNumbered, PTL DEF Spec
=============================================================================
