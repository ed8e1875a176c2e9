---------------------------- MODULE IdStore_proofs ---------------------------
(***************************************************************************)
(* The allocator of IdStore is correct for channels and data blocks of any *)
(* size and for any set of ids.  Tiled(nodes, I, D, cur, E) is what the    *)
(* requests hand from one to the next: an allocation carves an extent E    *)
(* out of the maps, a write gives E to a node, a failed write or a delete  *)
(* gives it back to a map.                                                 *)
(***************************************************************************)
EXTENDS IdStore, BlockMaps_proofs

(***************************************************************************)
(* What the maps and the table cover when one entry is added or removed.   *)
(***************************************************************************)
LEMMA CoveredAdd ==
  ASSUME NEW D, NEW d
  PROVE  Covered(D \cup {d}) = Covered(D) \cup Extent(d, DBLOCK)
BY DEF Covered

(***************************************************************************)
(* Taking one run out of a disjoint set of runs uncovers exactly its       *)
(* extent.                                                                 *)
(***************************************************************************)
LEMMA CoveredRemove ==
  ASSUME NEW D, NEW d \in D, RunsDisjoint(D)
  PROVE  /\ Covered(D \ {d}) \cap Extent(d, DBLOCK) = {}
         /\ Covered(D \ {d}) \cup Extent(d, DBLOCK) = Covered(D)
         /\ RunsDisjoint(D \ {d})
BY DEF Covered, RunsDisjoint

(***************************************************************************)
(* Linking a node adds its extent to the owned blocks.                     *)
(***************************************************************************)
LEMMA OwnedAdd ==
  ASSUME NEW nodes, NEW n
  PROVE  Owned(nodes \cup {n}) = Owned(nodes) \cup Held(n)
BY DEF Owned

(***************************************************************************)
(* Unlinking a node of a table without overlaps frees exactly its extent.  *)
(***************************************************************************)
LEMMA OwnedRemove ==
  ASSUME NEW nodes, NEW n \in nodes, Apart(nodes)
  PROVE  /\ Owned(nodes \ {n}) \cap Held(n) = {}
         /\ Owned(nodes \ {n}) \cup Held(n) = Owned(nodes)
         /\ Apart(nodes \ {n})
BY DEF Owned, Apart

(***************************************************************************)
(* set_id_info after an allocation: the node takes the extent.             *)
(***************************************************************************)
LEMMA GiveToNode ==
  ASSUME NEW nodes, NEW I, NEW D, NEW cur, NEW n, Tiled(nodes, I, D, cur, Held(n))
  PROVE  Tiled(nodes \cup {n}, I, D, cur, {})
<1>1. Owned(nodes \cup {n}) = Owned(nodes) \cup Held(n)
  BY OwnedAdd
<1>2. \A m \in nodes : Held(m) \cap Held(n) = {}
  BY DEF Tiled, Owned
<1>3. Apart(nodes \cup {n})
  BY <1>2 DEF Tiled, Apart
<1> QED  BY <1>1, <1>3 DEF Tiled

(***************************************************************************)
(* delete_logic_block: the extent goes back to the map of its type.        *)
(***************************************************************************)
LEMMA GiveToMap ==
  ASSUME NEW nodes, NEW I, NEW D, NEW cur, NEW start \in Nat, NEW type \in Types,
         Tiled(nodes, I, D, cur, Extent(start, type))
  PROVE  Tiled(nodes, IF type = IBLOCK THEN I \cup {start} ELSE I,
               IF type = DBLOCK THEN D \cup {start} ELSE D, cur, {})
<1>1. CASE type = IBLOCK
  <2>1. Extent(start, type) = {start}
    BY <1>1 DEF Extent, BlockSize
  <2>2. type # DBLOCK
    BY <1>1 DEF IBLOCK, DBLOCK
  <2> QED  BY <1>1, <2>1, <2>2 DEF Tiled
<1>2. CASE type = DBLOCK
  <2>1. type # IBLOCK
    BY <1>2 DEF IBLOCK, DBLOCK
  <2>2. Covered(D \cup {start}) = Covered(D) \cup Extent(start, DBLOCK)
    BY CoveredAdd
  <2>3. \A d \in D : Extent(d, DBLOCK) \cap Extent(start, DBLOCK) = {}
    BY <1>2 DEF Tiled, Covered
  <2>4. RunsDisjoint(D \cup {start})
    BY <2>3 DEF Tiled, RunsDisjoint
  <2> QED  BY <1>2, <2>1, <2>2, <2>4 DEF Tiled
<1> QED  BY <1>1, <1>2 DEF Types

(***************************************************************************)
(* del_id_info: the extent of the node is in transit.                      *)
(***************************************************************************)
LEMMA TakeFromNode ==
  ASSUME NEW nodes, NEW I, NEW D, NEW cur, NEW n \in nodes, Tiled(nodes, I, D, cur, {})
  PROVE  Tiled(nodes \ {n}, I, D, cur, Held(n))
<1>1. Apart(nodes)
  BY DEF Tiled
<1>2. /\ Owned(nodes \ {n}) \cap Held(n) = {}
      /\ Owned(nodes \ {n}) \cup Held(n) = Owned(nodes)
      /\ Apart(nodes \ {n})
  BY <1>1, OwnedRemove
<1> QED  BY <1>2 DEF Tiled

(***************************************************************************)
(* The state the requests start from: the types of the maps and the tiling *)
(* of an open channel.                                                     *)
(***************************************************************************)
MapsOK(I, D, cur) ==
  /\ I \subseteq Blocks
  /\ D \subseteq Blocks
  /\ cur \in 0 .. NBlocks

(***************************************************************************)
(* What ssd_alloc_logic_block returns is a free extent of the right size,  *)
(* carved out of the maps or the tail.                                     *)
(***************************************************************************)
Allocated(a, type) ==
  /\ a.index \in Blocks
  /\ MapsOK(a.fabI, a.fabD, a.current)
  /\ Extent(a.index, type) \subseteq Blocks
  /\ Tiled(hash, a.fabI, a.fabD, a.current, Extent(a.index, type))

(***************************************************************************)
(* A non-empty set of blocks has a least one, the first zero bit of a map. *)
(***************************************************************************)
LEMMA LowestFree ==
  ASSUME NEW S, S \subseteq Blocks, S # {}
  PROVE  Least(S) \in S /\ Least(S) \in Nat
<1>1. Blocks \subseteq Nat
  BY DEF Blocks
<1>2. S \subseteq Nat
  BY <1>1
<1>3. Least(S) \in S
  BY <1>2, LeastProperty
<1> QED  BY <1>2, <1>3

(***************************************************************************)
(* An allocation from the tail takes a fresh extent and moves current over *)
(* it.                                                                     *)
(***************************************************************************)
LEMMA TailExtent ==
  ASSUME MapsOK(fabI, fabD, current), Tiled(hash, fabI, fabD, current, {}),
         NEW type \in Types, current + BlockSize(type) <= NBlocks
  PROVE  Allocated(FromTail(type), type)
<1>1. NBlocks \in Nat /\ DSize \in Nat /\ DSize > 0
  BY SizesAssumption
<1>2. BlockSize(type) \in Nat /\ BlockSize(type) > 0
  BY <1>1 DEF BlockSize
<1>3. current \in Nat
  BY DEF MapsOK
<1> DEFINE E == Extent(current, type)
<1>4. E = current .. (current + BlockSize(type) - 1)
  BY DEF Extent
<1>5. E \subseteq Blocks /\ current \in Blocks
  BY <1>1, <1>2, <1>3, <1>4 DEF Blocks
<1>6. E \cap (0 .. (current - 1)) = {}
  BY <1>2, <1>3, <1>4
<1>7. (0 .. (current - 1)) \cup E = 0 .. ((current + BlockSize(type)) - 1)
  BY <1>2, <1>3, <1>4
<1> HIDE DEF E
<1>8. Tiled(hash, fabI, fabD, current + BlockSize(type), E)
  <2> DEFINE All == Owned(hash) \cup fabI \cup Covered(fabD)
  <2>1. All = 0 .. (current - 1)
    BY DEF Tiled
  <2>2. E \cap All = {} /\ All \cup E = 0 .. ((current + BlockSize(type)) - 1)
    BY <2>1, <1>6, <1>7
  <2>3. /\ Apart(hash)
        /\ RunsDisjoint(fabD)
        /\ fabI \cap Owned(hash) = {}
        /\ Covered(fabD) \cap (Owned(hash) \cup fabI) = {}
    BY DEF Tiled
  <2> QED  BY <2>2, <2>3, Zenon DEF Tiled
<1>9. MapsOK(fabI, fabD, current + BlockSize(type))
  BY <1>1, <1>2, <1>3 DEF MapsOK
<1> QED  BY <1>5, <1>8, <1>9 DEF Allocated, FromTail, E

(***************************************************************************)
(* bitmap_split hands out one block of a run and leaves the others as      *)
(* index blocks.                                                           *)
(***************************************************************************)
LEMMA SplitExtent ==
  ASSUME MapsOK(fabI, fabD, current), Tiled(hash, fabI, fabD, current, {}),
         fabI = {}, fabD # {}
  PROVE  Allocated(bitmap_split, IBLOCK)
<1> DEFINE d == Least(fabD)
           E == Extent(d, DBLOCK)
<1>1. NBlocks \in Nat /\ DSize \in Nat /\ DSize > 1 /\ current \in 0 .. NBlocks
  BY SizesAssumption DEF MapsOK
<1>2. d \in fabD /\ d \in Nat
  BY LowestFree DEF MapsOK
<1>3. RunsDisjoint(fabD)
  BY DEF Tiled
<1>4. /\ Covered(fabD \ {d}) \cap E = {}
      /\ Covered(fabD \ {d}) \cup E = Covered(fabD)
      /\ RunsDisjoint(fabD \ {d})
  BY <1>2, <1>3, CoveredRemove
<1>5. E \subseteq 0 .. (current - 1)
  BY <1>4 DEF Tiled
<1>6. 0 .. (current - 1) \subseteq Blocks
  BY <1>1 DEF Blocks
<1>7. d \in E /\ Extent(d, IBLOCK) = {d}
  BY <1>1, <1>2 DEF Extent, BlockSize, DBLOCK, IBLOCK
<1>8. bitmap_split = [index |-> d, fabI |-> E \ {d}, fabD |-> fabD \ {d}, current |-> current]
  BY DEF bitmap_split
<1> HIDE DEF d, E
<1>9. Tiled(hash, E \ {d}, fabD \ {d}, current, {d})
  BY <1>4, <1>7 DEF Tiled
<1>10. MapsOK(E \ {d}, fabD \ {d}, current)
  BY <1>5, <1>6 DEF MapsOK
<1> QED  BY <1>5, <1>6, <1>7, <1>8, <1>9, <1>10 DEF Allocated

(***************************************************************************)
(* bitmap_merge turns index blocks into runs without losing or sharing     *)
(* one.                                                                    *)
(***************************************************************************)
LEMMA MergeExtent ==
  ASSUME MapsOK(fabI, fabD, current), Tiled(hash, fabI, fabD, current, {}),
         fabD = {}, Runs(fabI) # {}
  PROVE  Allocated(bitmap_merge, DBLOCK)
<1> DEFINE M == Runs(fabI)
           d == Least(M)
           E == Extent(d, DBLOCK)
<1>1. fabI \subseteq Nat /\ fabI \subseteq Blocks
  BY DEF MapsOK, Blocks
<1>2. M \subseteq fabI /\ Covered(M) \subseteq fabI /\ RunsDisjoint(M)
  BY <1>1, RunsApart DEF RunsDisjoint
<1>3. d \in M
  BY <1>1, <1>2, LowestFree
<1>4. bitmap_merge = [index |-> d, fabI |-> fabI \ Covered(M), fabD |-> M \ {d},
                      current |-> current]
  BY DEF bitmap_merge
<1>5. Covered(fabD) = {}
  BY DEF Covered
<1> HIDE DEF M, d, E
<1>6. /\ Covered(M \ {d}) \cap E = {}
      /\ Covered(M \ {d}) \cup E = Covered(M)
      /\ RunsDisjoint(M \ {d})
  BY <1>2, <1>3, CoveredRemove DEF E
<1>7. Tiled(hash, fabI \ Covered(M), M \ {d}, current, E)
  BY <1>2, <1>5, <1>6 DEF Tiled
<1>8. MapsOK(fabI \ Covered(M), M \ {d}, current)
  BY <1>1, <1>2 DEF MapsOK
<1>9. E \subseteq Blocks /\ d \in Blocks
  BY <1>1, <1>2, <1>3, <1>6
<1> QED  BY <1>4, <1>7, <1>8, <1>9 DEF Allocated, E

(***************************************************************************)
(* Whatever way ssd_alloc_logic_block takes, the extent it returns was     *)
(* free.                                                                   *)
(***************************************************************************)
LEMMA AllocSound ==
  ASSUME MapsOK(fabI, fabD, current), Tiled(hash, fabI, fabD, current, {}),
         NEW type \in Types, NEW a \in ssd_alloc_logic_block(type)
  PROVE  Allocated(a, type)
<1>1. CASE type = IBLOCK
  <2>1. CASE fabI # {}
    <3> DEFINE i == Least(fabI)
    <3>1. i \in fabI /\ i \in Nat
      BY <2>1, LowestFree DEF MapsOK
    <3>2. a = [index |-> i, fabI |-> fabI \ {i}, fabD |-> fabD, current |-> current]
      BY <1>1, <2>1 DEF ssd_alloc_logic_block, AllocI
    <3> HIDE DEF i
    <3>3. Extent(i, type) = {i}
      BY <1>1, <3>1 DEF Extent, BlockSize
    <3>4. Tiled(hash, fabI \ {i}, fabD, current, {i})
      BY <3>1 DEF Tiled
    <3>5. MapsOK(fabI \ {i}, fabD, current) /\ i \in Blocks
      BY <3>1 DEF MapsOK
    <3> QED  BY <3>2, <3>3, <3>4, <3>5 DEF Allocated
  <2>2. CASE fabI = {} /\ fabD # {}
    BY <1>1, <2>2, SplitExtent DEF ssd_alloc_logic_block, AllocI
  <2>3. CASE fabI = {} /\ fabD = {}
    BY <1>1, <2>3, TailExtent DEF ssd_alloc_logic_block, AllocI
  <2> QED  BY <2>1, <2>2, <2>3
<1>2. CASE type = DBLOCK
  <2>0. type # IBLOCK
    BY <1>2 DEF IBLOCK, DBLOCK
  <2>1. CASE fabD # {}
    <3> DEFINE d == Least(fabD)
               E == Extent(d, DBLOCK)
    <3>1. d \in fabD
      BY <2>1, LowestFree DEF MapsOK
    <3>2. a = [index |-> d, fabI |-> fabI, fabD |-> fabD \ {d}, current |-> current]
      BY <2>0, <2>1 DEF ssd_alloc_logic_block, AllocD
    <3> HIDE DEF d, E
    <3>3. /\ Covered(fabD \ {d}) \cap E = {}
          /\ Covered(fabD \ {d}) \cup E = Covered(fabD)
          /\ RunsDisjoint(fabD \ {d})
      BY <3>1, CoveredRemove DEF Tiled, E
    <3>4. Tiled(hash, fabI, fabD \ {d}, current, E)
      BY <3>3 DEF Tiled
    <3>5. MapsOK(fabI, fabD \ {d}, current) /\ d \in Blocks
      BY <3>1 DEF MapsOK
    <3>6. 0 .. (current - 1) \subseteq Blocks
      BY SizesAssumption DEF MapsOK, Blocks
    <3>7. E \subseteq Blocks
      BY <3>3, <3>6 DEF Tiled
    <3> QED  BY <1>2, <3>2, <3>4, <3>5, <3>7 DEF Allocated, E
  <2>2. CASE fabD = {} /\ current + BlockSize(DBLOCK) <= NBlocks
    BY <1>2, <2>0, <2>2, TailExtent DEF ssd_alloc_logic_block, AllocD
  <2>3. CASE fabD = {} /\ ~ (current + BlockSize(DBLOCK) <= NBlocks)
    BY <1>2, <2>0, <2>3, MergeExtent DEF ssd_alloc_logic_block, AllocD
  <2> QED  BY <2>1, <2>2, <2>3
<1> QED  BY <1>1, <1>2 DEF Types

(***************************************************************************)
(* The saved size of the used part of a channel is large enough for every  *)
(* used block, and the pre-allocated areas fit behind it.                  *)
(***************************************************************************)
LEMMA ReloadFits ==
  ASSUME NEW used, used \subseteq Blocks
  PROVE  /\ UsedSize(used) \in 0 .. NBlocks
         /\ used \subseteq 0 .. (UsedSize(used) - 1)
         /\ PreSize(UsedSize(used)) \in Nat
         /\ UsedSize(used) + PreSize(UsedSize(used)) + PreSize(UsedSize(used)) * DSize
              \in 0 .. NBlocks
<1> DEFINE S == {s \in 0 .. NBlocks : used \subseteq 0 .. (s - 1)}
           size == UsedSize(used)
           pre == PreSize(size)
<1>1. NBlocks \in Nat /\ NBlocks > 0 /\ DSize \in Nat /\ PreAlloc \in Nat
  BY SizesAssumption
<1>2. NBlocks \in S
  BY <1>1 DEF Blocks
<1>3. Least(S) \in S
  <2>1. S \subseteq Nat /\ S # {}
    BY <1>2
  <2> HIDE DEF S
  <2> QED  BY <2>1, LeastProperty
<1>4. size \in 0 .. NBlocks /\ used \subseteq 0 .. (size - 1)
  BY <1>3 DEF UsedSize
<1> HIDE DEF size
<1>5. pre \in Nat
  BY <1>1 DEF PreSize
<1>6. size + pre + pre * DSize \in 0 .. NBlocks
  <2>1. CASE size - 1 < NBlocks \div 2
    <3>1. pre = PreAlloc
      BY <2>1 DEF PreSize
    <3>2. NBlocks \div 2 \in Nat /\ size <= NBlocks \div 2
      BY <2>1, <1>1, <1>4
    <3>3. PreAlloc * DSize \in Nat /\ PreAlloc + PreAlloc * DSize <= NBlocks - (NBlocks \div 2)
      BY <1>1, SizesAssumption
    <3> QED  BY <3>1, <3>2, <3>3, <1>1, <1>4
  <2>2. CASE ~ (size - 1 < NBlocks \div 2)
    <3>1. pre = 0 /\ pre * DSize = 0
      BY <2>2, <1>1 DEF PreSize
    <3> QED  BY <3>1, <1>1, <1>4
  <2> QED  BY <2>1, <2>2
<1> QED  BY <1>4, <1>5, <1>6 DEF size

(***************************************************************************)
(* ssd_reload_bitmap rebuilds maps that tile the channel together with the *)
(* id table it was given.                                                  *)
(***************************************************************************)
LEMMA ReloadSound ==
  ASSUME NEW nodes, Apart(nodes), Owned(nodes) \subseteq Blocks, ssd_reload_bitmap(nodes)
  PROVE  /\ MapsOK(fabI', fabD', current')
         /\ Tiled(nodes, fabI', fabD', current', {})
<1> DEFINE used  == Owned(nodes)
           size  == UsedSize(used)
           pre   == PreSize(size)
           holes == (0 .. (size - 1)) \ used
           runs  == Runs(holes)
           rest  == holes \ Covered(runs)
           P     == PreD(size, pre)
<1>1. /\ size \in 0 .. NBlocks /\ used \subseteq 0 .. (size - 1) /\ pre \in Nat
      /\ size + pre + pre * DSize \in 0 .. NBlocks
  BY ReloadFits
<1>2. /\ fabI' = PreI(size, pre) \cup rest
      /\ fabD' = P \cup runs
      /\ current' = size + pre + pre * DSize
  BY DEF ssd_reload_bitmap
<1>3. NBlocks \in Nat /\ DSize \in Nat /\ DSize > 1 /\ size \in Nat
  BY <1>1, SizesAssumption
<1>4. /\ P \subseteq Nat
      /\ pre * DSize \in Nat
      /\ Covered(P) = (size + pre) .. (size + pre + pre * DSize - 1)
      /\ RunsDisjoint(P)
  BY <1>1, <1>3, PreAreas DEF RunsDisjoint
<1>5. holes \subseteq Nat
  BY <1>3
<1>6. runs \subseteq holes /\ Covered(runs) \subseteq holes /\ RunsDisjoint(runs)
  BY <1>5, RunsApart DEF RunsDisjoint
<1>7. used \cup holes = 0 .. (size - 1) /\ used \cap holes = {}
  BY <1>1
<1>8. PreI(size, pre) = size .. (size + pre - 1)
  BY DEF PreI
<1> HIDE DEF used, size, pre, holes, runs, P
<1>9. /\ (0 .. (size - 1)) \cap PreI(size, pre) = {}
      /\ (0 .. (size - 1)) \cap Covered(P) = {}
      /\ PreI(size, pre) \cap Covered(P) = {}
      /\ (0 .. (size - 1)) \cup PreI(size, pre) \cup Covered(P)
           = 0 .. ((size + pre + pre * DSize) - 1)
  BY <1>1, <1>3, <1>4, <1>8
<1>10. Covered(P \cup runs) = Covered(P) \cup Covered(runs)
  BY DEF Covered
<1>11. \A d \in P \cup runs : d \in Extent(d, DBLOCK) /\ Extent(d, DBLOCK) \subseteq Covered(P \cup runs)
  <2>1. \A d \in P \cup runs : d \in Nat
    BY <1>4, <1>5, <1>6
  <2> QED  BY <2>1, <1>3 DEF Covered, Extent, BlockSize, IBLOCK, DBLOCK
<1>12. RunsDisjoint(P \cup runs)
  <2>1. Covered(P) \cap Covered(runs) = {}
    BY <1>6, <1>7, <1>9
  <2>2. ASSUME NEW d \in P, NEW e \in runs
        PROVE  Extent(d, DBLOCK) \cap Extent(e, DBLOCK) = {}
    BY <2>1 DEF Covered
  <2> QED  BY <2>2, <1>4, <1>6 DEF RunsDisjoint
<1>13. Tiled(nodes, PreI(size, pre) \cup rest, P \cup runs, size + pre + pre * DSize, {})
  <2> DEFINE J == PreI(size, pre)
             C == Covered(P)
             R == Covered(runs)
             n == pre * DSize
             cur == size + pre + n
  <2>1. rest \cup R = holes /\ rest \cap R = {}
    BY <1>6
  <2> HIDE DEF J, C, R, rest, cur
  <2>2. (J \cup rest) \cap used = {}
    BY <2>1, <1>7, <1>9 DEF J
  <2>3. (C \cup R) \cap (used \cup (J \cup rest)) = {}
    BY <2>1, <1>7, <1>9 DEF J, C
  <2>4. used \cup (J \cup rest) \cup (C \cup R) = (0 .. (size - 1)) \cup J \cup C
    BY <2>1, <1>7
  <2>5. used \cup (J \cup rest) \cup (C \cup R) = 0 .. (cur - 1)
    BY <2>4, <1>9 DEF J, C, cur
  <2> QED  BY <2>2, <2>3, <2>5, <1>10, <1>12 DEF Tiled, used, J, C, R, cur
<1>14. MapsOK(PreI(size, pre) \cup rest, P \cup runs, size + pre + pre * DSize)
  <2>1. 0 .. ((size + pre + pre * DSize) - 1) \subseteq Blocks
    BY <1>1, <1>3 DEF Blocks
  <2> DEFINE J == PreI(size, pre)
             C == Covered(P)
             Z == 0 .. (size - 1)
  <2>2. Z \subseteq Blocks /\ J \subseteq Blocks /\ C \subseteq Blocks
    <3> HIDE DEF J, C, Z
    <3>1. Z \cup J \cup C \subseteq Blocks
      BY <2>1, <1>9 DEF J, C, Z
    <3> QED  BY <3>1
  <2>3. holes \subseteq Blocks
    BY <2>2, <1>7
  <2>4. J \cup rest \subseteq Blocks
    BY <2>2, <2>3
  <2>5. Covered(P \cup runs) \subseteq Blocks
    BY <2>2, <2>3, <1>6, <1>10
  <2>6. P \cup runs \subseteq Blocks
    BY <2>5, <1>11
  <2> QED  BY <2>4, <2>6, <1>1 DEF MapsOK
<1> QED  BY <1>2, <1>13, <1>14
-----------------------------------------------------------------------------
(***************************************************************************)
(* The inductive invariant.  Partition speaks of the maps while the card   *)
(* is open and of the saved table always; UniqueIds is needed so that a    *)
(* deleted id is gone, TypeOK so that extents are sets of numbers.         *)
(***************************************************************************)
IInv == TypeOK /\ Partition /\ UniqueIds

(***************************************************************************)
(* Whatever a program or erase operation does to an extent, the channel    *)
(* still holds contents in every block.                                    *)
(***************************************************************************)
LEMMA FlashType ==
  ASSUME flash \in [Blocks -> Contents]
  PROVE  /\ \A E : \A c \in Contents : Holding(E, c) \in [Blocks -> Contents]
         /\ \A E : TornWrite(E) \subseteq [Blocks -> Contents]
         /\ \A E : TornErase(E) \subseteq [Blocks -> Contents]
<1>1. Erased \in Contents /\ Dirty \in Contents
  BY DEF Contents
<1>2. \A E : \A c \in Contents : Holding(E, c) \in [Blocks -> Contents]
  BY DEF Holding
<1>3. \A E : TornWrite(E) \subseteq [Blocks -> Contents]
  BY <1>1 DEF TornWrite
<1>4. \A E : TornErase(E) \subseteq [Blocks -> Contents]
  BY <1>1 DEF TornErase
<1> QED  BY <1>2, <1>3, <1>4

(***************************************************************************)
(* The answers the requests give are replies.                              *)
(***************************************************************************)
LEMMA AnswerType ==
  /\ Answer("SSD_OK") \in Replies
  /\ Answer("SSD_ID_ALREADY_EXIST") \in Replies
  /\ Answer("SSD_ID_NO_EXIST") \in Replies
  /\ Answer("SSD_ERR_NO_INVALID_BLOCKS") \in Replies
  /\ Answer("SSD_ERR_NOT_BAD_BLOCK") \in Replies
  /\ Answer("error") \in Replies
BY DEF Answer, Replies, Codes

(***************************************************************************)
(* A block size is a number.                                               *)
(***************************************************************************)
LEMMA SizeType ==
  ASSUME NEW type \in Types
  PROVE  BlockSize(type) \in Int
BY SizesAssumption DEF BlockSize

(***************************************************************************)
(* The parts of the invariant the maps and the table decide, from the      *)
(* types and the tiling of the new state.                                  *)
(***************************************************************************)
LEMMA OpenState ==
  ASSUME IInv, opened
  PROVE  /\ MapsOK(fabI, fabD, current)
         /\ Tiled(hash, fabI, fabD, current, {})
         /\ hash \subseteq Nodes
         /\ Apart(hash)
         /\ Owned(hash) \subseteq Blocks
<1>1. MapsOK(fabI, fabD, current) /\ hash \subseteq Nodes
  BY DEF IInv, TypeOK, MapsOK
<1>2. Tiled(hash, fabI, fabD, current, {})
  BY DEF IInv, Partition
<1>3. 0 .. (current - 1) \subseteq Blocks
  BY <1>1, SizesAssumption DEF MapsOK, Blocks
<1>4. Owned(hash) \subseteq 0 .. (current - 1)
  BY <1>2 DEF Tiled
<1> QED  BY <1>1, <1>2, <1>3, <1>4 DEF Tiled

(***************************************************************************)
(* ssd_id_write keeps the invariant, a failed write included.              *)
(***************************************************************************)
LEMMA WritePreserves ==
  ASSUME IInv, NEW id \in Ids, NEW type \in Types, ssd_id_write(id, type)
  PROVE  IInv'
<1>1. opened /\ UNCHANGED <<opened, saved>>
  BY DEF ssd_id_write
<1>2. /\ MapsOK(fabI, fabD, current)
      /\ Tiled(hash, fabI, fabD, current, {})
      /\ hash \subseteq Nodes
  BY <1>1, OpenState
<1>3. TypeOK /\ Partition /\ UniqueIds
  BY DEF IInv
<1>4. CASE UNCHANGED <<hash, area, stat, flash>> /\ reply' \in Replies
  BY <1>1, <1>3, <1>4 DEF IInv, TypeOK, Partition, UniqueIds, SavedSound, area
<1>5. ASSUME NEW a \in ssd_alloc_logic_block(type),
             get_id_info(id) = {},
             hash' = set_id_info(hash, [id |-> id, block |-> a.index, len |-> type]),
             flash' = Holding(Extent(a.index, type), id),
             fabI' = a.fabI, fabD' = a.fabD, current' = a.current,
             free' = free - BlockSize(type), stat' = free', reply' = OK
      PROVE  IInv'
  <2> DEFINE n == [id |-> id, block |-> a.index, len |-> type]
  <2>1. Allocated(a, type)
    BY <1>2, AllocSound
  <2>2. n \in Nodes /\ Held(n) = Extent(a.index, type)
    BY <2>1 DEF Nodes, Held, Allocated
  <2>3. hash' = hash \cup {n}
    BY <1>5 DEF set_id_info
  <2>4. Tiled(hash', fabI', fabD', current', {})
    BY <1>5, <2>1, <2>2, <2>3, GiveToNode DEF Allocated
  <2>5. Partition'
    BY <1>1, <1>3, <2>4 DEF Partition, SavedSound
  <2>6. UniqueIds'
    BY <1>1, <1>3, <1>5, <2>3 DEF UniqueIds, get_id_info
  <2>7. TypeOK'
    <3>1. flash' \in [Blocks -> Contents]
      BY <1>3, <1>5, FlashType DEF TypeOK, Contents
    <3>2. free' \in Int /\ stat' \in Int
      BY <1>3, <1>5, SizeType DEF TypeOK
    <3>3. hash' \subseteq Nodes
      BY <1>2, <2>2, <2>3
    <3>4. reply' \in Replies
      BY <1>5, AnswerType DEF OK
    <3> QED  BY <1>1, <1>3, <1>5, <2>1, <3>1, <3>2, <3>3, <3>4 DEF TypeOK, Allocated, MapsOK
  <2> QED  BY <2>5, <2>6, <2>7 DEF IInv
<1>6. ASSUME NEW a \in ssd_alloc_logic_block(type),
             flash' \in TornWrite(Extent(a.index, type)),
             delete_logic_block(a.fabI, a.fabD, a.index, type),
             current' = a.current,
             stat' = free - BlockSize(type),
             free' = free - BlockSize(type) + BlockSize(type),
             reply' = Answer("error"), UNCHANGED hash
      PROVE  IInv'
  <2>1. Allocated(a, type)
    BY <1>2, AllocSound
  <2>2. a.index \in Nat
    BY <2>1 DEF Allocated, Blocks
  <2>3. /\ fabI' = IF type = IBLOCK THEN a.fabI \cup {a.index} ELSE a.fabI
        /\ fabD' = IF type = DBLOCK THEN a.fabD \cup {a.index} ELSE a.fabD
    BY <1>6 DEF delete_logic_block
  <2>4. Tiled(hash', fabI', fabD', current', {})
    BY <1>6, <2>1, <2>2, <2>3, GiveToMap DEF Allocated
  <2>5. Partition'
    BY <1>1, <1>3, <2>4 DEF Partition, SavedSound
  <2>6. UniqueIds'
    BY <1>1, <1>3, <1>6 DEF UniqueIds
  <2>7. MapsOK(fabI', fabD', current')
    BY <1>6, <2>1, <2>3 DEF MapsOK, Allocated
  <2>8. TypeOK'
    <3>1. flash' \in [Blocks -> Contents]
      BY <1>3, <1>6, FlashType DEF TypeOK
    <3>2. free' \in Int /\ stat' \in Int
      BY <1>3, <1>6, SizeType DEF TypeOK
    <3>3. reply' \in Replies
      BY <1>6, AnswerType
    <3> QED  BY <1>1, <1>3, <1>6, <2>7, <3>1, <3>2, <3>3 DEF TypeOK, MapsOK
  <2> QED  BY <2>5, <2>6, <2>8 DEF IInv
<1> QED  BY <1>4, <1>5, <1>6, AnswerType DEF ssd_id_write

(***************************************************************************)
(* ssd_id_read keeps the invariant.                                        *)
(***************************************************************************)
LEMMA ReadPreserves ==
  ASSUME IInv, NEW id \in Ids, ssd_id_read(id)
  PROVE  IInv'
<1>1. UNCHANGED <<hash, area, stat, flash, opened, saved>>
  BY DEF ssd_id_read
<1>2. reply' \in Replies
  <2>1. \A n \in Nodes : [code |-> "SSD_OK", good |-> \A b \in Held(n) : flash[b] = id] \in Replies
    BY DEF Replies, Codes
  <2>2. hash \subseteq Nodes
    BY DEF IInv, TypeOK
  <2> QED  BY <2>1, <2>2, AnswerType DEF ssd_id_read, get_id_info
<1> QED  BY <1>1, <1>2 DEF IInv, TypeOK, Partition, UniqueIds, SavedSound, area

(***************************************************************************)
(* A node leaves the table and its extent goes back to the maps: what a    *)
(* delete and a bad-block request have in common.                          *)
(***************************************************************************)
LEMMA DropPreserves ==
  ASSUME IInv, opened, NEW n \in hash,
         hash' = del_id_info(n),
         delete_logic_block(fabI, fabD, n.block, n.len),
         UNCHANGED <<current, opened, saved>>
  PROVE  /\ MapsOK(fabI', fabD', current')
         /\ hash' \subseteq Nodes
         /\ Partition'
         /\ UniqueIds'
<1>1. /\ MapsOK(fabI, fabD, current)
      /\ Tiled(hash, fabI, fabD, current, {})
      /\ hash \subseteq Nodes
  BY OpenState
<1>2. n.block \in Blocks /\ n.block \in Nat /\ n.len \in Types
  BY <1>1 DEF Nodes, Blocks
<1>3. hash' = hash \ {n}
  BY DEF del_id_info
<1>4. Tiled(hash', fabI, fabD, current, Extent(n.block, n.len))
  BY <1>1, <1>3, TakeFromNode DEF Held
<1>5. /\ fabI' = IF n.len = IBLOCK THEN fabI \cup {n.block} ELSE fabI
      /\ fabD' = IF n.len = DBLOCK THEN fabD \cup {n.block} ELSE fabD
  BY DEF delete_logic_block
<1>6. Tiled(hash', fabI', fabD', current', {})
  BY <1>2, <1>4, <1>5, GiveToMap
<1>7. Partition'
  BY <1>6 DEF IInv, Partition, SavedSound
<1>8. UniqueIds'
  BY <1>3 DEF IInv, UniqueIds
<1>9. MapsOK(fabI', fabD', current')
  BY <1>1, <1>2, <1>5 DEF MapsOK
<1> QED  BY <1>1, <1>3, <1>7, <1>8, <1>9

(***************************************************************************)
(* A delete or bad-block request whose erase fails puts the node back and  *)
(* leaves only the flash changed.                                          *)
(***************************************************************************)
LEMMA RedoPreserves ==
  ASSUME IInv, opened, NEW n \in hash,
         hash' = set_id_info(del_id_info(n), n),
         flash' \in TornErase(Held(n)),
         reply' = Answer("error"),
         UNCHANGED <<area, stat, opened, saved>>
  PROVE  IInv'
<1>1. hash' = hash
  BY DEF set_id_info, del_id_info
<1>2. flash' \in [Blocks -> Contents]
  BY FlashType DEF IInv, TypeOK
<1>3. reply' \in Replies
  BY AnswerType
<1> QED  BY <1>1, <1>2, <1>3 DEF IInv, TypeOK, Partition, UniqueIds, SavedSound, area

(***************************************************************************)
(* ssd_id_delete keeps the invariant, a failed erase included.             *)
(***************************************************************************)
LEMMA DeletePreserves ==
  ASSUME IInv, NEW id \in Ids, ssd_id_delete(id)
  PROVE  IInv'
<1>1. opened /\ UNCHANGED <<current, opened, saved>>
  BY DEF ssd_id_delete
<1>2. CASE reply' \in Replies /\ UNCHANGED <<hash, fabI, fabD, free, stat, flash>>
  BY <1>1, <1>2 DEF IInv, TypeOK, Partition, UniqueIds, SavedSound
<1>3. ASSUME NEW n \in get_id_info(id),
             hash' = del_id_info(n),
             flash' = Holding(Held(n), Erased),
             delete_logic_block(fabI, fabD, n.block, n.len),
             free' = free + BlockSize(n.len),
             stat' = free',
             reply' = OK
      PROVE  IInv'
  <2>1. n \in hash
    BY DEF get_id_info
  <2>2. /\ MapsOK(fabI', fabD', current') /\ hash' \subseteq Nodes
        /\ Partition' /\ UniqueIds'
    BY <1>1, <1>3, <2>1, DropPreserves
  <2>3. flash' \in [Blocks -> Contents]
    BY <1>3, FlashType DEF IInv, TypeOK, Contents
  <2>4. free' \in Int /\ stat' \in Int
    BY <1>3, <2>1, SizeType DEF IInv, TypeOK, Nodes
  <2>5. reply' \in Replies
    BY <1>3, AnswerType DEF OK
  <2>6. TypeOK'
    BY <1>1, <2>2, <2>3, <2>4, <2>5 DEF IInv, TypeOK, MapsOK
  <2> QED  BY <2>2, <2>6 DEF IInv
<1>4. ASSUME NEW n \in get_id_info(id),
             hash' = set_id_info(del_id_info(n), n),
             flash' \in TornErase(Held(n)),
             reply' = Answer("error"),
             UNCHANGED <<fabI, fabD, free, stat>>
      PROVE  IInv'
  BY <1>1, <1>4, RedoPreserves DEF get_id_info, area
<1> QED  BY <1>2, <1>3, <1>4, AnswerType DEF ssd_id_delete

(***************************************************************************)
(* ssd_mark_bad_block keeps the invariant, whichever of its steps fails.   *)
(***************************************************************************)
LEMMA MarkBadPreserves ==
  ASSUME IInv, NEW id \in Ids, ssd_mark_bad_block(id)
  PROVE  IInv'
<1>1. opened /\ UNCHANGED <<current, stat, opened, saved>>
  BY DEF ssd_mark_bad_block
<1>2. CASE reply' \in Replies /\ UNCHANGED <<hash, fabI, fabD, free, flash>>
  BY <1>1, <1>2 DEF IInv, TypeOK, Partition, UniqueIds, SavedSound
<1>3. ASSUME NEW n \in get_id_info(id),
             hash' = del_id_info(n),
             flash' = Holding(Held(n), Erased),
             delete_logic_block(fabI, fabD, n.block, n.len),
             free' = free + BlockSize(n.len),
             reply' \in {OK, Answer("error")}
      PROVE  IInv'
  <2>1. n \in hash
    BY DEF get_id_info
  <2>2. /\ MapsOK(fabI', fabD', current') /\ hash' \subseteq Nodes
        /\ Partition' /\ UniqueIds'
    BY <1>1, <1>3, <2>1, DropPreserves
  <2>3. flash' \in [Blocks -> Contents]
    BY <1>3, FlashType DEF IInv, TypeOK, Contents
  <2>4. free' \in Int
    BY <1>3, <2>1, SizeType DEF IInv, TypeOK, Nodes
  <2>5. reply' \in Replies
    BY <1>3, AnswerType DEF OK
  <2>6. TypeOK'
    BY <1>1, <2>2, <2>3, <2>4, <2>5 DEF IInv, TypeOK, MapsOK
  <2> QED  BY <2>2, <2>6 DEF IInv
<1>4. ASSUME NEW n \in get_id_info(id),
             hash' = set_id_info(del_id_info(n), n),
             flash' \in TornErase(Held(n)),
             reply' = Answer("error"),
             UNCHANGED <<fabI, fabD, free>>
      PROVE  IInv'
  BY <1>1, <1>4, RedoPreserves DEF get_id_info, area
<1> QED  BY <1>2, <1>3, <1>4, AnswerType DEF ssd_mark_bad_block
-----------------------------------------------------------------------------
(***************************************************************************)
(* The size of an interval.                                                *)
(***************************************************************************)
LEMMA IntervalCount ==
  ASSUME NEW a \in Int, NEW b \in Int, a <= b + 1
  PROVE  IsFiniteSet(a .. b) /\ Cardinality(a .. b) = (b - a) + 1
<1>1. IsFiniteSet(a .. b) /\ Cardinality(a .. b) = IF a > b THEN 0 ELSE b - a + 1
  BY FS_Interval
<1>2. CASE a > b
  BY <1>1, <1>2
<1>3. CASE ~ (a > b)
  BY <1>1, <1>3
<1> QED  BY <1>2, <1>3

(***************************************************************************)
(* The size of a disjoint union.                                           *)
(***************************************************************************)
LEMMA DisjointCount ==
  ASSUME NEW S, NEW T, IsFiniteSet(S), IsFiniteSet(T), S \cap T = {}
  PROVE  /\ Cardinality(S) \in Nat /\ Cardinality(T) \in Nat
         /\ Cardinality(S \cup T) = Cardinality(S) + Cardinality(T)
<1>1. Cardinality(S) \in Nat /\ Cardinality(T) \in Nat
  BY FS_CardinalityType
<1>2. Cardinality(S \cup T) = Cardinality(S) + Cardinality(T) - Cardinality(S \cap T)
  BY FS_Union
<1>3. Cardinality(S \cap T) = 0
  BY FS_EmptySet
<1> QED  BY <1>1, <1>2, <1>3

(***************************************************************************)
(* free_blocks as ssd_reload_bitmap counts it is the number of blocks the  *)
(* rebuilt table does not hold.                                            *)
(***************************************************************************)
LEMMA ReloadCount ==
  ASSUME NEW nodes, Owned(nodes) \subseteq Blocks, ssd_reload_bitmap(nodes)
  PROVE  free' = Cardinality(Blocks \ Owned(nodes)) /\ free' \in Int
<1> DEFINE used  == Owned(nodes)
           size  == UsedSize(used)
           holes == (0 .. (size - 1)) \ used
           runs  == Runs(holes)
           rest  == holes \ Covered(runs)
           tail  == size .. (NBlocks - 1)
<1>1. size \in 0 .. NBlocks /\ used \subseteq 0 .. (size - 1)
  BY ReloadFits
<1>2. free' = NBlocks - size + DSize * Cardinality(runs) + Cardinality(rest)
  BY DEF ssd_reload_bitmap, ReloadFree
<1>3. NBlocks \in Nat /\ DSize \in Nat /\ size \in Nat
  BY <1>1, SizesAssumption
<1> HIDE DEF size
<1>4. holes \subseteq Nat /\ IsFiniteSet(holes)
  <2>1. IsFiniteSet(0 .. (size - 1))
    BY <1>3, FS_Interval
  <2>2. holes \in SUBSET (0 .. (size - 1)) /\ holes \subseteq Nat
    BY <1>3
  <2> HIDE DEF holes
  <2> QED  BY <2>1, <2>2, FS_Subset
<1>5. tail \cup holes = Blocks \ used /\ tail \cap holes = {}
  BY <1>1, <1>3 DEF Blocks
<1>6. IsFiniteSet(tail) /\ Cardinality(tail) = NBlocks - size
  BY <1>1, <1>3, IntervalCount
<1> HIDE DEF used, holes, tail
<1>7. /\ runs \subseteq holes /\ Covered(runs) \subseteq holes
      /\ \A d, e \in runs : d # e => Extent(d, DBLOCK) \cap Extent(e, DBLOCK) = {}
  BY <1>4, RunsApart
<1> HIDE DEF runs
<1>8. IsFiniteSet(runs) /\ runs \subseteq Nat /\ IsFiniteSet(rest)
  BY <1>4, <1>7, FS_Subset
<1>9. IsFiniteSet(Covered(runs)) /\ Cardinality(Covered(runs)) = DSize * Cardinality(runs)
  BY <1>7, <1>8, CoveredCount
<1>10. Cardinality(Covered(runs) \cup rest) = Cardinality(Covered(runs)) + Cardinality(rest)
  <2>1. Covered(runs) \cap rest = {}
    OBVIOUS
  <2> HIDE DEF rest
  <2> QED  BY <2>1, <1>8, <1>9, DisjointCount
<1>11. Covered(runs) \cup rest = holes
  BY <1>7
<1>12. Cardinality(tail \cup holes) = Cardinality(tail) + Cardinality(holes)
  BY <1>4, <1>5, <1>6, DisjointCount
<1>13. Cardinality(runs) \in Nat /\ Cardinality(rest) \in Nat /\ DSize * Cardinality(runs) \in Nat
  BY <1>3, <1>8, FS_CardinalityType
<1>14. free' = Cardinality(Blocks \ used)
  <2> HIDE DEF rest
  <2>1. Cardinality(Blocks \ used) = Cardinality(tail) + Cardinality(holes)
    BY <1>5, <1>12
  <2>2. Cardinality(holes) = DSize * Cardinality(runs) + Cardinality(rest)
    BY <1>9, <1>10, <1>11
  <2> DEFINE x == DSize * Cardinality(runs)
             y == Cardinality(rest)
  <2>3. x \in Nat /\ y \in Nat /\ Cardinality(Blocks \ used) = (NBlocks - size) + (x + y)
    BY <2>1, <2>2, <1>6, <1>13
  <2>4. free' = (NBlocks - size) + x + y
    BY <1>2
  <2> HIDE DEF x, y
  <2> QED  BY <2>3, <2>4, <1>3
<1> QED  BY <1>2, <1>3, <1>13, <1>14 DEF used

(***************************************************************************)
(* An extent has as many blocks as its type says.                          *)
(***************************************************************************)
LEMMA ExtentCount ==
  ASSUME NEW start \in Nat, NEW type \in Types
  PROVE  /\ IsFiniteSet(Extent(start, type))
         /\ Cardinality(Extent(start, type)) = BlockSize(type)
<1>1. BlockSize(type) \in Nat /\ BlockSize(type) > 0
  BY SizesAssumption DEF BlockSize
<1> DEFINE last == start + BlockSize(type) - 1
<1>2. start \in Int /\ last \in Int /\ start <= last + 1 /\ (last - start) + 1 = BlockSize(type)
  BY <1>1
<1>3. Extent(start, type) = start .. last
  BY DEF Extent
<1> HIDE DEF last
<1>4. IsFiniteSet(start .. last) /\ Cardinality(start .. last) = (last - start) + 1
  BY <1>2, IntervalCount
<1> QED  BY <1>2, <1>3, <1>4

(***************************************************************************)
(* Holding one more extent leaves that many blocks less.                   *)
(***************************************************************************)
LEMMA HoldCount ==
  ASSUME NEW X, NEW start \in Nat, NEW type \in Types,
         Extent(start, type) \subseteq Blocks, Extent(start, type) \cap X = {}
  PROVE  Cardinality(Blocks \ (X \cup Extent(start, type)))
           = Cardinality(Blocks \ X) - BlockSize(type)
<1> DEFINE E == Extent(start, type)
<1>1. IsFiniteSet(Blocks)
  BY SizesAssumption, FS_Interval DEF Blocks
<1>2. IsFiniteSet(Blocks \ X)
  BY <1>1, FS_Difference
<1>3. (Blocks \ X) \cap E = E /\ (Blocks \ X) \ E = Blocks \ (X \cup E)
  OBVIOUS
<1>4. Cardinality((Blocks \ X) \ E) = Cardinality(Blocks \ X) - Cardinality((Blocks \ X) \cap E)
  BY <1>2, FS_Difference
<1> QED  BY <1>3, <1>4, ExtentCount

(***************************************************************************)
(* ssd_sys_close keeps the invariant: what it saves is as sound as the     *)
(* table.                                                                  *)
(***************************************************************************)
LEMMA ClosePreserves ==
  ASSUME IInv, ssd_sys_close
  PROVE  IInv'
<1>1. /\ opened
      /\ UNCHANGED <<area, stat, flash>>
      /\ reply' \in Replies
  BY AnswerType DEF ssd_sys_close, OK
<1>2. CASE saved' = hash /\ hash' = {} /\ opened' = FALSE
  <2>1. Apart(hash) /\ Owned(hash) \subseteq Blocks
    BY <1>1, OpenState
  <2>2. Partition'
    BY <1>2, <2>1 DEF Partition, SavedSound
  <2>3. UniqueIds'
    BY <1>2 DEF IInv, UniqueIds
  <2>4. TypeOK'
    BY <1>1, <1>2 DEF IInv, TypeOK, area
  <2> QED  BY <2>2, <2>3, <2>4 DEF IInv
<1>3. CASE UNCHANGED <<hash, opened, saved>>
  BY <1>1, <1>3 DEF IInv, TypeOK, Partition, UniqueIds, SavedSound, area
<1> QED  BY <1>2, <1>3 DEF ssd_sys_close

(***************************************************************************)
(* ssd_sys_open keeps the invariant: the rebuilt maps fit the loaded       *)
(* table.                                                                  *)
(***************************************************************************)
LEMMA OpenPreserves ==
  ASSUME IInv, ssd_sys_open
  PROVE  IInv'
<1>1. UNCHANGED <<flash, saved>> /\ reply' \in Replies
  BY AnswerType DEF ssd_sys_open, OK
<1>2. CASE hash' = saved /\ ssd_reload_bitmap(saved) /\ stat' = free' /\ opened' = TRUE
  <2>1. Apart(saved) /\ Owned(saved) \subseteq Blocks
    BY DEF IInv, Partition, SavedSound
  <2>2. MapsOK(fabI', fabD', current') /\ Tiled(hash', fabI', fabD', current', {})
    BY <1>2, <2>1, ReloadSound
  <2>3. free' \in Int
    BY <1>2, <2>1, ReloadCount
  <2>4. Partition'
    BY <1>1, <2>2 DEF IInv, Partition, SavedSound
  <2>5. UniqueIds'
    BY <1>1, <1>2 DEF IInv, UniqueIds
  <2>6. TypeOK'
    BY <1>1, <1>2, <2>2, <2>3 DEF IInv, TypeOK, MapsOK
  <2> QED  BY <2>4, <2>5, <2>6 DEF IInv
<1>3. CASE UNCHANGED <<hash, area, stat, opened>>
  BY <1>1, <1>3 DEF IInv, TypeOK, Partition, UniqueIds, SavedSound, area
<1> QED  BY <1>2, <1>3 DEF ssd_sys_open

(***************************************************************************)
(* ssd_sys_open_newcard keeps the invariant, also when it fails half way.  *)
(***************************************************************************)
LEMMA OpenNewPreserves ==
  ASSUME IInv, ssd_sys_open_newcard
  PROVE  IInv'
<1>1. reply' \in Replies
  BY AnswerType DEF ssd_sys_open_newcard, OK
<1>2. CASE /\ hash' = {} /\ saved' = {}
           /\ flash' = [b \in Blocks |-> Erased]
           /\ ssd_reload_bitmap({}) /\ stat' = free' /\ opened' = TRUE
  <2>1. Apart({}) /\ Owned({}) \subseteq Blocks
    BY DEF Apart, Owned
  <2>2. MapsOK(fabI', fabD', current') /\ Tiled(hash', fabI', fabD', current', {})
    BY <1>2, <2>1, ReloadSound
  <2>3. free' \in Int
    BY <1>2, <2>1, ReloadCount
  <2>4. Partition'
    BY <1>2, <2>1, <2>2 DEF Partition, SavedSound
  <2>5. UniqueIds'
    BY <1>2 DEF UniqueIds
  <2>6. flash' \in [Blocks -> Contents]
    BY <1>2 DEF Contents
  <2>7. TypeOK'
    BY <1>1, <1>2, <2>2, <2>3, <2>6 DEF IInv, TypeOK, MapsOK
  <2> QED  BY <2>4, <2>5, <2>7 DEF IInv
<1>3. CASE UNCHANGED <<hash, area, stat, opened, saved>>
  <2>1. flash' \in [Blocks -> Contents]
    <3>1. \A E : Holding(E, Erased) \in [Blocks -> Contents]
      BY FlashType DEF IInv, TypeOK, Contents
    <3>2. \A h \in [Blocks -> Contents] : \A b : [h EXCEPT ![b] = Dirty] \in [Blocks -> Contents]
      BY DEF Contents
    <3>3. CASE \E E : flash' = Holding(E, Erased)
      BY <3>1, <3>3
    <3>4. CASE \E E, b : flash' = [Holding(E, Erased) EXCEPT ![b] = Dirty]
      BY <3>1, <3>2, <3>4
    <3>5. CASE flash' = [b \in Blocks |-> Erased]
      BY <3>5 DEF Contents
    <3> QED  BY <3>3, <3>4, <3>5 DEF ssd_sys_open_newcard
  <2> QED  BY <1>1, <1>3, <2>1 DEF IInv, TypeOK, Partition, UniqueIds, SavedSound, area
<1> QED  BY <1>2, <1>3 DEF ssd_sys_open_newcard

(***************************************************************************)
(* A freshly initialised card satisfies the invariant and the count.       *)
(***************************************************************************)
LEMMA InitIInv ==
  ASSUME Init
  PROVE  IInv /\ FreeCount
<1> DEFINE n == PreAlloc * DSize
           J == PreI(0, PreAlloc)
           P == PreD(0, PreAlloc)
<1>1. /\ NBlocks \in Nat /\ NBlocks > 0 /\ DSize \in Nat /\ DSize > 1 /\ PreAlloc \in Nat
      /\ PreAlloc + n <= NBlocks
  <2>1. NBlocks \in Nat /\ NBlocks > 0 /\ NBlocks \div 2 \in Nat
    BY SizesAssumption
  <2>2. DSize \in Nat /\ PreAlloc \in Nat /\ DSize > 1 /\ n \in Nat
    BY SizesAssumption
  <2>3. PreAlloc + n <= NBlocks - (NBlocks \div 2)
    BY SizesAssumption
  <2> HIDE DEF n
  <2> QED  BY <2>1, <2>2, <2>3
<1>2. /\ P \subseteq Nat
      /\ n \in Nat
      /\ Covered(P) = (0 + PreAlloc) .. (0 + PreAlloc + n - 1)
      /\ RunsDisjoint(P)
  BY <1>1, PreAreas DEF RunsDisjoint
<1>3. J = 0 .. (PreAlloc - 1)
  BY <1>1 DEF PreI
<1>4. \A d \in P : d \in Covered(P)
  BY <1>1, <1>2 DEF Covered, Extent, BlockSize, IBLOCK, DBLOCK
<1>5. /\ hash = {} /\ saved = {} /\ fabI = J /\ fabD = P /\ current = PreAlloc + n
      /\ free = NBlocks /\ stat = free /\ flash = [b \in Blocks |-> Erased]
      /\ opened = TRUE /\ reply = OK
  BY DEF Init
<1> HIDE DEF n, J, P
<1>6. Owned({}) = {} /\ Apart({})
  BY DEF Owned, Apart
<1>7. /\ J \cap Covered(P) = {}
      /\ J \cup Covered(P) = 0 .. ((PreAlloc + n) - 1)
      /\ J \cup Covered(P) \subseteq Blocks
  BY <1>1, <1>2, <1>3 DEF Blocks
<1>8. Tiled(hash, fabI, fabD, current, {})
  BY <1>2, <1>5, <1>6, <1>7 DEF Tiled
<1>9. Partition
  BY <1>5, <1>6, <1>8 DEF Partition, SavedSound
<1>10. UniqueIds
  BY <1>5 DEF UniqueIds
<1>11. TypeOK
  <2>1. fabI \subseteq Blocks /\ fabD \subseteq Blocks
    BY <1>4, <1>5, <1>7
  <2>2. flash \in [Blocks -> Contents]
    BY <1>5 DEF Contents
  <2>3. reply \in Replies
    BY <1>5, AnswerType DEF OK
  <2>4. current \in 0 .. NBlocks /\ free \in Int /\ stat \in Int
    BY <1>1, <1>2, <1>5
  <2> QED  BY <1>5, <2>1, <2>2, <2>3, <2>4 DEF TypeOK
<1>12. FreeCount
  <2>1. Cardinality(Blocks) = NBlocks
    BY <1>1, IntervalCount DEF Blocks
  <2>2. Blocks \ Owned(hash) = Blocks
    BY <1>5, <1>6
  <2> QED  BY <1>5, <2>1, <2>2 DEF FreeCount
<1> QED  BY <1>9, <1>10, <1>11, <1>12 DEF IInv

(***************************************************************************)
(* Every step keeps the invariant.                                         *)
(***************************************************************************)
LEMMA NextIInv ==
  ASSUME IInv, [Next]_vars
  PROVE  IInv'
<1>1. CASE UNCHANGED vars
  BY <1>1 DEF IInv, TypeOK, Partition, UniqueIds, SavedSound, vars, area
<1>2. CASE Next
  BY <1>2, WritePreserves, ReadPreserves, DeletePreserves, MarkBadPreserves,
     ClosePreserves, OpenPreserves, OpenNewPreserves DEF Next
<1> QED  BY <1>1, <1>2

(***************************************************************************)
(* Type correctness, for every size of the channel and every set of ids.   *)
(***************************************************************************)
THEOREM TypeCorrect == Spec => []TypeOK
<1>1. Init => IInv
  BY InitIInv
<1>2. IInv /\ [Next]_vars => IInv'
  BY NextIInv
<1>3. IInv => TypeOK
  BY DEF IInv
<1> QED  BY <1>1, <1>2, <1>3, PTL DEF Spec

(***************************************************************************)
(* No sequence of writes, deletes, failures and re-opens of a channel of   *)
(* any size hands a block to two owners or loses one.                      *)
(***************************************************************************)
THEOREM PartitionHolds == Spec => []Partition
<1>1. Init => IInv
  BY InitIInv
<1>2. IInv /\ [Next]_vars => IInv'
  BY NextIInv
<1>3. IInv => Partition
  BY DEF IInv
<1> QED  BY <1>1, <1>2, <1>3, PTL DEF Spec

(***************************************************************************)
(* No id is ever listed twice, in memory or in the saved table.            *)
(***************************************************************************)
THEOREM UniqueIdsHolds == Spec => []UniqueIds
<1>1. Init => IInv
  BY InitIInv
<1>2. IInv /\ [Next]_vars => IInv'
  BY NextIInv
<1>3. IInv => UniqueIds
  BY DEF IInv
<1> QED  BY <1>1, <1>2, <1>3, PTL DEF Spec
-----------------------------------------------------------------------------
(***************************************************************************)
(* Dropping a node raises free_blocks by what the node held.               *)
(***************************************************************************)
LEMMA DropCount ==
  ASSUME IInv, opened, FreeCount, NEW n \in hash, hash' = del_id_info(n),
         free' = free + BlockSize(n.len)
  PROVE  free' = Cardinality(Blocks \ Owned(hash'))
<1> DEFINE X == Owned(hash \ {n})
<1>1. hash \subseteq Nodes /\ Apart(hash) /\ Owned(hash) \subseteq Blocks
  BY OpenState
<1>2. n.block \in Nat /\ n.len \in Types /\ Held(n) = Extent(n.block, n.len)
  BY <1>1 DEF Nodes, Held, Blocks
<1>3. X \cap Held(n) = {} /\ X \cup Held(n) = Owned(hash)
  BY <1>1, OwnedRemove
<1>4. Held(n) \subseteq Blocks
  BY <1>1, <1>3
<1> HIDE DEF X
<1>5. Cardinality(Blocks \ (X \cup Held(n))) = Cardinality(Blocks \ X) - BlockSize(n.len)
  <2>1. /\ Extent(n.block, n.len) \subseteq Blocks
        /\ Extent(n.block, n.len) \cap X = {}
    BY <1>2, <1>3, <1>4
  <2>2. Cardinality(Blocks \ (X \cup Extent(n.block, n.len)))
          = Cardinality(Blocks \ X) - BlockSize(n.len)
    BY <1>2, <2>1, HoldCount
  <2> QED  BY <1>2, <2>2
<1>6. free = Cardinality(Blocks \ X) - BlockSize(n.len)
  BY <1>3, <1>5 DEF FreeCount
<1>7. BlockSize(n.len) \in Int
  BY <1>2, SizeType
<1>8. Cardinality(Blocks \ X) \in Int
  <2>1. IsFiniteSet(Blocks)
    BY SizesAssumption, IntervalCount DEF Blocks
  <2>2. IsFiniteSet(Blocks \ X)
    BY <2>1, FS_Difference
  <2>3. Cardinality(Blocks \ X) \in Nat
    BY <2>2, FS_CardinalityType
  <2> QED  BY <2>3
<1> QED  BY <1>6, <1>7, <1>8 DEF del_id_info, X

(***************************************************************************)
(* Every step keeps free_blocks equal to the number of blocks no id holds. *)
(***************************************************************************)
LEMMA NextFreeCount ==
  ASSUME IInv, FreeCount, [Next]_vars
  PROVE  FreeCount'
<1>1. CASE UNCHANGED <<hash, free, opened>>
  BY <1>1 DEF FreeCount
<1>2. CASE ~opened'
  BY <1>2 DEF FreeCount
<1>3. ASSUME NEW id \in Ids, NEW type \in Types, ssd_id_write(id, type)
      PROVE  FreeCount'
  <2>1. opened /\ free = Cardinality(Blocks \ Owned(hash)) /\ free \in Int
    BY <1>3 DEF ssd_id_write, FreeCount, IInv, TypeOK
  <2>2. CASE UNCHANGED <<hash, area>>
    BY <1>3, <2>2, <1>1 DEF area, ssd_id_write
  <2>3. ASSUME NEW a \in ssd_alloc_logic_block(type),
               hash' = set_id_info(hash, [id |-> id, block |-> a.index, len |-> type]),
               free' = free - BlockSize(type)
        PROVE  FreeCount'
    <3> DEFINE n == [id |-> id, block |-> a.index, len |-> type]
    <3>1. Allocated(a, type)
      BY <2>1, OpenState, AllocSound
    <3>2. a.index \in Nat /\ Extent(a.index, type) \subseteq Blocks
      BY <3>1 DEF Allocated, Blocks
    <3>3. Extent(a.index, type) \cap Owned(hash) = {}
      BY <3>1 DEF Allocated, Tiled
    <3>4. Owned(hash') = Owned(hash) \cup Extent(a.index, type)
      <4>1. Owned(hash \cup {n}) = Owned(hash) \cup Held(n)
        BY OwnedAdd
      <4>2. Held(n) = Extent(a.index, type)
        BY DEF Held
      <4> QED  BY <2>3, <4>1, <4>2 DEF set_id_info
    <3>5. Cardinality(Blocks \ (Owned(hash) \cup Extent(a.index, type)))
            = Cardinality(Blocks \ Owned(hash)) - BlockSize(type)
      BY <3>2, <3>3, HoldCount
    <3> QED  BY <2>1, <2>3, <3>4, <3>5 DEF FreeCount
  <2>4. CASE UNCHANGED hash /\ free' = free - BlockSize(type) + BlockSize(type)
    <3>1. free' = free
      BY <2>1, <2>4, SizeType
    <3> QED  BY <1>3, <2>4, <3>1, <1>1 DEF ssd_id_write
  <2> QED  BY <1>3, <2>2, <2>3, <2>4 DEF ssd_id_write
<1>4. ASSUME NEW id \in Ids, ssd_id_delete(id) \/ ssd_mark_bad_block(id)
      PROVE  FreeCount'
  <2>1. opened /\ opened' = opened
    BY <1>4 DEF ssd_id_delete, ssd_mark_bad_block
  <2>2. CASE UNCHANGED <<hash, free>>
    BY <2>1, <2>2, <1>1
  <2>3. ASSUME NEW n \in get_id_info(id), hash' = del_id_info(n), free' = free + BlockSize(n.len)
        PROVE  FreeCount'
    <3>1. n \in hash
      BY DEF get_id_info
    <3> QED  BY <2>1, <2>3, <3>1, DropCount DEF FreeCount
  <2>4. ASSUME NEW n \in get_id_info(id), hash' = set_id_info(del_id_info(n), n), UNCHANGED free
        PROVE  FreeCount'
    <3>1. hash' = hash
      BY <2>4 DEF get_id_info, set_id_info, del_id_info
    <3> QED  BY <2>1, <2>4, <3>1, <1>1
  <2> QED  BY <1>4, <2>2, <2>3, <2>4 DEF ssd_id_delete, ssd_mark_bad_block
<1>5. CASE ssd_sys_close
  BY <1>1, <1>2, <1>5 DEF ssd_sys_close, area
<1>6. ASSUME NEW nodes, hash' = nodes, ssd_reload_bitmap(nodes), Owned(nodes) \subseteq Blocks
      PROVE  FreeCount'
  BY <1>6, ReloadCount DEF FreeCount
<1>7. CASE ssd_sys_open
  <2>1. Owned(saved) \subseteq Blocks
    BY DEF IInv, Partition, SavedSound
  <2> QED  BY <1>1, <1>6, <1>7, <2>1 DEF ssd_sys_open, area
<1>8. CASE ssd_sys_open_newcard
  <2>1. Owned({}) \subseteq Blocks
    BY DEF Owned
  <2> QED  BY <1>1, <1>6, <1>8, <2>1 DEF ssd_sys_open_newcard, area
<1>9. ASSUME NEW id \in Ids, ssd_id_read(id)
      PROVE  FreeCount'
  BY <1>1, <1>9 DEF ssd_id_read, area
<1>10. CASE UNCHANGED vars
  BY <1>1, <1>10 DEF vars, area
<1> QED  BY <1>3, <1>4, <1>5, <1>7, <1>8, <1>9, <1>10 DEF Next

(***************************************************************************)
(* The free-block count is exact for every size of the channel and of a    *)
(* data block, after any number of splits, merges, failures and re-opens.  *)
(***************************************************************************)
THEOREM FreeCountHolds == Spec => []FreeCount
<1>1. Init => IInv /\ FreeCount
  BY InitIInv
<1>2. IInv /\ FreeCount /\ [Next]_vars => IInv' /\ FreeCount'
  BY NextIInv, NextFreeCount
<1> QED  BY <1>1, <1>2, PTL DEF Spec
-----------------------------------------------------------------------------
(***************************************************************************)
(* When the scan for data runs finds nothing, no DSize consecutive blocks  *)
(* are free in the map: the run they belong to would have been found at    *)
(* its left end.                                                           *)
(***************************************************************************)
LEMMA NoRunNoRoom ==
  ASSUME NEW S, S \subseteq Nat, Runs(S) = {}, NEW b \in Nat
  PROVE  ~ (Extent(b, DBLOCK) \subseteq S)
<1> SUFFICES ASSUME Extent(b, DBLOCK) \subseteq S
             PROVE  FALSE
  OBVIOUS
<1>1. DSize \in Nat /\ DSize > 1 /\ BlockSize(DBLOCK) = DSize
  BY SizesAssumption DEF BlockSize, IBLOCK, DBLOCK
<1>2. b \in S /\ b .. (b + DSize - 1) \subseteq S
  BY <1>1 DEF Extent
<1> DEFINE a == RunStart(S, b)
<1>3. a \in Nat /\ a <= b /\ a .. b \subseteq S /\ \A x \in S : x .. b \subseteq S => a <= x
  BY <1>2, RunStartProperty
<1> HIDE DEF a
<1>4. a \in S
  BY <1>3
<1> DEFINE c == RunStart(S, a)
<1>5. c \in Nat /\ c <= a /\ c .. a \subseteq S
  BY <1>4, RunStartProperty
<1> HIDE DEF c
<1>6. c \in S /\ c .. b \subseteq S
  BY <1>3, <1>5
<1>7. c = a
  BY <1>3, <1>5, <1>6
<1>8. Extent(a, DBLOCK) \subseteq S
  BY <1>1, <1>2, <1>3 DEF Extent
<1>9. (a - RunStart(S, a)) % DSize = 0
  BY <1>1, <1>3, <1>7 DEF c
<1> QED  BY <1>4, <1>8, <1>9 DEF Runs

(***************************************************************************)
(* The allocator gives up only when it must: the tiling leaves no other    *)
(* place for a free block than the two maps and the tail.                  *)
(***************************************************************************)
LEMMA RefusalFromTiling ==
  ASSUME IInv
  PROVE  RefusalsJustified
<1> SUFFICES ASSUME opened
             PROVE  /\ AllocI = {} => Owned(hash) = Blocks
                    /\ AllocD = {} => \A b \in 0 .. (NBlocks - DSize) :
                         \/ Extent(b, DBLOCK) \cap Owned(hash) # {}
                         \/ b < current /\ current < b + DSize
  BY DEF RefusalsJustified, ssd_alloc_logic_block, IBLOCK, DBLOCK
<1>1. /\ fabI \subseteq Blocks /\ fabI \subseteq Nat
      /\ current \in 0 .. NBlocks /\ current \in Nat
      /\ Owned(hash) \cup fabI \cup Covered(fabD) = 0 .. (current - 1)
  BY OpenState DEF MapsOK, Tiled, Blocks
<1>2. NBlocks \in Nat /\ DSize \in Nat /\ DSize > 1
  BY SizesAssumption
<1>3. Covered({}) = {}
  BY DEF Covered
<1>4. AllocI = {} => Owned(hash) = Blocks
  <2> SUFFICES ASSUME AllocI = {}  PROVE Owned(hash) = Blocks
    OBVIOUS
  <2>1. fabI = {} /\ fabD = {} /\ ~ (current + 1 <= NBlocks)
    BY DEF AllocI, BlockSize, IBLOCK
  <2>2. current = NBlocks
    BY <1>1, <1>2, <2>1
  <2> QED  BY <1>1, <1>3, <2>1, <2>2 DEF Blocks
<1>5. ASSUME AllocD = {}, NEW b \in 0 .. (NBlocks - DSize),
             Extent(b, DBLOCK) \cap Owned(hash) = {},
             ~ (b < current /\ current < b + DSize)
      PROVE  FALSE
  <2>0. BlockSize(DBLOCK) = DSize
    BY DEF BlockSize, IBLOCK, DBLOCK
  <2>1. fabD = {} /\ ~ (current + DSize <= NBlocks) /\ Runs(fabI) = {}
    <3>1. fabD = {}
      BY <1>5 DEF AllocD
    <3>2. ~ (current + BlockSize(DBLOCK) <= NBlocks)
      BY <1>5, <3>1 DEF AllocD
    <3>3. Runs(fabI) = {}
      BY <1>5, <3>1, <3>2 DEF AllocD
    <3> QED  BY <2>0, <3>1, <3>2, <3>3
  <2>2. b \in Nat /\ b + DSize <= NBlocks
    BY <1>2
  <2>3. b + DSize <= current
    BY <1>1, <1>2, <1>5, <2>1, <2>2
  <2>4. Extent(b, DBLOCK) \subseteq 0 .. (current - 1)
    BY <1>1, <1>2, <2>2, <2>3 DEF Extent, BlockSize, IBLOCK, DBLOCK
  <2>5. Extent(b, DBLOCK) \subseteq fabI
    BY <1>1, <1>3, <1>5, <2>1, <2>4
  <2> QED  BY <1>1, <2>1, <2>2, <2>5, NoRunNoRoom
<1> QED  BY <1>4, <1>5

(***************************************************************************)
(* A write is refused for want of blocks only when they are not there,     *)
(* for every size of the channel and of a data block.                      *)
(***************************************************************************)
THEOREM RefusalsJustifiedHolds == Spec => []RefusalsJustified
<1>1. Init => IInv
  BY InitIInv
<1>2. IInv /\ [Next]_vars => IInv'
  BY NextIInv
<1>3. IInv => RefusalsJustified
  BY RefusalFromTiling
<1> QED  BY <1>1, <1>2, <1>3, PTL DEF Spec
-----------------------------------------------------------------------------
(***************************************************************************)
(* What an operation that has failed leaves in a block: erased or dirty    *)
(* cells, or what was there before; after a failed program operation       *)
(* nothing of the extent is as it was.                                     *)
(***************************************************************************)
LEMMA TornContents ==
  ASSUME NEW E, NEW b \in Blocks
  PROVE  /\ \A f \in TornWrite(E) : b \notin E => f[b] = flash[b]
         /\ \A f \in TornWrite(E) : b \in E => f[b] \in {Erased, Dirty}
         /\ \A f \in TornErase(E) : f[b] \in {Erased, Dirty, flash[b]}
         /\ \A f \in TornErase(E) : b \notin E => f[b] = flash[b]
         /\ \A c : Holding(E, c)[b] = IF b \in E THEN c ELSE flash[b]
<1>1. ASSUME NEW f \in TornWrite(E)
      PROVE  /\ b \notin E => f[b] = flash[b]
             /\ b \in E => f[b] \in {Erased, Dirty}
  <2>1. PICK K \in SUBSET E :
          f = [x \in Blocks |-> IF x \in K THEN Erased ELSE IF x \in E THEN Dirty ELSE flash[x]]
    BY <1>1 DEF TornWrite
  <2> QED  BY <2>1
<1>2. ASSUME NEW f \in TornErase(E)
      PROVE  /\ f[b] \in {Erased, Dirty, flash[b]}
             /\ b \notin E => f[b] = flash[b]
  <2>1. PICK K \in SUBSET E, L \in SUBSET E :
          f = [x \in Blocks |-> IF x \in K THEN Erased ELSE IF x \in L THEN Dirty ELSE flash[x]]
    BY <1>2 DEF TornErase
  <2> QED  BY <2>1
<1>3. \A c : Holding(E, c)[b] = IF b \in E THEN c ELSE flash[b]
  BY DEF Holding
<1> QED  BY <1>1, <1>2, <1>3

(***************************************************************************)
(* Every step keeps the blocks no id holds free of data.                   *)
(***************************************************************************)
LEMMA NextFreeNotLive ==
  ASSUME IInv, FreeNotLive, [Next]_vars
  PROVE  FreeNotLive'
<1> USE DEF FreeNotLive
<1>1. CASE UNCHANGED <<hash, saved, opened, flash>>
  BY <1>1
<1>2. ASSUME NEW id \in Ids, NEW type \in Types, ssd_id_write(id, type)
      PROVE  FreeNotLive'
  <2>1. opened /\ opened' = opened /\ UNCHANGED saved
    BY <1>2 DEF ssd_id_write
  <2>2. CASE UNCHANGED <<hash, flash>>
    BY <2>1, <2>2, <1>1
  <2>3. ASSUME NEW a \in ssd_alloc_logic_block(type),
               hash' = set_id_info(hash, [id |-> id, block |-> a.index, len |-> type]),
               flash' = Holding(Extent(a.index, type), id)
        PROVE  FreeNotLive'
    <3> DEFINE n == [id |-> id, block |-> a.index, len |-> type]
    <3>1. Owned(hash \cup {n}) = Owned(hash) \cup Held(n)
      BY OwnedAdd
    <3>2. Owned(hash') = Owned(hash) \cup Extent(a.index, type)
      BY <2>3, <3>1 DEF set_id_info, Held
    <3> QED  BY <2>1, <2>3, <3>2, TornContents
  <2>4. ASSUME NEW a \in ssd_alloc_logic_block(type),
               flash' \in TornWrite(Extent(a.index, type)), UNCHANGED hash
        PROVE  FreeNotLive'
    <3> DEFINE E == Extent(a.index, type)
    <3>1. ASSUME NEW b \in Blocks
          PROVE  flash'[b] \in {Erased, Dirty} \/ flash'[b] = flash[b]
      <4>1. flash' \in TornWrite(E)
        BY <2>4
      <4> HIDE DEF E
      <4>2. /\ b \notin E => flash'[b] = flash[b]
            /\ b \in E => flash'[b] \in {Erased, Dirty}
        BY <4>1, TornContents
      <4> QED  BY <4>2
    <3> QED  BY <2>1, <2>4, <3>1
  <2> QED  BY <1>2, <2>2, <2>3, <2>4 DEF ssd_id_write
<1>3. ASSUME NEW id \in Ids, ssd_id_delete(id) \/ ssd_mark_bad_block(id)
      PROVE  FreeNotLive'
  <2>1. opened /\ opened' = opened /\ UNCHANGED saved
    BY <1>3 DEF ssd_id_delete, ssd_mark_bad_block
  <2>2. CASE UNCHANGED <<hash, flash>>
    BY <2>1, <2>2, <1>1
  <2>3. ASSUME NEW n \in get_id_info(id), hash' = del_id_info(n), flash' = Holding(Held(n), Erased)
        PROVE  FreeNotLive'
    <3>1. n \in hash /\ Apart(hash)
      BY <2>1, OpenState DEF get_id_info
    <3>2. Owned(hash \ {n}) \cup Held(n) = Owned(hash)
      BY <3>1, OwnedRemove
    <3> QED  BY <2>1, <2>3, <3>2, TornContents DEF del_id_info
  <2>4. ASSUME NEW n \in get_id_info(id), hash' = set_id_info(del_id_info(n), n),
               flash' \in TornErase(Held(n))
        PROVE  FreeNotLive'
    <3>1. hash' = hash
      BY <2>4 DEF get_id_info, set_id_info, del_id_info
    <3>2. ASSUME NEW b \in Blocks
          PROVE  flash'[b] \in {Erased, Dirty, flash[b]}
      BY <2>4, TornContents
    <3> QED  BY <2>1, <2>4, <3>1, <3>2
  <2> QED  BY <1>3, <2>2, <2>3, <2>4 DEF ssd_id_delete, ssd_mark_bad_block
<1>4. CASE ssd_sys_close
  BY <1>4 DEF ssd_sys_close
<1>5. CASE ssd_sys_open
  BY <1>5 DEF ssd_sys_open
<1>6. CASE ssd_sys_open_newcard
  <2>1. CASE flash' = [b \in Blocks |-> Erased]
    BY <2>1
  <2>2. CASE /\ UNCHANGED <<hash, opened, saved>>
             /\ \E E \in SUBSET Blocks : \/ flash' = Holding(E, Erased)
                                         \/ \E c \in Blocks \ E :
                                              flash' = [Holding(E, Erased) EXCEPT ![c] = Dirty]
    <3>1. PICK E \in SUBSET Blocks : \/ flash' = Holding(E, Erased)
                                     \/ \E c \in Blocks \ E :
                                          flash' = [Holding(E, Erased) EXCEPT ![c] = Dirty]
      BY <2>2
    <3>2. \A b \in Blocks : Holding(E, Erased)[b] \in {Erased, flash[b]}
      BY DEF Holding
    <3>3. Blocks = DOMAIN Holding(E, Erased)
      BY DEF Holding
    <3>4. ASSUME NEW b \in Blocks
          PROVE  flash'[b] \in {Erased, Dirty, flash[b]}
      <4> DEFINE h == Holding(E, Erased)
      <4>1. h[b] \in {Erased, flash[b]} /\ b \in DOMAIN h
        BY <3>2, <3>3
      <4>2. flash' = h \/ \E c \in Blocks \ E : flash' = [h EXCEPT ![c] = Dirty]
        BY <3>1
      <4> HIDE DEF h
      <4> QED  BY <4>1, <4>2
    <3> QED  BY <2>2, <3>4
  <2> QED  BY <1>6, <2>1, <2>2 DEF ssd_sys_open_newcard
<1>7. ASSUME NEW id \in Ids, ssd_id_read(id)
      PROVE  FreeNotLive'
  BY <1>7 DEF ssd_id_read
<1>8. CASE UNCHANGED vars
  BY <1>1, <1>8 DEF vars
<1> QED  BY <1>2, <1>3, <1>4, <1>5, <1>6, <1>7, <1>8 DEF Next

(***************************************************************************)
(* A block that no id holds carries no data, on a channel of any size:     *)
(* what was deleted cannot be read again under another id.                 *)
(***************************************************************************)
THEOREM FreeNotLiveHolds == Spec => []FreeNotLive
<1>1. Init => IInv /\ FreeNotLive
  <2>1. Init => FreeNotLive
    BY DEF Init, FreeNotLive
  <2> QED  BY <2>1, InitIInv
<1>2. IInv /\ FreeNotLive /\ [Next]_vars => IInv' /\ FreeNotLive'
  BY NextIInv, NextFreeNotLive
<1> QED  BY <1>1, <1>2, PTL DEF Spec
-----------------------------------------------------------------------------
(***************************************************************************)
(* What StoreOf says of an id, when the table lists no id twice: nothing   *)
(* for an id without a node, and what the extent of its only node holds    *)
(* otherwise.                                                              *)
(***************************************************************************)
LEMMA StoreOfNode ==
  ASSUME NEW id \in Ids,
         \A m, n \in Table : m.id = n.id => m = n
  PROVE  /\ StoreOf(id) \in {"absent", "data", "unsure"}
         /\ StoreOf(id) = "absent" <=> \A n \in Table : n.id # id
         /\ \A n \in Table : n.id = id =>
              (StoreOf(id) = "data" <=> \A b \in Held(n) : flash[b] = id)
<1>1. CASE \A n \in Table : n.id # id
  BY <1>1 DEF StoreOf
<1>2. CASE \E n \in Table : n.id = id
  <2>1. PICK n \in Table : n.id = id
    BY <1>2
  <2>2. \A m \in Table : m.id = id => m = n
    BY <2>1
  <2>3. StoreOf(id) = IF \A b \in Held(n) : flash[b] = id THEN "data" ELSE "unsure"
    BY <2>1, <2>2 DEF StoreOf
  <2> QED  BY <2>1, <2>2, <2>3
<1> QED  BY <1>1, <1>2

(***************************************************************************)
(* The table in use lists no id twice.                                     *)
(***************************************************************************)
LEMMA TableUnique ==
  ASSUME IInv
  PROVE  \A m, n \in Table : m.id = n.id => m = n
BY DEF IInv, UniqueIds, Table

(***************************************************************************)
(* An id keeps its entry when its nodes stay and their extents are not     *)
(* touched.                                                                *)
(***************************************************************************)
LEMMA EntryStays ==
  ASSUME NEW id \in Ids,
         \A n : n.id = id => (n \in Table' <=> n \in Table),
         \A n \in Table : n.id = id => \A b \in Held(n) : flash'[b] = flash[b]
  PROVE  StoreOf(id)' = StoreOf(id)
<1>1. (\A n \in Table' : n.id # id) <=> \A n \in Table : n.id # id
  OBVIOUS
<1>2. (\E n \in Table' : n.id = id /\ \A b \in Held(n) : flash'[b] = id)
        <=> \E n \in Table : n.id = id /\ \A b \in Held(n) : flash[b] = id
  OBVIOUS
<1> QED  BY <1>1, <1>2 DEF StoreOf, Held

(***************************************************************************)
(* A step that leaves the table and the flash alone leaves every entry.    *)
(***************************************************************************)
LEMMA StoreStays ==
  ASSUME UNCHANGED <<Table, flash>>
  PROVE  \A id \in Ids : StoreOf(id)' = StoreOf(id)
BY DEF StoreOf, Held

(***************************************************************************)
(* A request for one id touches no extent of another.                      *)
(***************************************************************************)
LEMMA OthersStay ==
  ASSUME IInv, opened, UNCHANGED opened, NEW id \in Ids, NEW E,
         \A n : n.id # id => (n \in hash' <=> n \in hash),
         \A n \in hash : n.id # id => Held(n) \cap E = {},
         \A b \in Blocks \ E : flash'[b] = flash[b]
  PROVE  \A i \in Ids \ {id} : StoreOf(i)' = StoreOf(i)
<1> SUFFICES ASSUME NEW i \in Ids, i # id
             PROVE  StoreOf(i)' = StoreOf(i)
  OBVIOUS
<1>1. Table = hash /\ Table' = hash'
  BY DEF Table
<1>2. \A n : n.id = i => (n \in Table' <=> n \in Table)
  BY <1>1
<1>3. ASSUME NEW n \in Table, n.id = i, NEW b \in Held(n)
      PROVE  flash'[b] = flash[b]
  <2>1. Held(n) \subseteq Blocks
    BY <1>1, OpenState DEF Owned
  <2> QED  BY <1>1, <1>3, <2>1
<1> QED  BY <1>2, <1>3, EntryStays

(***************************************************************************)
(* The map BlockStore sees.                                                *)
(***************************************************************************)
StoreMap == [i \in Ids |-> StoreOf(i)]

(***************************************************************************)
(* When the entry of one id changes and the others stay, the map changes   *)
(* as an EXCEPT says.                                                      *)
(***************************************************************************)
LEMMA OneEntry ==
  ASSUME NEW id \in Ids, \A i \in Ids \ {id} : StoreOf(i)' = StoreOf(i)
  PROVE  StoreMap' = [StoreMap EXCEPT ![id] = StoreOf(id)']
BY DEF StoreMap

(***************************************************************************)
(* When no entry changes, neither does the map.                            *)
(***************************************************************************)
LEMMA NoEntry ==
  ASSUME \A i \in Ids : StoreOf(i)' = StoreOf(i)
  PROVE  StoreMap' = StoreMap
BY DEF StoreMap
(***************************************************************************)
(* A write is a Write of BlockStore: refused with the entry as it was, or  *)
(* done with data that can be read back.                                   *)
(***************************************************************************)
LEMMA WriteRefines ==
  ASSUME IInv, NEW id \in Ids, NEW type \in Types, ssd_id_write(id, type)
  PROVE  BS!Write(id)
<1>1. opened /\ UNCHANGED <<opened, saved>> /\ Table = hash /\ Table' = hash'
  BY DEF ssd_id_write, Table
<1>2. MapsOK(fabI, fabD, current) /\ Tiled(hash, fabI, fabD, current, {})
  BY <1>1, OpenState
<1>3. StoreOf(id) = "absent" <=> get_id_info(id) = {}
  <2>1. StoreOf(id) = "absent" <=> \A n \in Table : n.id # id
    BY TableUnique, StoreOfNode
  <2> QED  BY <1>1, <2>1 DEF get_id_info
<1>4. StoreMap[id] = StoreOf(id)
  BY DEF StoreMap
<1>5. CASE UNCHANGED <<hash, flash>> /\ get_id_info(id) # {} /\ reply' = Answer("SSD_ID_ALREADY_EXIST")
  <2>1. StoreMap' = StoreMap
    BY <1>1, <1>5, StoreStays, NoEntry
  <2> QED  BY <1>1, <1>3, <1>4, <1>5, <2>1 DEF BS!Write, BS!Answer, Answer, StoreMap
<1>6. CASE /\ UNCHANGED <<hash, flash>> /\ get_id_info(id) = {}
           /\ reply' = Answer("SSD_ERR_NO_INVALID_BLOCKS")
  <2>1. StoreMap' = StoreMap
    BY <1>1, <1>6, StoreStays, NoEntry
  <2> QED  BY <1>1, <1>3, <1>4, <1>6, <2>1 DEF BS!Write, BS!Refusals, BS!Answer, Answer, StoreMap
<1>7. ASSUME NEW a \in ssd_alloc_logic_block(type), get_id_info(id) = {},
             hash' = set_id_info(hash, [id |-> id, block |-> a.index, len |-> type]),
             flash' = Holding(Extent(a.index, type), id), reply' = OK
      PROVE  BS!Write(id)
  <2> DEFINE n == [id |-> id, block |-> a.index, len |-> type]
             E == Extent(a.index, type)
  <2>1. E \subseteq Blocks /\ E \cap Owned(hash) = {}
    BY <1>2, AllocSound DEF Allocated, Tiled
  <2>2. hash' = hash \cup {n} /\ n.id = id /\ Held(n) = E
    BY <1>7 DEF set_id_info, Held
  <2>3. \A b \in Blocks : flash'[b] = IF b \in E THEN id ELSE flash[b]
    BY <1>7 DEF Holding
  <2> HIDE DEF n, E
  <2>4. \A m \in hash : Held(m) \cap E = {}
    BY <2>1 DEF Owned
  <2>5. \A i \in Ids \ {id} : StoreOf(i)' = StoreOf(i)
    BY <1>1, <2>2, <2>3, <2>4, OthersStay
  <2>6. StoreOf(id)' = "data"
    BY <1>1, <2>1, <2>2, <2>3 DEF StoreOf, Held
  <2>7. StoreMap' = [StoreMap EXCEPT ![id] = "data"]
    BY <2>5, <2>6, OneEntry
  <2> QED  BY <1>1, <1>3, <1>4, <1>7, <2>7 DEF BS!Write, BS!OK, BS!Answer, OK, Answer, StoreMap
<1>8. ASSUME NEW a \in ssd_alloc_logic_block(type), get_id_info(id) = {},
             flash' \in TornWrite(Extent(a.index, type)), reply' = Answer("error"), UNCHANGED hash
      PROVE  BS!Write(id)
  <2> DEFINE E == Extent(a.index, type)
  <2>1. E \cap Owned(hash) = {}
    BY <1>2, AllocSound DEF Allocated, Tiled
  <2>2. flash' \in TornWrite(E)
    BY <1>8
  <2> HIDE DEF E
  <2>3. \A b \in Blocks \ E : flash'[b] = flash[b]
    BY <2>2, TornContents
  <2>4. Owned(hash) \subseteq Blocks
    BY <1>1, OpenState
  <2>5. \A i \in Ids : StoreOf(i)' = StoreOf(i)
    <3> SUFFICES ASSUME NEW i \in Ids  PROVE StoreOf(i)' = StoreOf(i)
      OBVIOUS
    <3>1. \A m \in Table : \A b \in Held(m) : flash'[b] = flash[b]
      BY <1>1, <2>1, <2>3, <2>4 DEF Owned
    <3> QED  BY <1>1, <1>8, <3>1, EntryStays
  <2>6. StoreMap' = StoreMap
    BY <2>5, NoEntry
  <2> QED  BY <1>1, <1>3, <1>4, <1>8, <2>6 DEF BS!Write, BS!Refusals, BS!Answer, Answer, StoreMap
<1> QED  BY <1>5, <1>6, <1>7, <1>8 DEF ssd_id_write

(***************************************************************************)
(* A read answers with good data when the entry says so.                   *)
(***************************************************************************)
LEMMA ReadRefines ==
  ASSUME IInv, NEW id \in Ids, ssd_id_read(id)
  PROVE  BS!Read(id)
<1>1. opened /\ UNCHANGED <<hash, flash, opened, saved>> /\ Table = hash /\ Table' = hash'
  BY DEF ssd_id_read, Table
<1>2. StoreMap' = StoreMap /\ StoreMap[id] = StoreOf(id)
  BY <1>1, StoreStays, NoEntry DEF StoreMap
<1>3. /\ StoreOf(id) \in {"absent", "data", "unsure"}
      /\ StoreOf(id) = "absent" <=> \A n \in hash : n.id # id
      /\ \A n \in hash : n.id = id =>
           (StoreOf(id) = "data" <=> \A b \in Held(n) : flash[b] = id)
  BY <1>1, TableUnique, StoreOfNode
<1>4. CASE get_id_info(id) = {} /\ reply' = Answer("SSD_ID_NO_EXIST")
  BY <1>1, <1>2, <1>3, <1>4 DEF BS!Read, BS!Answer, Answer, StoreMap, get_id_info
<1>5. ASSUME NEW n \in get_id_info(id), reply' = Answer("error")
      PROVE  BS!Read(id)
  BY <1>1, <1>2, <1>3, <1>5 DEF BS!Read, BS!Answer, Answer, StoreMap, get_id_info
<1>6. ASSUME NEW n \in get_id_info(id),
             reply' = [code |-> "SSD_OK", good |-> \A b \in Held(n) : flash[b] = id]
      PROVE  BS!Read(id)
  <2>1. n \in hash /\ n.id = id
    BY DEF get_id_info
  <2>2. CASE StoreOf(id) = "data"
    <3>1. reply' = [code |-> "SSD_OK", good |-> TRUE]
      BY <1>3, <1>6, <2>1, <2>2
    <3> QED  BY <1>1, <1>2, <2>2, <3>1 DEF BS!Read, StoreMap
  <2>3. CASE StoreOf(id) = "unsure"
    <3>1. reply' = [code |-> "SSD_OK", good |-> FALSE]
      BY <1>3, <1>6, <2>1, <2>3
    <3> QED  BY <1>1, <1>2, <2>3, <3>1 DEF BS!Read, BS!OK, BS!Answer, StoreMap
  <2> QED  BY <1>3, <2>1, <2>2, <2>3
<1> QED  BY <1>4, <1>5, <1>6 DEF ssd_id_read

(***************************************************************************)
(* What a delete and a bad-block request do to the map: the id is dropped, *)
(* or its erase fails and its data may be gone.                            *)
(***************************************************************************)
LEMMA DropRefines ==
  ASSUME IInv, opened, UNCHANGED <<opened, saved>>, NEW id \in Ids, NEW n \in get_id_info(id),
         hash' = del_id_info(n), flash' = Holding(Held(n), Erased)
  PROVE  StoreMap' = [StoreMap EXCEPT ![id] = "absent"]
<1>1. n \in hash /\ n.id = id /\ Apart(hash)
  BY OpenState DEF get_id_info
<1>2. \A m \in hash : m.id = id => m = n
  BY <1>1 DEF IInv, UniqueIds
<1>3. hash' = hash \ {n} /\ Table' = hash'
  BY DEF del_id_info, Table
<1>4. \A b \in Blocks \ Held(n) : flash'[b] = flash[b]
  BY DEF Holding
<1>5. \A m \in hash : m.id # id => Held(m) \cap Held(n) = {}
  BY <1>1 DEF Apart
<1>6. \A i \in Ids \ {id} : StoreOf(i)' = StoreOf(i)
  BY <1>1, <1>3, <1>4, <1>5, OthersStay
<1>7. StoreOf(id)' = "absent"
  BY <1>2, <1>3 DEF StoreOf
<1> QED  BY <1>6, <1>7, OneEntry

(***************************************************************************)
(* When the erase of a delete fails the id stays, its data or not.         *)
(***************************************************************************)
LEMMA RedoRefines ==
  ASSUME IInv, opened, UNCHANGED <<opened, saved>>, NEW id \in Ids, NEW n \in get_id_info(id),
         hash' = set_id_info(del_id_info(n), n), flash' \in TornErase(Held(n))
  PROVE  \E s \in {StoreMap[id], "unsure"} : StoreMap' = [StoreMap EXCEPT ![id] = s]
<1>1. n \in hash /\ n.id = id /\ Apart(hash)
  BY OpenState DEF get_id_info
<1>2. hash' = hash /\ Table' = Table /\ Table = hash
  BY <1>1 DEF set_id_info, del_id_info, Table
<1>3. \A b \in Blocks : /\ b \notin Held(n) => flash'[b] = flash[b]
                        /\ flash'[b] \in {Erased, Dirty, flash[b]}
  BY TornContents
<1>4. \A m \in hash : m.id # id => Held(m) \cap Held(n) = {}
  BY <1>1 DEF Apart
<1>5. \A i \in Ids \ {id} : StoreOf(i)' = StoreOf(i)
  BY <1>2, <1>3, <1>4, OthersStay
<1>6. StoreOf(id)' \in {StoreOf(id), "unsure"}
  <2>1. \A m \in hash : m.id = id => m = n
    BY <1>1 DEF IInv, UniqueIds
  <2>2. StoreOf(id) = IF \A b \in Held(n) : flash[b] = id THEN "data" ELSE "unsure"
    BY <1>1, <1>2, <2>1 DEF StoreOf
  <2>3. StoreOf(id)' = IF \A b \in Held(n) : flash'[b] = id THEN "data" ELSE "unsure"
    BY <1>1, <1>2, <2>1 DEF StoreOf, Held
  <2>4. Held(n) \subseteq Blocks
    BY <1>1, OpenState DEF Owned
  <2>5. \A b \in Held(n) : flash'[b] = id => flash[b] = id
    BY <1>3, <2>4, ContentsAssumption
  <2> QED  BY <2>2, <2>3, <2>5
<1> QED  BY <1>5, <1>6, OneEntry DEF StoreMap

(***************************************************************************)
(* A delete is a Delete of BlockStore.                                     *)
(***************************************************************************)
LEMMA DeleteRefines ==
  ASSUME IInv, NEW id \in Ids, ssd_id_delete(id)
  PROVE  BS!Delete(id)
<1>1. opened /\ UNCHANGED <<opened, saved>> /\ Table = hash
  BY DEF ssd_id_delete, Table
<1>2. StoreMap[id] = StoreOf(id) /\ (StoreOf(id) = "absent" <=> get_id_info(id) = {})
  <2>1. StoreOf(id) = "absent" <=> \A n \in Table : n.id # id
    BY TableUnique, StoreOfNode
  <2> QED  BY <1>1, <2>1 DEF get_id_info, StoreMap
<1>3. CASE get_id_info(id) = {} /\ reply' = Answer("SSD_ID_NO_EXIST") /\ UNCHANGED <<hash, flash>>
  <2>1. StoreMap' = StoreMap
    BY <1>1, <1>3, StoreStays, NoEntry DEF Table
  <2> QED  BY <1>1, <1>2, <1>3, <2>1 DEF BS!Delete, BS!Answer, Answer, StoreMap
<1>4. ASSUME NEW n \in get_id_info(id), hash' = del_id_info(n),
             flash' = Holding(Held(n), Erased), reply' = OK
      PROVE  BS!Delete(id)
  <2>1. StoreMap' = [StoreMap EXCEPT ![id] = "absent"]
    BY <1>1, <1>4, DropRefines
  <2> QED  BY <1>1, <1>2, <1>4, <2>1 DEF BS!Delete, BS!OK, BS!Answer, OK, Answer, StoreMap
<1>5. ASSUME NEW n \in get_id_info(id), hash' = set_id_info(del_id_info(n), n),
             flash' \in TornErase(Held(n)), reply' = Answer("error")
      PROVE  BS!Delete(id)
  <2>1. \E s \in {StoreMap[id], "unsure"} : StoreMap' = [StoreMap EXCEPT ![id] = s]
    BY <1>1, <1>5, RedoRefines
  <2> QED  BY <1>1, <1>2, <1>5, <2>1 DEF BS!Delete, BS!Answer, Answer, StoreMap
<1> QED  BY <1>3, <1>4, <1>5 DEF ssd_id_delete

(***************************************************************************)
(* A bad-block request is a MarkBad of BlockStore.                         *)
(***************************************************************************)
LEMMA MarkBadRefines ==
  ASSUME IInv, NEW id \in Ids, ssd_mark_bad_block(id)
  PROVE  BS!MarkBad(id)
<1>1. opened /\ UNCHANGED <<opened, saved>> /\ Table = hash
  BY DEF ssd_mark_bad_block, Table
<1>2. StoreMap[id] = StoreOf(id) /\ (StoreOf(id) = "absent" <=> get_id_info(id) = {})
  <2>1. StoreOf(id) = "absent" <=> \A n \in Table : n.id # id
    BY TableUnique, StoreOfNode
  <2> QED  BY <1>1, <2>1 DEF get_id_info, StoreMap
<1>3. CASE /\ UNCHANGED <<hash, flash>>
           /\ reply' \in {Answer("SSD_ID_NO_EXIST"), Answer("SSD_ERR_NOT_BAD_BLOCK"), Answer("error")}
  <2>1. StoreMap' = StoreMap
    BY <1>1, <1>3, StoreStays, NoEntry DEF Table
  <2> QED  BY <1>1, <1>3, <2>1 DEF BS!MarkBad, BS!Answer, Answer, StoreMap
<1>4. ASSUME NEW n \in get_id_info(id), hash' = del_id_info(n),
             flash' = Holding(Held(n), Erased), reply' \in {OK, Answer("error")}
      PROVE  BS!MarkBad(id)
  <2>1. StoreMap' = [StoreMap EXCEPT ![id] = "absent"]
    BY <1>1, <1>4, DropRefines
  <2> QED  BY <1>1, <1>2, <1>4, <2>1 DEF BS!MarkBad, BS!OK, BS!Answer, OK, Answer, StoreMap
<1>5. ASSUME NEW n \in get_id_info(id), hash' = set_id_info(del_id_info(n), n),
             flash' \in TornErase(Held(n)), reply' = Answer("error")
      PROVE  BS!MarkBad(id)
  <2>1. PICK s \in {StoreMap[id], "unsure"} : StoreMap' = [StoreMap EXCEPT ![id] = s]
    BY <1>1, <1>5, RedoRefines
  <2>2. CASE s = StoreMap[id]
    <3>1. StoreMap' = StoreMap
      BY <2>1, <2>2 DEF StoreMap
    <3> QED  BY <1>3, <1>5, <3>1, <1>1 DEF BS!MarkBad, BS!Answer, Answer, StoreMap
  <2>3. CASE s = "unsure"
    BY <1>1, <1>2, <1>5, <2>1, <2>3 DEF BS!MarkBad, BS!Answer, Answer, StoreMap
  <2> QED  BY <2>1, <2>2, <2>3
<1> QED  BY <1>3, <1>4, <1>5 DEF ssd_mark_bad_block

(***************************************************************************)
(* Closing and opening the card change no entry.                           *)
(***************************************************************************)
LEMMA CloseRefines ==
  ASSUME ssd_sys_close
  PROVE  BS!Close
<1>1. Table' = Table /\ UNCHANGED flash
  BY DEF ssd_sys_close, Table
<1>2. StoreMap' = StoreMap
  BY <1>1, StoreStays, NoEntry
<1> QED  BY <1>2 DEF ssd_sys_close, BS!Close, BS!OK, BS!Answer, OK, Answer, StoreMap

(***************************************************************************)
(* The rebuilt table gives every id the entry it had when it was saved.    *)
(***************************************************************************)
LEMMA OpenRefines ==
  ASSUME ssd_sys_open
  PROVE  BS!Open
<1>1. Table' = Table /\ UNCHANGED flash
  BY DEF ssd_sys_open, Table
<1>2. StoreMap' = StoreMap
  BY <1>1, StoreStays, NoEntry
<1> QED  BY <1>2 DEF ssd_sys_open, BS!Open, BS!OK, BS!Answer, OK, Answer, StoreMap

(***************************************************************************)
(* An initialisation drops every id; one that fails loses data of the ids  *)
(* in the table and brings none back.                                      *)
(***************************************************************************)
LEMMA OpenNewRefines ==
  ASSUME IInv, ssd_sys_open_newcard
  PROVE  BS!OpenNew
<1>1. ~opened /\ Table = saved
  BY DEF ssd_sys_open_newcard, Table
<1>2. CASE hash' = {} /\ opened' = TRUE /\ reply' = OK
  <2>1. \A i \in Ids : StoreOf(i)' = "absent"
    BY <1>2 DEF StoreOf, Table
  <2>2. StoreMap' = [i \in Ids |-> "absent"]
    BY <2>1 DEF StoreMap
  <2> QED  BY <1>1, <1>2, <2>2 DEF BS!OpenNew, BS!OK, BS!Answer, OK, Answer, StoreMap
<1>3. CASE /\ \E E \in SUBSET Blocks : \/ flash' = Holding(E, Erased)
                                       \/ \E c \in Blocks \ E :
                                            flash' = [Holding(E, Erased) EXCEPT ![c] = Dirty]
           /\ UNCHANGED <<hash, opened, saved>>
           /\ reply' = Answer("error")
  <2>1. PICK E \in SUBSET Blocks : \/ flash' = Holding(E, Erased)
                                   \/ \E c \in Blocks \ E :
                                        flash' = [Holding(E, Erased) EXCEPT ![c] = Dirty]
    BY <1>3
  <2>2. ASSUME NEW b \in Blocks
        PROVE  flash'[b] \in {Erased, Dirty, flash[b]}
    <3> DEFINE h == Holding(E, Erased)
    <3>1. h[b] \in {Erased, flash[b]} /\ b \in DOMAIN h
      BY DEF Holding
    <3>2. flash' = h \/ \E c \in Blocks \ E : flash' = [h EXCEPT ![c] = Dirty]
      BY <2>1
    <3> HIDE DEF h
    <3> QED  BY <3>1, <3>2
  <2>3. Table' = Table /\ Owned(saved) \subseteq Blocks
    BY <1>1, <1>3 DEF Table, IInv, Partition, SavedSound
  <2>4. ASSUME NEW i \in Ids
        PROVE  StoreOf(i)' = StoreOf(i) \/ (StoreOf(i) # "absent" /\ StoreOf(i)' = "unsure")
    <3>1. CASE \A n \in Table : n.id # i
      BY <2>3, <3>1 DEF StoreOf
    <3>2. CASE \E n \in Table : n.id = i
      <4>1. PICK n \in Table : n.id = i
        BY <3>2
      <4>2. \A m \in Table : m.id = i => m = n
        BY <4>1, TableUnique
      <4>3. StoreOf(i) = IF \A b \in Held(n) : flash[b] = i THEN "data" ELSE "unsure"
        BY <4>1, <4>2 DEF StoreOf
      <4>4. StoreOf(i)' = IF \A b \in Held(n) : flash'[b] = i THEN "data" ELSE "unsure"
        BY <2>3, <4>1, <4>2 DEF StoreOf, Held
      <4>5. Held(n) \subseteq Blocks
        BY <1>1, <2>3, <4>1 DEF Owned
      <4>6. \A b \in Held(n) : flash'[b] = i => flash[b] = i
        BY <2>2, <4>5, ContentsAssumption
      <4> QED  BY <4>3, <4>4, <4>6
    <3> QED  BY <3>1, <3>2
  <2> DEFINE lost == {i \in Ids : StoreOf(i)' # StoreOf(i)}
  <2>5. \A i \in Ids : StoreMap[i] = StoreOf(i)
    BY DEF StoreMap
  <2>6. lost \in SUBSET {i \in Ids : StoreMap[i] # "absent"}
    BY <2>4, <2>5
  <2>7. StoreMap' = [i \in Ids |-> IF i \in lost THEN "unsure" ELSE StoreMap[i]]
    BY <2>4, <2>5 DEF StoreMap
  <2> HIDE DEF lost
  <2> QED  BY <1>1, <1>3, <2>6, <2>7 DEF BS!OpenNew, BS!Answer, Answer, StoreMap
<1> QED  BY <1>2, <1>3 DEF ssd_sys_open_newcard

(***************************************************************************)
(* Every step of the channel is a step of BlockStore or leaves its         *)
(* variables alone.                                                        *)
(***************************************************************************)
LEMMA NextRefines ==
  ASSUME IInv, [Next]_vars
  PROVE  [BS!Next]_(BS!vars)
<1>1. CASE UNCHANGED vars
  <2>1. Table' = Table /\ UNCHANGED flash
    BY <1>1 DEF vars, Table
  <2>2. StoreMap' = StoreMap
    BY <2>1, StoreStays, NoEntry
  <2> QED  BY <1>1, <2>2 DEF vars, BS!vars, StoreMap
<1>2. CASE Next
  BY <1>2, WriteRefines, ReadRefines, DeleteRefines, MarkBadRefines, CloseRefines, OpenRefines,
     OpenNewRefines DEF Next, BS!Next
<1> QED  BY <1>1, <1>2

(***************************************************************************)
(* The channel implements BlockStore for every size of the channel, of a   *)
(* data block and of the pre-allocation and for every set of ids: whatever *)
(* the allocator does with the blocks and whichever operation fails, a     *)
(* request answers as the store may and touches no id but its own.         *)
(***************************************************************************)
THEOREM ImplementsBlockStore == Spec => StoreSpec
<1>1. Init => IInv /\ BS!Init
  <2>1. Init => BS!Init
    BY DEF Init, BS!Init, BS!OK, BS!Answer, OK, Answer, StoreOf, Table
  <2> QED  BY <2>1, InitIInv
<1>2. IInv /\ [Next]_vars => IInv' /\ [BS!Next]_(BS!vars)
  BY NextIInv, NextRefines
<1> QED  BY <1>1, <1>2, PTL DEF Spec, StoreSpec, BS!Spec
=============================================================================
