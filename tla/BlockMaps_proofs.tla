--------------------------- MODULE BlockMaps_proofs --------------------------
(***************************************************************************)
(* Facts about the block arithmetic, for every size of the channel and of  *)
(* a data block.                                                           *)
(***************************************************************************)
EXTENDS BlockMaps, FiniteSetTheorems, WellFoundedInduction, TLAPS

(***************************************************************************)
(* A search that finds anything finds the lowest free bit                  *)
(* (bitmap_find_next_zero_area from 0).                                    *)
(***************************************************************************)
LEMMA LeastProperty ==
  ASSUME NEW S, S \subseteq Nat, S # {}
  PROVE  Least(S) \in S /\ \A y \in S : Least(S) <= y
<1> DEFINE R == OpToRel(<, Nat)
<1>1. IsWellFoundedOn(R, Nat)
  BY NatLessThanWellFounded
<1>2. \E x \in S : \A y \in S : ~ (<<y, x>> \in R)
  <2> HIDE DEF R
  <2> QED  BY <1>1, WFMin
<1>3. \A x, y \in Nat : y < x => <<y, x>> \in R
  BY DEF OpToRel
<1>4. \E x \in S : \A y \in S : x <= y
  <2> HIDE DEF R
  <2>1. \A x, y \in S : ~ (y < x) => x <= y
    OBVIOUS
  <2> QED  BY <1>2, <1>3, <2>1
<1> QED  BY <1>4, Zenon DEF Least

(***************************************************************************)
(* Multiples of the size of a data block are at least that size apart.     *)
(***************************************************************************)
LEMMA MultiplesApart ==
  ASSUME NEW j \in Nat, NEW k \in Nat, j < k
  PROVE  /\ j * DSize \in Nat /\ k * DSize \in Nat
         /\ j * DSize + DSize <= k * DSize
<1> DEFINE i == k - j - 1
<1>1. i \in Nat /\ k = j + 1 + i
  OBVIOUS
<1>2. DSize \in Nat
  BY SizesAssumption
<1>3. k * DSize = j * DSize + DSize + i * DSize
  BY <1>1, <1>2
<1>4. j * DSize \in Nat /\ i * DSize \in Nat /\ k * DSize \in Nat
  BY <1>1, <1>2
<1> QED  BY <1>2, <1>3, <1>4

(***************************************************************************)
(* Two numbers with the same remainder differ by at least DSize.           *)
(***************************************************************************)
LEMMA SameRemainder ==
  ASSUME NEW x \in Nat, NEW y \in Nat, x % DSize = 0, y % DSize = 0, x < y
  PROVE  x + DSize <= y
<1>1. DSize \in Nat /\ DSize > 0
  BY SizesAssumption
<1> DEFINE j == x \div DSize
           k == y \div DSize
<1>2. j \in Nat /\ k \in Nat /\ x = j * DSize /\ y = k * DSize
  BY <1>1, Z3
<1>3. j < k
  <2>1. CASE k < j
    BY <2>1, <1>1, <1>2, MultiplesApart
  <2>2. CASE k = j
    BY <2>2, <1>2
  <2> QED  BY <2>1, <2>2, <1>2
<1> HIDE DEF j, k
<1> QED  BY <1>2, <1>3, MultiplesApart

(***************************************************************************)
(* The run a free block lies in has a first block, and all blocks from     *)
(* there to the block are free.                                            *)
(***************************************************************************)
LEMMA RunStartProperty ==
  ASSUME NEW S, S \subseteq Nat, NEW b \in S
  PROVE  /\ RunStart(S, b) \in Nat
         /\ RunStart(S, b) <= b
         /\ RunStart(S, b) .. b \subseteq S
         /\ \A a \in S : a .. b \subseteq S => RunStart(S, b) <= a
<1> DEFINE A == {a \in S : a .. b \subseteq S}
<1>1. b \in A
  OBVIOUS
<1>2. Least(A) \in A /\ \A y \in A : Least(A) <= y
  BY <1>1, LeastProperty
<1> QED  BY <1>1, <1>2 DEF RunStart

(***************************************************************************)
(* The runs bitmap_merge and ssd_reload_bitmap cut out of a free set are   *)
(* free and do not overlap.                                                *)
(***************************************************************************)
LEMMA RunsApart ==
  ASSUME NEW S, S \subseteq Nat
  PROVE  /\ Runs(S) \subseteq S
         /\ Covered(Runs(S)) \subseteq S
         /\ \A d, e \in Runs(S) : d # e => Extent(d, DBLOCK) \cap Extent(e, DBLOCK) = {}
<1>1. Runs(S) \subseteq S /\ Covered(Runs(S)) \subseteq S
  BY DEF Runs, Covered
<1>2. DSize \in Nat /\ DSize > 0
  BY SizesAssumption
<1>3. ASSUME NEW d \in Runs(S), NEW e \in Runs(S), d < e
      PROVE  d + DSize <= e
  <2>0. d \in Nat /\ e \in Nat
    BY <1>1
  <2>1. SUFFICES ASSUME e < d + DSize PROVE FALSE
    BY <2>0, <1>2
  <2>2. d \in S /\ e \in S /\ d \in Nat /\ e \in Nat /\ d .. (d + DSize - 1) \subseteq S
    BY DEF Runs, Extent, BlockSize, DBLOCK, IBLOCK
  <2> DEFINE r == RunStart(S, d)
             q == RunStart(S, e)
  <2>3. /\ r \in Nat /\ r <= d /\ r .. d \subseteq S
        /\ \A a \in S : a .. d \subseteq S => r <= a
    BY <2>2, RunStartProperty
  <2>4. /\ q \in Nat /\ q <= e /\ q .. e \subseteq S
        /\ \A a \in S : a .. e \subseteq S => q <= a
    BY <2>2, RunStartProperty
  <2>5. (d - r) % DSize = 0 /\ (e - q) % DSize = 0
    BY DEF Runs
  <2> HIDE DEF r, q
  <2>6. r .. e \subseteq S
    BY <2>1, <2>2, <2>3, <1>2
  <2>7. q <= r
    BY <2>3, <2>4, <2>6
  <2>8. q .. d \subseteq S /\ q \in S
    BY <2>2, <2>4, <2>7, <2>3, <1>3
  <2>9. r = q
    BY <2>3, <2>4, <2>7, <2>8
  <2>10. (d - r) + DSize <= e - r
    BY <2>3, <2>4, <2>5, <2>9, <1>3, <2>2, SameRemainder
  <2> QED  BY <2>1, <2>2, <2>3, <2>10, <1>2
<1>4. ASSUME NEW d \in Runs(S), NEW e \in Runs(S), d # e
      PROVE  Extent(d, DBLOCK) \cap Extent(e, DBLOCK) = {}
  <2>1. d \in Nat /\ e \in Nat
    BY <1>1
  <2>2. d + DSize <= e \/ e + DSize <= d
    BY <1>3, <1>4, <2>1
  <2> QED  BY <1>2, <2>1, <2>2 DEF Extent, BlockSize, DBLOCK, IBLOCK
<1> QED  BY <1>1, <1>4

(***************************************************************************)
(* The data runs ssd_init_channel_bitmap pre-allocates do not overlap and  *)
(* fill the area behind the pre-allocated index blocks without a gap.      *)
(***************************************************************************)
LEMMA PreAreas ==
  ASSUME NEW start \in Nat, NEW pre \in Nat
  PROVE  /\ PreD(start, pre) \subseteq Nat
         /\ pre * DSize \in Nat
         /\ Covered(PreD(start, pre)) = (start + pre) .. (start + pre + pre * DSize - 1)
         /\ \A d, e \in PreD(start, pre) :
              d # e => Extent(d, DBLOCK) \cap Extent(e, DBLOCK) = {}
<1> DEFINE s == start + pre
<1>1. DSize \in Nat /\ DSize > 0 /\ s \in Nat
  BY SizesAssumption
<1>2. \A k \in 0 .. (pre - 1) :
        /\ k * DSize \in Nat
        /\ k * DSize + DSize <= pre * DSize
        /\ s + k * DSize \in Nat
        /\ Extent(s + k * DSize, DBLOCK) = (s + k * DSize) .. (s + k * DSize + DSize - 1)
  <2> TAKE k \in 0 .. (pre - 1)
  <2>1. k \in Nat /\ k < pre
    OBVIOUS
  <2>2. k * DSize \in Nat /\ k * DSize + DSize <= pre * DSize
    BY <2>1, MultiplesApart
  <2> QED  BY <1>1, <2>2 DEF Extent, BlockSize, DBLOCK, IBLOCK
<1>3. PreD(start, pre) \subseteq Nat
  BY <1>2 DEF PreD
<1>4. pre * DSize \in Nat
  BY <1>1
<1>5. ASSUME NEW b \in Covered(PreD(start, pre))
      PROVE  b \in s .. (s + pre * DSize - 1)
  <2>1. PICK k \in 0 .. (pre - 1) : b \in Extent(s + k * DSize, DBLOCK)
    BY DEF Covered, PreD
  <2>2. /\ k * DSize \in Nat /\ k * DSize + DSize <= pre * DSize
        /\ b \in (s + k * DSize) .. (s + k * DSize + DSize - 1)
    BY <2>1, <1>2
  <2> HIDE DEF s
  <2> QED  BY <2>2, <1>1, <1>4
<1>6. ASSUME NEW b \in s .. (s + pre * DSize - 1)
      PROVE  b \in Covered(PreD(start, pre))
  <2> DEFINE x == b - s
             k == x \div DSize
  <2>1. x \in Nat /\ x < pre * DSize
    BY <1>1, <1>4
  <2>2. k \in Nat /\ k * DSize \in Nat /\ k * DSize <= x /\ x < k * DSize + DSize
    BY <2>1, <1>1, Z3
  <2> HIDE DEF k
  <2>3. k < pre
    <3>1. SUFFICES ASSUME pre <= k PROVE FALSE
      BY <2>2
    <3>2. pre * DSize <= k * DSize
      BY <3>1, <2>2, <1>1, MultiplesApart
    <3> QED  BY <3>2, <2>1, <2>2, <1>4
  <2>4. k \in 0 .. (pre - 1)
    BY <2>2, <2>3
  <2>5. b \in Extent(s + k * DSize, DBLOCK)
    BY <2>2, <2>4, <1>1, <1>2, <1>4
  <2> QED  BY <2>4, <2>5 DEF Covered, PreD
<1>7. ASSUME NEW d \in PreD(start, pre), NEW e \in PreD(start, pre), d # e
      PROVE  Extent(d, DBLOCK) \cap Extent(e, DBLOCK) = {}
  <2>1. PICK j \in 0 .. (pre - 1) : d = s + j * DSize
    BY DEF PreD
  <2>2. PICK k \in 0 .. (pre - 1) : e = s + k * DSize
    BY DEF PreD
  <2>3. j * DSize \in Nat /\ k * DSize \in Nat
    BY <1>2
  <2>4. j < k \/ k < j
    BY <1>7, <2>1, <2>2
  <2>5. j * DSize + DSize <= k * DSize \/ k * DSize + DSize <= j * DSize
    BY <2>4, MultiplesApart
  <2>6. /\ Extent(d, DBLOCK) = (s + j * DSize) .. (s + j * DSize + DSize - 1)
        /\ Extent(e, DBLOCK) = (s + k * DSize) .. (s + k * DSize + DSize - 1)
    BY <2>1, <2>2, <1>2
  <2> QED  BY <2>3, <2>5, <2>6, <1>1
<1> QED  BY <1>3, <1>4, <1>5, <1>6, <1>7

(***************************************************************************)
(* Disjoint data runs cover DSize blocks each, so the free count kept in   *)
(* block sizes is the number of free blocks.                               *)
(***************************************************************************)
LEMMA CoveredCount ==
  ASSUME NEW D, D \subseteq Nat, IsFiniteSet(D),
         \A d, e \in D : d # e => Extent(d, DBLOCK) \cap Extent(e, DBLOCK) = {}
  PROVE  /\ IsFiniteSet(Covered(D))
         /\ Cardinality(Covered(D)) = DSize * Cardinality(D)
<1> DEFINE K == 0 .. (DSize - 1)
           P == D \X K
           f == [p \in P |-> p[1] + p[2]]
<1>1. DSize \in Nat /\ DSize > 0
  BY SizesAssumption
<1>2. \A d \in D : Extent(d, DBLOCK) = d .. (d + DSize - 1)
  BY DEF Extent, BlockSize, DBLOCK, IBLOCK
<1>3. IsFiniteSet(K) /\ Cardinality(K) = DSize
  BY <1>1, FS_Interval
<1>4. IsFiniteSet(P) /\ Cardinality(P) = Cardinality(D) * Cardinality(K)
  BY <1>3, FS_Product
<1>5. Cardinality(D) \in Nat
  BY FS_CardinalityType
<1>6. \A p \in P : p[1] \in D /\ p[2] \in K /\ f[p] = p[1] + p[2] /\ f[p] \in Extent(p[1], DBLOCK)
  <2> TAKE p \in P
  <2>1. p[1] \in D /\ p[2] \in K /\ p[1] \in Nat
    OBVIOUS
  <2>2. f[p] = p[1] + p[2]
    OBVIOUS
  <2> QED  BY <2>1, <2>2, <1>1, <1>2
<1>7. f \in [P -> Covered(D)]
  <2>1. f = [p \in P |-> f[p]]
    OBVIOUS
  <2> HIDE DEF f, P
  <2>2. \A p \in P : f[p] \in Covered(D)
    BY <1>6, ZenonT(40) DEF Covered
  <2> QED  BY <2>1, <2>2
<1>8. \A p, q \in P : f[p] = f[q] => p = q
  <2> TAKE p, q \in P
  <2> HAVE f[p] = f[q]
  <2>1. p[1] = q[1]
    BY <1>6
  <2>2. p[2] = q[2]
    <3>1. p[1] \in D /\ p[2] \in K /\ q[2] \in K
      BY <1>6
    <3>2. p[1] + p[2] = q[1] + q[2]
      BY <1>6
    <3>3. K \subseteq Nat
      BY <1>1
    <3> HIDE DEF K, P, f
    <3>4. p[1] \in Nat /\ p[2] \in Nat /\ q[2] \in Nat
      BY <3>1, <3>3
    <3> QED  BY <2>1, <3>2, <3>4
  <2> QED  BY <2>1, <2>2
<1>9. \A b \in Covered(D) : \E p \in P : f[p] = b
  <2> TAKE b \in Covered(D)
  <2>1. PICK d \in D : b \in Extent(d, DBLOCK)
    BY DEF Covered
  <2>2. d \in Nat /\ b \in d .. (d + DSize - 1)
    BY <2>1, <1>2
  <2>3. b - d \in K /\ d + (b - d) = b
    BY <2>2, <1>1
  <2>4. <<d, b - d>> \in P /\ f[<<d, b - d>>] = b
    BY <2>3
  <2> QED  BY <2>4
<1>10. ExistsBijection(P, Covered(D))
  <2> HIDE DEF f, P
  <2>1. f \in Bijection(P, Covered(D))
    BY <1>7, <1>8, <1>9 DEF Bijection, Injection, Surjection, IsInjective
  <2> QED  BY <2>1 DEF ExistsBijection
<1> HIDE DEF P, K, f
<1>11. IsFiniteSet(Covered(D)) /\ Cardinality(Covered(D)) = Cardinality(P)
  BY <1>4, <1>10, FS_Bijection
<1> QED  BY <1>1, <1>3, <1>4, <1>5, <1>11
=============================================================================
