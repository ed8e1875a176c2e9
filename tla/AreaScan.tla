------------------------------ MODULE AreaScan -------------------------------
(***************************************************************************)
(* The two loops of the driver that cut free space into data runs, one     *)
(* loop iteration per step: bitmap_merge over the free index blocks, and   *)
(* the last loop of ssd_reload_bitmap over the holes in front of the last  *)
(* used block, which looks for data runs first and then collects what is   *)
(* left as index blocks.  IdStore uses the results in closed form (Runs).  *)
(***************************************************************************)
EXTENDS BlockMaps

VARIABLES
  loop,   \* "merge" or "reload"
  map0,   \* the free blocks the loop starts from
  map,    \* the bits of the scanned bitmap that are still 0
  size,   \* the size handed to bitmap_find_next_zero_area
  pass,   \* the block type looked for, or 2 when the loop is over
  start,  \* where the next search begins
  found,  \* the bits cleared in fab[type]
  count   \* count of bitmap_merge, free_blocks of ssd_reload_bitmap

scanVars == <<loop, map0, map, size, pass, start, found, count>>

DONE == 2

(***************************************************************************)
(* bitmap_find_next_zero_area: the first area of nr zero bits at start or  *)
(* behind it, as a set that is empty when there is none below sz.          *)
(***************************************************************************)
Areas(S, sz, st, nr) == {b \in st .. (sz - nr) : b .. (b + nr - 1) \subseteq S}

bitmap_find_next_zero_area(S, sz, st, nr) ==
  {b \in Areas(S, sz, st, nr) : \A a \in Areas(S, sz, st, nr) : b <= a}

(***************************************************************************)
(* bitmap_merge starts from any set of free index blocks, the reload loop  *)
(* from the complement of any used set, which ends with a used block.      *)
(***************************************************************************)
ScanInit ==
  /\ pass = DBLOCK
  /\ start = 0
  /\ found = [type \in Types |-> {}]
  /\ \/ /\ loop = "merge"
        /\ map0 \in SUBSET Blocks
        /\ size = NBlocks
        /\ count = 0
     \/ /\ loop = "reload"
        /\ \E end \in Blocks :
             /\ map0 \in SUBSET (0 .. (end - 1))
             /\ size = end + 1
        /\ count = NBlocks - size
  /\ map = map0

Step(n, type) == n + (IF loop = "merge" THEN 1 ELSE BlockSize(type))

(***************************************************************************)
(* One iteration: the area found leaves the scanned bitmap, its first bit  *)
(* becomes available in the map of its type, the scan resumes behind it.   *)
(***************************************************************************)
Resume(index, type) == index + BlockSize(type)

Take_keeps_bits(index, type) == map \ {index}
Take(index, type) == map \ Extent(index, type)

Iterate ==
  /\ pass \in Types
  /\ start < size
  /\ \E index \in bitmap_find_next_zero_area(map, size, start, BlockSize(pass)) :
       /\ map' = Take(index, pass)
       /\ found' = [found EXCEPT ![pass] = @ \cup {index}]
       /\ start' = Resume(index, pass)
       /\ count' = Step(count, pass)
  /\ UNCHANGED <<loop, map0, size, pass>>

Over == start >= size \/ bitmap_find_next_zero_area(map, size, start, BlockSize(pass)) = {}

(***************************************************************************)
(* The end of a pass; only the reload loop has a second one, for index     *)
(* blocks.                                                                 *)
(***************************************************************************)
EndPass ==
  /\ pass \in Types
  /\ Over
  /\ pass' = IF loop = "reload" /\ pass = DBLOCK THEN IBLOCK ELSE DONE
  /\ start' = 0
  /\ UNCHANGED <<loop, map0, map, size, found, count>>

Scan == Iterate \/ EndPass
-----------------------------------------------------------------------------
(***************************************************************************)
(* When the loop is over it has produced what IdStore's bitmap_merge and   *)
(* ssd_reload_bitmap assume in closed form, the leftover bits and the      *)
(* count included.  On the way, in the first pass, the runs found are the  *)
(* greedy runs of the original bitmap that start before the scan position, *)
(* whatever bits the earlier iterations have taken away.                   *)
(***************************************************************************)
GreedySoFar == pass = DBLOCK => found[DBLOCK] = {b \in Runs(map0) : b < start}

Computed ==
  LET runs == Runs(map0)
      rest == map0 \ Covered(runs)
  IN pass = DONE =>
       /\ found[DBLOCK] = runs
       /\ loop = "merge" =>
            /\ found[IBLOCK] = {}
            /\ map = rest
            /\ count = Cardinality(runs)
       /\ loop = "reload" =>
            /\ found[IBLOCK] = rest
            /\ map = {}
            /\ count = NBlocks - size + DSize * Cardinality(runs) + Cardinality(rest)

(***************************************************************************)
(* Both while the loop runs and when it is over.                           *)
(***************************************************************************)
ClosedForm == GreedySoFar /\ Computed
=============================================================================
