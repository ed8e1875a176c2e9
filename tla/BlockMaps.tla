------------------------------ MODULE BlockMaps ------------------------------
(***************************************************************************)
(* The logical-block arithmetic of one channel of the card: how much room  *)
(* an index block and a data block take, which blocks an extent covers,    *)
(* and which runs of free blocks the left-to-right scans of the driver     *)
(* find.  A bitmap of the driver ("0 --- available") is the set of the     *)
(* indexes whose bit is 0.                                                 *)
(***************************************************************************)
EXTENDS Integers, FiniteSets

CONSTANTS
  NBlocks,    \* SSD_MAX_VIRBLOCKS_PER_CHANNEL
  DSize,      \* BLOCKSIZE[DBLOCK]; BLOCKSIZE[IBLOCK] is 1
  PreAlloc    \* PRE_ALLOC_BLOCKS

(***************************************************************************)
(* The two pre-allocated areas always fit when less than half of the       *)
(* channel is used (8000, 5 and 100 in the driver).                        *)
(***************************************************************************)
ASSUME SizesAssumption ==
  /\ NBlocks \in Nat \ {0}
  /\ DSize \in Nat \ {0, 1}
  /\ PreAlloc \in Nat
  /\ PreAlloc + PreAlloc * DSize <= NBlocks - (NBlocks \div 2)

Blocks == 0 .. (NBlocks - 1)

IBLOCK == 0
DBLOCK == 1
Types == {IBLOCK, DBLOCK}
BlockSize(type) == IF type = IBLOCK THEN 1 ELSE DSize

Extent(start, type) == start .. (start + BlockSize(type) - 1)

Least(S) == CHOOSE x \in S : \A y \in S : x <= y

(***************************************************************************)
(* What repeated calls of bitmap_find_next_zero_area(.., DSize, 0), each   *)
(* resuming behind the previous hit, return on the free set S: every       *)
(* maximal run of S is cut into pieces of DSize from its left end.         *)
(***************************************************************************)
RunStart(S, b) == Least({a \in S : a .. b \subseteq S})

Runs(S) == {b \in S : /\ Extent(b, DBLOCK) \subseteq S
                      /\ (b - RunStart(S, b)) % DSize = 0}

Covered(starts) == UNION {Extent(d, DBLOCK) : d \in starts}

(***************************************************************************)
(* ssd_init_channel_bitmap: both maps are filled, then pre index blocks    *)
(* and behind them pre data runs are freed from start on.                  *)
(***************************************************************************)
PreI(start, pre) == start .. (start + pre - 1)
PreD(start, pre) == {start + pre + k * DSize : k \in 0 .. (pre - 1)}
=============================================================================
