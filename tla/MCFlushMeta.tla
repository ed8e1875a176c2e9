----------------------------- MODULE MCFlushMeta -----------------------------
(***************************************************************************)
(* FlushMeta on small rings, see the cfg files.                            *)
(***************************************************************************)
EXTENDS FlushMeta

(***************************************************************************)
(* Table positions no metadata page and no metadata in memory names are    *)
(* written again before they are read: states need not be told apart by    *)
(* their contents.                                                         *)
(***************************************************************************)
Named ==
  {m.pos[i] : m \in ({pages[b][p][q] : b \in MetaBlocks, p \in Planes, q \in Pages}
                       \cup {meta}) \ {Erased, Dirty}, i \in TableBlocks}

FlushView ==
  <<ring, [d \in Duplicates |-> [t \in Named |-> table[d][t]]], meta, opened, flush, calls,
    acked, sure, bounds>>
=============================================================================
