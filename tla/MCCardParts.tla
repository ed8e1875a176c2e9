----------------------------- MODULE MCCardParts -----------------------------
(***************************************************************************)
(* Every bitmap of a small channel, and a card with two threads of one     *)
(* process and a tool, see MCCardParts.cfg.                                *)
(***************************************************************************)
EXTENDS CardParts

CONSTANTS t1, t2, f, x
=============================================================================
