--------------------------- MODULE MCCardSession ----------------------------
(***************************************************************************)
(* Two threads of one process and a tool.                                  *)
(***************************************************************************)
EXTENDS CardSession

CONSTANTS t1, t2, f, x
=============================================================================
