------------------------------ MODULE MCIdStore ------------------------------
(***************************************************************************)
(* IdStore on small channels, see the cfg files.                           *)
(***************************************************************************)
EXTENDS IdStore, TLC

(***************************************************************************)
(* The ids are interchangeable.                                            *)
(***************************************************************************)
Symmetry == Permutations(Ids)

(***************************************************************************)
(* stat is written and never read by another variable's update, nor by a   *)
(* property: states need not be told apart by it.                          *)
(***************************************************************************)
DataView == <<hash, area, flash, opened, saved, reply>>
=============================================================================
