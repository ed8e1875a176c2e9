----------------------------- MODULE MCChannelOp -----------------------------
(***************************************************************************)
(* ChannelOp with the channels and commands of the runs, see the cfgs.     *)
(***************************************************************************)
EXTENDS ChannelOp
=============================================================================
