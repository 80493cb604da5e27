---------------------------- MODULE MC_MirOpPass ----------------------------
(***************************************************************************)
(* The refinement of MirPass by MirOp, on the instances of MC_MirOp.       *)
(***************************************************************************)
EXTENDS MC_MirOp, MirOpPass

=============================================================================
