---------------------------- MODULE MCBlockingOp ----------------------------
(* BlockingOp for TLC, with the ways in which its code could be wrong. *)
EXTENDS BlockingOp
=============================================================================
