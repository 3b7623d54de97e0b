----------------------------- MODULE MCLossCount -----------------------------
(* LossCount with six sequence numbers. *)
EXTENDS LossCount
=============================================================================
