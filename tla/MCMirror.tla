------------------------------- MODULE MCMirror -------------------------------
(* Mirror on two names and two triples. *)
EXTENDS Mirror, TLC

CONSTANTS m, n, s, t
=============================================================================
