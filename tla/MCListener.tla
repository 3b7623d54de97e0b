------------------------------ MODULE MCListener ------------------------------
(* Listener on a multicast and a unicast endpoint. *)
EXTENDS Listener, TLC

CONSTANTS g, h

Ports == g :> 1 @@ h :> 2
=============================================================================
