---------------------------------- MODULE Relay ----------------------------------
(***************************************************************************)
(* A route of the relay (relay.py): what arrives at its source is sent to    *)
(* its target, untouched, or signed anew if the route has a key.  What the   *)
(* re-encoding does to a message is Wire's.                                  *)
(***************************************************************************)
EXTENDS Air

VARIABLE relay      \* "absent", "off", "on", "stopped", or "failed" if its start raised

RouteSockets == {Socket("target", None), Socket("receiver", None)}

InitRelay == relay = IF scenario.relay THEN "off" ELSE "absent"

StartRelay ==
    /\ relay = "off"
    /\ relay' = "on"
    /\ OpenSockets(RouteSockets)
    /\ UNCHANGED <<scenario, hop, inbox, lost>>

\* The target's socket is not opened, or the receiver's, with the target's open: the
\* program ends, and stop is not called.
StartRelayFails ==
    /\ May("start")
    /\ relay = "off"
    /\ relay' = "failed"
    /\ \E opened \in SUBSET {Socket("target", None)} : OpenSockets(opened)
    /\ UNCHANGED <<scenario, hop, inbox, lost>>

\* What waits at the receiver goes with it.
StopRelay ==
    /\ May("stop")
    /\ relay = "on"
    /\ relay' = "stopped"
    /\ CloseSockets(RouteSockets)
    /\ hop' = <<>>
    /\ lost' = lost \cup {hop[i].of : i \in DOMAIN hop}
    /\ UNCHANGED <<scenario, inbox>>

\* A signing route verifies what it has a key for.
Valid(d) == scenario.sign # None /\ scenario.verify # None => d.key = scenario.verify

OnRoute(d) == [d EXCEPT !.key = IF scenario.sign # None THEN scenario.sign ELSE @]

Forward ==
    \E i \in Arriving(hop) :
        /\ relay = "on"
        /\ Valid(hop[i])
        /\ hop' = RemoveAt(hop, i)
        /\ Multicast(OnRoute(hop[i]))
        /\ lost' = IF Hears(hop[i].of) THEN lost ELSE Missing(hop[i])
        /\ UNCHANGED <<scenario, open, relay>>

\* The target's socket refuses the datagram: nobody is told.
ForwardFails ==
    \E i \in Arriving(hop) :
        /\ May("send")
        /\ relay = "on"
        /\ Valid(hop[i])
        /\ hop' = RemoveAt(hop, i)
        /\ lost' = Missing(hop[i])
        /\ UNCHANGED <<scenario, open, inbox, relay>>

DropInvalid ==
    \E i \in Arriving(hop) :
        /\ relay = "on"
        /\ ~Valid(hop[i])
        /\ hop' = RemoveAt(hop, i)
        /\ lost' = Missing(hop[i])
        /\ UNCHANGED <<scenario, open, inbox, relay>>

RelayStep ==
    StartRelay \/ StartRelayFails \/ StopRelay \/ Forward \/ ForwardFails \/ DropInvalid

RelayTypeOK == relay \in {"absent", "off", "on", "stopped", "failed"}
=============================================================================
