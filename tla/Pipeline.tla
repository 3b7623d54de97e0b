--------------------------------- MODULE Pipeline ---------------------------------
(***************************************************************************)
(* From DIP to OPC UA: the DIP bridge publishes, a relay may forward, the    *)
(* OPC UA bridge subscribes and serves.  The programs are started and        *)
(* stopped in any order and share nothing but datagrams.                     *)
(***************************************************************************)
EXTENDS DipBridge, Relay, OpcuaBridge

vars == <<scenario, air, dip, relay, opcua>>

Init == InitAir /\ InitDip /\ InitRelay /\ InitOpcua

Lose == LoseHop \/ \E p \in Publications : LoseCopy(p)

Next ==
    \/ DipStep /\ UNCHANGED <<relay, opcua>>
    \/ RelayStep /\ UNCHANGED <<dip, opcua>>
    \/ OpcuaStep /\ UNCHANGED <<dip, relay>>
    \/ Lose /\ UNCHANGED <<dip, relay, opcua>>

Spec == Init /\ [][Next]_vars

\* A relay that is on forwards, a running thread takes what its socket holds, a pump
\* writes what is queued.
FairSpec ==
    /\ Spec
    /\ WF_vars((Forward \/ DropInvalid) /\ UNCHANGED <<dip, opcua>>)
    /\ \A p \in Publications :
          /\ WF_vars((Queue(p) \/ Full(p) \/ Skip(p) \/ Undecodable(p))
                     /\ UNCHANGED <<dip, relay>>)
          /\ WF_vars(Write(p) /\ UNCHANGED <<dip, relay>>)

-----------------------------------------------------------------------------
(* Properties. *)

TypeOK == AirTypeOK /\ DipTypeOK /\ RelayTypeOK /\ OpcuaTypeOK

\* The subscribers take only what the publishers signed, or what a relay signed that
\* verified them.
Authentic ==
    /\ scenario.key # None
    /\ IF scenario.relay /\ scenario.sign # None
       THEN scenario.sign = scenario.key /\ scenario.verify # None
            /\ scenario.verify = scenario.origin
       ELSE scenario.origin = scenario.key

\* What was published of p: another publisher with the same ids is shown only where
\* signatures are not required all the way.
PublishedOf(p) == sent[p] \cup (IF Authentic THEN {} ELSE strays[p])

Published == [p \in Publications |-> PublishedOf(p)]

\* Two publishers with the same ids have no common order.
InOrder == scenario.ordered /\ (Authentic \/ scenario.strays = {})

\* The values a reader is shown are those of the publication it asked for, with their
\* quality, in order if the network keeps it; another publisher with the same ids is
\* shown only where signatures are not required all the way (bridge_opcua.py:79-95,
\* client.py:239-256, relay.py:102-116, bridge_dip.py:151-162).
Promise == INSTANCE Stream WITH published <- Published, ordered <- InOrder

ImplementsStream == Promise!Spec

IsNewest(p, s) == s \in sent[p] /\ \A t \in sent[p] : t.number <= s.number

\* Something of p went missing since its newest sample was sent, another publisher may be
\* shown in its place, or a program on the way does not run.
Disturbed(p) ==
    \/ p \in lost \/ ~scenario.ordered
    \/ strays[p] # {} /\ ~Authentic
    \/ relay \in {"off", "stopped", "failed"}
    \/ ~(server = "serving" /\ pump[p] = "running")
    \/ May("receive") /\ thread[p] = "ended"

\* The newest of the samples sent is shown in the end, unless the network, a full queue or
\* a failed write took one of that publication, or a program on the way was stopped:
\* nothing gets stuck, whatever else arrives in between, datagrams nobody can decode
\* included (client.py:226-256, bridge_opcua.py:82-95, relay.py:102-124).
ShowsLast ==
    \A p \in Publications :
        []<>(sent[p] = {} \/ Disturbed(p) \/ (shown[p] # None /\ IsNewest(p, shown[p])))

\* A bridge or a relay that was stopped has closed its sockets, also a DIP bridge that
\* failed half-way through its start and an OPC UA bridge one of whose pumps failed.  What
\* nobody closes is the socket of the one publisher whose own constructor raised, and, if
\* the receiver of a relay was not opened, what its start had opened before
\* (bridge_dip.py:106-111, :131-138, relay.py:98, :126-136, bridge_opcua.py:103-105).
LeavesNothingElseOpen ==
    /\ bridge = "stopped" => \A p \in Publications : PublisherOf(p) \notin open
    /\ bridge = "raised" =>
          \A p, q \in Publications : {PublisherOf(p), PublisherOf(q)} \subseteq open => p = q
    /\ relay = "stopped" => RouteSockets \cap open = {}
    /\ relay = "failed" => Socket("receiver", None) \notin open
    /\ server = "ended" => \A p \in Publications : SubscriberOf(p) \notin open

=============================================================================
