------------------------------- MODULE OpcuaBridge -------------------------------
(***************************************************************************)
(* The OPC UA bridge (bridge_opcua.py) and its subscribers (client.py,       *)
(* Subscriber): a subscriber's thread decodes, filters and queues what its   *)
(* socket receives, a pump for each publication writes it to the served      *)
(* node.  How a name is looked up is Lookup's.                               *)
(***************************************************************************)
EXTENDS Air

CONSTANT QueueSize      \* 1000

ASSUME QueueSizeIsNatural == QueueSize \in Nat

VARIABLES
    server,     \* "looking up", "serving", "ending" or "ended"
    pump,       \* how far the pump of each publication is
    thread,     \* the thread of each subscriber: "none", "running" or "ended"
    queue,      \* the samples each subscriber holds for its reader
    shown       \* the sample each node shows

opcua == <<server, pump, thread, queue, shown>>

SubscriberOf(p) == Socket("subscriber", p)

InitOpcua ==
    /\ server = "looking up"
    /\ pump = [p \in Publications |-> "none"]
    /\ thread = [p \in Publications |-> "none"]
    /\ queue = [p \in Publications |-> <<>>]
    /\ shown = [p \in Publications |-> None]

\* All names are looked up before anything is served.
LookedUp ==
    /\ server = "looking up"
    /\ server' = "serving"
    /\ pump' = [p \in Publications |-> "looked up"]
    /\ UNCHANGED <<scenario, air, thread, queue, shown>>

\* One that is not found ends the bridge.
LookupFails ==
    /\ May("lookup")
    /\ server = "looking up"
    /\ server' = "ended"
    /\ UNCHANGED <<scenario, air, pump, thread, queue, shown>>

StartPump(p) ==
    /\ server = "serving" /\ pump[p] = "looked up"
    /\ pump' = [pump EXCEPT ![p] = "running"]
    /\ thread' = [thread EXCEPT ![p] = "running"]
    /\ OpenSockets({SubscriberOf(p)})
    /\ UNCHANGED <<scenario, hop, inbox, lost, server, queue, shown>>

\* The port is taken: the pump fails.
BindFails(p) ==
    /\ May("bind")
    /\ server = "serving" /\ pump[p] = "looked up"
    /\ pump' = [pump EXCEPT ![p] = "failed"]
    /\ UNCHANGED <<scenario, air, server, thread, queue, shown>>

\* The gathered pumps have all started when the failure of one ends the server, and
\* those that run go on meanwhile; a cancellation, at any time, ends them too.
End ==
    /\ server = "serving"
    /\ \/ /\ \E p \in Publications : pump[p] = "failed"
          /\ \A p \in Publications : pump[p] # "looked up"
          /\ UNCHANGED pump
       \/ /\ May("stop") /\ \A p \in Publications : pump[p] # "failed"
          /\ pump' = [p \in Publications |->
                        IF pump[p] = "running" THEN "cancelled" ELSE pump[p]]
    /\ server' = "ending"
    /\ UNCHANGED <<scenario, air, thread, queue, shown>>

\* The event ends the thread, which is joined, and the socket is closed.
StopSubscriber(p) ==
    /\ server = "ending" /\ pump[p] # "stopped"
    /\ pump' = [pump EXCEPT ![p] = "stopped"]
    /\ thread' = [thread EXCEPT ![p] = "ended"]
    /\ CloseSockets({SubscriberOf(p)})
    /\ inbox' = [inbox EXCEPT ![p] = <<>>]
    /\ server' = IF \A q \in Publications : pump'[q] = "stopped" THEN "ended" ELSE "ending"
    /\ UNCHANGED <<scenario, hop, lost, queue, shown>>

-----------------------------------------------------------------------------
(* A subscriber's thread. *)

Decodable(d) == scenario.key # None => d.key = scenario.key

\* Faulty: the writer id, all that tells the bridge's publications apart, is not compared.
MineOrTheirs(p, d) == TRUE

\* The ids are those that were looked up for p.
Mine(p, d) == d.of = p

\* The i-th datagram is received, which the thread waits for.
Received(p, i) ==
    /\ thread[p] = "running"
    /\ i \in Arriving(inbox[p])
    /\ inbox' = [inbox EXCEPT ![p] = RemoveAt(@, i)]
    /\ UNCHANGED <<scenario, open, hop, server, pump, shown>>

Queue(p) ==
    \E i \in DOMAIN inbox[p] :
        /\ Received(p, i)
        /\ Decodable(inbox[p][i]) /\ Mine(p, inbox[p][i])
        /\ Len(queue[p]) < QueueSize
        /\ queue' = [queue EXCEPT ![p] = Append(@, inbox[p][i].sample)]
        /\ UNCHANGED <<lost, thread>>

\* Faulty: the queue grows.
FullGrows(p) ==
    \E i \in DOMAIN inbox[p] :
        /\ Received(p, i)
        /\ Decodable(inbox[p][i]) /\ Mine(p, inbox[p][i])
        /\ Len(queue[p]) = QueueSize
        /\ queue' = [queue EXCEPT ![p] = Append(@, inbox[p][i].sample)]
        /\ UNCHANGED <<lost, thread>>

\* A full queue drops the update that comes, not those it holds.
Full(p) ==
    \E i \in DOMAIN inbox[p] :
        /\ Received(p, i)
        /\ Decodable(inbox[p][i]) /\ Mine(p, inbox[p][i])
        /\ Len(queue[p]) = QueueSize
        /\ lost' = Missing(inbox[p][i])
        /\ UNCHANGED <<queue, thread>>

Skip(p) ==
    \E i \in DOMAIN inbox[p] :
        /\ Received(p, i)
        /\ Decodable(inbox[p][i]) /\ ~Mine(p, inbox[p][i])
        /\ UNCHANGED <<lost, queue, thread>>

\* Faulty: the thread ends with the first datagram that cannot be decoded.
UndecodableEnds(p) ==
    \E i \in DOMAIN inbox[p] :
        /\ Received(p, i)
        /\ ~Decodable(inbox[p][i])
        /\ thread' = [thread EXCEPT ![p] = "ended"]
        /\ UNCHANGED <<lost, queue>>

\* Counted, and the thread goes on.
Undecodable(p) ==
    \E i \in DOMAIN inbox[p] :
        /\ Received(p, i)
        /\ ~Decodable(inbox[p][i])
        /\ lost' = IF inbox[p][i].of = p THEN Missing(inbox[p][i]) ELSE lost
        /\ UNCHANGED <<queue, thread>>

\* An error of the socket ends the thread, and nobody is told.
ThreadEnds(p) ==
    /\ May("receive")
    /\ thread[p] = "running"
    /\ thread' = [thread EXCEPT ![p] = "ended"]
    /\ UNCHANGED <<scenario, air, server, pump, queue, shown>>

-----------------------------------------------------------------------------
(* A pump. *)

NextUpdate(p) ==
    /\ server \in {"serving", "ending"} /\ pump[p] = "running" /\ queue[p] # <<>>
    /\ UNCHANGED <<scenario, open, hop, inbox, server, pump, thread>>

Write(p) ==
    /\ NextUpdate(p)
    /\ queue' = [queue EXCEPT ![p] = Tail(@)]
    /\ shown' = [shown EXCEPT ![p] = Head(queue[p])]
    /\ UNCHANGED lost

\* The server refuses the value: the pump logs it and goes on with the next.
WriteFails(p) ==
    /\ May("write")
    /\ NextUpdate(p)
    /\ queue' = [queue EXCEPT ![p] = Tail(@)]
    /\ lost' = lost \cup {p}
    /\ UNCHANGED shown

OpcuaStep ==
    \/ LookedUp \/ LookupFails \/ End
    \/ \E p \in Publications :
          \/ StartPump(p) \/ BindFails(p) \/ StopSubscriber(p)
          \/ Queue(p) \/ Full(p) \/ Skip(p) \/ Undecodable(p) \/ ThreadEnds(p)
          \/ Write(p) \/ WriteFails(p)

OpcuaTypeOK ==
    /\ server \in {"looking up", "serving", "ending", "ended"}
    /\ pump \in [Publications -> {"none", "looked up", "running", "failed", "cancelled",
                                "stopped"}]
    /\ thread \in [Publications -> {"none", "running", "ended"}]
    /\ queue \in [Publications -> Seq(Sample)]
    /\ \A p \in Publications : Len(queue[p]) <= QueueSize
    /\ shown \in [Publications -> Sample \cup {None}]
=============================================================================
