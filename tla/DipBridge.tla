-------------------------------- MODULE DipBridge --------------------------------
(***************************************************************************)
(* The DIP bridge (bridge_dip.py) and the publishers it opens (client.py,    *)
(* Publisher): one publisher for each subscription of the configuration, no  *)
(* DIP name listed twice.  DIP calls a handler for each message; the         *)
(* registration of a publisher is Lookup's but for one that raises.          *)
(***************************************************************************)
EXTENDS Air

CONSTANT Order      \* the publications as the configuration lists them

ASSUME OrderIsASequence == Order \in Seq(Publications)

VARIABLES
    bridge,     \* "starting", "running" or "stopped"; "raised" if a constructor raised
    made,       \* how many DIP subscriptions exist
    sequence,   \* the last sequence number of each publisher
    sent,       \* history: the samples of each publication that were sent
    strays      \* history: those another publisher sent with its ids

dip == <<bridge, made, sequence, sent, strays>>

PublisherOf(p) == Socket("publisher", p)

Listed == {Order[i] : i \in DOMAIN Order}

\* The publications whose messages are handled.
Handled == {Order[i] : i \in 1..made}

InitDip ==
    /\ bridge = "starting"
    /\ made = 0
    /\ sequence = [p \in Publications |-> 0]
    /\ sent = [p \in Publications |-> {}]
    /\ strays = [p \in Publications |-> {}]

\* A publisher, its handler, the DIP subscription.
StartSubscription ==
    /\ bridge = "starting" /\ made < Len(Order)
    /\ made' = made + 1
    /\ OpenSockets({PublisherOf(Order[made'])})
    /\ bridge' = IF made' = Len(Order) THEN "running" ELSE "starting"
    /\ UNCHANGED <<scenario, hop, inbox, lost, sequence, sent, strays>>

\* Destroys the subscriptions, closes the publishers.
StopDip ==
    /\ bridge' = "stopped"
    /\ made' = 0
    /\ CloseSockets({PublisherOf(p) : p \in Listed})

\* Faulty: the publishers of the subscriptions before stay open.
StartFailsOnly ==
    /\ May("start")
    /\ bridge = "starting"
    /\ bridge' = "stopped"
    /\ UNCHANGED <<scenario, air, made, sequence, sent, strays>>

\* A publisher's socket is not opened, or DIP refuses the subscription: start stops all
\* of them.
StartFails ==
    /\ May("start")
    /\ bridge = "starting"
    /\ StopDip
    /\ UNCHANGED <<scenario, hop, inbox, lost, sequence, sent, strays>>

\* The constructor of a publisher raises once it has its socket, for a registry that ends
\* its call other than by a RegistryError: start stops the publishers it has stored, and
\* this one is not among them.
RegistrationRaises ==
    /\ May("start")
    /\ bridge = "starting" /\ made < Len(Order)
    /\ bridge' = "raised"
    /\ made' = 0
    /\ open' = (open \ {PublisherOf(p) : p \in Listed}) \cup {PublisherOf(Order[made + 1])}
    /\ UNCHANGED <<scenario, hop, inbox, lost, sequence, sent, strays>>

Stop ==
    /\ May("stop")
    /\ bridge = "running"
    /\ StopDip
    /\ UNCHANGED <<scenario, hop, inbox, lost, sequence, sent, strays>>

\* The next message DIP has for p.
Message(p) == [number |-> sequence[p] + 1, quality |-> Messages[p][sequence[p] + 1]]

\* The handler runs while the later subscriptions are still being made.
HandleMessage(p) ==
    /\ p \in Handled /\ sequence[p] < Len(Messages[p])
    /\ sequence' = [sequence EXCEPT ![p] = @ + 1]
    /\ sent' = [sent EXCEPT ![p] = @ \cup {Message(p)}]
    /\ Transmit([of |-> p, sample |-> Message(p), key |-> scenario.origin])
    /\ UNCHANGED <<scenario, open, bridge, made, strays>>

\* The value cannot be encoded or sent: the number is used up, the handler counts an
\* error and goes on.
HandlerFails(p) ==
    /\ May("encode")
    /\ p \in Handled /\ sequence[p] < Len(Messages[p])
    /\ sequence' = [sequence EXCEPT ![p] = @ + 1]
    /\ UNCHANGED <<scenario, air, bridge, made, sent, strays>>

\* Another publisher, without a key, sends once with the ids of p.
Stray(p) ==
    /\ p \in scenario.strays /\ strays[p] = {}
    /\ \E quality \in Qualities :
          LET sample == [number |-> Len(Messages[p]) + 1, quality |-> quality]
          IN  /\ Transmit([of |-> p, sample |-> sample, key |-> None])
              /\ strays' = [strays EXCEPT ![p] = {sample}]
    /\ UNCHANGED <<scenario, open, bridge, made, sequence, sent>>

DipStep ==
    \/ StartSubscription \/ StartFails \/ RegistrationRaises \/ Stop
    \/ \E p \in Publications : HandleMessage(p) \/ HandlerFails(p) \/ Stray(p)

DipTypeOK ==
    /\ bridge \in {"starting", "running", "stopped", "raised"}
    /\ made \in 0..Len(Order)
    /\ sequence \in [Publications -> Nat]
    /\ \A p \in Publications : sequence[p] <= Len(Messages[p])
    /\ sent \in [Publications -> SUBSET Sample]
    /\ strays \in [Publications -> SUBSET Sample]
=============================================================================
