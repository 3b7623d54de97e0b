---------------------------------- MODULE Air ----------------------------------
(***************************************************************************)
(* The sockets of a pipeline and the datagrams between them (transport.py): *)
(* publishers send to a relay, if there is one, and it to the subscribers;  *)
(* a multicast datagram reaches every subscriber that listens.  The network *)
(* loses datagrams and may reorder them.  All publications of a bridge      *)
(* share one address.  How the programs are configured is chosen with the   *)
(* initial state, as one of Scenarios.                                      *)
(***************************************************************************)
EXTENDS Integers, Sequences, SequencesExt

CONSTANTS Publications, Qualities,
          Messages,       \* the qualities of each publication's samples, one by one
          MaxNumber,      \* more than there are of one publication
          Keys,
          Scenarios,
          None

Key == Keys \cup {None}

Faults == {"start", "lookup", "bind", "stop", "encode", "send", "lose", "receive", "write"}

\* The key the publishers sign with; if there is a relay, with what it signs and what
\* it verifies; the key the subscribers verify with; whether the network keeps the
\* order; the publications whose ids a publisher that is not the bridge uses too; and
\* what may go wrong.
Scenario == [origin : Key, relay : BOOLEAN, sign : Key, verify : Key, key : Key,
             ordered : BOOLEAN, strays : SUBSET Publications, faults : SUBSET Faults]

ASSUME AirConstants ==
    /\ Messages \in [Publications -> Seq(Qualities)]
    /\ MaxNumber \in Nat /\ \A p \in Publications : Len(Messages[p]) < MaxNumber
    /\ Scenarios \subseteq Scenario
    /\ None \notin Keys \cup Publications

VARIABLES
    scenario,
    open,       \* the sockets that are open
    hop,        \* datagrams on their way to the relay
    inbox,      \* datagrams each subscriber's socket holds
    lost        \* history: publications that lost a datagram since their latest

air == <<open, hop, inbox, lost>>

Sample == [number : 1..MaxNumber, quality : Qualities]

Datagram == [of : Publications, sample : Sample, key : Key]

May(fault) == fault \in scenario.faults

Socket(kind, of) == [kind |-> kind, of |-> of]

Kinds == {"publisher", "subscriber", "target", "receiver"}

Sockets == [kind : Kinds, of : Publications \cup {None}]

\* open_receive_socket, open_send_socket: the group is joined, nothing has arrived.
OpenSockets(new) == open' = open \cup new

CloseSockets(old) == open' = open \ old

Hears(p) == Socket("subscriber", p) \in open

\* Every socket that listens gets its copy.
Multicast(d) ==
    inbox' = [p \in Publications |-> IF Hears(p) THEN Append(inbox[p], d) ELSE inbox[p]]

\* Is d one of the publication's own?
Own(d) == d.sample.number <= Len(Messages[d.of])

\* The history, if d never arrives.
Missing(d) == IF Own(d) THEN lost \cup {d.of} ELSE lost

\* A publisher sends d.
Transmit(d) ==
    LET heard == IF scenario.relay THEN Socket("receiver", None) \in open ELSE Hears(d.of)
    IN  /\ lost' = IF heard /\ Own(d) THEN lost \ {d.of} ELSE Missing(d)
        /\ IF scenario.relay
           THEN hop' = (IF heard THEN Append(hop, d) ELSE hop) /\ UNCHANGED inbox
           ELSE Multicast(d) /\ UNCHANGED hop

\* The datagrams that may be the next to arrive.
Arriving(datagrams) ==
    IF scenario.ordered THEN {i \in DOMAIN datagrams : i = 1} ELSE DOMAIN datagrams

LoseHop ==
    \E i \in DOMAIN hop :
        /\ May("lose")
        /\ hop' = RemoveAt(hop, i)
        /\ lost' = Missing(hop[i])
        /\ UNCHANGED <<scenario, open, inbox>>

LoseCopy(p) ==
    \E i \in DOMAIN inbox[p] :
        /\ May("lose")
        /\ inbox' = [inbox EXCEPT ![p] = RemoveAt(@, i)]
        /\ lost' = IF inbox[p][i].of = p THEN Missing(inbox[p][i]) ELSE lost
        /\ UNCHANGED <<scenario, open, hop>>

InitAir ==
    /\ scenario \in Scenarios
    /\ open = {}
    /\ hop = <<>>
    /\ inbox = [p \in Publications |-> <<>>]
    /\ lost = {}

AirTypeOK ==
    /\ scenario \in Scenarios
    /\ open \subseteq Sockets
    /\ hop \in Seq(Datagram)
    /\ inbox \in [Publications -> Seq(Datagram)]
    /\ lost \subseteq Publications
=============================================================================
