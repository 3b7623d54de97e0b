------------------------------ MODULE PipelineProofs ------------------------------
(***************************************************************************)
(* Theorems about Pipeline, for any publications, samples, configurations    *)
(* and queues: it implements Stream, and leaves no socket open.              *)
(***************************************************************************)
EXTENDS Pipeline, SequenceTheorems, TLAPS

(***************************************************************************)
(* Sequences.                                                               *)
(***************************************************************************)

LEMMA Concatenated ==
    ASSUME NEW S, NEW a \in Seq(S), NEW b \in Seq(S)
    PROVE  /\ a \o b \in Seq(S)
           /\ Len(a \o b) = Len(a) + Len(b)
           /\ \A j \in 1..(Len(a) + Len(b)) :
                 (a \o b)[j] = IF j <= Len(a) THEN a[j] ELSE b[j - Len(a)]
OBVIOUS

\* A sequence without its i-th element.
LEMMA Removed ==
    ASSUME NEW S, NEW s \in Seq(S), NEW i \in DOMAIN s
    PROVE  /\ RemoveAt(s, i) \in Seq(S)
           /\ Len(RemoveAt(s, i)) = Len(s) - 1
           /\ \A j \in 1..(Len(s) - 1) :
                 RemoveAt(s, i)[j] = IF j < i THEN s[j] ELSE s[j + 1]
<1>1. i \in 1..Len(s)
  OBVIOUS
<1> DEFINE a == SubSeq(s, 1, i - 1)
           b == SubSeq(s, i + 1, Len(s))
<1>2. /\ a \in Seq(S) /\ Len(a) = i - 1
      /\ \A j \in 1..(i - 1) : a[j] = s[j]
  BY <1>1
<1>3. /\ b \in Seq(S) /\ Len(b) = Len(s) - i
      /\ \A j \in 1..(Len(s) - i) : b[j] = s[i + j]
  BY <1>1
<1>4. RemoveAt(s, i) = a \o b
  BY DEF RemoveAt
<1> HIDE DEF a, b
<1>5. /\ a \o b \in Seq(S)
      /\ Len(a \o b) = Len(a) + Len(b)
      /\ \A j \in 1..(Len(a) + Len(b)) :
            (a \o b)[j] = IF j <= Len(a) THEN a[j] ELSE b[j - Len(a)]
  BY <1>2, <1>3, Concatenated
<1>6. Len(s) \in Nat /\ i \in 1..Len(s) /\ Len(a) = i - 1 /\ Len(b) = Len(s) - i
  BY <1>1, <1>2, <1>3
<1>7. ASSUME NEW j \in 1..(Len(s) - 1)
      PROVE  (a \o b)[j] = IF j < i THEN s[j] ELSE s[j + 1]
  <2>1. CASE j < i
    <3>1. j \in 1..(i - 1) /\ j <= Len(a) /\ j \in 1..(Len(a) + Len(b))
      BY <1>6, <2>1
    <3>2. (a \o b)[j] = a[j]
      BY <1>5, <3>1
    <3>3. QED
      BY <1>2, <2>1, <3>1, <3>2
  <2>2. CASE ~(j < i)
    <3>1. /\ ~(j <= Len(a)) /\ j \in 1..(Len(a) + Len(b))
          /\ j - Len(a) \in 1..(Len(s) - i) /\ i + (j - Len(a)) = j + 1
      <4>1. Len(a) = i - 1 /\ Len(b) = Len(s) - i /\ i \in Int /\ Len(s) \in Int
        BY <1>6
      <4>2. j \in Int /\ 1 <= j /\ i <= j /\ j <= Len(s) - 1
        BY <1>6, <2>2
      <4>3. ~(j <= i - 1) /\ (i - 1) + (Len(s) - i) = Len(s) - 1 /\ j \in 1..(Len(s) - 1)
        BY <4>1, <4>2
      <4>4. j - (i - 1) \in 1..(Len(s) - i) /\ i + (j - (i - 1)) = j + 1
        BY <4>1, <4>2
      <4>5. QED
        BY <4>1, <4>3, <4>4
    <3>2. (a \o b)[j] = b[j - Len(a)]
      BY <1>5, <3>1
    <3>3. QED
      BY <1>3, <2>2, <3>1, <3>2
  <2>3. QED
    BY <2>1, <2>2
<1>8. Len(a \o b) = Len(s) - 1
  BY <1>5, <1>6
<1>9. QED
  BY <1>4, <1>5, <1>7, <1>8

\* What is left was there before.
LEMMA RemovedRange ==
    ASSUME NEW S, NEW s \in Seq(S), NEW i \in DOMAIN s
    PROVE  Range(RemoveAt(s, i)) \subseteq Range(s)
<1> DEFINE r == RemoveAt(s, i)
<1>1. /\ Len(s) \in Nat /\ DOMAIN s = 1..Len(s) /\ i \in 1..Len(s)
      /\ DOMAIN r = 1..(Len(s) - 1)
      /\ \A j \in 1..(Len(s) - 1) : r[j] = IF j < i THEN s[j] ELSE s[j + 1]
  BY Removed
<1> HIDE DEF r
<1>2. \A j \in DOMAIN r : \E k \in DOMAIN s : r[j] = s[k]
  BY <1>1
<1>3. Range(r) \subseteq Range(s)
  BY <1>2 DEF Range
<1>4. QED
  BY <1>3 DEF r

LEMMA RangeTyped ==
    ASSUME NEW S, NEW s \in Seq(S)
    PROVE  Range(s) \subseteq S
<1>1. \A j \in DOMAIN s : s[j] \in S
  OBVIOUS
<1>2. QED
  BY <1>1 DEF Range

\* One element more.
LEMMA Appended ==
    ASSUME NEW S, NEW s \in Seq(S), NEW x \in S
    PROVE  /\ Append(s, x) \in Seq(S)
           /\ Range(Append(s, x)) = Range(s) \cup {x}
<1>1. /\ Append(s, x) \in Seq(S)
      /\ Len(Append(s, x)) = Len(s) + 1
      /\ \A j \in 1..Len(s) : Append(s, x)[j] = s[j]
      /\ Append(s, x)[Len(s) + 1] = x
  OBVIOUS
<1>2. DOMAIN Append(s, x) = 1..(Len(s) + 1) /\ DOMAIN s = 1..Len(s)
  BY <1>1
<1>3. QED
  BY <1>1, <1>2 DEF Range

\* One element more, or none.
LEMMA AtMostAppended ==
    ASSUME NEW S, NEW s \in Seq(S), NEW x \in S, NEW t, t = s \/ t = Append(s, x)
    PROVE  Range(t) \subseteq Range(s) \cup {x}
<1>1. Range(Append(s, x)) = Range(s) \cup {x}
  BY Appended
<1>2. QED
  BY <1>1

\* The first element and the others.
LEMMA HeadAndTail ==
    ASSUME NEW S, NEW s \in Seq(S), s # <<>>
    PROVE  /\ Head(s) \in S /\ Head(s) \in Range(s) /\ Head(s) = s[1]
           /\ Tail(s) \in Seq(S) /\ Range(Tail(s)) \subseteq Range(s)
           /\ Len(Tail(s)) = Len(s) - 1
           /\ \A j \in DOMAIN Tail(s) : Tail(s)[j] = s[j + 1] /\ j + 1 \in DOMAIN s
<1>1. Len(s) \in Nat \ {0} /\ Head(s) = s[1] /\ s[1] \in S /\ 1 \in DOMAIN s
  OBVIOUS
<1>2. /\ Tail(s) \in Seq(S) /\ Len(Tail(s)) = Len(s) - 1
      /\ \A j \in 1..(Len(s) - 1) : Tail(s)[j] = s[j + 1]
  BY <1>1
<1>3. DOMAIN Tail(s) = 1..(Len(s) - 1) /\ DOMAIN s = 1..Len(s)
  BY <1>1, <1>2
<1>4. QED
  BY <1>1, <1>2, <1>3 DEF Range

(***************************************************************************)
(* The inductive invariants.                                                *)
(***************************************************************************)

\* Sockets belong to programs that run; a start that raised leaves few.
PublishersOpen ==
    /\ \A p \in Publications : PublisherOf(p) \in open => bridge # "stopped" /\ p \in Listed
    /\ bridge = "raised" =>
          \A p, q \in Publications : {PublisherOf(p), PublisherOf(q)} \subseteq open => p = q

SubscribersOpen ==
    \A p \in Publications :
        /\ SubscriberOf(p) \in open => pump[p] \in {"running", "cancelled"}
        /\ server = "looking up" => pump[p] = "none"
        /\ server = "ended" => pump[p] \in {"none", "stopped"}

RelayOpen ==
    /\ relay \in {"absent", "off", "stopped"} => RouteSockets \cap open = {}
    /\ relay = "failed" => Socket("receiver", None) \notin open

OpenInv == PublishersOpen /\ SubscribersOpen /\ RelayOpen

(***************************************************************************)
(* Types.                                                                   *)
(***************************************************************************)

USE DEF Key, air, dip, opcua

\* What the assumptions say of the constants.
LEMMA Lists ==
    /\ Len(Order) \in Nat
    /\ \A i \in 1..Len(Order) : Order[i] \in Publications
    /\ DOMAIN Order = 1..Len(Order)
    /\ MaxNumber \in Nat
    /\ \A p \in Publications :
          /\ Len(Messages[p]) \in Nat
          /\ Len(Messages[p]) + 1 \in 1..MaxNumber
          /\ \A i \in 1..Len(Messages[p]) : Messages[p][i] \in Qualities
<1>1. Order \in Seq(Publications)
  BY OrderIsASequence
<1>2. ASSUME NEW p \in Publications
      PROVE  /\ Messages[p] \in Seq(Qualities)
             /\ MaxNumber \in Nat /\ Len(Messages[p]) < MaxNumber
  BY AirConstants
<1>3. MaxNumber \in Nat
  BY AirConstants
<1>4. QED
  BY <1>1, <1>2, <1>3

LEMMA ScenarioTyped ==
    ASSUME AirTypeOK
    PROVE  scenario \in Scenario
BY AirConstants DEF AirTypeOK

\* The types of what a socket holds, after a datagram more or less.
LEMMA InboxTyped ==
    ASSUME AirTypeOK, NEW p \in Publications
    PROVE  /\ inbox[p] \in Seq(Datagram)
           /\ \A d \in Datagram : Append(inbox[p], d) \in Seq(Datagram)
           /\ \A i \in DOMAIN inbox[p] :
                 /\ inbox[p][i] \in Datagram
                 /\ RemoveAt(inbox[p], i) \in Seq(Datagram)
<1>1. inbox[p] \in Seq(Datagram)
  BY DEF AirTypeOK
<1>2. \A i \in DOMAIN inbox[p] : RemoveAt(inbox[p], i) \in Seq(Datagram)
  BY <1>1, Removed
<1>3. QED
  BY <1>1, <1>2

LEMMA HopTyped ==
    ASSUME AirTypeOK
    PROVE  /\ \A d \in Datagram : Append(hop, d) \in Seq(Datagram)
           /\ \A i \in DOMAIN hop :
                 /\ hop[i] \in Datagram
                 /\ RemoveAt(hop, i) \in Seq(Datagram)
           /\ Arriving(hop) \subseteq DOMAIN hop
<1>1. hop \in Seq(Datagram)
  BY DEF AirTypeOK
<1>2. \A i \in DOMAIN hop : RemoveAt(hop, i) \in Seq(Datagram)
  BY <1>1, Removed
<1>3. Arriving(hop) \subseteq DOMAIN hop
  BY DEF Arriving
<1>4. QED
  BY <1>1, <1>2, <1>3

LEMMA MulticastTyped ==
    ASSUME AirTypeOK, NEW d \in Datagram, Multicast(d)
    PROVE  inbox' \in [Publications -> Seq(Datagram)]
<1>1. \A p \in Publications :
         (IF Hears(p) THEN Append(inbox[p], d) ELSE inbox[p]) \in Seq(Datagram)
  BY InboxTyped
<1>2. QED
  BY <1>1 DEF Multicast

\* What a publisher sends reaches the relay or the subscribers, well-typed.
LEMMA TransmitTyped ==
    ASSUME AirTypeOK, NEW d \in Datagram, Transmit(d)
    PROVE  /\ hop' \in Seq(Datagram)
           /\ inbox' \in [Publications -> Seq(Datagram)]
           /\ lost' \subseteq Publications
<1>1. lost' \subseteq Publications
  BY DEF AirTypeOK, Transmit, Missing, Datagram
<1>2. CASE scenario.relay
  <2>1. hop' \in {hop, Append(hop, d)} /\ inbox' = inbox
    BY <1>2 DEF Transmit
  <2>2. QED
    BY <1>1, <2>1, HopTyped DEF AirTypeOK
<1>3. CASE ~scenario.relay
  <2>1. Multicast(d) /\ hop' = hop
    BY <1>3 DEF Transmit
  <2>2. QED
    BY <1>1, <2>1, MulticastTyped DEF AirTypeOK
<1>4. QED
  BY <1>2, <1>3

\* What a relay makes of a datagram is one.
LEMMA OnRouteTyped ==
    ASSUME AirTypeOK, NEW d \in Datagram
    PROVE  OnRoute(d) \in Datagram
BY ScenarioTyped DEF OnRoute, Datagram, Scenario

\* The sample a DIP message is sent as.
LEMMA MessageTyped ==
    ASSUME DipTypeOK, NEW p \in Publications, sequence[p] < Len(Messages[p])
    PROVE  Message(p) \in Sample
<1>1. sequence[p] \in Nat
  BY DEF DipTypeOK
<1>2. /\ Len(Messages[p]) \in Nat /\ MaxNumber \in Nat /\ Len(Messages[p]) + 1 <= MaxNumber
      /\ \A i \in 1..Len(Messages[p]) : Messages[p][i] \in Qualities
  BY Lists
<1>3. sequence[p] + 1 \in 1..Len(Messages[p])
  BY <1>1, <1>2
<1>4. sequence[p] + 1 \in 1..MaxNumber
  BY <1>1, <1>2
<1>5. QED
  BY <1>2, <1>3, <1>4 DEF Message, Sample

LEMMA DipTyped ==
    ASSUME AirTypeOK, DipTypeOK, DipStep
    PROVE  AirTypeOK' /\ DipTypeOK'
<1>1. CASE StartSubscription
  <2>1. made + 1 \in 1..Len(Order) /\ Order[made + 1] \in Publications
    <3>1. made \in 0..Len(Order) /\ made < Len(Order) /\ Len(Order) \in Nat
      BY <1>1, Lists DEF StartSubscription, DipTypeOK
    <3>2. made + 1 \in 1..Len(Order)
      BY <3>1
    <3>3. QED
      BY <3>2, Lists
  <2>2. PublisherOf(Order[made + 1]) \in Sockets
    BY <2>1 DEF PublisherOf, Socket, Sockets, Kinds
  <2>3. made' = made + 1 /\ open' = open \cup {PublisherOf(Order[made + 1])}
    BY <1>1 DEF StartSubscription, OpenSockets
  <2>4. AirTypeOK'
    BY <1>1, <2>2, <2>3 DEF StartSubscription, AirTypeOK
  <2>5. DipTypeOK'
    <3>1. made' \in 0..Len(Order)
      BY <2>1, <2>3, Lists
    <3>2. bridge' \in {"starting", "running"} /\ UNCHANGED <<sequence, sent, strays>>
      BY <1>1 DEF StartSubscription
    <3>3. QED
      BY <3>1, <3>2 DEF DipTypeOK
  <2>6. QED
    BY <2>4, <2>5
<1>2. CASE StartFails \/ Stop
  <2>1. /\ open' \subseteq open /\ bridge' = "stopped" /\ made' = 0
        /\ UNCHANGED <<scenario, hop, inbox, lost, sequence, sent, strays>>
    BY <1>2 DEF StartFails, Stop, StopDip, CloseSockets
  <2>2. QED
    BY <2>1, Lists DEF AirTypeOK, DipTypeOK
<1>3. ASSUME NEW p \in Publications, HandleMessage(p)
      PROVE  AirTypeOK' /\ DipTypeOK'
  <2> DEFINE d == [of |-> p, sample |-> Message(p), key |-> scenario.origin]
  <2>1. Message(p) \in Sample
    BY <1>3, MessageTyped DEF HandleMessage
  <2>2. d \in Datagram
    BY <2>1, ScenarioTyped DEF Datagram, Scenario
  <2>3. Transmit(d)
    BY <1>3 DEF HandleMessage
  <2> HIDE DEF d
  <2>4. /\ hop' \in Seq(Datagram)
        /\ inbox' \in [Publications -> Seq(Datagram)]
        /\ lost' \subseteq Publications
    BY <2>2, <2>3, TransmitTyped
  <2>5. /\ sequence' \in [Publications -> Nat]
        /\ \A q \in Publications : sequence'[q] <= Len(Messages[q])
    <3>1. /\ sequence' = [sequence EXCEPT ![p] = sequence[p] + 1]
          /\ sequence[p] < Len(Messages[p])
      BY <1>3 DEF HandleMessage
    <3>2. QED
      BY <3>1, Lists DEF DipTypeOK
  <2>6. sent' \in [Publications -> SUBSET Sample]
    BY <1>3, <2>1 DEF HandleMessage, DipTypeOK
  <2>7. QED
    BY <1>3, <2>4, <2>5, <2>6 DEF HandleMessage, AirTypeOK, DipTypeOK
<1>4. ASSUME NEW p \in Publications, HandlerFails(p)
      PROVE  AirTypeOK' /\ DipTypeOK'
  <2>1. /\ sequence' = [sequence EXCEPT ![p] = sequence[p] + 1]
        /\ sequence[p] < Len(Messages[p])
        /\ UNCHANGED <<scenario, air, bridge, made, sent, strays>>
    BY <1>4 DEF HandlerFails
  <2>2. /\ sequence' \in [Publications -> Nat]
        /\ \A q \in Publications : sequence'[q] <= Len(Messages[q])
    BY <2>1, Lists DEF DipTypeOK
  <2>3. QED
    BY <2>1, <2>2 DEF AirTypeOK, DipTypeOK
<1>5. ASSUME NEW p \in Publications, Stray(p)
      PROVE  AirTypeOK' /\ DipTypeOK'
  <2> DEFINE sample(q) == [number |-> Len(Messages[p]) + 1, quality |-> q]
             d(q) == [of |-> p, sample |-> sample(q), key |-> None]
  <2>1. PICK quality \in Qualities :
          Transmit(d(quality)) /\ strays' = [strays EXCEPT ![p] = {sample(quality)}]
    BY <1>5 DEF Stray
  <2>2. sample(quality) \in Sample /\ d(quality) \in Datagram
    BY Lists DEF Sample, Datagram
  <2> HIDE DEF d, sample
  <2>3. /\ hop' \in Seq(Datagram)
        /\ inbox' \in [Publications -> Seq(Datagram)]
        /\ lost' \subseteq Publications
    BY <2>1, <2>2, TransmitTyped
  <2>4. strays' \in [Publications -> SUBSET Sample]
    BY <2>1, <2>2 DEF DipTypeOK
  <2>5. QED
    BY <1>5, <2>3, <2>4 DEF Stray, AirTypeOK, DipTypeOK
<1>6. CASE RegistrationRaises
  <2>1. made + 1 \in 1..Len(Order)
    BY <1>6, Lists DEF RegistrationRaises, DipTypeOK
  <2>2. PublisherOf(Order[made + 1]) \in Sockets
    BY <2>1, Lists DEF PublisherOf, Socket, Sockets, Kinds
  <2>3. /\ open' \subseteq open \cup {PublisherOf(Order[made + 1])}
        /\ bridge' = "raised" /\ made' = 0
        /\ UNCHANGED <<scenario, hop, inbox, lost, sequence, sent, strays>>
    BY <1>6 DEF RegistrationRaises
  <2>4. QED
    BY <2>2, <2>3, Lists DEF AirTypeOK, DipTypeOK
<1>7. QED
  BY <1>1, <1>2, <1>3, <1>4, <1>5, <1>6 DEF DipStep

LEMMA RelayTyped ==
    ASSUME AirTypeOK, RelayTypeOK, RelayStep
    PROVE  AirTypeOK' /\ RelayTypeOK'
<1>1. CASE StartRelay
  <2>1. RouteSockets \subseteq Sockets
    BY DEF RouteSockets, Socket, Sockets, Kinds
  <2>2. QED
    BY <1>1, <2>1 DEF StartRelay, OpenSockets, AirTypeOK, RelayTypeOK
<1>2. CASE StopRelay
  <2>1. {hop[i].of : i \in DOMAIN hop} \subseteq Publications
    BY HopTyped DEF Datagram
  <2>2. /\ open' \subseteq open /\ hop' = <<>> /\ relay' = "stopped"
        /\ lost' \subseteq Publications /\ UNCHANGED <<scenario, inbox>>
    BY <1>2, <2>1 DEF StopRelay, CloseSockets, AirTypeOK
  <2>3. QED
    BY <2>2 DEF AirTypeOK, RelayTypeOK
<1>3. CASE Forward
  <2>1. PICK i \in DOMAIN hop :
          /\ hop' = RemoveAt(hop, i)
          /\ Multicast(OnRoute(hop[i]))
          /\ lost' = IF Hears(hop[i].of) THEN lost ELSE Missing(hop[i])
          /\ UNCHANGED <<scenario, open, relay>>
    BY <1>3, HopTyped DEF Forward
  <2>2. hop[i] \in Datagram /\ hop' \in Seq(Datagram)
    BY <2>1, HopTyped
  <2>3. inbox' \in [Publications -> Seq(Datagram)]
    BY <2>1, <2>2, OnRouteTyped, MulticastTyped
  <2>4. lost' \subseteq Publications
    BY <2>1, <2>2 DEF Missing, Datagram, AirTypeOK
  <2>5. QED
    BY <2>1, <2>2, <2>3, <2>4 DEF AirTypeOK, RelayTypeOK
<1>4. CASE ForwardFails \/ DropInvalid
  <2>1. PICK i \in DOMAIN hop :
          /\ hop' = RemoveAt(hop, i)
          /\ lost' = Missing(hop[i])
          /\ UNCHANGED <<scenario, open, inbox, relay>>
    BY <1>4, HopTyped DEF ForwardFails, DropInvalid
  <2>2. hop[i] \in Datagram /\ hop' \in Seq(Datagram)
    BY <2>1, HopTyped
  <2>3. lost' \subseteq Publications
    BY <2>1, <2>2 DEF Missing, Datagram, AirTypeOK
  <2>4. QED
    BY <2>1, <2>2, <2>3 DEF AirTypeOK, RelayTypeOK
<1>5. CASE StartRelayFails
  <2>1. Socket("target", None) \in Sockets
    BY DEF Socket, Sockets, Kinds
  <2>2. QED
    BY <1>5, <2>1 DEF StartRelayFails, OpenSockets, AirTypeOK, RelayTypeOK
<1>6. QED
  BY <1>1, <1>2, <1>3, <1>4, <1>5 DEF RelayStep

LEMMA OpcuaTyped ==
    ASSUME AirTypeOK, OpcuaTypeOK, OpcuaStep
    PROVE  AirTypeOK' /\ OpcuaTypeOK'
<1>1. CASE LookedUp \/ LookupFails \/ End
  <2>1. /\ server' \in {"serving", "ended", "ending"}
        /\ pump' \in [Publications -> {"none", "looked up", "running", "failed",
                                      "cancelled", "stopped"}]
        /\ UNCHANGED <<scenario, air, thread, queue, shown>>
    BY <1>1 DEF LookedUp, LookupFails, End, OpcuaTypeOK
  <2>2. QED
    BY <2>1 DEF AirTypeOK, OpcuaTypeOK
<1>2. ASSUME NEW p \in Publications, StartPump(p) \/ BindFails(p)
      PROVE  AirTypeOK' /\ OpcuaTypeOK'
  <2>1. SubscriberOf(p) \in Sockets
    BY DEF SubscriberOf, Socket, Sockets, Kinds
  <2>2. /\ open' \subseteq open \cup {SubscriberOf(p)}
        /\ pump' \in {[pump EXCEPT ![p] = "running"], [pump EXCEPT ![p] = "failed"]}
        /\ thread' \in {thread, [thread EXCEPT ![p] = "running"]}
        /\ UNCHANGED <<scenario, hop, inbox, lost, server, queue, shown>>
    BY <1>2 DEF StartPump, BindFails, OpenSockets
  <2>3. AirTypeOK'
    BY <2>1, <2>2 DEF AirTypeOK
  <2>4. OpcuaTypeOK'
    BY <2>2 DEF OpcuaTypeOK
  <2>5. QED
    BY <2>3, <2>4
<1>3. ASSUME NEW p \in Publications, StopSubscriber(p)
      PROVE  AirTypeOK' /\ OpcuaTypeOK'
  <2>1. /\ open' \subseteq open /\ inbox' = [inbox EXCEPT ![p] = <<>>]
        /\ pump' = [pump EXCEPT ![p] = "stopped"]
        /\ thread' = [thread EXCEPT ![p] = "ended"]
        /\ server' \in {"ended", "ending"}
        /\ UNCHANGED <<scenario, hop, lost, queue, shown>>
    BY <1>3 DEF StopSubscriber, CloseSockets
  <2>2. AirTypeOK'
    BY <2>1 DEF AirTypeOK
  <2>3. OpcuaTypeOK'
    BY <2>1 DEF OpcuaTypeOK
  <2>4. QED
    BY <2>2, <2>3
<1>4. ASSUME NEW p \in Publications, NEW i \in DOMAIN inbox[p], Received(p, i)
      PROVE  /\ inbox' \in [Publications -> Seq(Datagram)]
             /\ inbox[p][i] \in Datagram
             /\ UNCHANGED <<scenario, open, hop, server, pump, shown>>
  BY <1>4, InboxTyped DEF Received, AirTypeOK
<1>5. ASSUME NEW p \in Publications, Queue(p)
      PROVE  AirTypeOK' /\ OpcuaTypeOK'
  <2>1. PICK i \in DOMAIN inbox[p] :
          /\ Received(p, i)
          /\ Len(queue[p]) < QueueSize
          /\ queue' = [queue EXCEPT ![p] = Append(queue[p], inbox[p][i].sample)]
          /\ UNCHANGED <<lost, thread>>
    BY <1>5 DEF Queue
  <2> DEFINE s == inbox[p][i].sample
  <2>2. s \in Sample
    BY <1>4, <2>1 DEF Datagram
  <2> HIDE DEF s
  <2>3. queue[p] \in Seq(Sample) /\ QueueSize \in Nat
    BY QueueSizeIsNatural DEF OpcuaTypeOK
  <2>4. Append(queue[p], s) \in Seq(Sample) /\ Len(Append(queue[p], s)) <= QueueSize
    BY <2>1, <2>2, <2>3
  <2>5. queue' = [queue EXCEPT ![p] = Append(queue[p], s)]
    BY <2>1 DEF s
  <2>6. queue' \in [Publications -> Seq(Sample)]
        /\ \A q \in Publications : Len(queue'[q]) <= QueueSize
    BY <2>4, <2>5 DEF OpcuaTypeOK
  <2>7. QED
    BY <1>4, <2>1, <2>6 DEF AirTypeOK, OpcuaTypeOK
<1>6. ASSUME NEW p \in Publications, Full(p) \/ Skip(p) \/ Undecodable(p)
      PROVE  AirTypeOK' /\ OpcuaTypeOK'
  <2>1. PICK i \in DOMAIN inbox[p] :
          /\ Received(p, i)
          /\ lost' \in {lost, Missing(inbox[p][i])}
          /\ UNCHANGED <<queue, thread>>
    BY <1>6 DEF Full, Skip, Undecodable
  <2>2. lost' \subseteq Publications
    BY <1>4, <2>1 DEF Missing, Datagram, AirTypeOK
  <2>3. QED
    BY <1>4, <2>1, <2>2 DEF AirTypeOK, OpcuaTypeOK
<1>7. ASSUME NEW p \in Publications, ThreadEnds(p)
      PROVE  AirTypeOK' /\ OpcuaTypeOK'
  BY <1>7 DEF ThreadEnds, AirTypeOK, OpcuaTypeOK
<1>8. ASSUME NEW p \in Publications, Write(p) \/ WriteFails(p)
      PROVE  AirTypeOK' /\ OpcuaTypeOK'
  <2>1. /\ queue[p] # <<>>
        /\ queue' = [queue EXCEPT ![p] = Tail(queue[p])]
        /\ shown' \in {shown, [shown EXCEPT ![p] = Head(queue[p])]}
        /\ lost' \in {lost, lost \cup {p}}
        /\ UNCHANGED <<scenario, open, hop, inbox, server, pump, thread>>
    BY <1>8 DEF Write, WriteFails, NextUpdate
  <2>2. queue[p] \in Seq(Sample) /\ Len(queue[p]) <= QueueSize /\ QueueSize \in Nat
    BY QueueSizeIsNatural DEF OpcuaTypeOK
  <2>3. /\ Head(queue[p]) \in Sample /\ Tail(queue[p]) \in Seq(Sample)
        /\ Len(Tail(queue[p])) <= QueueSize
    BY <2>1, <2>2
  <2>4. AirTypeOK'
    BY <2>1 DEF AirTypeOK
  <2>5. queue' \in [Publications -> Seq(Sample)]
        /\ \A q \in Publications : Len(queue'[q]) <= QueueSize
    BY <2>1, <2>3 DEF OpcuaTypeOK
  <2>6. shown' \in [Publications -> Sample \cup {None}]
    BY <2>1, <2>3 DEF OpcuaTypeOK
  <2>7. QED
    BY <2>1, <2>4, <2>5, <2>6 DEF OpcuaTypeOK
<1>9. QED
  BY <1>1, <1>2, <1>3, <1>5, <1>6, <1>7, <1>8 DEF OpcuaStep

LEMMA LoseTyped ==
    ASSUME AirTypeOK, Lose
    PROVE  AirTypeOK'
<1>1. CASE LoseHop
  <2>1. PICK i \in DOMAIN hop :
          /\ hop' = RemoveAt(hop, i)
          /\ lost' = Missing(hop[i])
          /\ UNCHANGED <<scenario, open, inbox>>
    BY <1>1 DEF LoseHop
  <2>2. hop[i] \in Datagram /\ hop' \in Seq(Datagram)
    BY <2>1, HopTyped
  <2>3. lost' \subseteq Publications
    BY <2>1, <2>2 DEF Missing, Datagram, AirTypeOK
  <2>4. QED
    BY <2>1, <2>2, <2>3 DEF AirTypeOK
<1>2. ASSUME NEW p \in Publications, LoseCopy(p)
      PROVE  AirTypeOK'
  <2>1. PICK i \in DOMAIN inbox[p] :
          /\ inbox' = [inbox EXCEPT ![p] = RemoveAt(inbox[p], i)]
          /\ lost' \in {lost, Missing(inbox[p][i])}
          /\ UNCHANGED <<scenario, open, hop>>
    BY <1>2 DEF LoseCopy
  <2>2. inbox[p][i] \in Datagram /\ RemoveAt(inbox[p], i) \in Seq(Datagram)
    BY InboxTyped
  <2>3. lost' \subseteq Publications
    BY <2>1, <2>2 DEF Missing, Datagram, AirTypeOK
  <2>4. QED
    BY <2>1, <2>2, <2>3 DEF AirTypeOK
<1>3. QED
  BY <1>1, <1>2 DEF Lose

LEMMA InitTyped == Init => TypeOK
<1>1. SUFFICES ASSUME Init
               PROVE  TypeOK
  OBVIOUS
<1>2. AirTypeOK
  BY <1>1 DEF Init, InitAir, AirTypeOK
<1>3. DipTypeOK
  BY <1>1, Lists DEF Init, InitDip, DipTypeOK
<1>4. RelayTypeOK
  BY <1>1 DEF Init, InitRelay, RelayTypeOK
<1>5. OpcuaTypeOK
  <2>1. <<>> \in Seq(Sample) /\ Len(<<>>) <= QueueSize
    BY QueueSizeIsNatural
  <2>2. QED
    BY <1>1, <2>1 DEF Init, InitOpcua, OpcuaTypeOK
<1>6. QED
  BY <1>2, <1>3, <1>4, <1>5 DEF TypeOK

LEMMA StepTyped == TypeOK /\ [Next]_vars => TypeOK'
<1>1. SUFFICES ASSUME TypeOK, [Next]_vars
               PROVE  TypeOK'
  OBVIOUS
<1>2. /\ UNCHANGED dip => DipTypeOK'
      /\ UNCHANGED relay => RelayTypeOK'
      /\ UNCHANGED opcua => OpcuaTypeOK'
      /\ UNCHANGED <<scenario, air>> => AirTypeOK'
  BY <1>1 DEF TypeOK, AirTypeOK, DipTypeOK, RelayTypeOK, OpcuaTypeOK
<1>3. CASE DipStep /\ UNCHANGED <<relay, opcua>>
  BY <1>1, <1>2, <1>3, DipTyped DEF TypeOK
<1>4. CASE RelayStep /\ UNCHANGED <<dip, opcua>>
  BY <1>1, <1>2, <1>4, RelayTyped DEF TypeOK
<1>5. CASE OpcuaStep /\ UNCHANGED <<dip, relay>>
  BY <1>1, <1>2, <1>5, OpcuaTyped DEF TypeOK
<1>6. CASE Lose /\ UNCHANGED <<dip, relay, opcua>>
  BY <1>1, <1>2, <1>6, LoseTyped DEF TypeOK
<1>7. CASE UNCHANGED vars
  BY <1>2, <1>7 DEF vars, TypeOK
<1>8. QED
  BY <1>1, <1>3, <1>4, <1>5, <1>6, <1>7 DEF Next

\* Every state of the pipeline is well-typed, whatever is published, however long the
\* queues are and however the programs are configured: no number leaves its publication's
\* messages and no queue grows past its size (client.py:253-256).
THEOREM TypeCorrect == Spec => []TypeOK
BY InitTyped, StepTyped, PTL DEF Spec

(***************************************************************************)
(* What ends has closed its sockets.                                        *)
(***************************************************************************)

LEMMA SocketsDiffer ==
    \A p, q \in Publications :
        /\ PublisherOf(p) # SubscriberOf(q)
        /\ PublisherOf(p) \notin RouteSockets
        /\ SubscriberOf(p) \notin RouteSockets
        /\ PublisherOf(p) = PublisherOf(q) => p = q
        /\ SubscriberOf(p) = SubscriberOf(q) => p = q
BY DEF PublisherOf, SubscriberOf, RouteSockets, Socket

\* Opening and closing the sockets of one program leaves the others' alone.
LEMMA OpenKept ==
    ASSUME OpenInv
    PROVE  /\ UNCHANGED bridge /\ (\A p \in Publications : PublisherOf(p) \in open'
                                                    => PublisherOf(p) \in open)
                 => PublishersOpen'
           /\ UNCHANGED <<server, pump>> /\ (\A p \in Publications : SubscriberOf(p) \in open'
                                                          => SubscriberOf(p) \in open)
                 => SubscribersOpen'
           /\ UNCHANGED relay /\ RouteSockets \cap open' \subseteq open => RelayOpen'
<1>1. ASSUME UNCHANGED bridge,
             \A p \in Publications : PublisherOf(p) \in open' => PublisherOf(p) \in open
      PROVE  PublishersOpen'
  BY <1>1 DEF OpenInv, PublishersOpen
<1>2. ASSUME UNCHANGED <<server, pump>>,
             \A p \in Publications : SubscriberOf(p) \in open' => SubscriberOf(p) \in open
      PROVE  SubscribersOpen'
  BY <1>2 DEF OpenInv, SubscribersOpen
<1>3. ASSUME UNCHANGED relay, RouteSockets \cap open' \subseteq open PROVE RelayOpen'
  BY <1>3 DEF OpenInv, RelayOpen, RouteSockets
<1>4. QED
  BY <1>1, <1>2, <1>3

\* What a program that opens or closes nothing changes does not matter here.
LEMMA OpenStays ==
    ASSUME OpenInv, UNCHANGED <<open, bridge, server, pump, relay>>
    PROVE  OpenInv'
BY OpenKept DEF OpenInv

\* A bridge to DIP that starts opens publishers that are listed, one that stops closes
\* all that are, one that raises leaves one.
LEMMA DipOpens ==
    ASSUME TypeOK, OpenInv, DipStep, UNCHANGED <<relay, opcua>>
    PROVE  OpenInv'
<1>1. ASSUME NEW o \in Publications, open' \subseteq open \cup {PublisherOf(o)}
      PROVE  SubscribersOpen' /\ RelayOpen'
  <2>1. \A p \in Publications : SubscriberOf(p) \in open' => SubscriberOf(p) \in open
    BY <1>1, SocketsDiffer
  <2>2. RouteSockets \cap open' \subseteq open
    BY <1>1, SocketsDiffer
  <2>3. QED
    BY <2>1, <2>2, OpenKept
<1>2. ASSUME bridge = "starting", made < Len(Order)
      PROVE  Order[made + 1] \in Publications /\ Order[made + 1] \in Listed
  <2>1. made \in 0..Len(Order) /\ Len(Order) \in Nat
    BY Lists DEF TypeOK, DipTypeOK
  <2>2. made + 1 \in 1..Len(Order)
    BY <1>2, <2>1
  <2>3. QED
    BY <2>2, Lists DEF Listed
<1> DEFINE o == Order[made + 1]
<1>3. CASE StartSubscription
  <2>1. o \in Publications /\ o \in Listed
    BY <1>2, <1>3 DEF StartSubscription
  <2>2. /\ open' = open \cup {PublisherOf(o)}
        /\ bridge = "starting" /\ bridge' \in {"running", "starting"}
    BY <1>3 DEF StartSubscription, OpenSockets
  <2> HIDE DEF o
  <2>3. \A p \in Publications : PublisherOf(p) \in open' => p \in Listed
    BY <2>1, <2>2, SocketsDiffer DEF OpenInv, PublishersOpen
  <2>4. PublishersOpen'
    BY <2>2, <2>3 DEF PublishersOpen
  <2>5. QED
    BY <1>1, <2>1, <2>2, <2>4 DEF OpenInv
<1>4. CASE StartFails \/ Stop
  <2>1. /\ open' = open \ {PublisherOf(p) : p \in Listed}
        /\ bridge' = "stopped"
    BY <1>4 DEF StartFails, Stop, StopDip, CloseSockets
  <2>2. \A p \in Publications : PublisherOf(p) \notin open'
    BY <2>1 DEF OpenInv, PublishersOpen
  <2>3. PublishersOpen'
    BY <2>1, <2>2 DEF PublishersOpen
  <2>4. SubscribersOpen' /\ RelayOpen'
    BY <2>1, OpenKept
  <2>5. QED
    BY <2>3, <2>4 DEF OpenInv
<1>5. CASE RegistrationRaises
  <2>1. o \in Publications /\ o \in Listed
    BY <1>2, <1>5 DEF RegistrationRaises
  <2>2. /\ open' = (open \ {PublisherOf(p) : p \in Listed}) \cup {PublisherOf(o)}
        /\ bridge' = "raised"
    BY <1>5 DEF RegistrationRaises
  <2> HIDE DEF o
  <2>3. \A p \in Publications : PublisherOf(p) \in open' => p = o
    BY <2>1, <2>2, SocketsDiffer DEF OpenInv, PublishersOpen
  <2>4. PublishersOpen'
    BY <2>1, <2>2, <2>3 DEF PublishersOpen
  <2>5. open' \subseteq open \cup {PublisherOf(o)}
    BY <2>2
  <2>6. QED
    BY <1>1, <2>1, <2>4, <2>5 DEF OpenInv
<1>6. CASE \E p \in Publications : HandleMessage(p) \/ HandlerFails(p) \/ Stray(p)
  <2>1. UNCHANGED <<open, bridge>>
    BY <1>6 DEF HandleMessage, HandlerFails, Stray
  <2>2. QED
    BY <2>1, OpenStays
<1>7. QED
  BY <1>3, <1>4, <1>5, <1>6 DEF DipStep

LEMMA RelayOpens ==
    ASSUME TypeOK, OpenInv, RelayStep, UNCHANGED <<dip, opcua>>
    PROVE  OpenInv'
<1>1. ASSUME open' \subseteq open \cup RouteSockets PROVE PublishersOpen' /\ SubscribersOpen'
  <2>1. \A p \in Publications :
           /\ PublisherOf(p) \in open' => PublisherOf(p) \in open
           /\ SubscriberOf(p) \in open' => SubscriberOf(p) \in open
    BY <1>1, SocketsDiffer
  <2>2. QED
    BY <2>1, OpenKept
<1>2. CASE StartRelay
  <2>1. open' = open \cup RouteSockets /\ relay' = "on"
    BY <1>2 DEF StartRelay, OpenSockets
  <2>2. RelayOpen'
    BY <2>1 DEF RelayOpen
  <2>3. QED
    BY <1>1, <2>1, <2>2 DEF OpenInv
<1>3. CASE StartRelayFails
  <2>1. /\ open' \subseteq open \cup {Socket("target", None)}
        /\ relay = "off" /\ relay' = "failed"
    BY <1>3 DEF StartRelayFails, OpenSockets
  <2>2. Socket("receiver", None) \notin open
    BY <2>1 DEF OpenInv, RelayOpen, RouteSockets
  <2>3. Socket("receiver", None) # Socket("target", None)
    BY DEF Socket
  <2>4. RelayOpen'
    BY <2>1, <2>2, <2>3 DEF RelayOpen
  <2>5. open' \subseteq open \cup RouteSockets
    BY <2>1 DEF RouteSockets
  <2>6. QED
    BY <1>1, <2>4, <2>5 DEF OpenInv
<1>4. CASE StopRelay
  <2>1. open' = open \ RouteSockets /\ relay' = "stopped"
    BY <1>4 DEF StopRelay, CloseSockets
  <2>2. RelayOpen'
    BY <2>1 DEF RelayOpen
  <2>3. QED
    BY <1>1, <2>1, <2>2 DEF OpenInv
<1>5. CASE Forward \/ ForwardFails \/ DropInvalid
  <2>1. UNCHANGED <<open, relay>>
    BY <1>5 DEF Forward, ForwardFails, DropInvalid
  <2>2. QED
    BY <2>1, OpenStays
<1>6. QED
  BY <1>2, <1>3, <1>4, <1>5 DEF RelayStep

LEMMA OpcuaOpens ==
    ASSUME TypeOK, OpenInv, OpcuaStep, UNCHANGED <<dip, relay>>
    PROVE  OpenInv'
<1> USE DEF TypeOK, OpcuaTypeOK
<1>1. ASSUME NEW p \in Publications, open' \subseteq open \cup {SubscriberOf(p)}
      PROVE  PublishersOpen' /\ RelayOpen'
  <2>1. \A q \in Publications : PublisherOf(q) \in open' => PublisherOf(q) \in open
    BY <1>1, SocketsDiffer
  <2>2. RouteSockets \cap open' \subseteq open
    BY <1>1, SocketsDiffer
  <2>3. QED
    BY <2>1, <2>2, OpenKept
<1>2. CASE LookedUp \/ LookupFails \/ End
  <2>1. open' = open
    BY <1>2 DEF LookedUp, LookupFails, End
  <2>2. PublishersOpen' /\ RelayOpen'
    BY <2>1, OpenKept
  <2>3. CASE LookedUp
    <3>1. server = "looking up" /\ server' = "serving"
          /\ \A p \in Publications : pump[p] = "none" /\ SubscriberOf(p) \notin open
      BY <2>3 DEF LookedUp, OpenInv, SubscribersOpen
    <3>2. SubscribersOpen'
      BY <2>1, <3>1 DEF SubscribersOpen
    <3>3. QED
      BY <2>2, <3>2 DEF OpenInv
  <2>4. CASE LookupFails
    <3>1. SubscribersOpen'
      BY <2>1, <2>4 DEF LookupFails, OpenInv, SubscribersOpen
    <3>2. QED
      BY <2>2, <3>1 DEF OpenInv
  <2>5. CASE End
    <3>1. /\ server = "serving" /\ server' = "ending"
          /\ \A p \in Publications :
                pump[p] \in {"running", "cancelled"} => pump'[p] \in {"running", "cancelled"}
      BY <2>5 DEF End
    <3>2. SubscribersOpen'
      BY <2>1, <3>1 DEF OpenInv, SubscribersOpen
    <3>3. QED
      BY <2>2, <3>2 DEF OpenInv
  <2>6. QED
    BY <1>2, <2>3, <2>4, <2>5
<1>3. ASSUME NEW p \in Publications, StartPump(p) \/ BindFails(p)
      PROVE  OpenInv'
  <2>1. /\ server = "serving" /\ server' = "serving" /\ pump[p] = "looked up"
        /\ \A q \in Publications : q # p => pump'[q] = pump[q]
        /\ \/ open' = open
           \/ open' = open \cup {SubscriberOf(p)} /\ pump'[p] = "running"
    BY <1>3 DEF StartPump, BindFails, OpenSockets
  <2>2. SubscriberOf(p) \notin open
    BY <2>1 DEF OpenInv, SubscribersOpen
  <2>3. \A q \in Publications : SubscriberOf(q) \in open' => pump'[q] \in {"running", "cancelled"}
    BY <2>1, <2>2, SocketsDiffer DEF OpenInv, SubscribersOpen
  <2>4. SubscribersOpen'
    BY <2>1, <2>3 DEF SubscribersOpen
  <2>5. QED
    BY <1>1, <2>1, <2>4 DEF OpenInv
<1>4. ASSUME NEW p \in Publications, StopSubscriber(p)
      PROVE  OpenInv'
  <2>1. /\ server = "ending" /\ server' \in {"ended", "ending"}
        /\ server' = "ended" => \A q \in Publications : pump'[q] = "stopped"
        /\ open' = open \ {SubscriberOf(p)}
        /\ \A q \in Publications : q # p => pump'[q] = pump[q]
    BY <1>4 DEF StopSubscriber, CloseSockets
  <2>2. \A q \in Publications : SubscriberOf(q) \in open' => pump'[q] \in {"running", "cancelled"}
    BY <2>1 DEF OpenInv, SubscribersOpen
  <2>3. SubscribersOpen'
    BY <2>1, <2>2 DEF SubscribersOpen
  <2>4. QED
    BY <1>1, <2>1, <2>3 DEF OpenInv
<1>5. CASE \E p \in Publications :
              \/ Queue(p) \/ Full(p) \/ Skip(p) \/ Undecodable(p) \/ ThreadEnds(p)
              \/ Write(p) \/ WriteFails(p)
  <2>1. UNCHANGED <<open, server, pump>>
    BY <1>5 DEF Queue, Full, Skip, Undecodable, Received, ThreadEnds, Write, WriteFails,
                NextUpdate
  <2>2. QED
    BY <2>1, OpenStays
<1>6. QED
  BY <1>2, <1>3, <1>4, <1>5 DEF OpcuaStep

LEMMA InitOpens == Init => OpenInv
BY DEF Init, InitAir, InitDip, InitRelay, InitOpcua, OpenInv, PublishersOpen, SubscribersOpen,
       RelayOpen

LEMMA StepOpens == TypeOK /\ OpenInv /\ [Next]_vars => OpenInv'
<1>1. SUFFICES ASSUME TypeOK, OpenInv, [Next]_vars
               PROVE  OpenInv'
  OBVIOUS
<1>2. CASE DipStep /\ UNCHANGED <<relay, opcua>>
  BY <1>1, <1>2, DipOpens
<1>3. CASE RelayStep /\ UNCHANGED <<dip, opcua>>
  BY <1>1, <1>3, RelayOpens
<1>4. CASE OpcuaStep /\ UNCHANGED <<dip, relay>>
  BY <1>1, <1>4, OpcuaOpens
<1>5. CASE Lose /\ UNCHANGED <<dip, relay, opcua>>
  <2>1. UNCHANGED open
    BY <1>5 DEF Lose, LoseHop, LoseCopy
  <2>2. QED
    BY <1>1, <1>5, <2>1, OpenStays
<1>6. CASE UNCHANGED vars
  BY <1>1, <1>6, OpenStays DEF vars
<1>7. QED
  BY <1>1, <1>2, <1>3, <1>4, <1>5, <1>6 DEF Next

\* A bridge or a relay that was stopped holds no socket: also a DIP bridge that failed
\* between two subscriptions, or an OPC UA bridge one of whose pumps failed to bind.  A
\* start that raised leaves no more open than one publisher whose constructor raised, of
\* the DIP bridge, and of the relay what it opened before its receiver
\* (bridge_dip.py:106-111, :131-138, relay.py:98, :126-136, bridge_opcua.py:97-105).
THEOREM Closed == Spec => []LeavesNothingElseOpen
<1>1. OpenInv => LeavesNothingElseOpen
  BY DEF OpenInv, PublishersOpen, SubscribersOpen, RelayOpen, LeavesNothingElseOpen
<1>2. QED
  BY <1>1, InitTyped, StepTyped, InitOpens, StepOpens, PTL DEF Spec

(***************************************************************************)
(* What is in flight, queued or shown was published.                        *)
(***************************************************************************)

\* Where signatures are required all the way, what has one is the publisher's own.
Genuine(d) ==
    \/ d.sample \in sent[d.of]
    \/ d.sample \in strays[d.of] /\ (Authentic => d.key = None)

DataInv ==
    /\ \A p \in Publications :
          /\ \A s \in sent[p] : s.number <= sequence[p]
          /\ \A s \in strays[p] : s.number = Len(Messages[p]) + 1
          /\ strays[p] # {} => p \in scenario.strays
          /\ Range(queue[p]) \subseteq PublishedOf(p)
          /\ shown[p] # None => shown[p] \in PublishedOf(p)
          /\ \A d \in Range(inbox[p]) : Genuine(d)
    /\ \A d \in Range(hop) : Genuine(d)
    /\ ~scenario.relay => hop = <<>> /\ relay = "absent"

\* What is published stays published.
LEMMA GenuineStays ==
    ASSUME UNCHANGED scenario,
           \A p \in Publications : sent[p] \subseteq sent'[p] /\ strays[p] \subseteq strays'[p]
    PROVE  /\ \A d \in Datagram : Genuine(d) => Genuine(d)'
           /\ \A p \in Publications : PublishedOf(p) \subseteq PublishedOf(p)'
<1>1. Authentic' = Authentic
  BY DEF Authentic
<1>2. \A d \in Datagram : d.of \in Publications
  BY DEF Datagram
<1>3. QED
  BY <1>1, <1>2 DEF Genuine, PublishedOf

\* What a sender adds is on its way.
LEMMA GenuineSent ==
    ASSUME AirTypeOK, NEW d \in Datagram, Transmit(d), DataInv,
           \A e \in Datagram : Genuine(e) => Genuine(e)',
           Genuine(d)', UNCHANGED <<scenario, relay>>
    PROVE  /\ \A p \in Publications : \A e \in Range(inbox'[p]) : Genuine(e)'
           /\ \A e \in Range(hop') : Genuine(e)'
           /\ ~scenario'.relay => hop' = <<>> /\ relay' = "absent"
<1>1. hop \in Seq(Datagram) /\ \A e \in Range(hop) : Genuine(e)'
  <2>1. hop \in Seq(Datagram)
    BY DEF AirTypeOK
  <2>2. Range(hop) \subseteq Datagram
    BY <2>1, RangeTyped
  <2>3. QED
    BY <2>1, <2>2 DEF DataInv
<1>2. ASSUME NEW p \in Publications
      PROVE  inbox[p] \in Seq(Datagram) /\ \A e \in Range(inbox[p]) : Genuine(e)'
  <2>1. inbox[p] \in Seq(Datagram)
    BY InboxTyped
  <2>2. Range(inbox[p]) \subseteq Datagram
    BY <2>1, RangeTyped
  <2>3. QED
    BY <2>1, <2>2 DEF DataInv
<1>3. CASE scenario.relay
  <2>1. hop' \in {hop, Append(hop, d)} /\ inbox' = inbox
    BY <1>3 DEF Transmit
  <2>2. Range(hop') \subseteq Range(hop) \cup {d}
    BY <1>1, <2>1, AtMostAppended
  <2>3. \A e \in Range(hop') : Genuine(e)'
    BY <1>1, <2>2
  <2>4. \A p \in Publications : \A e \in Range(inbox'[p]) : Genuine(e)'
    BY <1>2, <2>1
  <2>5. QED
    BY <1>3, <2>3, <2>4
<1>4. CASE ~scenario.relay
  <2>1. Multicast(d) /\ hop' = hop
    BY <1>4 DEF Transmit
  <2>2. ASSUME NEW p \in Publications
        PROVE  \A e \in Range(inbox'[p]) : Genuine(e)'
    <3>1. inbox'[p] \in {inbox[p], Append(inbox[p], d)}
      BY <2>1 DEF Multicast
    <3>2. inbox[p] \in Seq(Datagram)
      BY <1>2
    <3>3. Range(inbox'[p]) \subseteq Range(inbox[p]) \cup {d}
      BY <3>1, <3>2, AtMostAppended
    <3>4. QED
      BY <1>2, <3>3
  <2>3. hop' = <<>> /\ relay' = "absent"
    BY <1>4, <2>1 DEF DataInv
  <2>4. \A e \in Range(hop') : Genuine(e)'
    BY <1>1, <2>1
  <2>5. QED
    BY <2>2, <2>3, <2>4
<1>5. QED
  BY <1>3, <1>4

\* A publisher that has sent.
LEMMA DipData ==
    ASSUME TypeOK, DataInv, DipStep, UNCHANGED <<relay, opcua>>
    PROVE  DataInv'
<1> USE DEF TypeOK
<1>1. ASSUME NEW p \in Publications, HandleMessage(p)
      PROVE  DataInv'
  <2>0. /\ Message(p) \in Sample /\ Message(p).number = sequence[p] + 1
        /\ [of |-> p, sample |-> Message(p), key |-> scenario.origin] \in Datagram
    BY <1>1, MessageTyped, ScenarioTyped DEF HandleMessage, Message, Datagram, Scenario
  <2>1. PICK d \in Datagram :
          d = [of |-> p, sample |-> Message(p), key |-> scenario.origin]
    BY <2>0
  <2>2. /\ Transmit(d) /\ UNCHANGED <<scenario, strays, relay, queue, shown>>
        /\ sequence' = [sequence EXCEPT ![p] = sequence[p] + 1]
        /\ sent' = [sent EXCEPT ![p] = sent[p] \cup {Message(p)}]
    BY <1>1, <2>1 DEF HandleMessage
  <2>3. \A q \in Publications : sent[q] \subseteq sent'[q] /\ strays[q] \subseteq strays'[q]
    BY <2>2 DEF DipTypeOK
  <2>4. /\ \A e \in Datagram : Genuine(e) => Genuine(e)'
        /\ \A q \in Publications : PublishedOf(q) \subseteq PublishedOf(q)'
    BY <2>2, <2>3, GenuineStays
  <2>5. Message(p) \in sent'[p]
    BY <2>2 DEF DipTypeOK
  <2>6. Genuine(d)'
    BY <2>1, <2>5 DEF Genuine
  <2>7. /\ \A q \in Publications : \A e \in Range(inbox'[q]) : Genuine(e)'
        /\ \A e \in Range(hop') : Genuine(e)'
        /\ ~scenario'.relay => hop' = <<>> /\ relay' = "absent"
    BY <2>1, <2>2, <2>4, <2>6, GenuineSent
  <2>8. \A q \in Publications : \A s \in sent'[q] : s.number <= sequence'[q]
    <3>1. TAKE q \in Publications
    <3>2. TAKE s \in sent'[q]
    <3>3. CASE q # p
      <4>1. s \in sent[q] /\ sequence'[q] = sequence[q]
        BY <2>2, <3>3 DEF DipTypeOK
      <4>2. QED
        BY <4>1 DEF DataInv
    <3>4. CASE q = p
      <4>1. /\ s \in sent[p] \cup {Message(p)} /\ sequence'[p] = sequence[p] + 1
            /\ sequence[p] \in Nat /\ sent[p] \subseteq Sample
        BY <2>2, <3>4 DEF DipTypeOK
      <4>2. s \in sent[p] => s.number <= sequence[p] /\ s.number \in Nat
        BY <4>1 DEF DataInv, Sample
      <4>3. QED
        BY <2>0, <3>4, <4>1, <4>2
    <3>5. QED
      BY <3>3, <3>4
  <2>9. \A q \in Publications :
           /\ \A s \in strays'[q] : s.number = Len(Messages[q]) + 1
           /\ strays'[q] # {} => q \in scenario'.strays
           /\ Range(queue'[q]) \subseteq PublishedOf(q)'
           /\ shown'[q] # None => shown'[q] \in PublishedOf(q)'
    BY <2>2, <2>4 DEF DataInv
  <2>10. QED
    BY <2>7, <2>8, <2>9 DEF DataInv
<1>2. ASSUME NEW p \in Publications, Stray(p)
      PROVE  DataInv'
  <2> DEFINE sample(v) == [number |-> Len(Messages[p]) + 1, quality |-> v]
             d(v) == [of |-> p, sample |-> sample(v), key |-> None]
  <2>1. PICK v \in Qualities :
          Transmit(d(v)) /\ strays' = [strays EXCEPT ![p] = {sample(v)}]
    BY <1>2 DEF Stray
  <2>2. /\ sample(v) \in Sample /\ sample(v).number = Len(Messages[p]) + 1
        /\ d(v) \in Datagram /\ d(v).of = p /\ d(v).sample = sample(v) /\ d(v).key = None
    BY Lists DEF Sample, Datagram
  <2>3. /\ UNCHANGED <<scenario, relay, sequence, sent, queue, shown>>
        /\ p \in scenario.strays /\ strays[p] = {}
    BY <1>2 DEF Stray
  <2> HIDE DEF d, sample
  <2>4. \A q \in Publications : sent[q] \subseteq sent'[q] /\ strays[q] \subseteq strays'[q]
    BY <2>1, <2>3 DEF DipTypeOK
  <2>5. /\ \A e \in Datagram : Genuine(e) => Genuine(e)'
        /\ \A q \in Publications : PublishedOf(q) \subseteq PublishedOf(q)'
    BY <2>3, <2>4, GenuineStays
  <2>6. sample(v) \in strays'[p]
    BY <2>1 DEF DipTypeOK
  <2>7. Genuine(d(v))'
    BY <2>2, <2>6 DEF Genuine
  <2>8. /\ \A q \in Publications : \A e \in Range(inbox'[q]) : Genuine(e)'
        /\ \A e \in Range(hop') : Genuine(e)'
        /\ ~scenario'.relay => hop' = <<>> /\ relay' = "absent"
    BY <2>1, <2>2, <2>3, <2>5, <2>7, GenuineSent
  <2>9. \A q \in Publications :
           /\ \A s \in strays'[q] : s.number = Len(Messages[q]) + 1
           /\ strays'[q] # {} => q \in scenario'.strays
    BY <2>1, <2>2, <2>3 DEF DataInv, DipTypeOK
  <2>10. \A q \in Publications :
           /\ \A s \in sent'[q] : s.number <= sequence'[q]
           /\ Range(queue'[q]) \subseteq PublishedOf(q)'
           /\ shown'[q] # None => shown'[q] \in PublishedOf(q)'
    BY <2>3, <2>5 DEF DataInv
  <2>11. QED
    BY <2>8, <2>9, <2>10 DEF DataInv
<1>3. ASSUME NEW p \in Publications, HandlerFails(p)
      PROVE  DataInv'
  <2>1. /\ sequence' = [sequence EXCEPT ![p] = sequence[p] + 1]
        /\ UNCHANGED <<scenario, air, sent, strays, relay, opcua>>
    BY <1>3 DEF HandlerFails
  <2>2. ASSUME NEW q \in Publications, NEW s \in sent'[q]
        PROVE  s.number <= sequence'[q]
    <3>1. s \in sent[q] /\ s \in Sample /\ sequence[q] \in Nat
          /\ sequence'[q] \in {sequence[q], sequence[q] + 1}
      BY <2>1 DEF DipTypeOK
    <3>2. s.number <= sequence[q] /\ s.number \in Nat
      BY <3>1 DEF DataInv, Sample
    <3>3. QED
      BY <3>1, <3>2
  <2>3. QED
    BY <2>1, <2>2 DEF DataInv, Genuine, PublishedOf, Authentic
<1>4. CASE StartSubscription \/ StartFails \/ RegistrationRaises \/ Stop
  <2>1. UNCHANGED <<scenario, hop, inbox, sequence, sent, strays, relay, queue, shown>>
    BY <1>4 DEF StartSubscription, StartFails, RegistrationRaises, Stop
  <2>2. QED
    BY <2>1 DEF DataInv, Genuine, PublishedOf, Authentic
<1>5. QED
  BY <1>1, <1>2, <1>3, <1>4 DEF DipStep

\* While nothing is published, it is enough to know what moves.
LEMMA DataKept ==
    ASSUME TypeOK, DataInv, UNCHANGED <<scenario, sequence, sent, strays>>,
           \A p \in Publications :
              /\ Range(queue'[p]) \subseteq PublishedOf(p)
              /\ shown'[p] # None => shown'[p] \in PublishedOf(p)
              /\ \A e \in Range(inbox'[p]) : Genuine(e),
           \A e \in Range(hop') : Genuine(e),
           ~scenario.relay => hop' = <<>> /\ relay' = "absent"
    PROVE  DataInv'
<1>1. Authentic' = Authentic
  BY DEF Authentic
<1>2. \A p \in Publications : PublishedOf(p)' = PublishedOf(p)
  BY <1>1 DEF PublishedOf
<1>3. \A e \in Range(hop') : Genuine(e)'
  BY <1>1 DEF Genuine
<1>4. \A p \in Publications : \A e \in Range(inbox'[p]) : Genuine(e)'
  BY <1>1 DEF Genuine
<1>5. \A p \in Publications :
          /\ \A s \in sent'[p] : s.number <= sequence'[p]
          /\ \A s \in strays'[p] : s.number = Len(Messages[p]) + 1
          /\ strays'[p] # {} => p \in scenario'.strays
  BY DEF DataInv
<1>6. QED
  BY <1>2, <1>3, <1>4, <1>5 DEF DataInv

LEMMA Emptied == Range(<<>>) = {}
BY DEF Range

\* A relay signs only what it could verify, if it verifies.
LEMMA GenuineOnRoute ==
    ASSUME AirTypeOK, NEW d \in Datagram, Genuine(d), Valid(d), scenario.relay
    PROVE  Genuine(OnRoute(d))
<1>1. OnRoute(d).sample = d.sample /\ OnRoute(d).of = d.of
      /\ OnRoute(d).key = IF scenario.sign # None THEN scenario.sign ELSE d.key
  BY DEF OnRoute, Datagram
<1>2. Authentic /\ scenario.sign # None => d.key # None
  BY DEF Authentic, Valid
<1>3. Authentic /\ d.key = None => OnRoute(d).key = None
  BY <1>1, <1>2
<1>4. QED
  BY <1>1, <1>3 DEF Genuine

LEMMA RelayData ==
    ASSUME TypeOK, DataInv, RelayStep, UNCHANGED <<dip, opcua>>
    PROVE  DataInv'
<1> USE DEF TypeOK
<1>1. hop \in Seq(Datagram) /\ \A p \in Publications : inbox[p] \in Seq(Datagram)
  BY InboxTyped DEF AirTypeOK
<1>2. \A i \in DOMAIN hop : /\ hop[i] \in Range(hop) /\ hop[i] \in Datagram
                            /\ Range(RemoveAt(hop, i)) \subseteq Range(hop)
  BY <1>1, RemovedRange, HopTyped DEF Range
<1>3. CASE StartRelay \/ StartRelayFails
  <2>1. UNCHANGED <<scenario, hop, inbox>> /\ relay = "off"
    BY <1>3 DEF StartRelay, StartRelayFails
  <2>2. QED
    BY <2>1, DataKept DEF DataInv
<1>4. CASE StopRelay
  <2>1. UNCHANGED <<scenario, inbox>> /\ relay = "on" /\ hop' = <<>>
    BY <1>4 DEF StopRelay
  <2>2. QED
    BY <2>1, DataKept, Emptied DEF DataInv
<1>5. CASE Forward
  <2>1. PICK i \in DOMAIN hop :
          /\ relay = "on" /\ Valid(hop[i])
          /\ hop' = RemoveAt(hop, i)
          /\ Multicast(OnRoute(hop[i]))
          /\ UNCHANGED <<scenario, relay>>
    BY <1>5, HopTyped DEF Forward
  <2> DEFINE d == OnRoute(hop[i])
  <2>2. scenario.relay
    BY <2>1 DEF DataInv
  <2>3. d \in Datagram /\ Genuine(d)
    BY <1>2, <2>1, <2>2, GenuineOnRoute, OnRouteTyped DEF DataInv
  <2>4. ASSUME NEW p \in Publications
        PROVE  \A e \in Range(inbox'[p]) : Genuine(e)
    <3>1. inbox'[p] \in {inbox[p], Append(inbox[p], d)}
      BY <2>1 DEF Multicast
    <3>2. Range(inbox'[p]) \subseteq Range(inbox[p]) \cup {d}
      BY <1>1, <2>3, <3>1, Appended
    <3>3. QED
      BY <2>3, <3>2 DEF DataInv
  <2>5. \A e \in Range(hop') : Genuine(e)
    BY <1>2, <2>1 DEF DataInv
  <2>6. QED
    BY <2>1, <2>2, <2>4, <2>5, DataKept DEF DataInv
<1>6. CASE ForwardFails \/ DropInvalid
  <2>1. PICK i \in DOMAIN hop :
          /\ relay = "on"
          /\ hop' = RemoveAt(hop, i)
          /\ UNCHANGED <<scenario, inbox, relay>>
    BY <1>6, HopTyped DEF ForwardFails, DropInvalid
  <2>2. \A e \in Range(hop') : Genuine(e)
    BY <1>2, <2>1 DEF DataInv
  <2>3. QED
    BY <2>1, <2>2, DataKept DEF DataInv
<1>7. QED
  BY <1>3, <1>4, <1>5, <1>6 DEF RelayStep

\* Where signatures are required all the way, only what is signed is decoded.
LEMMA Accepted ==
    ASSUME TypeOK, DataInv, NEW p \in Publications, NEW i \in DOMAIN inbox[p],
           Decodable(inbox[p][i]), Mine(p, inbox[p][i])
    PROVE  /\ inbox[p][i].sample \in PublishedOf(p)
           /\ Authentic => inbox[p][i].key # None
<1>1. Genuine(inbox[p][i])
  BY DEF DataInv, Range
<1>2. Authentic => inbox[p][i].key # None
  BY DEF Authentic, Decodable
<1>3. QED
  BY <1>1, <1>2 DEF Genuine, PublishedOf, Mine

LEMMA OpcuaData ==
    ASSUME TypeOK, DataInv, OpcuaStep, UNCHANGED <<dip, relay>>
    PROVE  DataInv'
<1> USE DEF TypeOK
<1>1. ASSUME NEW p \in Publications
      PROVE  /\ inbox[p] \in Seq(Datagram)
             /\ \A i \in DOMAIN inbox[p] :
                   /\ inbox[p][i] \in Datagram
                   /\ Range(RemoveAt(inbox[p], i)) \subseteq Range(inbox[p])
             /\ queue[p] \in Seq(Sample)
  BY InboxTyped, RemovedRange DEF OpcuaTypeOK
<1>2. ASSUME NEW p \in Publications, NEW i \in DOMAIN inbox[p], Received(p, i)
      PROVE  /\ \A q \in Publications : Range(inbox'[q]) \subseteq Range(inbox[q])
             /\ UNCHANGED <<scenario, hop, shown>>
  BY <1>1, <1>2 DEF Received, AirTypeOK
<1>3. ASSUME NEW p \in Publications, Queue(p)
      PROVE  DataInv'
  <2>1. PICK i \in DOMAIN inbox[p] :
          /\ Received(p, i) /\ Decodable(inbox[p][i]) /\ Mine(p, inbox[p][i])
          /\ queue' = [queue EXCEPT ![p] = Append(queue[p], inbox[p][i].sample)]
    BY <1>3 DEF Queue
  <2>2. inbox[p][i].sample \in Sample /\ inbox[p][i].sample \in PublishedOf(p)
    BY <1>1, <2>1, Accepted DEF Datagram
  <2>3. Range(Append(queue[p], inbox[p][i].sample)) = Range(queue[p]) \cup {inbox[p][i].sample}
    BY <1>1, <2>2, Appended
  <2>4. \A q \in Publications : Range(queue'[q]) \subseteq PublishedOf(q)
    BY <2>1, <2>2, <2>3 DEF DataInv, OpcuaTypeOK
  <2>5. QED
    BY <1>2, <2>1, <2>4, DataKept DEF DataInv
<1>4. ASSUME NEW p \in Publications, Full(p) \/ Skip(p) \/ Undecodable(p)
      PROVE  DataInv'
  <2>1. PICK i \in DOMAIN inbox[p] : Received(p, i) /\ UNCHANGED queue
    BY <1>4 DEF Full, Skip, Undecodable
  <2>2. QED
    BY <1>2, <2>1, DataKept DEF DataInv
<1>5. ASSUME NEW p \in Publications, Write(p) \/ WriteFails(p)
      PROVE  DataInv'
  <2>1. /\ queue[p] # <<>>
        /\ queue' = [queue EXCEPT ![p] = Tail(queue[p])]
        /\ shown' \in {shown, [shown EXCEPT ![p] = Head(queue[p])]}
        /\ UNCHANGED <<scenario, hop, inbox>>
    BY <1>5 DEF Write, WriteFails, NextUpdate
  <2>2. Head(queue[p]) \in Range(queue[p]) /\ Range(Tail(queue[p])) \subseteq Range(queue[p])
    BY <1>1, <2>1, HeadAndTail
  <2>3. \A q \in Publications :
           /\ Range(queue'[q]) \subseteq PublishedOf(q)
           /\ shown'[q] # None => shown'[q] \in PublishedOf(q)
    BY <2>1, <2>2 DEF DataInv, OpcuaTypeOK
  <2>4. QED
    BY <2>1, <2>3, DataKept DEF DataInv
<1>6. ASSUME NEW p \in Publications, StopSubscriber(p)
      PROVE  DataInv'
  <2>1. /\ inbox' = [inbox EXCEPT ![p] = <<>>]
        /\ UNCHANGED <<scenario, hop, queue, shown>>
    BY <1>6 DEF StopSubscriber
  <2>2. \A q \in Publications : inbox'[q] \in {inbox[q], <<>>}
    BY <2>1 DEF AirTypeOK
  <2>3. \A q \in Publications : Range(inbox'[q]) \subseteq Range(inbox[q])
    BY <2>2, Emptied
  <2>4. QED
    BY <2>1, <2>3, DataKept DEF DataInv
<1>7. CASE LookedUp \/ LookupFails \/ End
           \/ \E p \in Publications : StartPump(p) \/ BindFails(p) \/ ThreadEnds(p)
  <2>1. UNCHANGED <<scenario, hop, inbox, queue, shown>>
    BY <1>7 DEF LookedUp, LookupFails, End, StartPump, BindFails, ThreadEnds
  <2>2. QED
    BY <2>1, DataKept DEF DataInv
<1>8. QED
  BY <1>3, <1>4, <1>5, <1>6, <1>7 DEF OpcuaStep

LEMMA LoseData ==
    ASSUME TypeOK, DataInv, Lose, UNCHANGED <<dip, relay, opcua>>
    PROVE  DataInv'
<1> USE DEF TypeOK
<1>1. CASE LoseHop
  <2>1. PICK i \in DOMAIN hop : hop' = RemoveAt(hop, i) /\ UNCHANGED <<scenario, inbox>>
    BY <1>1 DEF LoseHop
  <2>2. hop # <<>> /\ Range(hop') \subseteq Range(hop)
    BY <2>1, RemovedRange DEF AirTypeOK
  <2>3. QED
    BY <2>1, <2>2, DataKept DEF DataInv
<1>2. ASSUME NEW p \in Publications, LoseCopy(p)
      PROVE  DataInv'
  <2>1. PICK i \in DOMAIN inbox[p] :
          inbox' = [inbox EXCEPT ![p] = RemoveAt(inbox[p], i)] /\ UNCHANGED <<scenario, hop>>
    BY <1>2 DEF LoseCopy
  <2>2. Range(RemoveAt(inbox[p], i)) \subseteq Range(inbox[p])
    BY RemovedRange, InboxTyped
  <2>3. \A q \in Publications : Range(inbox'[q]) \subseteq Range(inbox[q])
    BY <2>1, <2>2 DEF AirTypeOK
  <2>4. QED
    BY <2>1, <2>3, DataKept DEF DataInv
<1>3. QED
  BY <1>1, <1>2 DEF Lose

LEMMA InitData == Init => DataInv
<1>1. SUFFICES ASSUME Init
               PROVE  DataInv
  OBVIOUS
<1>2. /\ hop = <<>>
      /\ ~scenario.relay => relay = "absent"
      /\ \A p \in Publications :
            /\ sent[p] = {} /\ strays[p] = {} /\ queue[p] = <<>>
            /\ shown[p] = None /\ inbox[p] = <<>>
  BY <1>1 DEF Init, InitAir, InitDip, InitRelay, InitOpcua
<1>3. QED
  BY <1>2, Emptied DEF DataInv

LEMMA StepData == TypeOK /\ DataInv /\ [Next]_vars => DataInv'
<1>1. SUFFICES ASSUME TypeOK, DataInv, [Next]_vars
               PROVE  DataInv'
  OBVIOUS
<1>2. CASE DipStep /\ UNCHANGED <<relay, opcua>>
  BY <1>1, <1>2, DipData
<1>3. CASE RelayStep /\ UNCHANGED <<dip, opcua>>
  BY <1>1, <1>3, RelayData
<1>4. CASE OpcuaStep /\ UNCHANGED <<dip, relay>>
  BY <1>1, <1>4, OpcuaData
<1>5. CASE Lose /\ UNCHANGED <<dip, relay, opcua>>
  BY <1>1, <1>5, LoseData
<1>6. CASE UNCHANGED vars
  BY <1>1, <1>6 DEF vars, DataInv, Genuine, PublishedOf, Authentic
<1>7. QED
  BY <1>1, <1>2, <1>3, <1>4, <1>5, <1>6 DEF Next

(***************************************************************************)
(* The order of what is on its way.                                         *)
(***************************************************************************)

\* A datagram of p that may come to be shown; only signed ones do, if auth.
Counts(p, auth, d) == d.of = p /\ (auth => d.key # None)

Numbers(p, auth, s) ==
    {d.sample.number : d \in {e \in Range(s) : Counts(p, auth, e)}}

Rising(p, auth, s) ==
    \A i, j \in DOMAIN s :
        i < j /\ Counts(p, auth, s[i]) /\ Counts(p, auth, s[j]) =>
            s[i].sample.number < s[j].sample.number

Queued(samples) == {s.number : s \in Range(samples)}

Increasing(samples) ==
    \A i, j \in DOMAIN samples : i < j => samples[i].number < samples[j].number

Shown(sample) == IF sample = None THEN {} ELSE {sample.number}

Precede(A, B) == \A a \in A, b \in B : a < b

\* What is shown was sent before what is queued, that before what the socket holds, and
\* that before what the relay has still to forward.
Ordered(p, auth, h, x, samples, sample) ==
    /\ Rising(p, auth, h)
    /\ Rising(p, auth, x)
    /\ Increasing(samples)
    /\ Precede(Shown(sample), Queued(samples))
    /\ Precede(Shown(sample), Numbers(p, auth, x))
    /\ Precede(Shown(sample), Numbers(p, auth, h))
    /\ Precede(Queued(samples), Numbers(p, auth, x))
    /\ Precede(Queued(samples), Numbers(p, auth, h))
    /\ Precede(Numbers(p, auth, x), Numbers(p, auth, h))

OrderInv ==
    InOrder => \A p \in Publications :
                  Ordered(p, Authentic, hop, inbox[p], queue[p], shown[p])

LEMMA RisingRemoved ==
    ASSUME NEW p, NEW auth, NEW s \in Seq(Datagram), NEW i \in DOMAIN s, Rising(p, auth, s)
    PROVE  /\ Rising(p, auth, RemoveAt(s, i))
           /\ Numbers(p, auth, RemoveAt(s, i)) \subseteq Numbers(p, auth, s)
           /\ Counts(p, auth, s[i]) => s[i].sample.number \in Numbers(p, auth, s)
           /\ i = 1 /\ Counts(p, auth, s[i]) =>
                 Precede({s[i].sample.number}, Numbers(p, auth, RemoveAt(s, i)))
<1> DEFINE r == RemoveAt(s, i)
<1>1. /\ Len(s) \in Nat /\ DOMAIN s = 1..Len(s) /\ i \in 1..Len(s)
      /\ DOMAIN r = 1..(Len(s) - 1)
      /\ \A j \in 1..(Len(s) - 1) : r[j] = IF j < i THEN s[j] ELSE s[j + 1]
  <2>1. /\ r \in Seq(Datagram) /\ Len(r) = Len(s) - 1
        /\ \A j \in 1..(Len(s) - 1) : r[j] = IF j < i THEN s[j] ELSE s[j + 1]
    BY Removed
  <2> HIDE DEF r
  <2>2. QED
    BY <2>1
<1>2. Range(r) \subseteq Range(s)
  BY RemovedRange
<1> HIDE DEF r
<1>3. Rising(p, auth, r)
  <2>1. SUFFICES ASSUME NEW j \in DOMAIN r, NEW k \in DOMAIN r, j < k,
                        Counts(p, auth, r[j]), Counts(p, auth, r[k])
                 PROVE  r[j].sample.number < r[k].sample.number
    BY DEF Rising
  <2>2. PICK a \in DOMAIN s, b \in DOMAIN s : a < b /\ r[j] = s[a] /\ r[k] = s[b]
    <3> DEFINE a == IF j < i THEN j ELSE j + 1
               b == IF k < i THEN k ELSE k + 1
    <3>1. a \in DOMAIN s /\ b \in DOMAIN s /\ a < b
      BY <1>1, <2>1
    <3>2. r[j] = s[a] /\ r[k] = s[b]
      BY <1>1, <2>1
    <3>3. QED
      BY <3>1, <3>2
  <2>3. QED
    BY <2>1, <2>2 DEF Rising
<1>4. Numbers(p, auth, r) \subseteq Numbers(p, auth, s)
  BY <1>2 DEF Numbers
<1>5. Counts(p, auth, s[i]) => s[i].sample.number \in Numbers(p, auth, s)
  BY DEF Numbers, Range
<1>6. ASSUME i = 1, Counts(p, auth, s[i])
      PROVE  Precede({s[i].sample.number}, Numbers(p, auth, r))
  <2>1. SUFFICES ASSUME NEW j \in DOMAIN r, Counts(p, auth, r[j])
                 PROVE  s[i].sample.number < r[j].sample.number
    BY DEF Precede, Numbers, Range
  <2>2. j + 1 \in DOMAIN s /\ r[j] = s[j + 1] /\ i < j + 1
    BY <1>1, <1>6
  <2>3. QED
    BY <1>6, <2>1, <2>2 DEF Rising
<1>7. QED
  BY <1>3, <1>4, <1>5, <1>6 DEF r

LEMMA RisingAppended ==
    ASSUME NEW p, NEW auth, NEW s \in Seq(Datagram), NEW d \in Datagram, Rising(p, auth, s),
           Counts(p, auth, d) => Precede(Numbers(p, auth, s), {d.sample.number})
    PROVE  /\ Rising(p, auth, Append(s, d))
           /\ Numbers(p, auth, Append(s, d)) \subseteq Numbers(p, auth, s) \cup {d.sample.number}
           /\ ~Counts(p, auth, d) => Numbers(p, auth, Append(s, d)) \subseteq Numbers(p, auth, s)
<1> DEFINE r == Append(s, d)
<1>1. /\ Len(s) \in Nat /\ DOMAIN s = 1..Len(s)
      /\ DOMAIN r = 1..(Len(s) + 1)
      /\ \A j \in 1..Len(s) : r[j] = s[j]
      /\ r[Len(s) + 1] = d
  OBVIOUS
<1>2. Range(r) = Range(s) \cup {d}
  BY Appended
<1> HIDE DEF r
<1>3. Rising(p, auth, r)
  <2>1. SUFFICES ASSUME NEW j \in DOMAIN r, NEW k \in DOMAIN r, j < k,
                        Counts(p, auth, r[j]), Counts(p, auth, r[k])
                 PROVE  r[j].sample.number < r[k].sample.number
    BY DEF Rising
  <2>2. j \in DOMAIN s /\ r[j] = s[j]
    BY <1>1, <2>1
  <2>3. CASE k \in DOMAIN s
    BY <1>1, <2>1, <2>2, <2>3 DEF Rising
  <2>4. CASE k \notin DOMAIN s
    <3>1. r[k] = d
      BY <1>1, <2>4
    <3>2. r[j].sample.number \in Numbers(p, auth, s)
      BY <2>1, <2>2 DEF Numbers, Range
    <3>3. QED
      BY <2>1, <3>1, <3>2 DEF Precede
  <2>5. QED
    BY <2>3, <2>4
<1>4. Numbers(p, auth, r) \subseteq Numbers(p, auth, s) \cup {d.sample.number}
  BY <1>2 DEF Numbers
<1>5. ~Counts(p, auth, d) => Numbers(p, auth, r) \subseteq Numbers(p, auth, s)
  BY <1>2 DEF Numbers
<1>6. QED
  BY <1>3, <1>4, <1>5 DEF r

LEMMA IncreasingAppended ==
    ASSUME NEW s \in Seq(Sample), NEW x \in Sample, Increasing(s),
           Precede(Queued(s), {x.number})
    PROVE  Increasing(Append(s, x)) /\ Queued(Append(s, x)) = Queued(s) \cup {x.number}
<1> DEFINE r == Append(s, x)
<1>1. /\ Len(s) \in Nat /\ DOMAIN s = 1..Len(s)
      /\ DOMAIN r = 1..(Len(s) + 1)
      /\ \A j \in 1..Len(s) : r[j] = s[j]
      /\ r[Len(s) + 1] = x
  OBVIOUS
<1>2. Range(r) = Range(s) \cup {x}
  BY Appended
<1> HIDE DEF r
<1>3. Increasing(r)
  <2>1. SUFFICES ASSUME NEW j \in DOMAIN r, NEW k \in DOMAIN r, j < k
                 PROVE  r[j].number < r[k].number
    BY DEF Increasing
  <2>2. j \in DOMAIN s /\ r[j] = s[j]
    BY <1>1, <2>1
  <2>3. CASE k \in DOMAIN s
    BY <1>1, <2>1, <2>2, <2>3 DEF Increasing
  <2>4. CASE k \notin DOMAIN s
    <3>1. r[k] = x
      BY <1>1, <2>4
    <3>2. r[j].number \in Queued(s)
      BY <2>2 DEF Queued, Range
    <3>3. QED
      BY <3>1, <3>2 DEF Precede
  <2>5. QED
    BY <2>3, <2>4
<1>4. Queued(r) = Queued(s) \cup {x.number}
  BY <1>2 DEF Queued
<1>5. QED
  BY <1>3, <1>4 DEF r

LEMMA IncreasingTail ==
    ASSUME NEW s \in Seq(Sample), s # <<>>, Increasing(s)
    PROVE  /\ Increasing(Tail(s))
           /\ Queued(Tail(s)) \subseteq Queued(s)
           /\ Head(s).number \in Queued(s)
           /\ Precede({Head(s).number}, Queued(Tail(s)))
<1> DEFINE r == Tail(s)
<1>1. /\ Range(r) \subseteq Range(s) /\ Head(s) \in Range(s) /\ Head(s) = s[1]
      /\ \A j \in DOMAIN r : r[j] = s[j + 1] /\ j + 1 \in DOMAIN s
      /\ DOMAIN r = 1..(Len(s) - 1) /\ DOMAIN s = 1..Len(s) /\ Len(s) \in Nat \ {0}
  BY HeadAndTail
<1> HIDE DEF r
<1>2. Increasing(r)
  <2>1. SUFFICES ASSUME NEW j \in DOMAIN r, NEW k \in DOMAIN r, j < k
                 PROVE  r[j].number < r[k].number
    BY DEF Increasing
  <2>2. j + 1 < k + 1
    BY <1>1, <2>1
  <2>3. QED
    BY <1>1, <2>2 DEF Increasing
<1>3. Queued(r) \subseteq Queued(s) /\ Head(s).number \in Queued(s)
  BY <1>1 DEF Queued
<1>4. Precede({Head(s).number}, Queued(r))
  <2>1. SUFFICES ASSUME NEW j \in DOMAIN r
                 PROVE  s[1].number < r[j].number
    BY <1>1 DEF Precede, Queued, Range
  <2>2. 1 \in DOMAIN s /\ 1 < j + 1
    BY <1>1
  <2>3. QED
    BY <1>1, <2>2 DEF Increasing
<1>5. QED
  BY <1>2, <1>3, <1>4 DEF r

\* How the order stays when something arrives, moves on or is lost.
LEMMA OrderedLess ==
    ASSUME NEW p, NEW auth, NEW h, NEW x, NEW q, NEW v, Ordered(p, auth, h, x, q, v),
           NEW g, NEW y, NEW r, NEW w,
           Rising(p, auth, g), Numbers(p, auth, g) \subseteq Numbers(p, auth, h),
           Rising(p, auth, y), Numbers(p, auth, y) \subseteq Numbers(p, auth, x),
           Increasing(r), Queued(r) \subseteq Queued(q),
           Shown(w) \subseteq Shown(v)
    PROVE  Ordered(p, auth, g, y, r, w)
BY DEF Ordered, Precede

LEMMA OrderedHop ==
    ASSUME NEW p, NEW auth, NEW h \in Seq(Datagram), NEW x, NEW q, NEW v,
           Ordered(p, auth, h, x, q, v), NEW d \in Datagram,
           Counts(p, auth, d) =>
              Precede(Numbers(p, auth, h) \cup Numbers(p, auth, x) \cup Queued(q) \cup Shown(v),
                      {d.sample.number})
    PROVE  Ordered(p, auth, Append(h, d), x, q, v)
<1>1. Rising(p, auth, h) /\ (Counts(p, auth, d) => Precede(Numbers(p, auth, h), {d.sample.number}))
  BY DEF Ordered, Precede
<1>2. /\ Rising(p, auth, Append(h, d))
      /\ Numbers(p, auth, Append(h, d)) \subseteq Numbers(p, auth, h) \cup {d.sample.number}
      /\ ~Counts(p, auth, d) => Numbers(p, auth, Append(h, d)) \subseteq Numbers(p, auth, h)
  BY <1>1, RisingAppended
<1>3. CASE Counts(p, auth, d)
  BY <1>2, <1>3 DEF Ordered, Precede
<1>4. CASE ~Counts(p, auth, d)
  BY <1>2, <1>4 DEF Ordered, Precede
<1>5. QED
  BY <1>3, <1>4

LEMMA OrderedInbox ==
    ASSUME NEW p, NEW auth, NEW h, NEW x \in Seq(Datagram), NEW q, NEW v,
           Ordered(p, auth, h, x, q, v), NEW d \in Datagram,
           Counts(p, auth, d) =>
              /\ Precede(Numbers(p, auth, x) \cup Queued(q) \cup Shown(v), {d.sample.number})
              /\ Precede({d.sample.number}, Numbers(p, auth, h))
    PROVE  Ordered(p, auth, h, Append(x, d), q, v)
<1>1. Rising(p, auth, x) /\ (Counts(p, auth, d) => Precede(Numbers(p, auth, x), {d.sample.number}))
  BY DEF Ordered, Precede
<1>2. /\ Rising(p, auth, Append(x, d))
      /\ Numbers(p, auth, Append(x, d)) \subseteq Numbers(p, auth, x) \cup {d.sample.number}
      /\ ~Counts(p, auth, d) => Numbers(p, auth, Append(x, d)) \subseteq Numbers(p, auth, x)
  BY <1>1, RisingAppended
<1>3. CASE Counts(p, auth, d)
  BY <1>2, <1>3 DEF Ordered, Precede
<1>4. CASE ~Counts(p, auth, d)
  BY <1>2, <1>4 DEF Ordered, Precede
<1>5. QED
  BY <1>3, <1>4

LEMMA OrderedQueue ==
    ASSUME NEW p, NEW auth, NEW h, NEW x, NEW q \in Seq(Sample), NEW v,
           Ordered(p, auth, h, x, q, v), NEW s \in Sample,
           Precede(Queued(q) \cup Shown(v), {s.number}),
           Precede({s.number}, Numbers(p, auth, x) \cup Numbers(p, auth, h))
    PROVE  Ordered(p, auth, h, x, Append(q, s), v)
<1>1. Increasing(q) /\ Precede(Queued(q), {s.number})
  BY DEF Ordered, Precede
<1>2. Increasing(Append(q, s)) /\ Queued(Append(q, s)) = Queued(q) \cup {s.number}
  BY <1>1, IncreasingAppended
<1>3. QED
  BY <1>2 DEF Ordered, Precede

LEMMA OrderedShown ==
    ASSUME NEW p, NEW auth, NEW h, NEW x, NEW q \in Seq(Sample), NEW v, q # <<>>,
           Ordered(p, auth, h, x, q, v)
    PROVE  /\ Ordered(p, auth, h, x, Tail(q), v)
           /\ Ordered(p, auth, h, x, Tail(q), Head(q))
           /\ v # None => v.number < Head(q).number
<1>1. /\ Increasing(Tail(q)) /\ Queued(Tail(q)) \subseteq Queued(q)
      /\ Head(q).number \in Queued(q)
      /\ Precede({Head(q).number}, Queued(Tail(q)))
  BY IncreasingTail DEF Ordered
<1>2. Ordered(p, auth, h, x, Tail(q), v)
  BY <1>1 DEF Ordered, Precede
<1>3. Shown(Head(q)) \subseteq {Head(q).number}
  BY DEF Shown
<1>4. Ordered(p, auth, h, x, Tail(q), Head(q))
  BY <1>1, <1>3 DEF Ordered, Precede
<1>5. v # None => v.number < Head(q).number
  BY <1>1 DEF Ordered, Precede, Shown
<1>6. QED
  BY <1>2, <1>4, <1>5

LEMMA OrderedEmpty ==
    ASSUME NEW p, NEW auth
    PROVE  Rising(p, auth, <<>>) /\ Numbers(p, auth, <<>>) = {}
<1>1. DOMAIN <<>> = {}
  OBVIOUS
<1>2. QED
  BY <1>1, Emptied DEF Rising, Numbers

\* What counts was sent, and has no number that is yet to come.
LEMMA Bounded ==
    ASSUME TypeOK, DataInv, InOrder, NEW p \in Publications,
           NEW n \in Numbers(p, Authentic, hop) \cup Numbers(p, Authentic, inbox[p])
                       \cup Queued(queue[p]) \cup Shown(shown[p])
    PROVE  n \in Nat /\ n <= sequence[p]
<1>1. ~Authentic => strays[p] = {}
  BY DEF InOrder, DataInv
<1>2. PublishedOf(p) = sent[p]
  BY <1>1 DEF PublishedOf
<1>3. ASSUME NEW d, Genuine(d), Counts(p, Authentic, d)
      PROVE  d.sample \in sent[p]
  BY <1>1, <1>3 DEF Genuine, Counts
<1>4. \E s \in sent[p] : n = s.number
  <2>1. CASE n \in Numbers(p, Authentic, hop) \cup Numbers(p, Authentic, inbox[p])
    BY <1>3, <2>1 DEF Numbers, DataInv
  <2>2. CASE n \in Queued(queue[p])
    BY <1>2, <2>2 DEF Queued, DataInv
  <2>3. CASE n \in Shown(shown[p])
    BY <1>2, <2>3 DEF Shown, DataInv
  <2>4. QED
    BY <2>1, <2>2, <2>3
<1>5. sent[p] \subseteq Sample
  BY DEF TypeOK, DipTypeOK
<1>6. QED
  BY <1>4, <1>5 DEF DataInv, Sample

LEMMA TransmitOrdered ==
    ASSUME TypeOK, DataInv, OrderInv, InOrder, NEW d \in Datagram, Transmit(d),
           NEW p \in Publications, Counts(p, Authentic, d) => sequence[p] < d.sample.number
    PROVE  Ordered(p, Authentic, hop', inbox'[p], queue[p], shown[p])
<1> DEFINE all == Numbers(p, Authentic, hop) \cup Numbers(p, Authentic, inbox[p])
                    \cup Queued(queue[p]) \cup Shown(shown[p])
<1>1. Ordered(p, Authentic, hop, inbox[p], queue[p], shown[p])
  BY DEF OrderInv
<1>2. hop \in Seq(Datagram) /\ inbox[p] \in Seq(Datagram)
  BY InboxTyped DEF TypeOK, AirTypeOK
<1>3. Counts(p, Authentic, d) => Precede(all, {d.sample.number})
  <2>1. sequence[p] \in Nat /\ d.sample.number \in Nat
    BY DEF TypeOK, DipTypeOK, Datagram, Sample
  <2>2. \A n \in all : n \in Nat /\ n <= sequence[p]
    BY Bounded
  <2> HIDE DEF all
  <2>3. QED
    BY <2>1, <2>2 DEF Precede
<1>4. CASE scenario.relay
  <2>1. hop' \in {hop, Append(hop, d)} /\ inbox' = inbox
    BY <1>4 DEF Transmit
  <2>2. Ordered(p, Authentic, Append(hop, d), inbox[p], queue[p], shown[p])
    BY <1>1, <1>2, <1>3, OrderedHop
  <2>3. QED
    BY <1>1, <2>1, <2>2
<1>5. CASE ~scenario.relay
  <2>1. hop = <<>> /\ hop' = hop /\ inbox'[p] \in {inbox[p], Append(inbox[p], d)}
    BY <1>5 DEF Transmit, Multicast, DataInv
  <2>2. Counts(p, Authentic, d) =>
           /\ Precede(Numbers(p, Authentic, inbox[p]) \cup Queued(queue[p]) \cup Shown(shown[p]),
                      {d.sample.number})
           /\ Precede({d.sample.number}, Numbers(p, Authentic, hop))
    BY <1>3, <2>1, OrderedEmpty DEF Precede
  <2>3. Ordered(p, Authentic, hop, Append(inbox[p], d), queue[p], shown[p])
    BY <1>1, <1>2, <2>2, OrderedInbox
  <2>4. QED
    BY <1>1, <2>1, <2>3
<1>6. QED
  BY <1>4, <1>5

LEMMA DipOrdered ==
    ASSUME TypeOK, DataInv, OrderInv, InOrder, DipStep, UNCHANGED <<relay, opcua>>,
           NEW p \in Publications
    PROVE  Ordered(p, Authentic, hop', inbox'[p], queue'[p], shown'[p])
<1>1. ASSUME NEW o \in Publications, HandleMessage(o)
      PROVE  Ordered(p, Authentic, hop', inbox'[p], queue'[p], shown'[p])
  <2>1. /\ Message(o) \in Sample /\ Message(o).number = sequence[o] + 1
        /\ [of |-> o, sample |-> Message(o), key |-> scenario.origin] \in Datagram
        /\ sequence[o] \in Nat
    BY <1>1, MessageTyped, ScenarioTyped
       DEF HandleMessage, Message, Datagram, Scenario, TypeOK, DipTypeOK
  <2>2. PICK d \in Datagram :
          d = [of |-> o, sample |-> Message(o), key |-> scenario.origin]
    BY <2>1
  <2>3. Transmit(d)
    BY <1>1, <2>2 DEF HandleMessage
  <2>4. Counts(p, Authentic, d) => sequence[p] < d.sample.number
    BY <2>1, <2>2 DEF Counts
  <2>5. QED
    BY <2>3, <2>4, TransmitOrdered
<1>2. ASSUME NEW o \in Publications, Stray(o)
      PROVE  Ordered(p, Authentic, hop', inbox'[p], queue'[p], shown'[p])
  <2> DEFINE d(v) == [of |-> o, sample |-> [number |-> Len(Messages[o]) + 1, quality |-> v],
                      key |-> None]
  <2>1. PICK v \in Qualities : Transmit(d(v))
    BY <1>2 DEF Stray
  <2>2. d(v) \in Datagram /\ d(v).key = None
    BY Lists DEF Sample, Datagram
  <2>3. Authentic
    BY <1>2 DEF Stray, InOrder
  <2>4. ~Counts(p, Authentic, d(v))
    BY <2>2, <2>3 DEF Counts
  <2> HIDE DEF d
  <2>5. QED
    BY <2>1, <2>2, <2>4, TransmitOrdered
<1>3. CASE \/ StartSubscription \/ StartFails \/ RegistrationRaises \/ Stop
           \/ \E o \in Publications : HandlerFails(o)
  <2>1. UNCHANGED <<hop, inbox, queue, shown>>
    BY <1>3 DEF StartSubscription, StartFails, RegistrationRaises, Stop, HandlerFails
  <2>2. QED
    BY <2>1 DEF OrderInv
<1>4. QED
  BY <1>1, <1>2, <1>3 DEF DipStep

LEMMA FirstArrives ==
    ASSUME InOrder, NEW s, NEW i \in Arriving(s)
    PROVE  i \in DOMAIN s /\ i = 1
BY DEF InOrder, Arriving

LEMMA RelayOrdered ==
    ASSUME TypeOK, DataInv, OrderInv, InOrder, RelayStep, UNCHANGED <<dip, opcua>>,
           NEW p \in Publications
    PROVE  Ordered(p, Authentic, hop', inbox'[p], queue'[p], shown'[p])
<1>1. Ordered(p, Authentic, hop, inbox[p], queue[p], shown[p])
  BY DEF OrderInv
<1>2. hop \in Seq(Datagram) /\ inbox[p] \in Seq(Datagram)
  BY InboxTyped DEF TypeOK, AirTypeOK
<1>3. ASSUME NEW i \in DOMAIN hop
      PROVE  /\ Ordered(p, Authentic, RemoveAt(hop, i), inbox[p], queue[p], shown[p])
             /\ i = 1 /\ Counts(p, Authentic, hop[i]) =>
                   /\ Precede(Numbers(p, Authentic, inbox[p]) \cup Queued(queue[p])
                                \cup Shown(shown[p]), {hop[i].sample.number})
                   /\ Precede({hop[i].sample.number},
                              Numbers(p, Authentic, RemoveAt(hop, i)))
  <2>1. Rising(p, Authentic, hop) /\ Rising(p, Authentic, inbox[p]) /\ Increasing(queue[p])
    BY <1>1 DEF Ordered
  <2>2. /\ Rising(p, Authentic, RemoveAt(hop, i))
        /\ Numbers(p, Authentic, RemoveAt(hop, i)) \subseteq Numbers(p, Authentic, hop)
        /\ Counts(p, Authentic, hop[i]) =>
              hop[i].sample.number \in Numbers(p, Authentic, hop)
        /\ i = 1 /\ Counts(p, Authentic, hop[i]) =>
              Precede({hop[i].sample.number}, Numbers(p, Authentic, RemoveAt(hop, i)))
    BY <1>2, <2>1, RisingRemoved
  <2>3. Ordered(p, Authentic, RemoveAt(hop, i), inbox[p], queue[p], shown[p])
    BY <1>1, <2>1, <2>2, OrderedLess
  <2>4. Counts(p, Authentic, hop[i]) =>
           Precede(Numbers(p, Authentic, inbox[p]) \cup Queued(queue[p])
                     \cup Shown(shown[p]), {hop[i].sample.number})
    BY <1>1, <2>2 DEF Ordered, Precede
  <2>5. QED
    BY <2>2, <2>3, <2>4
<1>4. CASE Forward
  <2>1. PICK i \in Arriving(hop) :
          /\ relay = "on" /\ Valid(hop[i])
          /\ hop' = RemoveAt(hop, i)
          /\ Multicast(OnRoute(hop[i]))
    BY <1>4 DEF Forward
  <2> DEFINE d == OnRoute(hop[i])
  <2>2. i \in DOMAIN hop /\ i = 1
    BY FirstArrives
  <2>3. hop[i] \in Datagram /\ d \in Datagram
    BY <2>2, HopTyped, OnRouteTyped DEF TypeOK
  <2>4. /\ d.sample = hop[i].sample /\ d.of = hop[i].of
        /\ d.key = IF scenario.sign # None THEN scenario.sign ELSE hop[i].key
    BY <2>3 DEF OnRoute, Datagram
  <2>5. scenario.relay
    BY <2>1, <2>2 DEF DataInv
  <2>6. Counts(p, Authentic, d) => Counts(p, Authentic, hop[i])
    BY <2>1, <2>4, <2>5 DEF Counts, Authentic, Valid
  <2>7. inbox'[p] \in {inbox[p], Append(inbox[p], d)}
    BY <2>1 DEF Multicast
  <2> HIDE DEF d
  <2>8. Ordered(p, Authentic, RemoveAt(hop, i), Append(inbox[p], d), queue[p], shown[p])
    <3>1. Counts(p, Authentic, d) =>
             /\ Precede(Numbers(p, Authentic, inbox[p]) \cup Queued(queue[p])
                          \cup Shown(shown[p]), {d.sample.number})
             /\ Precede({d.sample.number}, Numbers(p, Authentic, RemoveAt(hop, i)))
      BY <1>3, <2>2, <2>4, <2>6
    <3>2. QED
      BY <1>2, <1>3, <2>2, <2>3, <3>1, OrderedInbox
  <2>9. QED
    BY <1>3, <2>1, <2>2, <2>7, <2>8
<1>5. CASE ForwardFails \/ DropInvalid
  <2>1. PICK i \in DOMAIN hop : hop' = RemoveAt(hop, i) /\ UNCHANGED inbox
    BY <1>5, FirstArrives DEF ForwardFails, DropInvalid
  <2>2. QED
    BY <1>3, <2>1
<1>6. CASE StopRelay
  <2>1. hop' = <<>> /\ UNCHANGED inbox
    BY <1>6 DEF StopRelay
  <2>2. QED
    BY <1>1, <2>1, OrderedEmpty DEF Ordered, Precede
<1>7. CASE StartRelay \/ StartRelayFails
  BY <1>1, <1>7 DEF StartRelay, StartRelayFails
<1>8. QED
  BY <1>4, <1>5, <1>6, <1>7 DEF RelayStep

\* A socket that has given up a datagram.
LEMMA InboxOrdered ==
    ASSUME TypeOK, OrderInv, InOrder, NEW p \in Publications, NEW i \in DOMAIN inbox[p]
    PROVE  /\ Ordered(p, Authentic, hop, RemoveAt(inbox[p], i), queue[p], shown[p])
           /\ i = 1 /\ Counts(p, Authentic, inbox[p][i]) =>
                 /\ Precede(Queued(queue[p]) \cup Shown(shown[p]),
                            {inbox[p][i].sample.number})
                 /\ Precede({inbox[p][i].sample.number},
                            Numbers(p, Authentic, RemoveAt(inbox[p], i))
                              \cup Numbers(p, Authentic, hop))
<1>1. Ordered(p, Authentic, hop, inbox[p], queue[p], shown[p])
  BY DEF OrderInv
<1>2. inbox[p] \in Seq(Datagram)
  BY InboxTyped DEF TypeOK
<1>3. Rising(p, Authentic, hop) /\ Rising(p, Authentic, inbox[p]) /\ Increasing(queue[p])
  BY <1>1 DEF Ordered
<1>4. /\ Rising(p, Authentic, RemoveAt(inbox[p], i))
      /\ Numbers(p, Authentic, RemoveAt(inbox[p], i)) \subseteq Numbers(p, Authentic, inbox[p])
      /\ Counts(p, Authentic, inbox[p][i]) =>
            inbox[p][i].sample.number \in Numbers(p, Authentic, inbox[p])
      /\ i = 1 /\ Counts(p, Authentic, inbox[p][i]) =>
            Precede({inbox[p][i].sample.number},
                    Numbers(p, Authentic, RemoveAt(inbox[p], i)))
  BY <1>2, <1>3, RisingRemoved
<1>5. Ordered(p, Authentic, hop, RemoveAt(inbox[p], i), queue[p], shown[p])
  BY <1>1, <1>3, <1>4, OrderedLess
<1>6. QED
  BY <1>1, <1>4, <1>5 DEF Ordered, Precede

LEMMA OpcuaOrdered ==
    ASSUME TypeOK, DataInv, OrderInv, InOrder, OpcuaStep, UNCHANGED <<dip, relay>>,
           NEW p \in Publications
    PROVE  Ordered(p, Authentic, hop', inbox'[p], queue'[p], shown'[p])
<1>1. Ordered(p, Authentic, hop, inbox[p], queue[p], shown[p]) /\ queue[p] \in Seq(Sample)
  BY DEF OrderInv, TypeOK, OpcuaTypeOK
<1>2. ASSUME NEW o \in Publications, NEW i \in DOMAIN inbox[o], Received(o, i)
      PROVE  /\ i = 1 /\ hop' = hop /\ shown' = shown
             /\ inbox'[p] = IF o = p THEN RemoveAt(inbox[p], i) ELSE inbox[p]
  BY <1>2, FirstArrives DEF Received, TypeOK, AirTypeOK
<1>3. ASSUME NEW o \in Publications, Queue(o)
      PROVE  Ordered(p, Authentic, hop', inbox'[p], queue'[p], shown'[p])
  <2>1. PICK i \in DOMAIN inbox[o] :
          /\ Received(o, i) /\ Decodable(inbox[o][i]) /\ Mine(o, inbox[o][i])
          /\ queue' = [queue EXCEPT ![o] = Append(queue[o], inbox[o][i].sample)]
    BY <1>3 DEF Queue
  <2>2. CASE o # p
    <3>1. queue'[p] = queue[p]
      BY <2>1, <2>2 DEF TypeOK, OpcuaTypeOK
    <3>2. QED
      BY <1>1, <1>2, <2>1, <2>2, <3>1
  <2>3. CASE o = p
    <3> DEFINE s == inbox[p][i].sample
    <3>1. s \in Sample /\ Counts(p, Authentic, inbox[p][i])
      BY <2>1, <2>3, Accepted, InboxTyped DEF Datagram, Mine, Counts, TypeOK
    <3>2. /\ i = 1 /\ hop' = hop /\ shown' = shown
          /\ inbox'[p] = RemoveAt(inbox[p], i)
      BY <1>2, <2>1, <2>3
    <3>3. queue'[p] = Append(queue[p], s)
      BY <2>1, <2>3 DEF TypeOK, OpcuaTypeOK
    <3>4. /\ Ordered(p, Authentic, hop, RemoveAt(inbox[p], i), queue[p], shown[p])
          /\ Precede(Queued(queue[p]) \cup Shown(shown[p]), {s.number})
          /\ Precede({s.number}, Numbers(p, Authentic, RemoveAt(inbox[p], i))
                                   \cup Numbers(p, Authentic, hop))
      BY <2>3, <3>1, <3>2, InboxOrdered
    <3> HIDE DEF s
    <3>5. QED
      BY <1>1, <3>1, <3>2, <3>3, <3>4, OrderedQueue
  <2>4. QED
    BY <2>2, <2>3
<1>4. ASSUME NEW o \in Publications, Full(o) \/ Skip(o) \/ Undecodable(o)
      PROVE  Ordered(p, Authentic, hop', inbox'[p], queue'[p], shown'[p])
  <2>1. PICK i \in DOMAIN inbox[o] : Received(o, i) /\ UNCHANGED queue
    BY <1>4 DEF Full, Skip, Undecodable
  <2>2. CASE o # p
    BY <1>1, <1>2, <2>1, <2>2
  <2>3. CASE o = p
    BY <1>2, <2>1, <2>3, InboxOrdered
  <2>4. QED
    BY <2>2, <2>3
<1>5. ASSUME NEW o \in Publications, Write(o) \/ WriteFails(o)
      PROVE  Ordered(p, Authentic, hop', inbox'[p], queue'[p], shown'[p])
  <2>1. /\ queue[o] # <<>>
        /\ queue' = [queue EXCEPT ![o] = Tail(queue[o])]
        /\ shown' \in {shown, [shown EXCEPT ![o] = Head(queue[o])]}
        /\ UNCHANGED <<hop, inbox>>
    BY <1>5 DEF Write, WriteFails, NextUpdate
  <2>2. CASE o # p
    <3>1. queue'[p] = queue[p] /\ shown'[p] = shown[p]
      BY <2>1, <2>2 DEF TypeOK, OpcuaTypeOK
    <3>2. QED
      BY <1>1, <2>1, <3>1
  <2>3. CASE o = p
    <3>1. queue'[p] = Tail(queue[p]) /\ shown'[p] \in {shown[p], Head(queue[p])}
      BY <2>1, <2>3 DEF TypeOK, OpcuaTypeOK
    <3>2. /\ Ordered(p, Authentic, hop, inbox[p], Tail(queue[p]), shown[p])
          /\ Ordered(p, Authentic, hop, inbox[p], Tail(queue[p]), Head(queue[p]))
      BY <1>1, <2>1, <2>3, OrderedShown
    <3>3. QED
      BY <2>1, <3>1, <3>2
  <2>4. QED
    BY <2>2, <2>3
<1>6. ASSUME NEW o \in Publications, StopSubscriber(o)
      PROVE  Ordered(p, Authentic, hop', inbox'[p], queue'[p], shown'[p])
  <2>1. inbox'[p] \in {inbox[p], <<>>} /\ UNCHANGED <<hop, queue, shown>>
    BY <1>6 DEF StopSubscriber, TypeOK, AirTypeOK
  <2>2. QED
    BY <1>1, <2>1, OrderedEmpty DEF Ordered, Precede
<1>7. CASE LookedUp \/ LookupFails \/ End
           \/ \E o \in Publications : StartPump(o) \/ BindFails(o) \/ ThreadEnds(o)
  <2>1. UNCHANGED <<hop, inbox, queue, shown>>
    BY <1>7 DEF LookedUp, LookupFails, End, StartPump, BindFails, ThreadEnds
  <2>2. QED
    BY <1>1, <2>1
<1>8. QED
  BY <1>3, <1>4, <1>5, <1>6, <1>7 DEF OpcuaStep

LEMMA LoseOrdered ==
    ASSUME TypeOK, DataInv, OrderInv, InOrder, Lose, UNCHANGED <<dip, relay, opcua>>,
           NEW p \in Publications
    PROVE  Ordered(p, Authentic, hop', inbox'[p], queue'[p], shown'[p])
<1>1. Ordered(p, Authentic, hop, inbox[p], queue[p], shown[p])
  BY DEF OrderInv
<1>2. CASE LoseHop
  <2>1. PICK i \in DOMAIN hop : hop' = RemoveAt(hop, i) /\ UNCHANGED inbox
    BY <1>2 DEF LoseHop
  <2>2. hop \in Seq(Datagram) /\ Rising(p, Authentic, hop)
    BY <1>1 DEF TypeOK, AirTypeOK, Ordered
  <2>3. /\ Rising(p, Authentic, hop')
        /\ Numbers(p, Authentic, hop') \subseteq Numbers(p, Authentic, hop)
    BY <2>1, <2>2, RisingRemoved
  <2>4. QED
    BY <1>1, <2>1, <2>3, OrderedLess DEF Ordered
<1>3. ASSUME NEW o \in Publications, LoseCopy(o)
      PROVE  Ordered(p, Authentic, hop', inbox'[p], queue'[p], shown'[p])
  <2>1. PICK i \in DOMAIN inbox[o] :
          /\ inbox'[p] = IF o = p THEN RemoveAt(inbox[p], i) ELSE inbox[p]
          /\ UNCHANGED hop
    BY <1>3 DEF LoseCopy, TypeOK, AirTypeOK
  <2>2. CASE o # p
    BY <1>1, <2>1, <2>2
  <2>3. CASE o = p
    BY <2>1, <2>3, InboxOrdered
  <2>4. QED
    BY <2>2, <2>3
<1>4. QED
  BY <1>2, <1>3 DEF Lose

LEMMA InitOrdered == Init => OrderInv
<1>1. SUFFICES ASSUME Init, NEW p \in Publications
               PROVE  Ordered(p, Authentic, hop, inbox[p], queue[p], shown[p])
  BY DEF OrderInv
<1>2. hop = <<>> /\ inbox[p] = <<>> /\ queue[p] = <<>> /\ shown[p] = None
  BY <1>1 DEF Init, InitAir, InitOpcua
<1>3. Shown(None) = {} /\ Queued(<<>>) = {} /\ Increasing(<<>>)
  BY Emptied DEF Shown, Queued, Increasing
<1>4. QED
  BY <1>2, <1>3, OrderedEmpty DEF Ordered, Precede

LEMMA ScenarioStays ==
    ASSUME [Next]_vars
    PROVE  UNCHANGED scenario /\ Authentic' = Authentic /\ InOrder' = InOrder
<1>1. UNCHANGED scenario
  <2> SUFFICES ASSUME Next PROVE UNCHANGED scenario
    BY DEF vars
  <2>1. DipStep => UNCHANGED scenario
    BY DEF DipStep, StartSubscription, StartFails, RegistrationRaises, Stop, HandleMessage,
           HandlerFails, Stray
  <2>2. RelayStep => UNCHANGED scenario
    BY DEF RelayStep, StartRelay, StartRelayFails, StopRelay, Forward, ForwardFails, DropInvalid
  <2>3. OpcuaStep => UNCHANGED scenario
    BY DEF OpcuaStep, LookedUp, LookupFails, End, StartPump, BindFails, StopSubscriber,
           Queue, Full, Skip, Undecodable, Received, ThreadEnds, Write, WriteFails, NextUpdate
  <2>4. Lose => UNCHANGED scenario
    BY DEF Lose, LoseHop, LoseCopy
  <2>5. QED
    BY <2>1, <2>2, <2>3, <2>4 DEF Next
<1>2. QED
  BY <1>1 DEF Authentic, InOrder

LEMMA StepOrdered == TypeOK /\ DataInv /\ OrderInv /\ [Next]_vars => OrderInv'
<1>1. SUFFICES ASSUME TypeOK, DataInv, OrderInv, [Next]_vars, InOrder, NEW p \in Publications
               PROVE  Ordered(p, Authentic, hop', inbox'[p], queue'[p], shown'[p])
  BY ScenarioStays DEF OrderInv
<1>2. CASE DipStep /\ UNCHANGED <<relay, opcua>>
  BY <1>1, <1>2, DipOrdered
<1>3. CASE RelayStep /\ UNCHANGED <<dip, opcua>>
  BY <1>1, <1>3, RelayOrdered
<1>4. CASE OpcuaStep /\ UNCHANGED <<dip, relay>>
  BY <1>1, <1>4, OpcuaOrdered
<1>5. CASE Lose /\ UNCHANGED <<dip, relay, opcua>>
  BY <1>1, <1>5, LoseOrdered
<1>6. CASE UNCHANGED vars
  BY <1>1, <1>6 DEF vars, OrderInv
<1>7. QED
  BY <1>1, <1>2, <1>3, <1>4, <1>5, <1>6 DEF Next

(***************************************************************************)
(* The pipeline keeps what Stream promises.                                  *)
(***************************************************************************)

IInv == TypeOK /\ DataInv /\ OrderInv

\* A sample with a number that is new is published.
LEMMA Publishes ==
    ASSUME [Next]_vars, NEW p \in Publications, NEW s \in Sample, UNCHANGED shown,
           \A t \in PublishedOf(p) : t.number # s.number,
           \A q \in Publications :
              PublishedOf(q)' = IF q = p THEN PublishedOf(p) \cup {s} ELSE PublishedOf(q)
    PROVE  Promise!Next
<1>1. InOrder' = InOrder
  BY ScenarioStays
<1>2. Published' = [Published EXCEPT ![p] = Published[p] \cup {s}]
  BY DEF Published
<1>3. \A t \in Published[p] : t.number # s.number
  BY DEF Published
<1>4. Promise!Publish(p)
  BY <1>1, <1>2, <1>3 DEF Promise!Publish
<1>5. QED
  BY <1>4 DEF Promise!Next

\* What no reader sees.
LEMMA Stutters ==
    ASSUME [Next]_vars, UNCHANGED <<sent, strays, shown>>
    PROVE  UNCHANGED Promise!vars
<1>1. Authentic' = Authentic /\ InOrder' = InOrder
  BY ScenarioStays
<1>2. \A p \in Publications : PublishedOf(p)' = PublishedOf(p)
  BY <1>1 DEF PublishedOf
<1>3. Published' = Published
  BY <1>2 DEF Published
<1>4. QED
  BY <1>1, <1>3 DEF Promise!vars

LEMMA InitMaps == Init => Promise!Init
<1>1. SUFFICES ASSUME Init
               PROVE  Promise!Init
  OBVIOUS
<1>2. \A p \in Publications : PublishedOf(p) = {}
  BY <1>1 DEF Init, InitDip, PublishedOf
<1>3. Published = [p \in Publications |-> {}]
  BY <1>2 DEF Published
<1>4. InOrder \in BOOLEAN
  BY InitTyped, <1>1, ScenarioTyped DEF TypeOK, InOrder, Scenario
<1>5. shown = [p \in Publications |-> None]
  BY <1>1 DEF Init, InitOpcua
<1>6. QED
  BY <1>3, <1>4, <1>5 DEF Promise!Init

LEMMA StepMaps == IInv /\ [Next]_vars => [Promise!Next]_(Promise!vars)
<1>1. SUFFICES ASSUME IInv, [Next]_vars
               PROVE  [Promise!Next]_(Promise!vars)
  OBVIOUS
<1> USE DEF IInv
<1>2. Authentic' = Authentic /\ InOrder' = InOrder
  BY <1>1, ScenarioStays
<1>3. CASE DipStep /\ UNCHANGED <<relay, opcua>>
  <2>1. ASSUME NEW p \in Publications, HandleMessage(p)
        PROVE  Promise!Next
    <3>1. /\ Message(p) \in Sample /\ Message(p).number = sequence[p] + 1
          /\ sequence[p] \in Nat /\ sequence[p] < Len(Messages[p]) /\ Len(Messages[p]) \in Nat
      BY <1>1, <2>1, MessageTyped, Lists
         DEF HandleMessage, Message, TypeOK, DipTypeOK
    <3>2. PICK s \in Sample : s = Message(p)
      BY <3>1
    <3>3. /\ sent' = [sent EXCEPT ![p] = sent[p] \cup {s}]
          /\ UNCHANGED <<strays, shown>>
      BY <1>3, <2>1, <3>2 DEF HandleMessage
    <3>4. \A q \in Publications :
             PublishedOf(q)' = IF q = p THEN PublishedOf(p) \cup {s} ELSE PublishedOf(q)
      BY <1>1, <1>2, <3>3 DEF PublishedOf, TypeOK, DipTypeOK
    <3>5. \A t \in PublishedOf(p) : t.number # s.number
      <4>1. \A t \in sent[p] : t.number <= sequence[p] /\ t.number \in Nat
        BY <1>1 DEF DataInv, TypeOK, DipTypeOK, Sample
      <4>2. \A t \in strays[p] : t.number = Len(Messages[p]) + 1
        BY <1>1 DEF DataInv
      <4>3. \A t \in sent[p] \cup strays[p] : t.number # s.number
        BY <3>1, <3>2, <4>1, <4>2
      <4>4. QED
        BY <4>3 DEF PublishedOf
    <3>6. QED
      BY <1>1, <3>3, <3>4, <3>5, Publishes
  <2>2. ASSUME NEW p \in Publications, Stray(p)
        PROVE  [Promise!Next]_(Promise!vars)
    <3> DEFINE s(v) == [number |-> Len(Messages[p]) + 1, quality |-> v]
    <3>1. PICK v \in Qualities : strays' = [strays EXCEPT ![p] = {s(v)}]
      BY <2>2 DEF Stray
    <3>2. s(v) \in Sample /\ s(v).number = Len(Messages[p]) + 1 /\ Len(Messages[p]) \in Nat
      BY Lists DEF Sample
    <3> HIDE DEF s
    <3>3. UNCHANGED <<sent, shown>> /\ strays[p] = {}
      BY <1>3, <2>2 DEF Stray
    <3>4. CASE Authentic
      <4>1. \A q \in Publications : PublishedOf(q)' = PublishedOf(q)
        BY <1>2, <3>3, <3>4 DEF PublishedOf
      <4>2. Published' = Published
        BY <4>1 DEF Published
      <4>3. QED
        BY <1>2, <3>3, <4>2 DEF Promise!vars
    <3>5. CASE ~Authentic
      <4>1. \A q \in Publications :
               PublishedOf(q)' = IF q = p THEN PublishedOf(p) \cup {s(v)} ELSE PublishedOf(q)
        BY <1>1, <1>2, <3>1, <3>3, <3>5 DEF PublishedOf, TypeOK, DipTypeOK
      <4>2. \A t \in PublishedOf(p) : t \in Sample /\ t.number <= Len(Messages[p])
        <5>1. PublishedOf(p) = sent[p]
          BY <3>3 DEF PublishedOf
        <5>2. /\ sent[p] \subseteq Sample /\ sequence[p] \in Nat
              /\ sequence[p] <= Len(Messages[p])
              /\ \A t \in sent[p] : t.number <= sequence[p]
          BY <1>1 DEF DataInv, TypeOK, DipTypeOK
        <5>3. QED
          BY <3>2, <5>1, <5>2 DEF Sample
      <4>3. \A t \in PublishedOf(p) : t.number # s(v).number
        BY <3>2, <4>2 DEF Sample
      <4>4. QED
        BY <1>1, <3>2, <3>3, <4>1, <4>3, Publishes
    <3>6. QED
      BY <3>4, <3>5
  <2>3. CASE \/ StartSubscription \/ StartFails \/ RegistrationRaises \/ Stop
             \/ \E p \in Publications : HandlerFails(p)
    <3>1. UNCHANGED <<sent, strays, shown>>
      BY <1>3, <2>3 DEF StartSubscription, StartFails, RegistrationRaises, Stop, HandlerFails
    <3>2. QED
      BY <1>1, <3>1, Stutters
  <2>4. QED
    BY <1>3, <2>1, <2>2, <2>3 DEF DipStep
<1>4. CASE OpcuaStep /\ UNCHANGED <<dip, relay>>
  <2>1. ASSUME NEW p \in Publications, Write(p)
        PROVE  Promise!Next
    <3>1. /\ queue[p] # <<>> /\ queue[p] \in Seq(Sample)
          /\ shown' = [shown EXCEPT ![p] = Head(queue[p])]
      BY <1>1, <2>1 DEF Write, NextUpdate, TypeOK, OpcuaTypeOK
    <3>2. Head(queue[p]) \in Range(queue[p])
      BY <3>1, HeadAndTail
    <3>3. Head(queue[p]) \in Published[p]
      BY <1>1, <3>2 DEF DataInv, Published
    <3>4. InOrder /\ shown[p] # None => shown[p].number < Head(queue[p]).number
      BY <1>1, <3>1, OrderedShown DEF OrderInv
    <3>5. UNCHANGED <<sent, strays>>
      BY <1>4
    <3>6. Published' = Published
      <4>1. \A q \in Publications : PublishedOf(q)' = PublishedOf(q)
        BY <1>2, <3>5 DEF PublishedOf
      <4>2. QED
        BY <4>1 DEF Published
    <3>7. Promise!Show(p)
      BY <1>2, <3>1, <3>3, <3>4, <3>6 DEF Promise!Show
    <3>8. QED
      BY <3>7 DEF Promise!Next
  <2>2. CASE ~\E p \in Publications : Write(p)
    <3>1. UNCHANGED <<sent, strays, shown>>
      BY <1>4, <2>2 DEF OpcuaStep, LookedUp, LookupFails, End, StartPump, BindFails,
         StopSubscriber, Queue, Full, Skip, Undecodable, Received, ThreadEnds, WriteFails
    <3>2. QED
      BY <1>1, <3>1, Stutters
  <2>3. QED
    BY <2>1, <2>2
<1>5. CASE \/ RelayStep /\ UNCHANGED <<dip, opcua>>
           \/ Lose /\ UNCHANGED <<dip, relay, opcua>>
           \/ UNCHANGED vars
  <2>1. UNCHANGED <<sent, strays, shown>>
    BY <1>5 DEF vars
  <2>2. QED
    BY <1>1, <2>1, Stutters
<1>6. QED
  BY <1>1, <1>3, <1>4, <1>5 DEF Next

\* The pipeline implements Stream for any publications, samples, keys, configurations and
\* queue sizes: each value shown is one that was published under that name, with its
\* quality, none is shown after a later one where the network keeps the order, and with
\* signatures required all the way no other publisher's value is shown
\* (bridge_opcua.py:79-95, client.py:239-256, relay.py:102-116, bridge_dip.py:151-162).
THEOREM PipelineImplementsStream == Spec => ImplementsStream
<1>1. Init => IInv /\ Promise!Init
  BY InitTyped, InitData, InitOrdered, InitMaps DEF IInv
<1>2. IInv /\ [Next]_vars => IInv'
  BY StepTyped, StepData, StepOrdered DEF IInv
<1>3. IInv /\ [Next]_vars => [Promise!Next]_(Promise!vars)
  BY StepMaps
<1>4. QED
  BY <1>1, <1>2, <1>3, PTL DEF Spec, ImplementsStream, Promise!Spec

=============================================================================
