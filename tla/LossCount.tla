------------------------------- MODULE LossCount -------------------------------
(***************************************************************************)
(* How the registry counts the lost messages of one publication: the       *)
(* publisher numbers what it sends (client.py, Publisher.send), the network *)
(* loses, delays and duplicates datagrams, and the live state of the        *)
(* publication's name compares each number with the one before              *)
(* (registry/listener.py, LiveState.observe).                               *)
(*                                                                         *)
(* A datagram also carries "made", which no program stores: it counts the   *)
(* numbers taken so far, so that what the numbers say can be compared with  *)
(* what happened.                                                           *)
(***************************************************************************)
EXTENDS Integers, FiniteSets

CONSTANTS Modulus,     \* of the sequence numbers: 2^16 in the code
          MaxMade,     \* bound on the numbers taken
          MaxAir,      \* bound on the datagrams on their way
          None

ASSUME LossCountConstants ==
    /\ Modulus \in Nat \ {0, 1} /\ Modulus % 2 = 0
    /\ MaxMade \in Nat /\ MaxAir \in Nat
    /\ None \notin Int

Half == Modulus \div 2

Number == 0..(Modulus - 1)

VARIABLES
    number,       \* Publisher._sequence
    made,         \* numbers taken so far
    air,          \* datagrams on their way to the registry
    registered,   \* does the store match them to the publication?
    last,         \* LiveState._last_sequence
    lost,         \* LiveState.lost
    messages,     \* LiveState.messages
    first, top, recent,   \* of the datagrams observed: "made" of the first, the
                          \* highest and the last
    setback,      \* by how much all that came late or again was behind
    mishaps       \* what has happened to numbers and datagrams

vars == <<number, made, air, registered, last, lost, messages, first, top, recent, setback, mishaps>>

live == <<last, lost, messages, first, top, recent, setback>>

Init ==
    /\ number = 0
    /\ made = 0
    /\ air = {}
    /\ registered = TRUE
    /\ last = None
    /\ lost = 0
    /\ messages = 0
    /\ first = None /\ top = None /\ recent = None
    /\ setback = 0
    /\ mishaps = {}

-----------------------------------------------------------------------------
(* The publisher. *)

\* Faulty: the number does not wrap, or not where the registry expects it to.
TakeWithoutWrap ==
    /\ made < MaxMade
    /\ made' = made + 1
    /\ number' = number + 1

TakeOdd ==
    /\ made < MaxMade
    /\ made' = made + 1
    /\ number' = (number + 1) % (Modulus - 1)

Take ==
    /\ made < MaxMade
    /\ made' = made + 1
    /\ number' = (number + 1) % Modulus

Send ==
    /\ Cardinality(air) < MaxAir
    /\ Take
    /\ air' = air \cup {[number |-> number', made |-> made']}
    /\ UNCHANGED <<registered, live, mishaps>>

\* A value that cannot be encoded: the number is taken, nothing is sent.
SendFails ==
    /\ Take
    /\ mishaps' = mishaps \cup {"missing"}
    /\ UNCHANGED <<air, registered, live>>

PublisherRestarts ==
    /\ number' = 0
    /\ mishaps' = mishaps \cup {"restart"}
    /\ UNCHANGED <<made, air, registered, live>>

-----------------------------------------------------------------------------
(* The network. *)

Oldest(d) == \A other \in air : d.made <= other.made

Lose(d) ==
    /\ d \in air
    /\ air' = air \ {d}
    /\ mishaps' = mishaps \cup {"missing"}
    /\ UNCHANGED <<number, made, registered, live>>

-----------------------------------------------------------------------------
(* The registry. *)

\* Faulty: a number below the last one counts as a long gap.
GapUnbounded(n) == LET gap == (n - last) % Modulus IN IF gap > 1 THEN gap - 1 ELSE 0

\* Faulty: one missing number is not enough.
GapTolerant(n) == LET gap == (n - last) % Modulus IN IF 2 < gap /\ gap < Half THEN gap - 1 ELSE 0

\* The numbers between the last one and n.
Gap(n) ==
    LET gap == (n - last) % Modulus
    IN  IF 1 < gap /\ gap < Half THEN gap - 1 ELSE 0

Observe(d) ==
    /\ last' = d.number
    /\ lost' = lost + IF last = None THEN 0 ELSE Gap(d.number)
    /\ messages' = messages + 1
    /\ first' = IF first = None THEN d.made ELSE first
    /\ top' = IF top = None \/ d.made > top THEN d.made ELSE top
    /\ recent' = d.made
    /\ setback' = setback + IF recent = None \/ d.made > recent THEN 0 ELSE recent - d.made + 1

Burst(d) == recent # None /\ d.made - recent \notin (-Half)..(Half - 1)

\* A datagram arrives, in order or not; the network may deliver it again, but in
\* the model only once.
Deliver(d, again) ==
    /\ registered
    /\ again => "again" \notin mishaps
    /\ d \in air
    /\ Observe(d)
    /\ air' = IF again THEN air ELSE air \ {d}
    /\ mishaps' = mishaps
         \cup (IF Oldest(d) THEN {} ELSE {"overtaken"})
         \cup (IF again THEN {"again"} ELSE {})
         \cup (IF Burst(d) THEN {"burst"} ELSE {})
    /\ UNCHANGED <<number, made, registered>>

\* No publication has this triple.
Ignore(d) ==
    /\ ~registered
    /\ d \in air
    /\ air' = air \ {d}
    /\ mishaps' = mishaps \cup {"missing"}
    /\ UNCHANGED <<number, made, registered, live>>

\* The name is removed; its live state stays.
Remove ==
    /\ registered
    /\ registered' = FALSE
    /\ UNCHANGED <<number, made, air, live, mishaps>>

\* It is registered again, or re-pointed to a publisher at any number of its own.
Register ==
    /\ registered' = TRUE
    /\ \/ ~registered /\ UNCHANGED <<number, air, mishaps>>
       \/ /\ number' \in Number
          /\ air' = {}
          /\ mishaps' = mishaps \cup {"missing", "repointed"}
    /\ UNCHANGED <<made, live>>

RegistryRestarts ==
    /\ last # None
    /\ last' = None /\ lost' = 0 /\ messages' = 0
    /\ first' = None /\ top' = None /\ recent' = None
    /\ setback' = 0
    /\ UNCHANGED <<number, made, air, registered, mishaps>>

Next ==
    \/ Send
    \/ SendFails
    \/ PublisherRestarts
    \/ \E d \in air : Lose(d)
    \/ \E d \in air, again \in BOOLEAN : Deliver(d, again)
    \/ \E d \in air : Ignore(d)
    \/ Remove
    \/ Register
    \/ RegistryRestarts

Spec == Init /\ [][Next]_vars

-----------------------------------------------------------------------------
(* Properties. *)

TypeOK ==
    /\ number \in Number
    /\ made \in 0..MaxMade
    /\ air \subseteq [number : Number, made : 1..MaxMade]
    /\ registered \in BOOLEAN
    /\ last \in Number \cup {None}
    /\ {lost, messages, setback} \subseteq Nat
    /\ {first, top, recent} \subseteq 1..MaxMade \cup {None}
    /\ mishaps \subseteq {"missing", "restart", "repointed", "overtaken", "again", "burst"}

\* Through every wrap of the numbers, and though registrations come and go, the
\* count is exact as long as datagrams arrive in order, once, and fewer than 2^15 - 1
\* are missing in a row (listener.py:49-53).
LossIsExact ==
    mishaps \subseteq {"missing"} /\ messages > 0 => messages + lost = top - first + 1

\* Reordering and duplication may make the registry count too many, never too few.
LossIsNotHidden ==
    mishaps \subseteq {"missing", "overtaken", "again"} /\ messages > 0 =>
        messages + lost >= top - first + 1

\* A datagram that comes late or again takes the registry back to its number, and what
\* came in between is counted once more when the next one arrives, and no more than that:
\* what is seen and counted exceeds what was sent by exactly the distances of such
\* datagrams (listener.py:49-54).
FalseLossIsTheSetback ==
    mishaps \subseteq {"missing", "overtaken", "again"} /\ messages > 0 =>
        messages + lost = recent - first + 1 + setback

\* "publisher restarts: sequence numbers reset; subscribers accept resets"
\* (ARCHITECTURE.md:94): a restart alone is not counted as loss.
ResetsAreAccepted == mishaps \subseteq {"restart"} => lost = 0

=============================================================================
