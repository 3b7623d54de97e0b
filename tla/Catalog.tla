------------------------------- MODULE Catalog -------------------------------
(***************************************************************************)
(* What the registry's store promises, with none of its data structures: a *)
(* phonebook in which every wire triple belongs to at most one name, and a *)
(* saved copy that a restart brings back.                                  *)
(***************************************************************************)
CONSTANTS Names,      \* publication names
          Streams,    \* wire triples (publisher, writer group, dataset writer)
          Absent      \* what a name that is not registered maps to; not a triple

VARIABLES running,    \* is the registry answering?
          live,       \* the phonebook it answers from
          saved       \* the claims <<name, triple>> of the saved copy

vars == <<running, live, saved>>

Injective(f) ==
    \A m, n \in Names : m # n /\ f[m] = f[n] => f[n] = Absent

Assignments == {f \in [Names -> Streams \cup {Absent}] : Injective(f)}

ClaimsOf(f) == {c \in Names \X Streams : f[c[1]] = c[2]}

Init ==
    /\ running = FALSE
    /\ live = [n \in Names |-> Absent]
    /\ saved = {}

\* A name takes a triple that no other name holds, giving up the one it had.
Assign(n, s) ==
    /\ running
    /\ \A m \in Names \ {n} : live[m] # s
    /\ live' = [live EXCEPT ![n] = s]
    /\ UNCHANGED <<running, saved>>

Release(n) ==
    /\ running
    /\ live' = [live EXCEPT ![n] = Absent]
    /\ UNCHANGED <<running, saved>>

Save ==
    /\ running
    /\ saved' = ClaimsOf(live)
    /\ UNCHANGED <<running, live>>

Stop ==
    /\ running' = FALSE
    /\ live' = [n \in Names |-> Absent]
    /\ UNCHANGED saved

\* The saved copy is replaced from outside while the registry is down.
Replaced(claims) ==
    /\ ~running
    /\ saved' = claims
    /\ UNCHANGED <<running, live>>

\* A restart keeps of the saved claims as many as can stand together: one is
\* dropped only for another of the same triple or the same name.
Recover(f) ==
    /\ ~running
    /\ running' = TRUE
    /\ ClaimsOf(f) \subseteq saved
    /\ \A c \in saved \ ClaimsOf(f) :
          \E kept \in ClaimsOf(f) : kept[1] = c[1] \/ kept[2] = c[2]
    /\ live' = f
    /\ UNCHANGED saved

\* Or finds the saved copy unreadable, puts it aside and starts empty.
StartEmpty ==
    /\ ~running
    /\ running' = TRUE
    /\ live' = [n \in Names |-> Absent]
    /\ saved' = {}

Next ==
    \/ \E n \in Names, s \in Streams : Assign(n, s)
    \/ \E n \in Names : Release(n)
    \/ Save
    \/ Stop
    \/ \E claims \in SUBSET (Names \X Streams) : Replaced(claims)
    \/ \E f \in Assignments : Recover(f)
    \/ StartEmpty

Spec == Init /\ [][Next]_vars

=============================================================================
