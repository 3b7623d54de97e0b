-------------------------------- MODULE Mirror --------------------------------
(***************************************************************************)
(* A follower registry (create_app with mirror_of): every ten seconds it   *)
(* asks the primary for its list and merges it into its own store, while   *)
(* clients change both.  The merge runs without a suspension, so requests  *)
(* to the follower never fall inside it; the list it merges is as old as   *)
(* the answer took to arrive.                                              *)
(*                                                                         *)
(* The clock is the number of requests accepted so far.  "written", which  *)
(* no registry stores, is when the client stated the content of a copy.    *)
(***************************************************************************)
EXTENDS Registrations, Naturals

CONSTANTS Skew,         \* how far the follower's clock is ahead of the primary's
          MaxRequests   \* bound on the requests accepted

ASSUME MirrorConstants ==
    /\ Skew \in Nat /\ MaxRequests \in Nat
    /\ Absent \notin [stream : Streams, registered : Nat, written : Nat]

Dates == 0..(MaxRequests + Skew)

Copy == [stream : Streams, registered : Dates, written : Dates]

\* An element of the list the primary answers with.
Entry == [name : Names, copy : Copy]

VARIABLES
    primary, follower,   \* the stores' _by_name
    file,                \* the follower's store file
    clock,
    pc,                  \* the mirror loop: "asleep", "asked", "answered", "merging"
    listed,              \* the list it received, or is about to
    rest                 \* entries it has not merged yet

followerVars == <<primary, follower, file, clock, pc, listed, rest>>

loop == <<pc, listed, rest>>

\* The names that hold a triple in a store.
Holders(store, s) == {n \in Names : store[n] # Absent /\ store[n].stream = s}

\* Store.register on a store, at the given time: a name keeps the date of its
\* first registration.
Stored(store, n, s, now, written) ==
    [store EXCEPT ![n] =
        [stream |-> s,
         registered |-> IF store[n] = Absent THEN now ELSE store[n].registered,
         written |-> written]]

Refused(store, n, s) == Holders(store, s) \ {n} # {}

FollowerInit ==
    /\ primary = [n \in Names |-> Absent]
    /\ follower = [n \in Names |-> Absent]
    /\ file = follower
    /\ clock = 0
    /\ pc = "asleep"
    /\ listed = {}
    /\ rest = {}

-----------------------------------------------------------------------------
(* Requests.  PUT without "replace" is refused for a name that is taken. *)

PutPrimary(n, s, replace) ==
    /\ clock < MaxRequests
    /\ primary[n] # Absent => replace
    /\ ~Refused(primary, n, s)
    /\ clock' = clock + 1
    /\ primary' = Stored(primary, n, s, clock', clock')
    /\ UNCHANGED <<follower, file, loop>>

DeletePrimary(n) ==
    /\ primary[n] # Absent
    /\ primary' = [primary EXCEPT ![n] = Absent]
    /\ UNCHANGED <<follower, file, clock, loop>>

PutFollower(n, s, replace) ==
    /\ clock < MaxRequests
    /\ pc # "merging"
    /\ follower[n] # Absent => replace
    /\ ~Refused(follower, n, s)
    /\ clock' = clock + 1
    /\ follower' = Stored(follower, n, s, clock' + Skew, clock')
    /\ file' \in {follower', file}
    /\ UNCHANGED <<primary, loop>>

DeleteFollower(n) ==
    /\ pc # "merging"
    /\ follower[n] # Absent
    /\ follower' = [follower EXCEPT ![n] = Absent]
    /\ file' \in {follower', file}
    /\ UNCHANGED <<primary, clock, loop>>

-----------------------------------------------------------------------------
(* The mirror loop. *)

\* Faulty: a pass begins before the last one has ended.
AskAgain ==
    /\ pc' = "asked"
    /\ listed' = {}
    /\ UNCHANGED <<primary, follower, file, clock, rest>>

Ask ==
    /\ pc = "asleep"
    /\ pc' = "asked"
    /\ listed' = {}
    /\ UNCHANGED <<primary, follower, file, clock, rest>>

Answer ==
    /\ pc = "asked"
    /\ listed' = {[name |-> n, copy |-> primary[n]] :
                     n \in {m \in Names : primary[m] # Absent}}
    /\ pc' = "answered"
    /\ UNCHANGED <<primary, follower, file, clock, rest>>

\* No connection, no answer within five seconds, or an unreadable one.
Fail ==
    /\ pc \in {"asked", "answered"}
    /\ pc' = "asleep"
    /\ UNCHANGED <<primary, follower, file, clock, listed, rest>>

Receive ==
    /\ pc = "answered"
    /\ pc' = "merging"
    /\ rest' = listed
    /\ UNCHANGED <<primary, follower, file, clock, listed>>

\* Faulty: what is absent is not adopted.
NewerOnly(e) ==
    /\ follower[e.name] # Absent
    /\ e.copy.registered > follower[e.name].registered

\* "adopt if absent, or if the primary's copy is newer"
Newer(e) ==
    follower[e.name] # Absent => e.copy.registered > follower[e.name].registered

Skip(e) ==
    /\ pc = "merging" /\ e \in rest
    /\ ~Newer(e)
    /\ rest' = rest \ {e}
    /\ UNCHANGED <<primary, follower, file, clock, pc, listed>>

\* StoreError: logged, and the next entry is tried.
Collide(e) ==
    /\ pc = "merging" /\ e \in rest
    /\ Newer(e)
    /\ Refused(follower, e.name, e.copy.stream)
    /\ rest' = rest \ {e}
    /\ UNCHANGED <<primary, follower, file, clock, pc, listed>>

\* Faulty: the other name that holds the triple is not looked for.
AdoptBlindly(e) ==
    /\ pc = "merging" /\ e \in rest
    /\ Newer(e)
    /\ follower' = Stored(follower, e.name, e.copy.stream, clock + Skew, e.copy.written)

Adopt(e) ==
    /\ pc = "merging" /\ e \in rest
    /\ Newer(e)
    /\ ~Refused(follower, e.name, e.copy.stream)
    /\ follower' = Stored(follower, e.name, e.copy.stream, clock + Skew, e.copy.written)

AdoptAndGoOn(e) ==
    /\ Adopt(e)
    /\ file' = follower'
    /\ rest' = rest \ {e}
    /\ UNCHANGED <<primary, clock, pc, listed>>

\* The store changes in memory and cannot write its file: the pass is given up.
AdoptAndGiveUp(e) ==
    /\ Adopt(e)
    /\ rest' = {}
    /\ pc' = "asleep"
    /\ UNCHANGED <<primary, file, clock, listed>>

EndPass ==
    /\ pc = "merging"
    /\ rest = {}
    /\ pc' = "asleep"
    /\ UNCHANGED <<primary, follower, file, clock, listed, rest>>

\* The follower restarts from its store file; a pass in progress is forgotten.
Restart ==
    /\ pc # "asleep" \/ follower # file
    /\ follower' = file
    /\ pc' = "asleep"
    /\ rest' = {}
    /\ UNCHANGED <<primary, file, clock, listed>>

Merge(n) == \E e \in rest : e.name = n /\ (Skip(e) \/ Collide(e) \/ AdoptAndGoOn(e))

FollowerNext ==
    \/ \E n \in Names, s \in Streams, replace \in BOOLEAN : PutPrimary(n, s, replace)
    \/ \E n \in Names, s \in Streams, replace \in BOOLEAN : PutFollower(n, s, replace)
    \/ \E n \in Names : DeletePrimary(n)
    \/ \E n \in Names : DeleteFollower(n)
    \/ Ask
    \/ Answer
    \/ Fail
    \/ Receive
    \/ \E n \in Names : Merge(n)
    \/ \E e \in rest : AdoptAndGiveUp(e)
    \/ EndPass
    \/ Restart

FollowerSpec == FollowerInit /\ [][FollowerNext]_followerVars

\* The loop never stops; the network, the disk and the follower's host do not
\* fail every time.
FairSpec ==
    /\ FollowerSpec
    /\ WF_followerVars(Ask) /\ SF_followerVars(Answer)
    /\ SF_followerVars(Receive) /\ SF_followerVars(EndPass)
    /\ \A n \in Names : SF_followerVars(Merge(n))

-----------------------------------------------------------------------------
(* Properties. *)

FollowerTypeOK ==
    /\ primary \in [Names -> Copy \cup {Absent}]
    /\ follower \in [Names -> Copy \cup {Absent}]
    /\ file \in [Names -> Copy \cup {Absent}]
    /\ clock \in 0..MaxRequests
    /\ pc \in {"asleep", "asked", "answered", "merging"}
    /\ listed \subseteq Entry
    /\ rest \subseteq listed

\* Between two sources of registrations, the follower still gives no triple to
\* two names (service.py:129-133, store.py:204).
UniqueTriples ==
    \A m, n \in Names : m # n /\ follower[m] # Absent /\ follower[n] # Absent =>
        follower[m].stream # follower[n].stream

\* What stays registered at the primary is at the follower again and again, if
\* the follower gives its triple to nobody else: after an outage of either, and
\* after removals at the follower (service.py:103-108).
Converges ==
    \A n \in Names, s \in Streams :
        <>[](/\ primary[n] # Absent /\ primary[n].stream = s
             /\ Holders(follower, s) \subseteq {n})
        => []<>(follower[n] # Absent)

\* "merges anything it does not have (or has older)" (service.py:104-105): when a
\* pass ends, no copy says other than an entry of the list that was written after
\* it, except where the follower uses the triple for another name.
NothingOlderKept ==
    [][pc = "merging" /\ pc' = "asleep" /\ rest = {} =>
          \A e \in listed :
              follower[e.name] # Absent /\ follower[e.name].stream # e.copy.stream =>
                  \/ follower[e.name].written >= e.copy.written
                  \/ Refused(follower, e.name, e.copy.stream)]_followerVars

=============================================================================
