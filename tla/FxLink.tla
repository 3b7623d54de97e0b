-------------------------------- MODULE FxLink --------------------------------
(***************************************************************************)
(* Managers that wire a dataset of one FX server into a dataset of another *)
(* (fx.py, link and unlink).  A manager awaits one call at a time; a call   *)
(* may be refused, its await may raise, and it may be cancelled.  When the  *)
(* await raises the request may never have arrived, may still arrive, or    *)
(* may have been carried out with only its answer lost.                     *)
(*                                                                         *)
(* The servers are external: what they accept is what the manager's code    *)
(* and its tests say of them.  A connection is identified by its name, so   *)
(* is a close.  "by", which no server stores, is the manager whose request  *)
(* established a connection.  What may go wrong in a behaviour is chosen   *)
(* with the initial state, as one of Scenarios: a server may also refuse to *)
(* close a connection that is up.                                          *)
(***************************************************************************)

CONSTANTS Managers, Servers, Names, Datasets,
          Scenarios,      \* who takes part, and what may go wrong
          None

Plan == [publisher : Servers, subscriber : Servers, name : Names,
         output : Datasets, input : Datasets]

Establishing == {"establish publisher", "establish subscriber"}

\* _safe_close of the publisher: the subscriber failed, the publisher's answer named no
\* wire coordinates, or the manager was cancelled.
RollingBack == {"roll back", "roll back unwired", "roll back cancelled"}

Closing == {"close subscriber", "close publisher"}
Confirming == {"confirm subscriber", "confirm publisher"}

Reading == {"read publisher", "read subscriber"}

\* The awaits of link, wait_operational and unlink.
Awaits == Establishing \cup RollingBack \cup Reading \cup Closing \cup Confirming

Sides == {"subscriber", "publisher"}

\* The managers that take part, the links they may be asked for, the awaits that may
\* raise, those at which a manager may be cancelled, whether a server may end a
\* connection by itself, and whether it may refuse to close one.
Scenario == [managers : SUBSET Managers, plans : SUBSET Plan, lossy : SUBSET Awaits,
             cancellable : SUBSET Awaits, drops : BOOLEAN, stuck : BOOLEAN]

ASSUME FxConstants ==
    /\ Scenarios \subseteq Scenario
    /\ \A s \in Scenarios : \A p \in s.plans : p.publisher # p.subscriber

VARIABLES
    faults,     \* the scenario; it never changes
    plan,       \* what each manager was asked for
    pc,         \* where each manager is: an await, or how it ended
    requests,   \* requests on their way to a server, awaited or abandoned
    answer,     \* the answer on its way to a manager
    seen,       \* did the poll of wait_operational see the publisher operational?
    first,      \* the side a manager's unlink closes first
    errors,     \* the sides a manager reported it could not close
    conn        \* the live connections of each server, by name

polling == <<seen, first>>

vars == <<faults, plan, pc, requests, answer, seen, first, errors, conn>>

Connection == [by : Managers, role : Sides, dataset : Datasets,
               status : {"starting", "operational"}]

Request == [by : Managers, await : Awaits, awaited : BOOLEAN]

Awaited(m, await) == [by |-> m, await |-> await, awaited |-> TRUE]

Statuses == {"down", "starting", "operational"}

Answers == {"good", "refused"} \cup Statuses

ASSUME NoneIsNothing == None \notin Answers /\ None \notin Connection

\* The server a manager's await is about, and its part in the link.
RoleAt(await) ==
    IF await \in RollingBack \cup {"establish publisher", "read publisher", "close publisher",
                                   "confirm publisher"}
    THEN "publisher" ELSE "subscriber"

ServerAt(m, await) ==
    IF RoleAt(await) = "publisher" THEN plan[m].publisher ELSE plan[m].subscriber

DatasetAt(m, await) ==
    IF RoleAt(await) = "publisher" THEN plan[m].output ELSE plan[m].input

Send(m, await) ==
    /\ pc' = [pc EXCEPT ![m] = await]
    /\ requests' = requests \cup {Awaited(m, await)}

End(m, how) ==
    /\ pc' = [pc EXCEPT ![m] = how]
    /\ UNCHANGED requests

Init ==
    /\ faults \in Scenarios
    /\ plan \in [Managers -> faults.plans]
    /\ pc = [m \in Managers |-> IF m \in faults.managers THEN "idle" ELSE "absent"]
    /\ requests = {}
    /\ answer = [m \in Managers |-> None]
    /\ seen = [m \in Managers |-> FALSE]
    /\ first = [m \in Managers |-> "subscriber"]
    /\ errors = [m \in Managers |-> {}]
    /\ conn = [v \in Servers |-> [x \in Names |-> None]]

-----------------------------------------------------------------------------
(* The servers. *)

\* Faulty: the name of the connection is stored for its dataset.
EstablishMixedUp(v, m, await) ==
    /\ conn[v][plan[m].name] = None
    /\ conn' = [conn EXCEPT ![v][plan[m].name] =
          [by |-> m, role |-> RoleAt(await), dataset |-> plan[m].name, status |-> "starting"]]

\* Established: unless the name is in use, or the dataset in that direction.
Establish(v, m, await) ==
    /\ conn[v][plan[m].name] = None
    /\ \A x \in Names : conn[v][x] # None =>
          \/ conn[v][x].role # RoleAt(await)
          \/ conn[v][x].dataset # DatasetAt(m, await)
    /\ conn' = [conn EXCEPT ![v][plan[m].name] =
          [by |-> m, role |-> RoleAt(await), dataset |-> DatasetAt(m, await),
           status |-> "starting"]]

\* The answer to a request; it reaches the manager if it is still awaited.
Reply(r, result) ==
    /\ requests' = requests \ {r}
    /\ answer' = [answer EXCEPT ![r.by] = IF r.awaited THEN result ELSE @]
    /\ UNCHANGED <<faults, plan, pc, polling, errors>>

\* An establish may also be refused for reasons of the server's own.
ServeEstablish(r) ==
    /\ r \in requests /\ r.await \in Establishing
    /\ \/ Establish(ServerAt(r.by, r.await), r.by, r.await) /\ Reply(r, "good")
       \/ Reply(r, "refused") /\ UNCHANGED conn

ServeClose(r) ==
    LET v == ServerAt(r.by, r.await)
        name == plan[r.by].name
    IN  /\ r \in requests /\ r.await \in Closing \cup RollingBack
        /\ Reply(r, IF conn[v][name] = None THEN "refused" ELSE "good")
        /\ conn' = [conn EXCEPT ![v][name] = None]

\* A server may hold on to a connection it is asked to close (tests/test_fx.py:383-398).
RefuseClose(r) ==
    /\ faults.stuck
    /\ r \in requests /\ r.await \in Closing \cup RollingBack
    /\ conn[ServerAt(r.by, r.await)][plan[r.by].name] # None
    /\ Reply(r, "refused")
    /\ UNCHANGED conn

Status(c) == IF c = None THEN "down" ELSE c.status

ServeRead(r) ==
    /\ r \in requests /\ r.await \in Confirming \cup Reading
    /\ Reply(r, Status(conn[ServerAt(r.by, r.await)][plan[r.by].name]))
    /\ UNCHANGED conn

\* A connection goes operational: the subscriber's with the first data.
Operate(v, x) ==
    /\ conn[v][x] # None
    /\ conn[v][x].status = "starting"
    /\ conn' = [conn EXCEPT ![v][x].status = "operational"]
    /\ UNCHANGED <<faults, plan, pc, requests, answer, polling, errors>>

Drop(v, x) ==
    /\ faults.drops
    /\ conn[v][x] # None
    /\ conn' = [conn EXCEPT ![v][x] = None]
    /\ UNCHANGED <<faults, plan, pc, requests, answer, polling, errors>>

-----------------------------------------------------------------------------
(* link *)

Link(m) ==
    /\ pc[m] = "idle"
    /\ Send(m, "establish publisher")
    /\ UNCHANGED <<faults, plan, answer, polling, errors, conn>>

\* A name the servers' self-descriptions do not offer: nothing is sent.
LinkRejected(m) ==
    /\ pc[m] = "idle"
    /\ End(m, "failed")
    /\ UNCHANGED <<faults, plan, answer, polling, errors, conn>>

\* The awaited answer has arrived.
Answered(m, await, results) ==
    /\ pc[m] = await
    /\ answer[m] \in results
    /\ answer' = [answer EXCEPT ![m] = None]
    /\ UNCHANGED <<faults, plan, conn>>

PublisherUp(m) ==
    /\ Answered(m, "establish publisher", {"good"})
    /\ Send(m, "establish subscriber")
    /\ UNCHANGED <<polling, errors>>

\* Established, but the answer names no wire coordinates.
NoCoordinates(m) ==
    /\ Answered(m, "establish publisher", {"good"})
    /\ Send(m, "roll back unwired")
    /\ UNCHANGED <<polling, errors>>

\* Faulty: rolled back although nothing was established.
PublisherRefusedRollBack(m) ==
    /\ Answered(m, "establish publisher", {"refused"})
    /\ Send(m, "roll back")
    /\ UNCHANGED <<polling, errors>>

PublisherRefused(m) ==
    /\ Answered(m, "establish publisher", {"refused"})
    /\ End(m, "failed")
    /\ UNCHANGED <<polling, errors>>

SubscriberUp(m) ==
    /\ Answered(m, "establish subscriber", {"good"})
    /\ End(m, "linked")
    /\ UNCHANGED <<polling, errors>>

SubscriberRefused(m) ==
    /\ Answered(m, "establish subscriber", {"refused"})
    /\ Send(m, "roll back")
    /\ UNCHANGED <<polling, errors>>

\* How link ends after a rollback: with an FxError, or cancelled.
Ending(await) ==
    CASE await = "roll back" -> "failed"
      [] await = "roll back unwired" -> "unwired"
      [] await = "roll back cancelled" -> "aborted"

\* _safe_close returns what went wrong, and never raises it: only the error of a
\* subscriber that failed goes on to report it.
RollBackFails(m, await) ==
    errors' = [errors EXCEPT ![m] = IF await = "roll back" THEN @ \cup {"publisher"} ELSE @]

\* Faulty: a refused rollback is not reported.
RolledBackSilently(m) ==
    \E await \in RollingBack :
        /\ Answered(m, await, {"good", "refused"})
        /\ End(m, Ending(await))
        /\ UNCHANGED <<polling, errors>>

RolledBack(m) ==
    \E await \in RollingBack :
        /\ \/ Answered(m, await, {"good"}) /\ UNCHANGED errors
           \/ Answered(m, await, {"refused"}) /\ RollBackFails(m, await)
        /\ End(m, Ending(await))
        /\ UNCHANGED polling

-----------------------------------------------------------------------------
(* wait_operational: reads the publisher's status, then the subscriber's, until one *)
(* poll finds both operational or the deadline passes.                              *)

\* Faulty: an endpoint that answers is operational.
IsOperationalIfThere(status) == status # "down"

IsOperational(status) == status = "operational"

WaitOperational(m) ==
    /\ pc[m] = "linked"
    /\ Send(m, "read publisher")
    /\ UNCHANGED <<faults, plan, answer, polling, errors, conn>>

PublisherRead(m) ==
    \E status \in Statuses :
        /\ Answered(m, "read publisher", {status})
        /\ seen' = [seen EXCEPT ![m] = IsOperational(status)]
        /\ Send(m, "read subscriber")
        /\ UNCHANGED <<first, errors>>

\* The poll is over: it returns, polls again, or finds the deadline passed.
SubscriberRead(m) ==
    \E status \in Statuses :
        /\ Answered(m, "read subscriber", {status})
        /\ IF seen[m] /\ IsOperational(status)
           THEN End(m, "operational")
           ELSE Send(m, "read publisher") \/ End(m, "linked")
        /\ seen' = [seen EXCEPT ![m] = FALSE]
        /\ UNCHANGED <<first, errors>>

-----------------------------------------------------------------------------
(* unlink: one side, then the other, however the first one went.  The library closes *)
(* the subscriber first, the command `fx unlink` its servers in the order given; the  *)
(* command may also be what is left when a manager was cancelled in its unlink.       *)

CloseOf(side) == IF side = "subscriber" THEN "close subscriber" ELSE "close publisher"

Other(side) == IF side = "subscriber" THEN "publisher" ELSE "subscriber"

Unlink(m) ==
    /\ pc[m] \in {"linked", "operational", "unlink failed", "cancelled"}
    /\ \E side \in Sides : first' = [first EXCEPT ![m] = side] /\ Send(m, CloseOf(side))
    /\ errors' = [errors EXCEPT ![m] = {}]
    /\ UNCHANGED <<faults, plan, answer, seen, conn>>

\* One side is dealt with, with or without an error.
SideDone(m, side, failed) ==
    LET found == errors[m] \cup (IF failed THEN {side} ELSE {})
    IN  /\ errors' = [errors EXCEPT ![m] = found]
        /\ UNCHANGED polling
        /\ IF side = first[m] THEN Send(m, CloseOf(Other(side)))
           ELSE End(m, IF found = {} THEN "unlinked" ELSE "unlink failed")

Closed(m) ==
    \E await \in Closing :
        Answered(m, await, {"good"}) /\ SideDone(m, RoleAt(await), FALSE)

\* Faulty: every refused close is an error.
CloseRefusedFails(m) ==
    \E await \in Closing :
        Answered(m, await, {"refused"}) /\ SideDone(m, RoleAt(await), TRUE)

\* A refused close is no error if the side turns out to be down.
CloseRefused(m) ==
    \E side \in Sides :
        /\ Answered(m, CloseOf(side), {"refused"})
        /\ Send(m, IF side = "subscriber" THEN "confirm subscriber" ELSE "confirm publisher")
        /\ UNCHANGED <<polling, errors>>

\* Faulty: a refused close is taken for a side that is down.
ConfirmedAnyway(m) ==
    \E await \in Confirming :
        Answered(m, await, Statuses) /\ SideDone(m, RoleAt(await), FALSE)

Confirmed(m) ==
    \E await \in Confirming, status \in Statuses :
        Answered(m, await, {status}) /\ SideDone(m, RoleAt(await), status # "down")

-----------------------------------------------------------------------------
(* The await raises, before or after the request was served. *)

Raise(m, await) ==
    /\ pc[m] = await
    /\ answer' = [answer EXCEPT ![m] = None]
    /\ UNCHANGED <<faults, plan, conn>>

\* What is on its way once m no longer awaits: its request, if it is still to be
\* served, may arrive late or be lost.
Late(m, await) ==
    IF Awaited(m, await) \in requests
    THEN (requests \ {Awaited(m, await)}) \cup
         {[by |-> m, await |-> await, awaited |-> FALSE]}
    ELSE requests

Lost(m, await) == requests \ {Awaited(m, await)}

\* link fails, or rolls the publisher back first.
LinkRaises(m, await, to, left) ==
    /\ await \in Establishing \cup RollingBack
    /\ Raise(m, await)
    /\ pc' = [pc EXCEPT ![m] = to]
    /\ requests' = left \cup (IF to \in RollingBack THEN {Awaited(m, to)} ELSE {})
    /\ UNCHANGED polling

\* A transport failure.
LoseLink(m, await) ==
    \E left \in {Late(m, await), Lost(m, await)} :
        \/ /\ LinkRaises(m, await,
                         IF await = "establish subscriber" THEN "roll back" ELSE "failed", left)
           /\ await \in Establishing
           /\ UNCHANGED errors
        \/ /\ await \in RollingBack
           /\ LinkRaises(m, await, Ending(await), left)
           /\ RollBackFails(m, await)

\* unlink records the failure and goes on to the other side.
LoseUnlink(m, await) ==
    /\ await \in Closing \cup Confirming
    /\ Raise(m, await)
    /\ errors' = [errors EXCEPT ![m] = @ \cup {RoleAt(await)}]
    /\ UNCHANGED polling
    /\ \E left \in {Late(m, await), Lost(m, await)} :
          IF RoleAt(await) = first[m]
          THEN LET next == CloseOf(Other(first[m]))
               IN  /\ pc' = [pc EXCEPT ![m] = next]
                   /\ requests' = left \cup {Awaited(m, next)}
          ELSE /\ pc' = [pc EXCEPT ![m] = "unlink failed"]
               /\ requests' = left

\* wait_operational passes on what a read raises, a cancellation too; the link stays.
WaitRaises(m, await) ==
    /\ await \in Reading
    /\ Raise(m, await)
    /\ pc' = [pc EXCEPT ![m] = "linked"]
    /\ requests' \in {Late(m, await), Lost(m, await)}
    /\ seen' = [seen EXCEPT ![m] = FALSE]
    /\ UNCHANGED <<first, errors>>

\* A cancellation.  The rollback is shielded from it: its request is not lost.
CancelLink(m, await) ==
    /\ \E left \in {Late(m, await)} \cup
                    (IF await \in RollingBack THEN {} ELSE {Lost(m, await)}) :
          LinkRaises(m, await,
                     IF await = "establish subscriber" THEN "roll back cancelled" ELSE "aborted",
                     left)
    /\ UNCHANGED errors

\* unlink does not go on to the other side.
CancelUnlink(m, await) ==
    /\ await \in Closing \cup Confirming
    /\ Raise(m, await)
    /\ pc' = [pc EXCEPT ![m] = "cancelled"]
    /\ requests' \in {Late(m, await), Lost(m, await)}
    /\ UNCHANGED <<polling, errors>>

Next ==
    \/ \E r \in requests :
          ServeEstablish(r) \/ ServeClose(r) \/ RefuseClose(r) \/ ServeRead(r)
    \/ \E v \in Servers, x \in Names : Operate(v, x) \/ Drop(v, x)
    \/ \E m \in Managers :
          \/ Link(m) \/ LinkRejected(m)
          \/ PublisherUp(m) \/ NoCoordinates(m) \/ PublisherRefused(m)
          \/ SubscriberUp(m) \/ SubscriberRefused(m) \/ RolledBack(m)
          \/ WaitOperational(m) \/ PublisherRead(m) \/ SubscriberRead(m)
          \/ Unlink(m) \/ Closed(m) \/ CloseRefused(m) \/ Confirmed(m)
          \/ \E await \in faults.lossy :
                LoseLink(m, await) \/ LoseUnlink(m, await) \/ WaitRaises(m, await)
          \/ \E await \in faults.cancellable : CancelLink(m, await) \/ CancelUnlink(m, await)

Spec == Init /\ [][Next]_vars

\* A server answers what reaches it, and what is answered goes on; a manager whose
\* unlink failed or was cancelled calls it again.
FairSpec ==
    /\ Spec
    /\ \A m \in Managers :
          /\ WF_vars(\E r \in requests :
                        r.by = m /\ (ServeClose(r) \/ RefuseClose(r) \/ ServeRead(r)))
          /\ WF_vars(pc[m] \in {"unlink failed", "cancelled"} /\ Unlink(m))
          /\ WF_vars(Closed(m)) /\ WF_vars(CloseRefused(m)) /\ WF_vars(Confirmed(m))

-----------------------------------------------------------------------------
(* Properties. *)

\* How a link that is not returned has ended.
Failures == {"failed", "unwired", "aborted"}

Ends == {"absent", "idle", "linked", "operational", "unlinked", "unlink failed", "cancelled"}
        \cup Failures

TypeOK ==
    /\ faults \in Scenarios
    /\ plan \in [Managers -> faults.plans]
    /\ pc \in [Managers -> Awaits \cup Ends]
    /\ requests \subseteq Request
    /\ answer \in [Managers -> Answers \cup {None}]
    /\ seen \in [Managers -> BOOLEAN]
    /\ first \in [Managers -> Sides]
    /\ errors \in [Managers -> SUBSET Sides]
    /\ conn \in [Servers -> [Names -> Connection \cup {None}]]

\* The manager's connection, at the end it plays that role at, is live.
Up(m, role) ==
    LET v == IF role = "publisher" THEN plan[m].publisher ELSE plan[m].subscriber
        c == conn[v][plan[m].name]
    IN  c # None /\ c.by = m /\ c.role = role

Settled(m) == \A r \in requests : r.by # m

\* Whoever calls link hears whether the publisher was established, and is told by the
\* answer to a rollback whether it is down.
PublisherAnswered == "establish publisher" \notin faults.lossy \cup faults.cancellable
RollBackAnswered == RollingBack \cap faults.lossy = {} /\ ~faults.stuck

\* A link that failed leaves no publisher emitting that its error does not name, once its
\* requests have been served: a rollback that was refused or lost is in the error of a
\* subscriber that failed.  What the two other ends of a link do not report is a rollback
\* that was refused or lost, and nothing else (fx.py:666-667, :692-696, :702-716).
NoOrphanPublisher ==
    \A m \in Managers :
        PublisherAnswered /\ pc[m] \in Failures /\ Settled(m) /\ Up(m, "publisher") =>
            IF pc[m] = "failed" THEN "publisher" \in errors[m] ELSE ~RollBackAnswered

\* What the error says when the publisher's answer named no coordinates: that the
\* publisher was rolled back (fx.py:694-696).  No run checks it: it does not hold, for link
\* does not look at what became of the rollback.
UnwiredIsRolledBack ==
    \A m \in Managers : pc[m] = "unwired" /\ Settled(m) => ~Up(m, "publisher")

Alone == \A m, n \in faults.managers : m = n

\* No close is carried out late, or asked for again after one side of it was carried out:
\* by then the name may be another manager's, and its connection would be closed.
ClosesAnswered ==
    Closing \cap (faults.lossy \cup faults.cancellable) = {} /\ ~faults.stuck

\* A link that was returned is up at both ends until its manager unlinks it or a server
\* ends it, though others contend for the name and the datasets, roll their own
\* attempts back and unlink their own links (fx.py:686-687, :707).
LinkedMeansBoth ==
    ~faults.drops /\ (Alone \/ ClosesAnswered) =>
        \A m \in Managers : pc[m] \in {"linked", "operational"} \cup Reading =>
            Up(m, "publisher") /\ Up(m, "subscriber")

\* When wait_operational returns, both sides are operational, though it read them one
\* after the other, unless a server ended one meanwhile (fx.py:590-603).
WaitTellsTheTruth ==
    ~faults.drops /\ (Alone \/ ClosesAnswered) =>
        \A m \in Managers : pc[m] = "operational" =>
            /\ conn[plan[m].publisher][plan[m].name].status = "operational"
            /\ conn[plan[m].subscriber][plan[m].name].status = "operational"

\* A manager closes only connections it established: names identify connections,
\* and the loser of a contention must not undo the winner's (fx.py:686-687, :707).
ClosesItsOwn ==
    [][Alone \/ (~faults.drops /\ ClosesAnswered) =>
       \A r \in requests \ requests' : \A v \in Servers, x \in Names :
          r.await \in Closing \cup RollingBack /\ conn[v][x] # None /\ conn'[v][x] = None
          => conn[v][x].by = r.by]_vars

\* When unlink returns, with or without an error, a side that is still up is one it
\* complained of (fx.py:735-737).
UnlinkTellsTheTruth ==
    \A m \in Managers : pc[m] \in {"unlinked", "unlink failed"} =>
        \A side \in Sides : Up(m, side) => side \in errors[m]

\* The outage ends: what m's unlink awaits is answered, and no server refuses to close a
\* connection of m's that is up.
OutageEnds(m) ==
    <>[][/\ pc[m] \in Closing \cup Confirming /\ pc'[m] # pc[m] =>
               Closed(m) \/ CloseRefused(m) \/ Confirmed(m)
         /\ ~\E r \in requests : r.by = m /\ RefuseClose(r)]_vars

\* Called again as long as it fails or is cancelled, unlink succeeds once the outage
\* ends: a side already down is not an error (fx.py:737, :743-745, cli.py:345-352).
UnlinkSucceeds ==
    \A m \in Managers :
        OutageEnds(m) => (pc[m] \in {"unlink failed", "cancelled"} ~> pc[m] = "unlinked")

=============================================================================
