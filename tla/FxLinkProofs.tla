----------------------------- MODULE FxLinkProofs -----------------------------
(***************************************************************************)
(* What holds of link, wait_operational and unlink for any number of        *)
(* managers, servers, names and datasets and in every scenario.             *)
(*                                                                         *)
(* The proofs see a manager's step as a move: it leaves one await, where its *)
(* request may stay behind, and is then at another await or at an end.       *)
(***************************************************************************)
EXTENDS FxLink, TLAPS

Unlinking == Closing \cup Confirming \cup {"unlinked", "unlink failed", "cancelled"}

Linked == {"linked", "operational"} \cup Reading

\* Where a manager may be while a request it no longer awaits is on its way.
After(await) ==
    CASE await = "establish publisher" -> {"failed", "aborted"}
      [] await = "establish subscriber" ->
            {"roll back", "roll back cancelled", "failed", "aborted"}
      [] await \in RollingBack -> {Ending(await), "aborted"}
      [] await \in Reading -> Linked \cup Unlinking
      [] OTHER -> Unlinking

\* Where it may go next.
Follows(from) ==
    CASE from = "idle" -> {"establish publisher", "failed"}
      [] from = "establish publisher" ->
            {"establish subscriber", "roll back unwired", "failed", "aborted"}
      [] from = "establish subscriber" -> {"linked", "roll back", "roll back cancelled"}
      [] from \in RollingBack -> {Ending(from), "aborted"}
      [] from \in Linked -> Linked \cup Closing
      [] from \in Unlinking -> Unlinking
      [] OTHER -> {}

\* What may be answered.
Expected(await) ==
    IF await \in Establishing \cup RollingBack \cup Closing THEN {"good", "refused"} ELSE Statuses

\* A manager goes on: "left" is what remains of the requests once it no longer awaits.
Moves(m, to, left) ==
    /\ UNCHANGED <<faults, plan, conn>>
    /\ pc' = [pc EXCEPT ![m] = to]
    /\ answer' = [answer EXCEPT ![m] = None]
    /\ requests' = left \cup (IF to \in Awaits THEN {Awaited(m, to)} ELSE {})

-----------------------------------------------------------------------------
(* The inductive invariant. *)

\* The manager of a request that is awaited is there, without an answer, and that of
\* another is where it can have left it behind; an answer is one to what is awaited.
Corresponds ==
    /\ \A r \in requests : ~r.awaited => pc[r.by] \in After(r.await)
    /\ \A r \in requests : r.awaited => pc[r.by] = r.await /\ answer[r.by] = None
    /\ \A m \in Managers : answer[m] # None => pc[m] \in Awaits /\ answer[m] \in Expected(pc[m])

\* Only who takes part and has begun has a connection.
Begun ==
    /\ \A m \in Managers \ faults.managers : pc[m] = "absent"
    /\ \A v \in Servers, x \in Names :
          conn[v][x] # None => pc[conn[v][x].by] \notin {"idle", "absent"}

\* A manager has one rollback on its way at most.
RollsBackOnce ==
    \A q, r \in requests :
        q.by = r.by /\ q.await \in RollingBack /\ r.await \in RollingBack => q = r

RollsBack(m) == \E r \in requests : r.by = m /\ r.await \in RollingBack

\* The publisher of a link that is failing is down, its rollback is on its way, or what
\* became of that is known.
Orphaned ==
    PublisherAnswered =>
        /\ \A r \in requests : r.await = "establish publisher" => r.awaited
        /\ \A m \in Managers : Up(m, "publisher") =>
              /\ pc[m] = "establish publisher" => answer[m] = "good"
              /\ pc[m] \in RollingBack =>
                    \/ Awaited(m, pc[m]) \in requests
                    \/ answer[m] = "refused" /\ ~RollBackAnswered
              /\ pc[m] = "failed" => "publisher" \in errors[m]
              /\ pc[m] \in {"unwired", "aborted"} => RollsBack(m) \/ ~RollBackAnswered

\* Only managers end connections, and each its own.
Owned == ~faults.drops /\ (Alone \/ ClosesAnswered)

\* What a manager has been told is up, and it has not asked to close, is up.
Kept ==
    Owned => \A m \in Managers :
        /\ pc[m] = "establish publisher" /\ answer[m] = "good" => Up(m, "publisher")
        /\ pc[m] = "establish subscriber" => Up(m, "publisher")
        /\ pc[m] = "establish subscriber" /\ answer[m] = "good" => Up(m, "subscriber")
        /\ pc[m] \in Linked => Up(m, "publisher") /\ Up(m, "subscriber")

\* A request to close finds the connection up.
Closable ==
    ~faults.drops /\ ClosesAnswered =>
        /\ \A r \in requests : r.await \in RollingBack => Up(r.by, "publisher")
        /\ \A r \in requests : r.await \in Closing => r.awaited
        /\ \A m \in Managers :
              /\ pc[m] \notin Confirming \cup {"unlink failed", "cancelled"}
              /\ pc[m] \in Closing =>
                    /\ answer[m] # "refused" /\ errors[m] = {}
                    /\ answer[m] = None => Up(m, RoleAt(pc[m]))
                    /\ RoleAt(pc[m]) = first[m] => Up(m, Other(first[m]))

StatusOf(m, role) ==
    Status(conn[IF role = "publisher" THEN plan[m].publisher ELSE plan[m].subscriber]
               [plan[m].name])

\* What wait_operational has read is still so.
Read ==
    Owned => \A m \in Managers :
        /\ pc[m] = "read publisher" /\ answer[m] = "operational"
              => StatusOf(m, "publisher") = "operational"
        /\ pc[m] = "read subscriber" /\ seen[m] => StatusOf(m, "publisher") = "operational"
        /\ pc[m] = "read subscriber" /\ answer[m] = "operational"
              => StatusOf(m, "subscriber") = "operational"
        /\ pc[m] = "operational" =>
              StatusOf(m, "publisher") = "operational" /\ StatusOf(m, "subscriber") = "operational"

\* A side that unlink is done with is down or complained of.
Dealt ==
    \A m \in Managers :
        /\ pc[m] \in Closing /\ answer[m] = "good" => ~Up(m, RoleAt(pc[m]))
        /\ pc[m] \in Confirming /\ answer[m] = "down" => ~Up(m, RoleAt(pc[m]))
        /\ pc[m] \in Closing \cup Confirming /\ RoleAt(pc[m]) # first[m] /\ Up(m, first[m])
              => first[m] \in errors[m]
        /\ pc[m] \in {"unlinked", "unlink failed"} =>
              \A side \in Sides : Up(m, side) => side \in errors[m]

-----------------------------------------------------------------------------
(* Steps. *)

ManagerStep(m) ==
    \/ Link(m) \/ LinkRejected(m)
    \/ PublisherUp(m) \/ NoCoordinates(m) \/ PublisherRefused(m)
    \/ SubscriberUp(m) \/ SubscriberRefused(m) \/ RolledBack(m)
    \/ WaitOperational(m) \/ PublisherRead(m) \/ SubscriberRead(m)
    \/ Unlink(m) \/ Closed(m) \/ CloseRefused(m) \/ Confirmed(m)
    \/ \E await \in faults.lossy :
          LoseLink(m, await) \/ LoseUnlink(m, await) \/ WaitRaises(m, await)
    \/ \E await \in faults.cancellable : CancelLink(m, await) \/ CancelUnlink(m, await)

ServerStep(r) == ServeEstablish(r) \/ ServeClose(r) \/ RefuseClose(r) \/ ServeRead(r)

\* Why a manager goes where it goes, as far as link is concerned.
Reason(m, to, left) ==
    /\ pc[m] = "establish publisher" /\ to \notin Failures => answer[m] = "good"
    /\ pc[m] = "establish publisher" /\ to \in Failures =>
          answer[m] = "refused" \/ "establish publisher" \in faults.lossy \cup faults.cancellable
    /\ pc[m] = "establish subscriber" /\ to = "linked" => answer[m] = "good"
    /\ pc[m] \in RollingBack =>
          /\ to = "failed" => answer[m] = "good" \/ "publisher" \in errors'[m]
          /\ answer[m] = None => pc[m] \in faults.lossy \/ left = Late(m, pc[m])
    /\ pc[m] \in Closing /\ answer[m] = None => pc[m] \in faults.lossy \cup faults.cancellable

\* Once an answer has arrived nothing of the request is left.
LEMMA NothingLeft ==
    ASSUME TypeOK, Corresponds, NEW m \in Managers, pc[m] \notin Awaits \/ answer[m] # None
    PROVE  Late(m, pc[m]) = requests /\ Lost(m, pc[m]) = requests
<1>1. Awaited(m, pc[m]) \notin requests
  BY DEF TypeOK, Corresponds, Request, Awaited
<1>2. QED
  BY <1>1 DEF Late, Lost

LEMMA LeftTyped ==
    ASSUME TypeOK, NEW m \in Managers, NEW left \in {Late(m, pc[m]), Lost(m, pc[m])}
    PROVE  left \subseteq Request
<1>1. CASE Awaited(m, pc[m]) \in requests
  <2>1. pc[m] \in Awaits
    BY <1>1 DEF TypeOK, Request, Awaited
  <2>2. [by |-> m, await |-> pc[m], awaited |-> FALSE] \in Request
    BY <2>1 DEF Request
  <2>3. QED
    BY <2>2 DEF TypeOK, Late, Lost
<1>2. CASE Awaited(m, pc[m]) \notin requests
  BY <1>2 DEF TypeOK, Late, Lost
<1>3. QED
  BY <1>1, <1>2

\* Going on, as a predicate of where to.
Goes(m, to) ==
    /\ to \in Follows(pc[m])
    /\ pc[m] \notin Awaits \/ answer[m] # None
    /\ UNCHANGED <<faults, plan, conn>>
    /\ pc' = [pc EXCEPT ![m] = to]
    /\ answer' = [answer EXCEPT ![m] = None]
    /\ requests' = requests \cup (IF to \in Awaits THEN {Awaited(m, to)} ELSE {})

LEMMA GoesOn ==
    ASSUME TypeOK, Corresponds, NEW m \in Managers, NEW to, Goes(m, to),
           pc[m] = "establish publisher" => answer[m] = IF to = "failed" THEN "refused" ELSE "good",
           pc[m] = "establish publisher" => to \notin {"unwired", "aborted"},
           pc[m] = "establish subscriber" /\ to = "linked" => answer[m] = "good",
           pc[m] \in RollingBack /\ to = "failed" => answer[m] = "good" \/ "publisher" \in errors'[m]
    PROVE  \E left \in {Late(m, pc[m]), Lost(m, pc[m])} : Moves(m, to, left) /\ Reason(m, to, left)
<1>1. Moves(m, to, requests)
  BY DEF Moves, Goes
<1>2. Late(m, pc[m]) = requests
  BY NothingLeft DEF Goes
<1>3. Reason(m, to, requests)
  <2>1. pc[m] \in RollingBack \cup Closing => answer[m] # None
    BY DEF Goes, Awaits
  <2>2. QED
    BY <2>1 DEF Reason, Failures
<1>4. QED
  BY <1>1, <1>2, <1>3

LEMMA LinkGoes ==
    ASSUME TypeOK, Corresponds, NEW m \in Managers
    PROVE  /\ Link(m) => Goes(m, "establish publisher")
           /\ LinkRejected(m) => Goes(m, "failed")
           /\ PublisherUp(m) => Goes(m, "establish subscriber") /\ answer[m] = "good"
           /\ NoCoordinates(m) => Goes(m, "roll back unwired") /\ answer[m] = "good"
           /\ PublisherRefused(m) => Goes(m, "failed") /\ answer[m] = "refused"
           /\ SubscriberUp(m) => Goes(m, "linked") /\ answer[m] = "good"
           /\ SubscriberRefused(m) => Goes(m, "roll back") /\ pc[m] = "establish subscriber"
           /\ RolledBack(m) => /\ Goes(m, Ending(pc[m])) /\ pc[m] \in RollingBack
                               /\ pc[m] = "roll back" =>
                                     answer[m] = "good" \/ "publisher" \in errors'[m]
<1> USE DEF Awaits, Establishing, RollingBack, Reading, Closing, Confirming, Follows, Linked,
            Unlinking, Goes
<1>1. Link(m) => Goes(m, "establish publisher")
  <2>1. pc[m] = "idle" => answer[m] = None
    BY DEF Corresponds
  <2>2. QED
    BY <2>1 DEF Link, Send, TypeOK
<1>2. LinkRejected(m) => Goes(m, "failed")
  <2>1. pc[m] = "idle" => answer[m] = None
    BY DEF Corresponds
  <2>2. QED
    BY <2>1 DEF LinkRejected, End, TypeOK
<1>3. PublisherUp(m) => Goes(m, "establish subscriber") /\ answer[m] = "good"
  BY NoneIsNothing DEF PublisherUp, Answered, Send, Answers
<1>4. NoCoordinates(m) => Goes(m, "roll back unwired") /\ answer[m] = "good"
  BY NoneIsNothing DEF NoCoordinates, Answered, Send, Answers
<1>5. PublisherRefused(m) => Goes(m, "failed") /\ answer[m] = "refused"
  BY NoneIsNothing DEF PublisherRefused, Answered, End, Answers
<1>6. SubscriberUp(m) => Goes(m, "linked") /\ answer[m] = "good"
  BY NoneIsNothing DEF SubscriberUp, Answered, End, Answers
<1>7. SubscriberRefused(m) => Goes(m, "roll back") /\ pc[m] = "establish subscriber"
  BY NoneIsNothing DEF SubscriberRefused, Answered, Send, Answers
<1>8. ASSUME RolledBack(m)
      PROVE  /\ Goes(m, Ending(pc[m])) /\ pc[m] \in RollingBack
             /\ pc[m] = "roll back" => answer[m] = "good" \/ "publisher" \in errors'[m]
  <2>1. PICK await \in RollingBack :
           /\ \/ Answered(m, await, {"good"}) /\ UNCHANGED errors
              \/ Answered(m, await, {"refused"}) /\ RollBackFails(m, await)
           /\ End(m, Ending(await))
    BY <1>8 DEF RolledBack
  <2>2. pc[m] = await /\ answer[m] # None
    BY <2>1, NoneIsNothing DEF Answered, Answers
  <2>3. Goes(m, Ending(await))
    BY <2>1, <2>2 DEF Answered, End, Ending
  <2>4. await = "roll back" => answer[m] = "good" \/ "publisher" \in errors'[m]
    BY <2>1 DEF Answered, RollBackFails, TypeOK
  <2>5. QED
    BY <2>2, <2>3, <2>4
<1>9. QED
  BY <1>1, <1>2, <1>3, <1>4, <1>5, <1>6, <1>7, <1>8

LEMMA WaitGoes ==
    ASSUME TypeOK, Corresponds, NEW m \in Managers
    PROVE  /\ WaitOperational(m) => Goes(m, "read publisher")
           /\ PublisherRead(m) => Goes(m, "read subscriber")
           /\ SubscriberRead(m) => \/ Goes(m, "operational") /\ seen[m] /\ answer[m] = "operational"
                                   \/ Goes(m, "read publisher") \/ Goes(m, "linked")
<1> USE DEF Awaits, Establishing, RollingBack, Reading, Closing, Confirming, Follows, Linked,
            Unlinking, Goes
<1>1. WaitOperational(m) => Goes(m, "read publisher")
  BY NoneIsNothing DEF WaitOperational, Send, TypeOK, Corresponds
<1>2. PublisherRead(m) => Goes(m, "read subscriber")
  BY NoneIsNothing DEF PublisherRead, Answered, Send, Answers
<1>3. ASSUME NEW status \in Statuses, Answered(m, "read subscriber", {status}),
             IF seen[m] /\ IsOperational(status) THEN End(m, "operational")
             ELSE Send(m, "read publisher") \/ End(m, "linked")
      PROVE  \/ Goes(m, "operational") /\ seen[m] /\ answer[m] = "operational"
             \/ Goes(m, "read publisher") \/ Goes(m, "linked")
  <2>1. /\ pc[m] = "read subscriber" /\ answer[m] = status /\ answer[m] # None
        /\ answer' = [answer EXCEPT ![m] = None]
        /\ UNCHANGED <<faults, plan, conn>>
    BY <1>3, NoneIsNothing DEF Answered, Answers
  <2>2. CASE seen[m] /\ IsOperational(status)
    BY <2>1, <2>2, <1>3 DEF End, IsOperational
  <2>3. CASE Send(m, "read publisher")
    BY <2>1, <2>3 DEF Send
  <2>4. CASE End(m, "linked")
    BY <2>1, <2>4 DEF End
  <2>5. QED
    BY <2>2, <2>3, <2>4, <1>3
<1>4. QED
  BY <1>1, <1>2, <1>3 DEF SubscriberRead

\* What unlink does once it is done with a side.
LEMMA SideGoes ==
    ASSUME TypeOK, NEW m \in Managers, NEW side \in Sides, NEW failed \in BOOLEAN,
           NEW await \in Closing \cup Confirming, NEW results \in SUBSET Answers,
           Answered(m, await, results), SideDone(m, side, failed)
    PROVE  \E to \in Unlinking : Goes(m, to)
<1> USE DEF Awaits, Establishing, RollingBack, Reading, Closing, Confirming, Follows, Linked,
            Unlinking, Goes
<1>1. /\ pc[m] = await /\ answer[m] # None
      /\ answer' = [answer EXCEPT ![m] = None]
      /\ UNCHANGED <<faults, plan, conn>>
  BY NoneIsNothing DEF Answered
<1>2. CASE side = first[m]
  <2>1. Goes(m, CloseOf(Other(side))) /\ CloseOf(Other(side)) \in Unlinking
    BY <1>1, <1>2 DEF SideDone, Send, CloseOf
  <2>2. QED
    BY <2>1
<1>3. CASE side # first[m]
  <2>1. \E to \in {"unlinked", "unlink failed"} : End(m, to)
    BY <1>3 DEF SideDone
  <2>2. PICK to \in {"unlinked", "unlink failed"} : End(m, to)
    BY <2>1
  <2>3. Goes(m, to)
    BY <1>1, <2>2 DEF End
  <2>4. QED
    BY <2>3
<1>4. QED
  BY <1>2, <1>3

LEMMA RoleIsASide == ASSUME NEW await PROVE RoleAt(await) \in Sides
BY DEF RoleAt, Sides

LEMMA UnlinkGoes ==
    ASSUME TypeOK, Corresponds, NEW m \in Managers,
           Unlink(m) \/ Closed(m) \/ CloseRefused(m) \/ Confirmed(m)
    PROVE  \E to \in Unlinking : Goes(m, to)
<1> USE DEF Awaits, Establishing, RollingBack, Reading, Closing, Confirming, Follows, Linked,
            Unlinking, Goes
<1>1. CASE Unlink(m)
  <2>1. PICK side \in Sides : Send(m, CloseOf(side))
    BY <1>1 DEF Unlink
  <2>2. Goes(m, CloseOf(side)) /\ CloseOf(side) \in Unlinking
    BY <1>1, <2>1, NoneIsNothing DEF Unlink, Send, CloseOf, TypeOK, Corresponds
  <2>3. QED
    BY <2>2
<1>2. CASE Closed(m)
  <2>1. PICK await \in Closing : Answered(m, await, {"good"}) /\ SideDone(m, RoleAt(await), FALSE)
    BY <1>2 DEF Closed
  <2>2. await \in Closing \cup Confirming /\ {"good"} \in SUBSET Answers
    BY DEF Answers
  <2>3. QED
    BY <2>1, <2>2, RoleIsASide, SideGoes
<1>3. CASE CloseRefused(m)
  <2>1. PICK side \in Sides :
           /\ Answered(m, CloseOf(side), {"refused"})
           /\ Send(m, IF side = "subscriber" THEN "confirm subscriber" ELSE "confirm publisher")
    BY <1>3 DEF CloseRefused
  <2>2. Goes(m, IF side = "subscriber" THEN "confirm subscriber" ELSE "confirm publisher")
    BY <2>1, NoneIsNothing DEF Answered, Send, CloseOf, Answers
  <2>3. QED
    BY <2>2
<1>4. CASE Confirmed(m)
  <2>1. PICK await \in Confirming, status \in Statuses :
           Answered(m, await, {status}) /\ SideDone(m, RoleAt(await), status # "down")
    BY <1>4 DEF Confirmed
  <2>2. await \in Closing \cup Confirming /\ {status} \in SUBSET Answers
    BY DEF Answers
  <2>3. QED
    BY <2>1, <2>2, RoleIsASide, SideGoes
<1>5. QED
  BY <1>1, <1>2, <1>3, <1>4

\* An await that raises.
LEMMA RaiseMoves ==
    ASSUME TypeOK, Corresponds, NEW m \in Managers, NEW await \in Awaits,
           \/ await \in faults.lossy /\ LoseLink(m, await)
           \/ await \in faults.lossy \cup faults.cancellable
                /\ (LoseUnlink(m, await) \/ WaitRaises(m, await) \/ CancelUnlink(m, await))
           \/ await \in faults.cancellable /\ CancelLink(m, await)
    PROVE  \E to \in Follows(pc[m]), left \in {Late(m, pc[m]), Lost(m, pc[m])} :
              Moves(m, to, left) /\ Reason(m, to, left)
<1> USE DEF Awaits, Establishing, RollingBack, Reading, Closing, Confirming, Follows, Linked,
            Unlinking
<1>1. ASSUME NEW left \in {Late(m, await), Lost(m, await)},
             NEW to \in Follows(pc[m]), LinkRaises(m, await, to, left),
             to \in Failures \/ (to \in RollingBack /\ await = "establish subscriber"),
             await \in faults.lossy \cup faults.cancellable,
             await \in RollingBack =>
                /\ to = "failed" => "publisher" \in errors'[m]
                /\ await \in faults.lossy \/ left = Late(m, await)
      PROVE  \E go \in Follows(pc[m]) : Moves(m, go, left) /\ Reason(m, go, left)
  <2>1. pc[m] = await
    BY <1>1 DEF LinkRaises, Raise
  <2>2. to \in Awaits <=> to \in RollingBack
    BY <1>1 DEF Failures
  <2>3. Moves(m, to, left)
    BY <1>1, <2>2 DEF LinkRaises, Raise, Moves
  <2>4. Reason(m, to, left)
    BY <1>1, <2>1 DEF Reason, Failures
  <2>5. QED
    BY <2>3, <2>4
<1>2. CASE await \in faults.lossy /\ LoseLink(m, await)
  <2>1. PICK left \in {Late(m, await), Lost(m, await)} :
           \/ /\ LinkRaises(m, await,
                            IF await = "establish subscriber" THEN "roll back" ELSE "failed", left)
              /\ await \in Establishing
           \/ /\ await \in RollingBack
              /\ LinkRaises(m, await, Ending(await), left)
              /\ RollBackFails(m, await)
    BY <1>2 DEF LoseLink
  <2>2. pc[m] = await
    BY <2>1 DEF LinkRaises, Raise
  <2>3. CASE await \in Establishing
    <3>1. PICK to \in {"failed", "roll back"} :
             to = (IF await = "establish subscriber" THEN "roll back" ELSE "failed")
      OBVIOUS
    <3>2. to \in Follows(pc[m]) /\ LinkRaises(m, await, to, left)
      BY <2>1, <2>2, <2>3, <3>1
    <3>3. to \in Failures \/ (to \in RollingBack /\ await = "establish subscriber")
      BY <3>1 DEF Failures
    <3>4. QED
      BY <1>1, <1>2, <2>2, <2>3, <3>2, <3>3
  <2>4. CASE await \in RollingBack
    <3>1. LinkRaises(m, await, Ending(await), left) /\ RollBackFails(m, await)
      BY <2>1, <2>4
    <3>2. Ending(await) \in Failures /\ Ending(await) \in Follows(pc[m])
      BY <2>2, <2>4 DEF Ending, Failures
    <3>3. Ending(await) = "failed" => "publisher" \in errors'[m]
      BY <2>4, <3>1 DEF Ending, RollBackFails, TypeOK
    <3>4. QED
      BY <1>1, <1>2, <2>2, <3>1, <3>2, <3>3
  <2>5. QED
    BY <2>1, <2>3, <2>4
<1>3. CASE await \in faults.cancellable /\ CancelLink(m, await)
  <2>1. PICK left \in {Late(m, await), Lost(m, await)} :
           /\ LinkRaises(m, await, IF await = "establish subscriber" THEN "roll back cancelled"
                                   ELSE "aborted", left)
           /\ await \in RollingBack => left = Late(m, await)
    BY <1>3 DEF CancelLink
  <2>2. pc[m] = await /\ await \in Establishing \cup RollingBack
    BY <2>1 DEF LinkRaises, Raise
  <2>3. PICK to \in {"aborted", "roll back cancelled"} :
           to = (IF await = "establish subscriber" THEN "roll back cancelled" ELSE "aborted")
    OBVIOUS
  <2>4. to \in Follows(pc[m]) /\ LinkRaises(m, await, to, left) /\ to # "failed"
    BY <2>1, <2>2, <2>3
  <2>5. to \in Failures \/ (to \in RollingBack /\ await = "establish subscriber")
    BY <2>3 DEF Failures
  <2>6. QED
    BY <1>1, <1>3, <2>1, <2>2, <2>4, <2>5
<1>4. CASE await \in faults.lossy \cup faults.cancellable /\ LoseUnlink(m, await)
  <2>1. PICK left \in {Late(m, await), Lost(m, await)} :
           IF RoleAt(await) = first[m]
           THEN LET next == CloseOf(Other(first[m]))
                IN  /\ pc' = [pc EXCEPT ![m] = next]
                    /\ requests' = left \cup {Awaited(m, next)}
           ELSE /\ pc' = [pc EXCEPT ![m] = "unlink failed"]
                /\ requests' = left
    BY <1>4 DEF LoseUnlink
  <2>2. pc[m] = await /\ await \in Closing \cup Confirming
    BY <1>4 DEF LoseUnlink, Raise
  <2>3. \E to \in Unlinking : Moves(m, to, left)
    <3>1. CASE RoleAt(await) = first[m]
      <4>1. CloseOf(Other(first[m])) \in Closing
        BY DEF CloseOf
      <4>2. Moves(m, CloseOf(Other(first[m])), left)
        BY <1>4, <2>1, <3>1, <4>1 DEF LoseUnlink, Raise, Moves
      <4>3. QED
        BY <4>1, <4>2
    <3>2. CASE RoleAt(await) # first[m]
      <4>1. Moves(m, "unlink failed", left)
        BY <1>4, <2>1, <3>2 DEF LoseUnlink, Raise, Moves
      <4>2. QED
        BY <4>1
    <3>3. QED
      BY <3>1, <3>2
  <2>4. QED
    BY <1>4, <2>2, <2>3 DEF Reason
<1>5. CASE await \in faults.lossy \cup faults.cancellable /\ WaitRaises(m, await)
  <2>1. PICK left \in {Late(m, await), Lost(m, await)} : requests' = left
    BY <1>5 DEF WaitRaises
  <2>2. pc[m] = await /\ await \in Reading
    BY <1>5 DEF WaitRaises, Raise
  <2>3. Moves(m, "linked", left)
    BY <1>5, <2>1 DEF WaitRaises, Raise, Moves
  <2>4. QED
    BY <2>2, <2>3 DEF Reason
<1>6. CASE await \in faults.lossy \cup faults.cancellable /\ CancelUnlink(m, await)
  <2>1. PICK left \in {Late(m, await), Lost(m, await)} : requests' = left
    BY <1>6 DEF CancelUnlink
  <2>2. pc[m] = await /\ await \in Closing \cup Confirming
    BY <1>6 DEF CancelUnlink, Raise
  <2>3. Moves(m, "cancelled", left)
    BY <1>6, <2>1 DEF CancelUnlink, Raise, Moves
  <2>4. QED
    BY <1>6, <2>2, <2>3 DEF Reason
<1>7. QED
  BY <1>2, <1>3, <1>4, <1>5, <1>6

\* Every step of a manager is a move, for a reason.
LEMMA ManagerMoves ==
    ASSUME TypeOK, Corresponds, NEW m \in Managers, ManagerStep(m)
    PROVE  \E to \in Follows(pc[m]), left \in {Late(m, pc[m]), Lost(m, pc[m])} :
              Moves(m, to, left) /\ Reason(m, to, left)
<1>1. ASSUME NEW to, Goes(m, to),
             pc[m] = "establish publisher" =>
                answer[m] = IF to = "failed" THEN "refused" ELSE "good",
             pc[m] = "establish publisher" => to \notin {"unwired", "aborted"},
             pc[m] = "establish subscriber" /\ to = "linked" => answer[m] = "good",
             pc[m] \in RollingBack /\ to = "failed" =>
                answer[m] = "good" \/ "publisher" \in errors'[m]
      PROVE  \E left \in {Late(m, pc[m]), Lost(m, pc[m])} :
                to \in Follows(pc[m]) /\ Moves(m, to, left) /\ Reason(m, to, left)
  BY <1>1, GoesOn DEF Goes
<1>2. CASE \/ Link(m) \/ LinkRejected(m)
           \/ PublisherUp(m) \/ NoCoordinates(m) \/ PublisherRefused(m)
           \/ SubscriberUp(m) \/ SubscriberRefused(m) \/ RolledBack(m)
  <2>1. pc[m] = "establish publisher" => ~Goes(m, "linked")
    BY DEF Goes, Follows, RollingBack, Linked, Unlinking, Reading, Closing, Confirming
  <2>2. Link(m) \/ LinkRejected(m) => pc[m] = "idle"
    BY DEF Link, LinkRejected
  <2>3. SubscriberUp(m) => pc[m] = "establish subscriber"
    BY DEF SubscriberUp, Answered
  <2>4. CASE Link(m) \/ LinkRejected(m) \/ PublisherRefused(m)
    BY <1>1, <2>1, <2>2, <2>4, LinkGoes DEF PublisherRefused, Answered, RollingBack
  <2>5. CASE PublisherUp(m) \/ NoCoordinates(m)
    BY <1>1, <2>1, <2>5, LinkGoes DEF PublisherUp, NoCoordinates, Answered, RollingBack
  <2>6. CASE SubscriberUp(m) \/ SubscriberRefused(m)
    BY <1>1, <2>3, <2>6, LinkGoes DEF RollingBack
  <2>7. CASE RolledBack(m)
    <3>1. /\ Goes(m, Ending(pc[m])) /\ pc[m] \in RollingBack
          /\ pc[m] = "roll back" => answer[m] = "good" \/ "publisher" \in errors'[m]
      BY <2>7, LinkGoes
    <3>2. pc[m] \notin Establishing /\ (Ending(pc[m]) = "failed" => pc[m] = "roll back")
      BY <3>1 DEF Ending, RollingBack, Establishing
    <3>3. QED
      BY <1>1, <3>1, <3>2 DEF Establishing
  <2>8. QED
    BY <1>2, <2>4, <2>5, <2>6, <2>7
<1>3. CASE WaitOperational(m) \/ PublisherRead(m) \/ SubscriberRead(m)
  <2>1. pc[m] \notin Establishing \cup RollingBack
    BY <1>3 DEF WaitOperational, PublisherRead, SubscriberRead, Answered, Establishing, RollingBack
  <2>2. QED
    BY <1>1, <1>3, <2>1, WaitGoes DEF Establishing
<1>4. CASE Unlink(m) \/ Closed(m) \/ CloseRefused(m) \/ Confirmed(m)
  <2>1. pc[m] \notin Establishing \cup RollingBack
    BY <1>4 DEF Unlink, Closed, CloseRefused, Confirmed, Answered, Establishing, RollingBack,
                Closing, Confirming, CloseOf
  <2>2. QED
    BY <1>1, <1>4, <2>1, UnlinkGoes DEF Establishing
<1>5. CASE \/ \E await \in faults.lossy :
                 LoseLink(m, await) \/ LoseUnlink(m, await) \/ WaitRaises(m, await)
           \/ \E await \in faults.cancellable : CancelLink(m, await) \/ CancelUnlink(m, await)
  <2>1. faults.lossy \subseteq Awaits /\ faults.cancellable \subseteq Awaits
    BY FxConstants DEF TypeOK, Scenario
  <2>2. QED
    BY <1>5, <2>1, RaiseMoves
<1>6. QED
  BY <1>2, <1>3, <1>4, <1>5 DEF ManagerStep

-----------------------------------------------------------------------------
(* Type correctness. *)

LEMMA Steps ==
    ASSUME Next
    PROVE  \/ \E r \in requests : ServerStep(r)
           \/ \E v \in Servers, x \in Names : Operate(v, x) \/ Drop(v, x)
           \/ \E m \in Managers : ManagerStep(m)
BY DEF Next, ServerStep, ManagerStep

LEMMA TypeInit == Init => TypeOK
BY FxConstants DEF Init, TypeOK, Scenario, Ends, Failures, Sides

LEMMA ServersAndNames ==
    ASSUME TypeOK, NEW m \in Managers
    PROVE  /\ plan[m] \in Plan
           /\ plan[m].publisher \in Servers /\ plan[m].subscriber \in Servers
           /\ plan[m].publisher # plan[m].subscriber
           /\ plan[m].name \in Names /\ plan[m].output \in Datasets /\ plan[m].input \in Datasets
<1>1. faults \in Scenario /\ faults.plans \subseteq Plan
  BY FxConstants DEF TypeOK, Scenario
<1>2. plan[m] \in faults.plans
  BY DEF TypeOK
<1>3. QED
  BY <1>1, <1>2, FxConstants DEF TypeOK, Plan

LEMMA RequestFields ==
    ASSUME TypeOK, NEW r \in requests
    PROVE  r \in Request /\ r.by \in Managers /\ r.await \in Awaits /\ r.awaited \in BOOLEAN
BY DEF TypeOK, Request

LEMMA ReplyTypes ==
    ASSUME TypeOK, NEW r \in requests, NEW result \in Answers, Reply(r, result),
           conn' \in [Servers -> [Names -> Connection \cup {None}]]
    PROVE  TypeOK'
BY RequestFields DEF TypeOK, Reply, polling

LEMMA StatusTyped ==
    ASSUME NEW c \in Connection \cup {None}
    PROVE  Status(c) \in Statuses
BY DEF Status, Statuses, Connection

LEMMA EstablishTypes ==
    ASSUME TypeOK, NEW m \in Managers, NEW await, NEW v \in Servers, Establish(v, m, await)
    PROVE  conn' \in [Servers -> [Names -> Connection \cup {None}]]
<1> DEFINE c == [by |-> m, role |-> RoleAt(await), dataset |-> DatasetAt(m, await),
                 status |-> "starting"]
<1>1. c \in Connection
  BY RoleIsASide, ServersAndNames DEF Connection, DatasetAt
<1>2. conn' = [conn EXCEPT ![v][plan[m].name] = c]
  BY DEF Establish
<1> HIDE DEF c
<1>3. QED
  BY <1>1, <1>2, ServersAndNames DEF TypeOK

LEMMA ServerTypes ==
    ASSUME TypeOK, NEW r \in requests, ServerStep(r)
    PROVE  TypeOK'
<1>1. ServerAt(r.by, r.await) \in Servers
  BY RequestFields, ServersAndNames DEF ServerAt
<1>2. CASE ServeEstablish(r)
  <2>1. conn' \in [Servers -> [Names -> Connection \cup {None}]]
    BY <1>1, <1>2, RequestFields, EstablishTypes DEF ServeEstablish, TypeOK
  <2>2. \E result \in Answers : Reply(r, result)
    BY <1>2 DEF ServeEstablish, Answers
  <2>3. QED
    BY <2>1, <2>2, ReplyTypes
<1>3. CASE ServeClose(r)
  <2>1. conn' \in [Servers -> [Names -> Connection \cup {None}]]
    BY <1>1, <1>3, RequestFields, ServersAndNames DEF ServeClose, TypeOK
  <2>2. \E result \in Answers : Reply(r, result)
    BY <1>3 DEF ServeClose, Answers
  <2>3. QED
    BY <2>1, <2>2, ReplyTypes
<1>4. CASE ServeRead(r)
  <2>1. conn[ServerAt(r.by, r.await)][plan[r.by].name] \in Connection \cup {None}
    BY <1>1, RequestFields, ServersAndNames DEF TypeOK
  <2>2. \E result \in Answers : Reply(r, result)
    BY <1>4, <2>1, StatusTyped DEF ServeRead, Answers
  <2>3. QED
    BY <1>4, <2>2, ReplyTypes DEF ServeRead, TypeOK
<1>5. CASE RefuseClose(r)
  BY <1>5, ReplyTypes DEF RefuseClose, Answers, TypeOK
<1>6. QED
  BY <1>2, <1>3, <1>4, <1>5 DEF ServerStep

LEMMA ConnectionTypes ==
    ASSUME TypeOK, NEW v \in Servers, NEW x \in Names, Operate(v, x) \/ Drop(v, x)
    PROVE  TypeOK'
<1>1. CASE Operate(v, x)
  <2>1. conn[v][x] \in Connection
    BY <1>1 DEF Operate, TypeOK
  <2>2. [conn[v][x] EXCEPT !.status = "operational"] \in Connection
    BY <2>1 DEF Connection
  <2>3. conn' = [conn EXCEPT ![v][x] = [conn[v][x] EXCEPT !.status = "operational"]]
    BY <1>1 DEF Operate
  <2>4. QED
    BY <1>1, <2>2, <2>3 DEF Operate, TypeOK, polling
<1>2. CASE Drop(v, x)
  BY <1>2 DEF Drop, TypeOK, polling
<1>3. QED
  BY <1>1, <1>2

LEMMA MoveTypes ==
    ASSUME TypeOK, NEW m \in Managers, NEW to \in Follows(pc[m]),
           NEW left \in {Late(m, pc[m]), Lost(m, pc[m])}, Moves(m, to, left),
           seen' \in [Managers -> BOOLEAN], first' \in [Managers -> Sides],
           errors' \in [Managers -> SUBSET Sides]
    PROVE  TypeOK'
<1>1. to \in Awaits \cup Ends
  BY DEF Follows, Awaits, Ends, Establishing, RollingBack, Reading, Closing, Confirming, Linked,
         Unlinking, Ending, Failures, TypeOK
<1>2. left \subseteq Request
  BY LeftTyped
<1>3. to \in Awaits => Awaited(m, to) \in Request
  BY DEF Awaited, Request
<1>4. QED
  BY <1>1, <1>2, <1>3 DEF Moves, TypeOK

\* What wait_operational and unlink note down.
LEMMA NotesTyped ==
    ASSUME TypeOK, NEW m \in Managers, ManagerStep(m)
    PROVE  /\ seen' \in [Managers -> BOOLEAN] /\ first' \in [Managers -> Sides]
           /\ errors' \in [Managers -> SUBSET Sides]
<1>1. CASE \/ Link(m) \/ LinkRejected(m)
           \/ PublisherUp(m) \/ NoCoordinates(m) \/ PublisherRefused(m)
           \/ SubscriberUp(m) \/ SubscriberRefused(m)
           \/ WaitOperational(m) \/ CloseRefused(m)
  BY <1>1 DEF Link, LinkRejected, PublisherUp, NoCoordinates, PublisherRefused, SubscriberUp,
              SubscriberRefused, WaitOperational, CloseRefused, polling, TypeOK
<1>2. CASE PublisherRead(m) \/ SubscriberRead(m)
  BY <1>2 DEF PublisherRead, SubscriberRead, IsOperational, TypeOK
<1>3. CASE Unlink(m)
  BY <1>3 DEF Unlink, TypeOK
<1>4. ASSUME NEW side \in Sides, NEW failed \in BOOLEAN, SideDone(m, side, failed)
      PROVE  /\ seen' \in [Managers -> BOOLEAN] /\ first' \in [Managers -> Sides]
             /\ errors' \in [Managers -> SUBSET Sides]
  BY <1>4 DEF SideDone, polling, TypeOK
<1>5. CASE Closed(m) \/ Confirmed(m)
  BY <1>4, <1>5, RoleIsASide DEF Closed, Confirmed
<1>6. ASSUME NEW await, UNCHANGED errors \/ RollBackFails(m, await)
      PROVE  errors' \in [Managers -> SUBSET Sides]
  <2>1. "publisher" \in Sides /\ errors \in [Managers -> SUBSET Sides]
    BY DEF Sides, TypeOK
  <2>2. CASE UNCHANGED errors
    BY <2>1, <2>2
  <2>3. CASE RollBackFails(m, await)
    BY <2>1, <2>3 DEF RollBackFails
  <2>4. QED
    BY <1>6, <2>2, <2>3
<1>7. ASSUME NEW await, \/ LoseLink(m, await) \/ LoseUnlink(m, await) \/ WaitRaises(m, await)
                        \/ CancelLink(m, await) \/ CancelUnlink(m, await)
      PROVE  /\ seen' \in [Managers -> BOOLEAN] /\ first' \in [Managers -> Sides]
             /\ errors' \in [Managers -> SUBSET Sides]
  <2>1. CASE LoseLink(m, await) \/ CancelLink(m, await)
    <3>1. UNCHANGED errors \/ RollBackFails(m, await)
      BY <2>1 DEF LoseLink, CancelLink
    <3>2. UNCHANGED polling
      BY <2>1 DEF LoseLink, CancelLink, LinkRaises
    <3>3. QED
      BY <1>6, <3>1, <3>2 DEF polling, TypeOK
  <2>2. CASE LoseUnlink(m, await)
    BY <2>2, RoleIsASide DEF LoseUnlink, polling, TypeOK
  <2>3. CASE WaitRaises(m, await) \/ CancelUnlink(m, await)
    BY <2>3 DEF WaitRaises, CancelUnlink, polling, TypeOK
  <2>4. QED
    BY <1>7, <2>1, <2>2, <2>3
<1>8. CASE RolledBack(m)
  <2>1. UNCHANGED polling /\ \E await : UNCHANGED errors \/ RollBackFails(m, await)
    BY <1>8 DEF RolledBack
  <2>2. QED
    BY <1>6, <2>1 DEF polling, TypeOK
<1>9. QED
  BY <1>1, <1>2, <1>3, <1>5, <1>7, <1>8 DEF ManagerStep

LEMMA OthersNotes ==
    ASSUME TypeOK, NEW m \in Managers, ManagerStep(m), NEW n \in Managers, n # m
    PROVE  seen'[n] = seen[n] /\ first'[n] = first[n] /\ errors'[n] = errors[n]
<1>1. CASE \/ Link(m) \/ LinkRejected(m)
           \/ PublisherUp(m) \/ NoCoordinates(m) \/ PublisherRefused(m)
           \/ SubscriberUp(m) \/ SubscriberRefused(m) \/ RolledBack(m)
           \/ WaitOperational(m) \/ CloseRefused(m)
  BY <1>1 DEF Link, LinkRejected, PublisherUp, NoCoordinates, PublisherRefused, SubscriberUp,
              SubscriberRefused, RolledBack, RollBackFails, WaitOperational, CloseRefused, polling,
              TypeOK
<1>2. CASE PublisherRead(m) \/ SubscriberRead(m)
  BY <1>2 DEF PublisherRead, SubscriberRead, TypeOK
<1>3. CASE Unlink(m)
  BY <1>3 DEF Unlink, TypeOK
<1>4. CASE Closed(m) \/ Confirmed(m)
  BY <1>4 DEF Closed, Confirmed, SideDone, polling, TypeOK
<1>5. ASSUME NEW await, \/ LoseLink(m, await) \/ LoseUnlink(m, await) \/ WaitRaises(m, await)
                        \/ CancelLink(m, await) \/ CancelUnlink(m, await)
      PROVE  seen'[n] = seen[n] /\ first'[n] = first[n] /\ errors'[n] = errors[n]
  BY <1>5 DEF LoseLink, LoseUnlink, WaitRaises, CancelLink, CancelUnlink, LinkRaises, RollBackFails,
              polling, TypeOK
<1>6. QED
  BY <1>1, <1>2, <1>3, <1>4, <1>5 DEF ManagerStep

-----------------------------------------------------------------------------
(* Requests, answers and where their managers are. *)

LEMMA Replies ==
    ASSUME TypeOK, NEW r \in requests, ServerStep(r)
    PROVE  \E result \in Expected(r.await) : Reply(r, result)
<1> USE DEF Establishing, RollingBack, Reading, Closing, Confirming, Expected
<1>1. CASE ServeEstablish(r)
  BY <1>1 DEF ServeEstablish
<1>2. CASE ServeClose(r)
  BY <1>2 DEF ServeClose
<1>3. CASE ServeRead(r)
  <2>1. conn[ServerAt(r.by, r.await)][plan[r.by].name] \in Connection \cup {None}
    BY RequestFields, ServersAndNames DEF ServerAt, TypeOK
  <2>2. QED
    BY <1>3, <2>1, StatusTyped DEF ServeRead
<1>4. CASE RefuseClose(r)
  BY <1>4 DEF RefuseClose
<1>5. QED
  BY <1>1, <1>2, <1>3, <1>4 DEF ServerStep

LEMMA CorrespondsServer ==
    ASSUME TypeOK, Corresponds, NEW r \in requests, ServerStep(r)
    PROVE  Corresponds'
<1>1. PICK result \in Expected(r.await) : Reply(r, result)
  BY Replies
<1>2. UNCHANGED pc /\ requests' = requests \ {r}
  BY <1>1 DEF Reply
<1>3. \A q \in requests' : q.awaited => answer'[q.by] = None
  <2> TAKE q \in requests'
  <2> HAVE q.awaited
  <2>1. answer[q.by] = None /\ q \in requests /\ q # r
    BY <1>2 DEF Corresponds
  <2>2. CASE q.by # r.by
    BY <1>1, <2>1, <2>2, RequestFields DEF Reply, TypeOK
  <2>3. CASE q.by = r.by
    <3>1. ~r.awaited
      <4> SUFFICES ASSUME r.awaited PROVE FALSE
        OBVIOUS
      <4>1. q.await = r.await
        BY <2>1, <2>3 DEF Corresponds
      <4>2. q = r
        BY <2>1, <2>3, <4>1, RequestFields DEF Request
      <4>3. QED
        BY <2>1, <4>2
    <3>2. QED
      BY <1>1, <2>1, <2>3, <3>1, RequestFields DEF Reply, TypeOK
  <2>4. QED
    BY <2>2, <2>3
<1>4. \A m \in Managers : answer'[m] # None => pc'[m] \in Awaits /\ answer'[m] \in Expected(pc'[m])
  <2> TAKE m \in Managers
  <2>1. CASE m = r.by /\ r.awaited
    <3>1. answer'[m] = result /\ pc[m] = r.await
      BY <1>1, <2>1 DEF Reply, TypeOK, Corresponds
    <3>2. QED
      BY <1>2, <3>1, RequestFields
  <2>2. CASE ~(m = r.by /\ r.awaited)
    <3>1. answer'[m] = answer[m]
      BY <1>1, <2>2, RequestFields DEF Reply, TypeOK
    <3>2. QED
      BY <1>2, <3>1 DEF Corresponds
  <2>3. QED
    BY <2>1, <2>2
<1>5. QED
  BY <1>2, <1>3, <1>4 DEF Corresponds

\* Wherever its manager goes on to, a request it left behind may still be on its way.
LEMMA AfterFollows ==
    ASSUME NEW await \in Awaits, NEW from \in After(await), NEW to \in Follows(from)
    PROVE  to \in After(await)
<1> USE DEF After, Follows, Awaits, Establishing, RollingBack, Reading, Closing, Confirming,
            Linked, Unlinking, Ending
<1>1. CASE await \in Establishing \cup RollingBack
  <2>1. /\ Follows("failed") = {} /\ Follows("aborted") = {} /\ Follows("unwired") = {}
        /\ Follows("roll back") = {"failed", "aborted"}
        /\ Follows("roll back cancelled") = {"aborted"}
    OBVIOUS
  <2>2. /\ After("establish publisher") \subseteq Failures
        /\ After("establish subscriber") = {"roll back", "roll back cancelled"} \cup After(
                                              "establish publisher")
        /\ \A r \in RollingBack : After(r) \subseteq Failures
    BY DEF Failures
  <2>3. \A at \in Failures : Follows(at) = {}
    BY <2>1 DEF Failures
  <2> HIDE DEF After, Follows
  <2>4. from \in {"roll back", "roll back cancelled"} /\ await = "establish subscriber"
    BY <1>1, <2>2, <2>3
  <2>5. After("establish publisher") = {"failed", "aborted"}
    BY DEF After
  <2>6. QED
    BY <2>1, <2>2, <2>4, <2>5
<1>2. CASE await \in Reading
  BY <1>2
<1>3. CASE await \in Closing \cup Confirming
  BY <1>3
<1>4. QED
  BY <1>1, <1>2, <1>3

\* A manager leaves a request behind.
LEMMA AfterLeaving ==
    ASSUME NEW m \in Managers, pc[m] \in Awaits, answer[m] = None,
           NEW to \in Follows(pc[m]), NEW left, Reason(m, to, left)
    PROVE  to \in After(pc[m])
<1> USE DEF After, Follows, Awaits, Establishing, RollingBack, Reading, Closing, Confirming,
            Linked, Unlinking, Failures
<1>1. answer[m] # "good"
  BY NoneIsNothing DEF Answers
<1>2. CASE pc[m] \in Establishing \cup RollingBack
  BY <1>1, <1>2 DEF Reason
<1>3. CASE pc[m] \in Reading
  BY <1>3
<1>4. CASE pc[m] \in Closing \cup Confirming
  BY <1>4
<1>5. QED
  BY <1>2, <1>3, <1>4

\* What is on its way after a move.
LEMMA MovedRequests ==
    ASSUME TypeOK, NEW m \in Managers, NEW to,
           NEW left \in {Late(m, pc[m]), Lost(m, pc[m])}, Moves(m, to, left), NEW r \in requests'
    PROVE  \/ r \in requests /\ r # Awaited(m, pc[m])
           \/ r = Awaited(m, to) /\ to \in Awaits
           \/ /\ r = [by |-> m, await |-> pc[m], awaited |-> FALSE]
              /\ left = Late(m, pc[m]) /\ Awaited(m, pc[m]) \in requests
BY DEF Moves, Late, Lost

LEMMA CorrespondsMoves ==
    ASSUME TypeOK, Corresponds, NEW m \in Managers, NEW to \in Follows(pc[m]),
           NEW left \in {Late(m, pc[m]), Lost(m, pc[m])}, Moves(m, to, left), Reason(m, to, left)
    PROVE  Corresponds'
<1>1. pc'[m] = to /\ answer'[m] = None
  BY DEF Moves, TypeOK
<1>2. \A n \in Managers : n # m => pc'[n] = pc[n] /\ answer'[n] = answer[n]
  BY DEF Moves, TypeOK
<1>3. ASSUME NEW r \in requests'
      PROVE  /\ ~r.awaited => pc'[r.by] \in After(r.await)
             /\ r.awaited => pc'[r.by] = r.await /\ answer'[r.by] = None
  <2>1. CASE r \in requests /\ r # Awaited(m, pc[m])
    <3>1. CASE r.by = m
      <4>1. ~r.awaited
        BY <2>1, <3>1, RequestFields DEF Corresponds, Awaited, Request
      <4>2. pc[m] \in After(r.await) /\ r.await \in Awaits
        BY <2>1, <3>1, <4>1, RequestFields DEF Corresponds
      <4>3. to \in After(r.await)
        BY <4>2, AfterFollows
      <4>4. QED
        BY <1>1, <3>1, <4>1, <4>3
    <3>2. CASE r.by # m
      BY <1>2, <2>1, <3>2, RequestFields DEF Corresponds
    <3>3. QED
      BY <3>1, <3>2
  <2>2. CASE r = Awaited(m, to) /\ to \in Awaits
    BY <1>1, <2>2 DEF Awaited
  <2>3. CASE /\ r = [by |-> m, await |-> pc[m], awaited |-> FALSE]
             /\ Awaited(m, pc[m]) \in requests
    <3>1. pc[m] \in Awaits /\ answer[m] = None
      BY <2>3, RequestFields DEF Awaited, Corresponds
    <3>2. to \in After(pc[m])
      BY <3>1, AfterLeaving
    <3>3. QED
      BY <1>1, <2>3, <3>2
  <2>4. QED
    BY <2>1, <2>2, <2>3, MovedRequests
<1>4. QED
  BY <1>1, <1>2, <1>3 DEF Corresponds

-----------------------------------------------------------------------------
(* What the servers' steps do to the connections of a link. *)

ConnOf(m, role) ==
    conn[IF role = "publisher" THEN plan[m].publisher ELSE plan[m].subscriber][plan[m].name]

\* A connection changes: the others, and those of others, do not.
LEMMA OneChanges ==
    ASSUME TypeOK, NEW v \in Servers, NEW x \in Names, NEW c, UNCHANGED plan,
           conn' = [conn EXCEPT ![v][x] = c], NEW m \in Managers, NEW role
    PROVE  IF v = (IF role = "publisher" THEN plan[m].publisher ELSE plan[m].subscriber)
              /\ x = plan[m].name
           THEN ConnOf(m, role) = conn[v][x] /\ ConnOf(m, role)' = c
           ELSE ConnOf(m, role)' = ConnOf(m, role)
BY ServersAndNames DEF ConnOf, TypeOK

LEMMA EstablishedUp ==
    ASSUME TypeOK, NEW n \in Managers, NEW await \in Awaits,
           Establish(ServerAt(n, await), n, await), UNCHANGED plan
    PROVE  /\ Up(n, RoleAt(await))'
           /\ \A m \in Managers, role \in Sides :
                 /\ ConnOf(m, role) # None => ConnOf(m, role)' = ConnOf(m, role)
                 /\ Up(m, role) => Up(m, role)'
                 /\ Up(m, role)' => Up(m, role) \/ (m = n /\ role = RoleAt(await))
<1> DEFINE v == ServerAt(n, await)
           c == [by |-> n, role |-> RoleAt(await), dataset |-> DatasetAt(n, await),
                 status |-> "starting"]
<1>1. v \in Servers /\ plan[n].name \in Names
  BY ServersAndNames DEF ServerAt
<1>2. conn[v][plan[n].name] = None /\ conn' = [conn EXCEPT ![v][plan[n].name] = c]
  BY DEF Establish
<1>3. c \in Connection
  BY RoleIsASide, ServersAndNames DEF Connection, DatasetAt
<1>4. c # None /\ c.by = n /\ c.role = RoleAt(await)
  BY <1>3, NoneIsNothing
<1> HIDE DEF c, v
<1>5. ASSUME NEW m \in Managers, NEW role \in Sides
      PROVE  ConnOf(m, role)' = ConnOf(m, role)
             \/ (ConnOf(m, role) = None /\ ConnOf(m, role)' = c)
  BY <1>1, <1>2, OneChanges DEF ConnOf
<1>6. Up(n, RoleAt(await))'
  <2>1. ConnOf(n, RoleAt(await))' = c
    BY <1>1, <1>2 DEF v, ServerAt, ConnOf, TypeOK
  <2>2. QED
    BY <1>4, <2>1 DEF Up, ConnOf
<1>7. ASSUME NEW m \in Managers, NEW role \in Sides
      PROVE  /\ ConnOf(m, role) # None => ConnOf(m, role)' = ConnOf(m, role)
             /\ Up(m, role) => Up(m, role)'
             /\ Up(m, role)' => Up(m, role) \/ (m = n /\ role = RoleAt(await))
  BY <1>4, <1>5 DEF Up, ConnOf
<1>8. QED
  BY <1>6, <1>7

LEMMA OperatedUp ==
    ASSUME TypeOK, NEW v \in Servers, NEW x \in Names, Operate(v, x),
           NEW m \in Managers, NEW role \in Sides
    PROVE  /\ Up(m, role)' = Up(m, role)
           /\ StatusOf(m, role) = "operational" => StatusOf(m, role)' = "operational"
<1> DEFINE c == [conn[v][x] EXCEPT !.status = "operational"]
<1>1. conn' = [conn EXCEPT ![v][x] = c] /\ conn[v][x] # None /\ conn[v][x] \in Connection
  BY DEF Operate, TypeOK
<1>2. c \in Connection /\ c.by = conn[v][x].by /\ c.role = conn[v][x].role
      /\ c.status = "operational"
  BY <1>1 DEF Connection
<1>3. c # None
  BY <1>2, NoneIsNothing
<1> HIDE DEF c
<1>4. ConnOf(m, role)' = ConnOf(m, role)
      \/ (ConnOf(m, role) = conn[v][x] /\ ConnOf(m, role)' = c)
  BY <1>1, OneChanges DEF Operate, ConnOf
<1>5. QED
  BY <1>1, <1>2, <1>3, <1>4 DEF Up, ConnOf, StatusOf, Status

LEMMA ClosedDown ==
    ASSUME TypeOK, NEW v \in Servers, NEW x \in Names, UNCHANGED plan,
           conn' = [conn EXCEPT ![v][x] = None], NEW m \in Managers, NEW role \in Sides
    PROVE  /\ Up(m, role)' => Up(m, role)
           /\ Up(m, role) /\ (conn[v][x] # None => conn[v][x].by # m)
                 => Up(m, role)' /\ StatusOf(m, role)' = StatusOf(m, role)
<1>1. ConnOf(m, role)' = ConnOf(m, role)
      \/ (ConnOf(m, role) = conn[v][x] /\ ConnOf(m, role)' = None)
  BY OneChanges DEF ConnOf
<1>2. QED
  BY <1>1 DEF Up, ConnOf, StatusOf

\* A close leaves the manager's other side alone.
LEMMA OtherSideStays ==
    ASSUME TypeOK, NEW n \in Managers, NEW await \in Awaits, NEW role \in Sides,
           role # RoleAt(await), UNCHANGED plan,
           conn' = [conn EXCEPT ![ServerAt(n, await)][plan[n].name] = None]
    PROVE  ConnOf(n, role)' = ConnOf(n, role) /\ Up(n, role)' = Up(n, role)
<1>1. ServerAt(n, await) \in Servers /\ plan[n].name \in Names
  BY ServersAndNames DEF ServerAt
<1>2. ConnOf(n, role)' = ConnOf(n, role)
  BY <1>1, RoleIsASide, ServersAndNames DEF ServerAt, Sides, ConnOf, TypeOK
<1>3. QED
  BY <1>2 DEF Up, ConnOf

-----------------------------------------------------------------------------
(* Who has begun. *)

LEMMA BegunServer ==
    ASSUME TypeOK, Corresponds, Begun, NEW r \in requests, ServerStep(r)
    PROVE  Begun'
<1> DEFINE v == ServerAt(r.by, r.await)
           x == plan[r.by].name
<1>1. UNCHANGED <<faults, plan, pc>>
  BY DEF ServerStep, ServeEstablish, ServeClose, RefuseClose, ServeRead, Reply
<1>2. pc[r.by] \notin {"idle", "absent"}
  BY RequestFields DEF Corresponds, After, Ending, Awaits, Establishing, RollingBack, Reading,
                       Closing, Confirming, Linked, Unlinking
<1>3. v \in Servers /\ x \in Names
  BY RequestFields, ServersAndNames DEF ServerAt
<1>4. \/ UNCHANGED conn
      \/ conn' = [conn EXCEPT ![v][x] = None]
      \/ conn' = [conn EXCEPT ![v][x] =
                     [by |-> r.by, role |-> RoleAt(r.await), dataset |-> DatasetAt(r.by, r.await),
                      status |-> "starting"]]
  BY DEF ServerStep, ServeEstablish, ServeClose, RefuseClose, ServeRead, Establish
<1> HIDE DEF v, x
<1>5. QED
  BY <1>1, <1>2, <1>3, <1>4 DEF Begun, TypeOK

LEMMA BegunConnection ==
    ASSUME TypeOK, Begun, NEW v \in Servers, NEW x \in Names, Operate(v, x) \/ Drop(v, x)
    PROVE  Begun'
<1>1. CASE Operate(v, x)
  <2>1. conn[v][x] \in Connection /\ conn[v][x] # None
    BY <1>1 DEF Operate, TypeOK
  <2>2. [conn[v][x] EXCEPT !.status = "operational"].by = conn[v][x].by
    BY <2>1 DEF Connection
  <2>3. conn' = [conn EXCEPT ![v][x] = [conn[v][x] EXCEPT !.status = "operational"]]
    BY <1>1 DEF Operate
  <2>4. QED
    BY <1>1, <2>1, <2>2, <2>3 DEF Operate, TypeOK, Begun
<1>2. CASE Drop(v, x)
  BY <1>2 DEF Drop, TypeOK, Begun
<1>3. QED
  BY <1>1, <1>2

LEMMA BegunMoves ==
    ASSUME TypeOK, Begun, NEW m \in Managers, NEW to \in Follows(pc[m]), NEW left,
           Moves(m, to, left)
    PROVE  Begun'
<1>1. to \notin {"idle", "absent"} /\ pc[m] # "absent"
  BY DEF Follows, Ending, Awaits, Establishing, RollingBack, Reading, Closing, Confirming, Linked,
         Unlinking
<1>2. m \in faults.managers
  BY <1>1 DEF Begun
<1>3. QED
  BY <1>1, <1>2 DEF Begun, Moves, TypeOK

-----------------------------------------------------------------------------
(* Where the manager of a request is. *)

LEMMA Requester ==
    ASSUME TypeOK, Corresponds, NEW r \in requests
    PROVE  pc[r.by] = r.await \/ pc[r.by] \in After(r.await)
BY RequestFields DEF Corresponds

LEMMA ClosingRequester ==
    ASSUME TypeOK, Corresponds, NEW r \in requests
    PROVE  /\ r.await \in RollingBack => pc[r.by] \in RollingBack \cup Failures
           /\ r.await \in Closing => pc[r.by] \in Unlinking
           /\ pc[r.by] \in Unlinking => r.await \in Reading \cup Closing \cup Confirming
<1> DEFINE Later == Reading \cup Closing \cup Confirming
<1>1. ASSUME NEW await \in Establishing \cup RollingBack
      PROVE  /\ After(await) \cap Unlinking = {} /\ await \notin Unlinking \cup Closing
             /\ await \in RollingBack => After(await) \subseteq Failures
  BY <1>1 DEF After, Ending, Establishing, RollingBack, Failures, Reading, Closing, Confirming,
              Unlinking
<1>2. ASSUME NEW await \in Closing PROVE After(await) = Unlinking /\ await \in Unlinking
  BY <1>2 DEF After, RollingBack, Reading, Closing, Unlinking
<1>3. \A await \in Later : await \notin RollingBack
  BY DEF RollingBack, Reading, Closing, Confirming
<1>4. r.await \in Establishing \cup RollingBack \/ r.await \in Later
  BY RequestFields DEF Awaits
<1>5. QED
  BY <1>1, <1>2, <1>3, <1>4, Requester

-----------------------------------------------------------------------------
(* A publisher that nobody will close is not left up unnoticed. *)

LEMMA OnceServer ==
    ASSUME TypeOK, RollsBackOnce, NEW r \in requests, ServerStep(r)
    PROVE  RollsBackOnce'
BY Replies DEF RollsBackOnce, Reply

\* A manager that starts a rollback has none on its way, and one it leaves behind replaces
\* the one it awaited.
LEMMA OnceMoves ==
    ASSUME TypeOK, Corresponds, RollsBackOnce, NEW m \in Managers, NEW to \in Follows(pc[m]),
           NEW left \in {Late(m, pc[m]), Lost(m, pc[m])}, Moves(m, to, left)
    PROVE  RollsBackOnce'
<1> DEFINE stale == [by |-> m, await |-> pc[m], awaited |-> FALSE]
<1>1. ASSUME to \in RollingBack, NEW r \in requests PROVE ~(r.by = m /\ r.await \in RollingBack)
  <2>1. pc[m] \in Establishing
    BY <1>1 DEF Follows, Ending, Establishing, RollingBack, Linked, Unlinking, Reading, Closing,
                Confirming
  <2>2. r.by = m /\ r.await \in RollingBack => pc[m] \in RollingBack \cup Failures
    BY ClosingRequester
  <2>3. QED
    BY <2>1, <2>2 DEF Establishing, RollingBack, Failures
<1>2. to \in RollingBack => pc[m] \notin RollingBack
  BY DEF Follows, Ending, RollingBack, Linked, Unlinking, Reading, Closing, Confirming
<1>3. ASSUME NEW r \in requests', r.by = m, r.await \in RollingBack
      PROVE  \/ to \in RollingBack /\ r = Awaited(m, to)
             \/ to \notin RollingBack /\ r = stale /\ Awaited(m, pc[m]) \in requests
             \/ to \notin RollingBack /\ r \in requests /\ r # Awaited(m, pc[m])
  <2>1. r = Awaited(m, to) => to \in RollingBack
    BY <1>3 DEF Awaited
  <2>2. r = stale => to \notin RollingBack
    BY <1>2, <1>3
  <2>3. r \in requests => to \notin RollingBack
    BY <1>1, <1>3
  <2>4. QED
    BY <2>1, <2>2, <2>3, MovedRequests
<1>4. Awaited(m, pc[m]).by = m /\ Awaited(m, pc[m]).await = pc[m]
  BY DEF Awaited
<1> SUFFICES ASSUME NEW q \in requests', NEW r \in requests', q.by = r.by,
                    q.await \in RollingBack, r.await \in RollingBack
             PROVE  q = r
  BY DEF RollsBackOnce
<1>5. CASE q.by = m
  <2>1. r.by = m
    BY <1>5
  <2>2. CASE to \in RollingBack
    BY <1>3, <1>5, <2>1, <2>2
  <2>3. ASSUME NEW x \in requests', x.by = m, x.await \in RollingBack, x = stale,
               Awaited(m, pc[m]) \in requests,
               NEW y \in requests, y.by = m, y.await \in RollingBack, y # Awaited(m, pc[m])
        PROVE  FALSE
    <3>1. pc[m] \in RollingBack
      BY <2>3
    <3>2. QED
      BY <1>4, <2>3, <3>1 DEF RollsBackOnce
  <2>4. CASE to \notin RollingBack
    <3>1. CASE q \in requests /\ r \in requests
      BY <3>1 DEF RollsBackOnce
    <3>2. CASE q = stale /\ r = stale
      BY <3>2
    <3>3. QED
      BY <1>3, <1>5, <2>1, <2>3, <2>4, <3>1, <3>2
  <2>5. QED
    BY <2>2, <2>4
<1>6. CASE q.by # m
  <2>1. ASSUME NEW x \in requests', x.by # m PROVE x \in requests
    <3>1. x # Awaited(m, to) /\ x # stale
      BY <2>1 DEF Awaited
    <3>2. QED
      BY <3>1, MovedRequests
  <2>2. QED
    BY <1>6, <2>1 DEF RollsBackOnce
<1>7. QED
  BY <1>5, <1>6

\* A server's step, as far as the publisher of a link is concerned.
LEMMA PublisherServed ==
    ASSUME TypeOK, Corresponds, Orphaned, PublisherAnswered, NEW r \in requests, ServerStep(r),
           NEW m \in Managers, Up(m, "publisher")'
    PROVE  \/ /\ Up(m, "publisher")
              /\ m = r.by /\ r.await \in RollingBack =>
                    ~RollBackAnswered /\ (r.awaited => answer'[m] = "refused")
           \/ m = r.by /\ pc[m] = "establish publisher" /\ answer'[m] = "good"
<1>1. CASE ServeEstablish(r) /\ Establish(ServerAt(r.by, r.await), r.by, r.await) /\ Reply(r, "good")
  <2>1. r.await \notin RollingBack
    BY <1>1 DEF ServeEstablish, Establishing, RollingBack
  <2>2. Up(m, "publisher") \/ (m = r.by /\ RoleAt(r.await) = "publisher")
    BY <1>1, EstablishedUp, RequestFields DEF Reply, Sides
  <2>3. CASE m = r.by /\ RoleAt(r.await) = "publisher"
    <3>1. r.await = "establish publisher"
      BY <1>1, <2>3 DEF ServeEstablish, Establishing, RollingBack, RoleAt
    <3>2. r.awaited
      BY <3>1 DEF Orphaned
    <3>3. QED
      BY <1>1, <2>3, <3>1, <3>2 DEF Corresponds, Reply, TypeOK
  <2>4. QED
    BY <2>1, <2>2, <2>3
<1>2. CASE UNCHANGED conn /\ UNCHANGED plan /\ r.await \notin RollingBack
  BY <1>2 DEF Up
<1>3. CASE ServeClose(r)
  <2>1. /\ conn' = [conn EXCEPT ![ServerAt(r.by, r.await)][plan[r.by].name] = None]
        /\ UNCHANGED plan
    BY <1>3 DEF ServeClose, Reply
  <2>2. ServerAt(r.by, r.await) \in Servers /\ plan[r.by].name \in Names
    BY RequestFields, ServersAndNames DEF ServerAt
  <2>3. Up(m, "publisher")
    BY <2>1, <2>2, ClosedDown DEF Sides
  <2>4. ~(m = r.by /\ r.await \in RollingBack)
    BY <2>1, <2>2 DEF Up, ServerAt, RoleAt, TypeOK
  <2>5. QED
    BY <2>3, <2>4
<1>4. CASE RefuseClose(r)
  <2>1. ~RollBackAnswered
    BY <1>4 DEF RefuseClose, RollBackAnswered
  <2>2. m = r.by /\ r.awaited => answer'[m] = "refused"
    BY <1>4 DEF RefuseClose, Reply, TypeOK
  <2>3. Up(m, "publisher")
    BY <1>4 DEF RefuseClose, Reply, Up
  <2>4. QED
    BY <2>1, <2>2, <2>3
<1>5. QED
  BY <1>1, <1>2, <1>3, <1>4 DEF ServerStep, ServeEstablish, ServeRead, Reply, Establishing, Reading,
                                Confirming, RollingBack

LEMMA OrphanedServer ==
    ASSUME TypeOK, Corresponds, Orphaned, NEW r \in requests, ServerStep(r)
    PROVE  Orphaned'
<1>1. PICK result \in Expected(r.await) : Reply(r, result)
  BY Replies
<1>2. UNCHANGED <<faults, plan, pc, errors>> /\ requests' = requests \ {r}
  BY <1>1 DEF Reply
<1> SUFFICES ASSUME PublisherAnswered
             PROVE  /\ \A q \in requests' : q.await = "establish publisher" => q.awaited
                    /\ \A m \in Managers : Up(m, "publisher")' =>
                          /\ pc[m] = "establish publisher" => answer'[m] = "good"
                          /\ pc[m] \in RollingBack =>
                                \/ Awaited(m, pc[m]) \in requests'
                                \/ answer'[m] = "refused" /\ ~RollBackAnswered
                          /\ pc[m] = "failed" => "publisher" \in errors[m]
                          /\ pc[m] \in {"unwired", "aborted"} => RollsBack(m)' \/ ~RollBackAnswered
  BY <1>2 DEF Orphaned, PublisherAnswered, RollBackAnswered, Awaited
<1>3. \A q \in requests' : q.await = "establish publisher" => q.awaited
  BY <1>2 DEF Orphaned
<1>4. ASSUME NEW m \in Managers, Up(m, "publisher")'
      PROVE  /\ pc[m] = "establish publisher" => answer'[m] = "good"
             /\ pc[m] \in RollingBack =>
                   \/ Awaited(m, pc[m]) \in requests'
                   \/ answer'[m] = "refused" /\ ~RollBackAnswered
             /\ pc[m] = "failed" => "publisher" \in errors[m]
             /\ pc[m] \in {"unwired", "aborted"} => RollsBack(m)' \/ ~RollBackAnswered
  <2>1. CASE m = r.by /\ pc[m] = "establish publisher" /\ answer'[m] = "good"
    BY <2>1 DEF RollingBack
  <2>2. CASE /\ Up(m, "publisher")
             /\ m = r.by /\ r.await \in RollingBack =>
                   ~RollBackAnswered /\ (r.awaited => answer'[m] = "refused")
    <3>1. ~(m = r.by /\ r.awaited) => answer'[m] = answer[m]
      BY <1>1, RequestFields DEF Reply, TypeOK
    <3>2. pc[m] = "establish publisher" => answer'[m] = "good"
      <4>1. CASE m = r.by /\ r.awaited /\ pc[m] = "establish publisher"
        <5>1. answer[m] = None /\ answer[m] = "good"
          BY <2>2, <4>1 DEF Corresponds, Orphaned
        <5>2. QED
          BY <5>1, NoneIsNothing DEF Answers
      <4>2. CASE ~(m = r.by /\ r.awaited)
        BY <2>2, <3>1, <4>2 DEF Orphaned
      <4>3. CASE pc[m] # "establish publisher"
        BY <4>3
      <4>4. QED
        BY <4>1, <4>2, <4>3
    <3>3. ASSUME pc[m] \in RollingBack
          PROVE  \/ Awaited(m, pc[m]) \in requests'
                 \/ answer'[m] = "refused" /\ ~RollBackAnswered
      <4>1. Awaited(m, pc[m]).by = m /\ Awaited(m, pc[m]).await = pc[m] /\ Awaited(m, pc[m]).awaited
        BY DEF Awaited
      <4>2. CASE Awaited(m, pc[m]) = r
        BY <2>2, <3>3, <4>1, <4>2
      <4>3. CASE Awaited(m, pc[m]) \in requests /\ Awaited(m, pc[m]) # r
        BY <1>2, <4>3
      <4>4. CASE answer[m] = "refused" /\ ~RollBackAnswered
        <5>1. ~(m = r.by /\ r.awaited)
          BY <4>4, NoneIsNothing DEF Corresponds, Answers
        <5>2. QED
          BY <3>1, <4>4, <5>1
      <4>5. QED
        BY <2>2, <3>3, <4>2, <4>3, <4>4 DEF Orphaned
    <3>4. pc[m] = "failed" => "publisher" \in errors[m]
      BY <2>2 DEF Orphaned
    <3>5. pc[m] \in {"unwired", "aborted"} => RollsBack(m)' \/ ~RollBackAnswered
      BY <1>2, <2>2 DEF Orphaned, RollsBack
    <3>6. QED
      BY <3>2, <3>3, <3>4, <3>5
  <2>3. QED
    BY <1>4, <2>1, <2>2, PublisherServed
<1>5. QED
  BY <1>3, <1>4

LEMMA OrphanedConnection ==
    ASSUME TypeOK, Orphaned, NEW v \in Servers, NEW x \in Names, Operate(v, x) \/ Drop(v, x)
    PROVE  Orphaned'
<1>1. UNCHANGED <<faults, plan, pc, requests, answer, errors>>
  BY DEF Operate, Drop
<1>2. ASSUME NEW m \in Managers, Up(m, "publisher")'
      PROVE  Up(m, "publisher")
  BY <1>1, <1>2, OperatedUp, ClosedDown DEF Drop, Sides
<1>3. QED
  BY <1>1, <1>2 DEF Orphaned, PublisherAnswered, RollBackAnswered, RollsBack, Awaited

\* A request for the publisher is not left behind where it is answered for.
LEMMA EstablishAwaited ==
    ASSUME TypeOK, Corresponds, Orphaned, PublisherAnswered,
           NEW m \in Managers, NEW to \in Follows(pc[m]),
           NEW left \in {Late(m, pc[m]), Lost(m, pc[m])}, Moves(m, to, left), Reason(m, to, left),
           NEW q \in requests', q.await = "establish publisher"
    PROVE  q.awaited
<1>1. CASE q \in requests
  BY <1>1 DEF Orphaned
<1>2. CASE q = Awaited(m, to)
  BY <1>2 DEF Awaited
<1>3. CASE /\ q = [by |-> m, await |-> pc[m], awaited |-> FALSE]
           /\ Awaited(m, pc[m]) \in requests
  <2>1. pc[m] = "establish publisher"
    BY <1>3
  <2>2. Awaited(m, pc[m]).awaited /\ Awaited(m, pc[m]).by = m
    BY DEF Awaited
  <2>3. answer[m] = None
    BY <1>3, <2>1, <2>2 DEF Corresponds
  <2>4. to \in After(pc[m])
    BY <2>1, <2>3, AfterLeaving DEF Awaits, Establishing
  <2>5. to \in Failures
    BY <2>1, <2>4 DEF After, Reading, Linked, Unlinking, Failures, RollingBack
  <2>6. QED
    BY <2>1, <2>3, <2>5, NoneIsNothing DEF Reason, PublisherAnswered, Answers
<1>4. QED
  BY <1>1, <1>2, <1>3, MovedRequests

LEMMA OrphanedMoves ==
    ASSUME TypeOK, Corresponds, Begun, Orphaned, NEW m \in Managers, NEW to \in Follows(pc[m]),
           NEW left \in {Late(m, pc[m]), Lost(m, pc[m])}, Moves(m, to, left), Reason(m, to, left),
           \A n \in Managers : n # m => errors'[n] = errors[n]
    PROVE  Orphaned'
<1>1. UNCHANGED <<faults, plan, conn>>
  BY DEF Moves
<1> SUFFICES ASSUME PublisherAnswered
             PROVE  /\ \A q \in requests' : q.await = "establish publisher" => q.awaited
                    /\ \A n \in Managers : Up(n, "publisher") =>
                          /\ pc'[n] = "establish publisher" => answer'[n] = "good"
                          /\ pc'[n] \in RollingBack =>
                                \/ Awaited(n, pc'[n]) \in requests'
                                \/ answer'[n] = "refused" /\ ~RollBackAnswered
                          /\ pc'[n] = "failed" => "publisher" \in errors'[n]
                          /\ pc'[n] \in {"unwired", "aborted"} =>
                                \/ \E r \in requests' : r.by = n /\ r.await \in RollingBack
                                \/ ~RollBackAnswered
  BY <1>1 DEF Orphaned, PublisherAnswered, RollBackAnswered, RollsBack, Up, Awaited
<1>2. \A q \in requests' : q.await = "establish publisher" => q.awaited
  BY EstablishAwaited
<1>3. ASSUME NEW n \in Managers, n # m, Up(n, "publisher")
      PROVE  /\ pc'[n] = "establish publisher" => answer'[n] = "good"
             /\ pc'[n] \in RollingBack =>
                   \/ Awaited(n, pc'[n]) \in requests'
                   \/ answer'[n] = "refused" /\ ~RollBackAnswered
             /\ pc'[n] = "failed" => "publisher" \in errors'[n]
             /\ pc'[n] \in {"unwired", "aborted"} =>
                   \/ \E r \in requests' : r.by = n /\ r.await \in RollingBack
                   \/ ~RollBackAnswered
  <2>1. pc'[n] = pc[n] /\ answer'[n] = answer[n] /\ errors'[n] = errors[n]
    BY <1>3 DEF Moves, TypeOK
  <2>2. \A r \in requests : r.by = n => r \in requests'
    BY <1>3 DEF Moves, Late, Lost, Awaited
  <2>3. Awaited(n, pc[n]).by = n
    BY DEF Awaited
  <2>4. Awaited(n, pc'[n]) = Awaited(n, pc[n])
    BY <2>1
  <2>5. QED
    BY <1>3, <2>1, <2>2, <2>3, <2>4 DEF Orphaned, RollsBack
<1>4. ASSUME Up(m, "publisher")
      PROVE  /\ to # "establish publisher"
             /\ to \in RollingBack => Awaited(m, to) \in requests'
             /\ to = "failed" => "publisher" \in errors'[m]
             /\ to \in {"unwired", "aborted"} =>
                   \/ \E r \in requests' : r.by = m /\ r.await \in RollingBack
                   \/ ~RollBackAnswered
  <2>1. pc[m] # "idle"
    BY <1>4, ServersAndNames DEF Up, Begun
  <2>2. to # "establish publisher"
    BY <2>1 DEF Follows, Ending, Awaits, Establishing, RollingBack, Reading, Closing, Confirming,
                Linked, Unlinking
  <2>3. to \in RollingBack => Awaited(m, to) \in requests'
    BY DEF Moves, Awaits
  <2>4. ASSUME to \in Failures
        PROVE  /\ pc[m] \in RollingBack
               /\ \/ Awaited(m, pc[m]) \in requests /\ answer[m] = None
                  \/ answer[m] = "refused" /\ ~RollBackAnswered
    <3>1. pc[m] \in {"establish publisher"} \cup RollingBack
      BY <2>1, <2>4 DEF Follows, Ending, Awaits, Establishing, RollingBack, Reading, Closing,
                        Confirming, Linked, Unlinking, Failures
    <3>2. pc[m] # "establish publisher"
      <4>1. pc[m] = "establish publisher" => answer[m] = "good"
        BY <1>4 DEF Orphaned
      <4>2. QED
        BY <2>4, <4>1 DEF Reason, PublisherAnswered
    <3>3. Awaited(m, pc[m]) \in requests => answer[m] = None
      BY DEF Corresponds, Awaited
    <3>4. QED
      BY <1>4, <3>1, <3>2, <3>3 DEF Orphaned
  <2>5. to = "failed" => "publisher" \in errors'[m]
    BY <2>4, NoneIsNothing DEF Reason, Failures, Answers
  <2>6. ASSUME to \in {"unwired", "aborted"}, RollBackAnswered
        PROVE  \E r \in requests' : r.by = m /\ r.await \in RollingBack
    <3>1. pc[m] \in RollingBack /\ Awaited(m, pc[m]) \in requests /\ answer[m] = None
      BY <2>4, <2>6 DEF Failures
    <3>2. left = Late(m, pc[m])
      BY <2>6, <3>1 DEF Reason, RollBackAnswered
    <3>3. [by |-> m, await |-> pc[m], awaited |-> FALSE] \in requests'
      BY <3>1, <3>2 DEF Moves, Late
    <3>4. QED
      BY <3>1, <3>3
  <2>7. QED
    BY <2>2, <2>3, <2>5, <2>6
<1>5. pc'[m] = to
  BY DEF Moves, TypeOK
<1>6. QED
  BY <1>2, <1>3, <1>4, <1>5

-----------------------------------------------------------------------------
(* What has been shown so far is invariant. *)

Ordered == TypeOK /\ Corresponds /\ Begun /\ RollsBackOnce /\ Orphaned

LEMMA OrderedInit == Init => Ordered
<1> SUFFICES ASSUME Init PROVE Ordered
  OBVIOUS
<1>1. TypeOK
  BY TypeInit
<1>2. \A v \in Servers, x \in Names : conn[v][x] = None
  BY DEF Init
<1>3. Corresponds /\ Begun
  BY <1>2 DEF Init, Corresponds, Begun
<1>4. \A m \in Managers : ~Up(m, "publisher")
  BY <1>1, <1>2, ServersAndNames DEF Up
<1>5. RollsBackOnce /\ Orphaned
  BY <1>4 DEF Init, RollsBackOnce, Orphaned
<1>6. QED
  BY <1>1, <1>3, <1>5 DEF Ordered

LEMMA OrderedStutter == Ordered /\ UNCHANGED vars => Ordered'
<1> SUFFICES ASSUME Ordered, UNCHANGED vars PROVE Ordered'
  OBVIOUS
<1>1. TypeOK' /\ Corresponds' /\ Begun'
  BY DEF Ordered, vars, polling, TypeOK, Corresponds, Begun
<1>2. RollsBackOnce' /\ Orphaned'
  BY DEF Ordered, vars, RollsBackOnce, Orphaned, PublisherAnswered, RollBackAnswered, RollsBack,
         Up, Awaited
<1>3. QED
  BY <1>1, <1>2 DEF Ordered

LEMMA OrderedServer ==
    ASSUME Ordered, NEW r \in requests, ServerStep(r)
    PROVE  Ordered'
BY ServerTypes, CorrespondsServer, BegunServer, OnceServer, OrphanedServer DEF Ordered

LEMMA OrderedConnection ==
    ASSUME Ordered, NEW v \in Servers, NEW x \in Names, Operate(v, x) \/ Drop(v, x)
    PROVE  Ordered'
<1>1. Corresponds' /\ RollsBackOnce'
  BY DEF Ordered, Corresponds, RollsBackOnce, Operate, Drop
<1>2. QED
  BY <1>1, ConnectionTypes, BegunConnection, OrphanedConnection DEF Ordered

LEMMA OrderedManager ==
    ASSUME Ordered, NEW m \in Managers, ManagerStep(m)
    PROVE  Ordered'
<1>1. PICK to \in Follows(pc[m]), left \in {Late(m, pc[m]), Lost(m, pc[m])} :
         Moves(m, to, left) /\ Reason(m, to, left)
  BY ManagerMoves DEF Ordered
<1>2. TypeOK'
  BY <1>1, NotesTyped, MoveTypes DEF Ordered
<1>3. Corresponds' /\ Begun' /\ RollsBackOnce' /\ Orphaned'
  BY <1>1, CorrespondsMoves, BegunMoves, OnceMoves, OthersNotes, OrphanedMoves DEF Ordered
<1>4. QED
  BY <1>2, <1>3 DEF Ordered

LEMMA OrderedNext == Ordered /\ [Next]_vars => Ordered'
BY Steps, OrderedStutter, OrderedServer, OrderedConnection, OrderedManager

LEMMA OrderedAlways == Spec => []Ordered
BY OrderedInit, OrderedNext, PTL DEF Spec

\* The types are kept: every request is one a manager sent, and what a server holds
\* under a name is one connection or none (fx.py, link and unlink).
THEOREM TypeCorrect == Spec => []TypeOK
<1>1. Ordered => TypeOK
  BY DEF Ordered
<1>2. QED
  BY <1>1, OrderedAlways, PTL

\* A link that fails leaves no publisher emitting that its error does not name, once its
\* requests have been served: in every scenario in which the establish of the publisher is
\* answered, and with a link that was cancelled or got no coordinates if its rollback is
\* carried out (fx.py:666-667, :692-696, :702-716).
THEOREM NoPublisherIsOrphaned == Spec => []NoOrphanPublisher
<1>1. Ordered => NoOrphanPublisher
  BY DEF Ordered, Orphaned, RollsBack, NoOrphanPublisher, Settled, Failures
<1>2. QED
  BY <1>1, OrderedAlways, PTL

-----------------------------------------------------------------------------
(* What a manager notes down as it goes. *)

\* unlink is called.
Starts(m) ==
    /\ pc[m] \in {"linked", "operational", "unlink failed", "cancelled"}
    /\ first'[m] \in Sides /\ pc'[m] = CloseOf(first'[m])
    /\ errors'[m] = {}

\* It is done with the side it was at.
Done(m, failed) ==
    /\ pc[m] \in Closing \cup Confirming
    /\ IF failed THEN pc[m] \in Confirming \cup faults.lossy
       ELSE \/ pc[m] \in Closing /\ answer[m] = "good"
            \/ pc[m] \in Confirming /\ answer[m] = "down"
    /\ first'[m] = first[m]
    /\ errors'[m] = errors[m] \cup (IF failed THEN {RoleAt(pc[m])} ELSE {})
    /\ pc'[m] = IF RoleAt(pc[m]) = first[m] THEN CloseOf(Other(first[m]))
                ELSE IF errors'[m] = {} THEN "unlinked" ELSE "unlink failed"

\* It asks whether the side it could not close is down.
Asks(m) ==
    /\ pc[m] \in Closing /\ answer[m] = "refused"
    /\ pc'[m] \in Confirming /\ RoleAt(pc'[m]) = RoleAt(pc[m])
    /\ first'[m] = first[m] /\ errors'[m] = errors[m]

IsCancelled(m) == pc[m] \in faults.cancellable \cap (Closing \cup Confirming) /\ pc'[m] = "cancelled"

LEMMA SideIsDone ==
    ASSUME TypeOK, NEW m \in Managers, NEW await \in Closing \cup Confirming,
           NEW failed \in BOOLEAN, NEW answered, NEW side, side = RoleAt(await),
           Answered(m, await, {answered}), SideDone(m, side, failed),
           IF failed THEN await \in Confirming
           ELSE (await \in Closing /\ answered = "good") \/ (await \in Confirming /\ answered = "down")
    PROVE  Done(m, failed)
<1>1. pc[m] = await /\ answer[m] = answered
  BY DEF Answered
<1>2. /\ errors'[m] = errors[m] \cup (IF failed THEN {side} ELSE {})
      /\ first'[m] = first[m]
  BY DEF SideDone, polling, TypeOK
<1>3. pc'[m] = IF side = first[m] THEN CloseOf(Other(first[m]))
               ELSE IF errors'[m] = {} THEN "unlinked" ELSE "unlink failed"
  <2>1. CASE side = first[m]
    BY <2>1 DEF SideDone, Send, TypeOK
  <2>2. CASE side # first[m]
    <3>1. End(m, IF errors[m] \cup (IF failed THEN {side} ELSE {}) = {} THEN "unlinked"
                 ELSE "unlink failed")
      BY <2>2 DEF SideDone
    <3>2. End(m, IF errors'[m] = {} THEN "unlinked" ELSE "unlink failed")
      BY <1>2, <3>1
    <3>3. QED
      BY <2>2, <3>2 DEF End, TypeOK
  <2>3. QED
    BY <2>1, <2>2
<1>4. QED
  BY <1>1, <1>2, <1>3 DEF Done

LEMMA UnlinkNotes ==
    ASSUME TypeOK, NEW m \in Managers, ManagerStep(m), pc'[m] \in Unlinking
    PROVE  Starts(m) \/ (\E failed \in BOOLEAN : Done(m, failed)) \/ Asks(m) \/ IsCancelled(m)
<1> USE DEF Establishing, RollingBack, Reading, Closing, Confirming, Unlinking
<1>1. ~(Link(m) \/ LinkRejected(m) \/ WaitOperational(m))
  BY DEF Link, LinkRejected, WaitOperational, Send, End, TypeOK
<1>2. ~(PublisherUp(m) \/ NoCoordinates(m) \/ PublisherRefused(m))
  BY DEF PublisherUp, NoCoordinates, PublisherRefused, Send, End, TypeOK
<1>3. ~(SubscriberUp(m) \/ SubscriberRefused(m) \/ RolledBack(m))
  BY DEF SubscriberUp, SubscriberRefused, RolledBack, Ending, Send, End, TypeOK
<1>4. ~(PublisherRead(m) \/ SubscriberRead(m))
  BY DEF PublisherRead, SubscriberRead, Send, End, TypeOK
<1>5. ASSUME NEW await PROVE ~(LoseLink(m, await) \/ CancelLink(m, await) \/ WaitRaises(m, await))
  BY DEF LoseLink, CancelLink, WaitRaises, LinkRaises, Ending, TypeOK
<1>6. CASE Unlink(m)
  BY <1>6 DEF Unlink, Send, Starts, TypeOK
<1>7. CASE Closed(m)
  <2>1. PICK await \in Closing : Answered(m, await, {"good"}) /\ SideDone(m, RoleAt(await), FALSE)
    BY <1>7 DEF Closed
  <2>2. Done(m, FALSE)
    BY <2>1, SideIsDone
  <2>3. QED
    BY <2>2
<1>8. CASE Confirmed(m)
  <2>1. PICK await \in Confirming, status \in Statuses :
           Answered(m, await, {status}) /\ SideDone(m, RoleAt(await), status # "down")
    BY <1>8 DEF Confirmed
  <2>2. Done(m, status # "down")
    BY <2>1, SideIsDone
  <2>3. QED
    BY <2>2
<1>9. CASE CloseRefused(m)
  BY <1>9 DEF CloseRefused, Answered, Send, CloseOf, RoleAt, Sides, polling, Asks, TypeOK
<1>10. ASSUME NEW await \in faults.lossy, LoseUnlink(m, await) PROVE Done(m, TRUE)
  <2>1. pc[m] = await /\ await \in Closing \cup Confirming
    BY <1>10 DEF LoseUnlink, Raise
  <2>2. first'[m] = first[m] /\ errors'[m] = errors[m] \cup {RoleAt(await)}
    BY <1>10 DEF LoseUnlink, polling, TypeOK
  <2>3. pc'[m] = IF RoleAt(await) = first[m] THEN CloseOf(Other(first[m])) ELSE "unlink failed"
    BY <1>10 DEF LoseUnlink, TypeOK
  <2>4. QED
    BY <2>1, <2>2, <2>3 DEF Done
<1>11. ASSUME NEW await \in faults.cancellable, CancelUnlink(m, await) PROVE IsCancelled(m)
  BY <1>11 DEF CancelUnlink, Raise, IsCancelled, TypeOK
<1>12. QED
  BY <1>1, <1>2, <1>3, <1>4, <1>5, <1>6, <1>7, <1>8, <1>9, <1>10, <1>11 DEF ManagerStep

LEMMA WaitNotes ==
    ASSUME TypeOK, NEW m \in Managers, ManagerStep(m)
    PROVE  /\ pc'[m] = "read subscriber" =>
                 pc[m] = "read publisher" /\ (seen'[m] => answer[m] = "operational")
           /\ pc'[m] = "operational" =>
                 pc[m] = "read subscriber" /\ seen[m] /\ answer[m] = "operational"
<1> SUFFICES ASSUME pc'[m] \in {"read subscriber", "operational"}
             PROVE  /\ pc'[m] = "read subscriber" =>
                          pc[m] = "read publisher" /\ (seen'[m] => answer[m] = "operational")
                    /\ pc'[m] = "operational" =>
                          pc[m] = "read subscriber" /\ seen[m] /\ answer[m] = "operational"
  OBVIOUS
<1> USE DEF Establishing, RollingBack, Reading, Closing, Confirming
<1>1. ~(Link(m) \/ LinkRejected(m) \/ WaitOperational(m))
  BY DEF Link, LinkRejected, WaitOperational, Send, End, TypeOK
<1>2. ~(PublisherUp(m) \/ NoCoordinates(m) \/ PublisherRefused(m))
  BY DEF PublisherUp, NoCoordinates, PublisherRefused, Send, End, TypeOK
<1>3. ~(SubscriberUp(m) \/ SubscriberRefused(m) \/ RolledBack(m))
  BY DEF SubscriberUp, SubscriberRefused, RolledBack, Ending, Send, End, TypeOK
<1>4. ASSUME NEW await PROVE ~(LoseLink(m, await) \/ CancelLink(m, await) \/ WaitRaises(m, await))
  BY DEF LoseLink, CancelLink, WaitRaises, LinkRaises, Ending, TypeOK
<1>5. ASSUME NEW side, NEW failed PROVE ~SideDone(m, side, failed)
  BY DEF SideDone, Send, End, CloseOf, TypeOK
<1>6. ~(Unlink(m) \/ CloseRefused(m) \/ Closed(m) \/ Confirmed(m))
  BY <1>5 DEF Unlink, CloseRefused, Closed, Confirmed, Send, CloseOf, TypeOK
<1>7. ASSUME NEW await PROVE ~(LoseUnlink(m, await) \/ CancelUnlink(m, await))
  BY DEF LoseUnlink, CancelUnlink, CloseOf, TypeOK
<1>8. CASE PublisherRead(m)
  BY <1>8 DEF PublisherRead, Answered, Send, IsOperational, TypeOK
<1>9. CASE SubscriberRead(m)
  BY <1>9 DEF SubscriberRead, Answered, Send, End, IsOperational, TypeOK
<1>10. QED
  BY <1>1, <1>2, <1>3, <1>4, <1>6, <1>7, <1>8, <1>9 DEF ManagerStep

-----------------------------------------------------------------------------
(* What is up stays up until its manager closes it. *)

\* Only who takes part has requests.
LEMMA TakesPart ==
    ASSUME TypeOK, Corresponds, Begun, NEW r \in requests
    PROVE  r.by \in faults.managers
<1>1. pc[r.by] # "absent"
  BY Requester, RequestFields DEF After, Ending, Awaits, Establishing, RollingBack, Reading,
                                  Closing, Confirming, Linked, Unlinking
<1>2. QED
  BY <1>1, RequestFields DEF Begun

LEMMA OwnClose ==
    ASSUME Ordered, Alone \/ (Closable /\ ~faults.drops /\ ClosesAnswered), NEW r \in requests,
           r.await \in Closing \cup RollingBack,
           conn[ServerAt(r.by, r.await)][plan[r.by].name] # None
    PROVE  conn[ServerAt(r.by, r.await)][plan[r.by].name].by = r.by
<1> DEFINE c == conn[ServerAt(r.by, r.await)][plan[r.by].name]
<1> USE DEF Ordered
<1>1. CASE Alone
  <2>1. ServerAt(r.by, r.await) \in Servers /\ plan[r.by].name \in Names
    BY RequestFields, ServersAndNames DEF ServerAt
  <2>2. c \in Connection
    BY <2>1 DEF TypeOK
  <2>3. c.by \in Managers /\ pc[c.by] # "absent"
    BY <2>1, <2>2 DEF Connection, Begun
  <2>4. c.by \in faults.managers
    BY <2>3 DEF Begun
  <2>5. QED
    BY <1>1, <2>4, TakesPart DEF Alone
<1>2. CASE Closable /\ ~faults.drops /\ ClosesAnswered
  <2>1. Up(r.by, RoleAt(r.await))
    <3>1. CASE r.await \in RollingBack
      BY <1>2, <3>1 DEF Closable, RoleAt
    <3>2. CASE r.await \in Closing
      <4>1. r.awaited
        BY <1>2, <3>2 DEF Closable
      <4>2. pc[r.by] = r.await /\ answer[r.by] = None
        BY <4>1 DEF Corresponds
      <4>3. QED
        BY <1>2, <3>2, <4>2, RequestFields DEF Closable
    <3>3. QED
      BY <3>1, <3>2
  <2>2. QED
    BY <2>1 DEF Up, ServerAt
<1>3. QED
  BY <1>1, <1>2

LEMMA StaysUp ==
    ASSUME Ordered, Owned, Closable, NEW r \in requests, ServerStep(r),
           NEW m \in Managers, NEW role \in Sides, Up(m, role), ~(m = r.by /\ ServeClose(r))
    PROVE  /\ Up(m, role)'
           /\ StatusOf(m, role) = "operational" => StatusOf(m, role)' = "operational"
<1> USE DEF Ordered
<1>1. CASE UNCHANGED conn
  BY <1>1, Replies DEF Reply, Up, StatusOf
<1>2. CASE ServeEstablish(r) /\ Establish(ServerAt(r.by, r.await), r.by, r.await)
  <2>1. UNCHANGED plan
    BY Replies DEF Reply
  <2>2. ConnOf(m, role)' = ConnOf(m, role)
    <3>1. ConnOf(m, role) # None
      BY DEF Up, ConnOf
    <3>2. QED
      BY <1>2, <2>1, <3>1, EstablishedUp, RequestFields DEF ConnOf
  <2>3. QED
    BY <2>1, <2>2 DEF ConnOf, Up, StatusOf
<1>3. CASE ServeClose(r)
  <2>1. PICK v \in Servers, x \in Names : v = ServerAt(r.by, r.await) /\ x = plan[r.by].name
    BY RequestFields, ServersAndNames DEF ServerAt
  <2>2. conn' = [conn EXCEPT ![v][x] = None] /\ UNCHANGED plan
    BY <1>3, <2>1 DEF ServeClose, Reply
  <2>3. conn[v][x] # None => conn[v][x].by # m
    BY <1>3, <2>1, OwnClose DEF ServeClose, Owned
  <2>4. Up(m, role)' /\ StatusOf(m, role)' = StatusOf(m, role)
    BY <2>2, <2>3, ClosedDown
  <2>5. QED
    BY <2>4
<1>4. QED
  BY <1>1, <1>2, <1>3 DEF ServerStep, ServeEstablish, RefuseClose, ServeRead

\* A server's step leaves every manager where it is, and answers at most its requester.
LEMMA Served ==
    ASSUME Ordered, NEW r \in requests, ServerStep(r)
    PROVE  /\ UNCHANGED <<faults, plan, pc, seen, first, errors>>
           /\ requests' = requests \ {r}
           /\ \A m \in Managers :
                 \/ answer'[m] = answer[m] /\ ~(m = r.by /\ r.awaited)
                 \/ m = r.by /\ r.awaited /\ pc[m] = r.await /\ answer[m] = None /\ answer'[m] # None
<1>1. PICK result \in Expected(r.await) : Reply(r, result)
  BY Replies DEF Ordered
<1>2. result # None
  BY NoneIsNothing DEF Expected, Answers
<1>3. UNCHANGED <<faults, plan, pc, seen, first, errors>> /\ requests' = requests \ {r}
  BY <1>1 DEF Reply, polling
<1>4. ASSUME NEW m \in Managers
      PROVE  \/ answer'[m] = answer[m] /\ ~(m = r.by /\ r.awaited)
             \/ m = r.by /\ r.awaited /\ pc[m] = r.await /\ answer[m] = None /\ answer'[m] # None
  <2>1. CASE m = r.by /\ r.awaited
    BY <1>1, <1>2, <2>1 DEF Reply, Ordered, TypeOK, Corresponds
  <2>2. CASE ~(m = r.by /\ r.awaited)
    BY <1>1, <2>2, RequestFields DEF Reply, Ordered, TypeOK
  <2>3. QED
    BY <2>1, <2>2
<1>5. QED
  BY <1>3, <1>4

\* An establish that is answered for is up.
LEMMA GoodIsUp ==
    ASSUME Ordered, NEW r \in requests, ServerStep(r), NEW m \in Managers,
           pc[m] \in Establishing, answer[m] = None, answer'[m] = "good"
    PROVE  Up(m, RoleAt(pc[m]))'
<1> USE DEF Ordered
<1>1. m = r.by /\ pc[m] = r.await
  BY Served, NoneIsNothing DEF Answers
<1>2. ServeEstablish(r) /\ r.awaited
  BY <1>1, Served, NoneIsNothing
     DEF ServerStep, ServeClose, RefuseClose, ServeRead, Establishing, RollingBack, Reading, Closing,
         Confirming, Answers
<1>3. Establish(ServerAt(r.by, r.await), r.by, r.await)
  BY <1>1, <1>2, RequestFields DEF ServeEstablish, Reply, TypeOK
<1>4. UNCHANGED plan
  BY Served
<1>5. Up(r.by, RoleAt(r.await))'
  BY <1>3, <1>4, EstablishedUp, RequestFields
<1>6. UNCHANGED pc
  BY Served
<1>7. QED
  BY <1>1, <1>5, <1>6 DEF Up

LEMMA OwnedStays ==
    ASSUME UNCHANGED faults
    PROVE  Owned' = Owned /\ Alone' = Alone /\ ClosesAnswered' = ClosesAnswered
BY DEF Owned, Alone, ClosesAnswered

LEMMA KeptServer ==
    ASSUME Ordered, Closable, Kept, NEW r \in requests, ServerStep(r)
    PROVE  Kept'
<1>1. UNCHANGED <<faults, plan, pc>>
  BY Served
<1> SUFFICES ASSUME Owned', NEW m \in Managers
             PROVE  /\ pc'[m] = "establish publisher" /\ answer'[m] = "good" => Up(m, "publisher")'
                    /\ pc'[m] = "establish subscriber" => Up(m, "publisher")'
                    /\ pc'[m] = "establish subscriber" /\ answer'[m] = "good"
                          => Up(m, "subscriber")'
                    /\ pc'[m] \in Linked => Up(m, "publisher")' /\ Up(m, "subscriber")'
  BY DEF Kept, Up
<1> Owned
  BY <1>1 DEF Owned, Alone, ClosesAnswered
<1>2. pc[m] \in Establishing \cup Linked => ~(m = r.by /\ ServeClose(r))
  BY ClosingRequester DEF Ordered, ServeClose, Establishing, RollingBack, Failures, Linked, Unlinking,
                          Reading, Closing, Confirming
<1>3. ASSUME NEW role \in Sides, Up(m, role), pc[m] \in Establishing \cup Linked
      PROVE  Up(m, role)'
  <2>1. ~(m = r.by /\ ServeClose(r))
    BY <1>2, <1>3
  <2>2. QED
    BY <1>3, <2>1, StaysUp
<1>4. ASSUME NEW role, RoleAt(pc[m]) = role, pc[m] \in Establishing, answer'[m] = "good",
             answer[m] # "good"
      PROVE  Up(m, role)'
  <2>1. answer[m] = None
    BY <1>4, Served
  <2>2. QED
    BY <1>1, <1>4, <2>1, GoodIsUp DEF Up
<1>5. pc[m] = "establish publisher" /\ answer'[m] = "good" => Up(m, "publisher")'
  <2> SUFFICES ASSUME pc[m] = "establish publisher", answer'[m] = "good" PROVE Up(m, "publisher")'
    OBVIOUS
  <2>1. CASE answer[m] = "good"
    <3>1. Up(m, "publisher")
      BY <2>1 DEF Kept
    <3>2. QED
      BY <1>3, <3>1 DEF Establishing, Sides, Up
  <2>2. CASE answer[m] # "good"
    <3>1. RoleAt(pc[m]) = "publisher"
      BY DEF RoleAt
    <3>2. QED
      BY <1>4, <2>2, <3>1 DEF Establishing, Up
  <2>3. QED
    BY <2>1, <2>2
<1>6. pc[m] = "establish subscriber" => Up(m, "publisher")'
  BY <1>3 DEF Kept, Establishing, Sides, Up
<1>7. pc[m] = "establish subscriber" /\ answer'[m] = "good" => Up(m, "subscriber")'
  <2> SUFFICES ASSUME pc[m] = "establish subscriber", answer'[m] = "good" PROVE Up(m, "subscriber")'
    OBVIOUS
  <2>1. CASE answer[m] = "good"
    <3>1. Up(m, "subscriber")
      BY <2>1 DEF Kept
    <3>2. QED
      BY <1>3, <3>1 DEF Establishing, Sides, Up
  <2>2. CASE answer[m] # "good"
    <3>1. RoleAt(pc[m]) = "subscriber"
      BY DEF RoleAt, RollingBack
    <3>2. QED
      BY <1>4, <2>2, <3>1 DEF Establishing, Up
  <2>3. QED
    BY <2>1, <2>2
<1>8. pc[m] \in Linked => Up(m, "publisher")' /\ Up(m, "subscriber")'
  BY <1>3 DEF Kept, Sides, Up
<1>9. QED
  BY <1>1, <1>5, <1>6, <1>7, <1>8

LEMMA KeptConnection ==
    ASSUME Ordered, Kept, NEW v \in Servers, NEW x \in Names, Operate(v, x) \/ Drop(v, x)
    PROVE  Kept'
<1>1. UNCHANGED <<faults, plan, pc, answer>>
  BY DEF Operate, Drop
<1>2. CASE Operate(v, x)
  <2>1. ASSUME NEW m \in Managers, NEW role \in Sides PROVE Up(m, role)' = Up(m, role)
    BY <1>2, OperatedUp DEF Ordered, Up
  <2>2. QED
    BY <1>1, <2>1, OwnedStays DEF Kept, Sides
<1>3. CASE Drop(v, x)
  BY <1>1, <1>3 DEF Drop, Kept, Owned
<1>4. QED
  BY <1>2, <1>3

LEMMA KeptMoves ==
    ASSUME Ordered, Kept, NEW m \in Managers, NEW to \in Follows(pc[m]), NEW left,
           Moves(m, to, left), Reason(m, to, left)
    PROVE  Kept'
<1>1. UNCHANGED <<faults, plan, conn>>
  BY DEF Moves
<1>2. \A n \in Managers : n # m => pc'[n] = pc[n] /\ answer'[n] = answer[n]
  BY DEF Moves, Ordered, TypeOK
<1>3. pc'[m] = to /\ answer'[m] = None /\ None # "good"
  BY NoneIsNothing DEF Moves, Ordered, TypeOK, Answers
<1> SUFFICES ASSUME Owned', NEW n \in Managers
             PROVE  /\ pc'[n] = "establish publisher" /\ answer'[n] = "good" => Up(n, "publisher")'
                    /\ pc'[n] = "establish subscriber" => Up(n, "publisher")'
                    /\ pc'[n] = "establish subscriber" /\ answer'[n] = "good"
                          => Up(n, "subscriber")'
                    /\ pc'[n] \in Linked => Up(n, "publisher")' /\ Up(n, "subscriber")'
  BY DEF Kept, Up
<1> Owned
  BY <1>1 DEF Owned, Alone, ClosesAnswered
<1> USE DEF Follows, Ending, Failures, Awaits, Establishing, RollingBack, Reading, Closing,
            Confirming, Linked, Unlinking
<1>4. to = "establish subscriber" => pc[m] = "establish publisher" /\ answer[m] = "good"
  BY DEF Reason
<1>5. ASSUME to \in Linked PROVE Up(m, "publisher") /\ Up(m, "subscriber")
  <2>1. \/ pc[m] = "establish subscriber" /\ answer[m] = "good"
        \/ pc[m] \in Linked
    BY <1>5 DEF Reason
  <2>2. QED
    BY <2>1 DEF Kept
<1>6. CASE n = m
  BY <1>1, <1>3, <1>4, <1>5, <1>6 DEF Kept, Up
<1>7. CASE n # m
  <2>1. /\ pc'[n] = "establish publisher" /\ answer'[n] = "good" => Up(n, "publisher")
        /\ pc'[n] = "establish subscriber" => Up(n, "publisher")
        /\ pc'[n] = "establish subscriber" /\ answer'[n] = "good" => Up(n, "subscriber")
        /\ pc'[n] \in Linked => Up(n, "publisher") /\ Up(n, "subscriber")
    BY <1>2, <1>7 DEF Kept
  <2>2. QED
    BY <1>1, <2>1 DEF Up
<1>8. QED
  BY <1>6, <1>7

LEMMA ClosableServer ==
    ASSUME Ordered, Closable, NEW r \in requests, ServerStep(r)
    PROVE  Closable'
<1>1. UNCHANGED <<faults, plan, pc, first, errors>> /\ requests' = requests \ {r}
  BY Served
<1> SUFFICES ASSUME ~faults.drops, ClosesAnswered'
             PROVE  /\ \A q \in requests' : q.await \in RollingBack => Up(q.by, "publisher")'
                    /\ \A q \in requests' : q.await \in Closing => q.awaited
                    /\ \A m \in Managers :
                          /\ pc'[m] \notin Confirming \cup {"unlink failed", "cancelled"}
                          /\ pc'[m] \in Closing =>
                                /\ answer'[m] # "refused" /\ errors'[m] = {}
                                /\ answer'[m] = None => Up(m, RoleAt(pc[m]))'
                                /\ RoleAt(pc'[m]) = first'[m] => Up(m, Other(first[m]))'
  BY <1>1 DEF Closable, Up
<1>2. ClosesAnswered /\ Owned
  BY <1>1 DEF ClosesAnswered, Owned
<1> USE DEF Ordered
<1>3. ASSUME NEW q \in requests', q.await \in RollingBack PROVE Up(q.by, "publisher")'
  <2>1. q \in requests /\ q # r /\ Up(q.by, "publisher")
    BY <1>1, <1>2, <1>3 DEF Closable
  <2>2. ~(q.by = r.by /\ ServeClose(r))
    <3>1. q.by = r.by => r.await \notin RollingBack
      BY <1>3, <2>1 DEF RollsBackOnce
    <3>2. q.by = r.by => r.await \notin Closing
      BY <1>3, <2>1, ClosingRequester DEF RollingBack, Failures, Unlinking, Closing, Confirming
    <3>3. QED
      BY <3>1, <3>2 DEF ServeClose
  <2>3. QED
    BY <1>2, <2>1, <2>2, StaysUp, RequestFields DEF Sides, Up
<1>4. ASSUME NEW m \in Managers, pc[m] \in Closing
      PROVE  /\ answer'[m] # "refused" /\ errors'[m] = {}
             /\ answer'[m] = None => Up(m, RoleAt(pc[m]))'
             /\ RoleAt(pc[m]) = first[m] => Up(m, Other(first[m]))'
  <2>1. /\ answer[m] # "refused" /\ errors'[m] = {}
        /\ answer[m] = None => Up(m, RoleAt(pc[m]))
        /\ RoleAt(pc[m]) = first[m] => Up(m, Other(first[m]))
    BY <1>1, <1>2, <1>4 DEF Closable
  <2>2. RoleAt(pc[m]) \in Sides /\ Other(first[m]) \in Sides
    BY RoleIsASide DEF Other, Sides
  <2>3. CASE m = r.by /\ ServeClose(r)
    <3>1. r.await \in Closing
      BY <1>4, <2>3, ClosingRequester DEF ServeClose, RollingBack, Failures, Closing
    <3>2. r.awaited /\ pc[m] = r.await /\ answer[m] = None
      BY <1>2, <2>3, <3>1 DEF Closable, Corresponds
    <3>3. Up(m, RoleAt(r.await))
      BY <2>1, <3>2
    <3>4. conn[ServerAt(r.by, r.await)][plan[r.by].name] # None
      BY <2>3, <3>3 DEF Up, ServerAt
    <3>5. answer'[m] = "good"
      BY <2>3, <3>2, <3>4 DEF ServeClose, Reply, TypeOK
    <3>6. RoleAt(pc[m]) = first[m] => Up(m, Other(first[m]))'
      <4>1. RoleAt(pc[m]) = first[m] => Other(first[m]) # RoleAt(r.await)
        BY <3>2, RoleIsASide DEF Other, Sides
      <4>2. conn' = [conn EXCEPT ![ServerAt(r.by, r.await)][plan[r.by].name] = None]
        BY <2>3 DEF ServeClose
      <4>3. ASSUME NEW role \in Sides, role # RoleAt(r.await), Up(m, role) PROVE Up(m, role)'
        BY <1>1, <2>3, <4>2, <4>3, OtherSideStays, RequestFields DEF Up
      <4>4. QED
        BY <1>1, <2>1, <2>2, <4>1, <4>3 DEF Up
    <3>7. QED
      BY <2>1, <3>5, <3>6, NoneIsNothing DEF Answers
  <2>4. CASE ~(m = r.by /\ ServeClose(r))
    <3>1. answer'[m] = answer[m]
      <4>1. m = r.by => r.await # pc[m]
        BY <1>2, <1>4, <2>4 DEF ServerStep, ServeEstablish, RefuseClose, ServeRead, Establishing,
                                Closing, Confirming, Reading, ClosesAnswered
      <4>2. QED
        BY <4>1, Served
    <3>2. ASSUME NEW role \in Sides, Up(m, role) PROVE Up(m, role)'
      BY <1>2, <2>4, <3>2, StaysUp
    <3>3. QED
      BY <1>1, <2>1, <2>2, <3>1, <3>2 DEF Up
  <2>5. QED
    BY <2>3, <2>4
<1>5. QED
  BY <1>1, <1>2, <1>3, <1>4 DEF Closable, Up

LEMMA ClosableConnection ==
    ASSUME Ordered, Closable, NEW v \in Servers, NEW x \in Names, Operate(v, x) \/ Drop(v, x)
    PROVE  Closable'
<1>1. UNCHANGED <<faults, plan, pc, requests, answer, first, errors>>
  BY DEF Operate, Drop, polling
<1>2. CASE Operate(v, x)
  <2>1. ASSUME NEW m \in Managers, NEW role \in Sides PROVE Up(m, role)' = Up(m, role)
    BY <1>2, OperatedUp DEF Ordered, Up
  <2>2. \A m \in Managers : RoleAt(pc[m]) \in Sides /\ Other(first[m]) \in Sides
    BY RoleIsASide DEF Other, Sides
  <2>3. \A r \in requests : r.by \in Managers
    BY RequestFields DEF Ordered
  <2>4. "publisher" \in Sides
    BY DEF Sides
  <2> SUFFICES ASSUME ~faults.drops, ClosesAnswered'
               PROVE  /\ \A q \in requests : q.await \in RollingBack => Up(q.by, "publisher")'
                      /\ \A q \in requests : q.await \in Closing => q.awaited
                      /\ \A m \in Managers :
                            /\ pc[m] \notin Confirming \cup {"unlink failed", "cancelled"}
                            /\ pc[m] \in Closing =>
                                  /\ answer[m] # "refused" /\ errors[m] = {}
                                  /\ answer[m] = None => Up(m, RoleAt(pc[m]))'
                                  /\ RoleAt(pc[m]) = first[m] => Up(m, Other(first[m]))'
    BY <1>1 DEF Closable, Up
  <2>5. ClosesAnswered
    BY <1>1 DEF ClosesAnswered
  <2>6. \A m \in Managers : /\ Up(m, RoleAt(pc[m]))' = Up(m, RoleAt(pc[m]))
                             /\ Up(m, Other(first[m]))' = Up(m, Other(first[m]))
    BY <1>1, <2>1, <2>2 DEF Up
  <2>7. \A q \in requests : Up(q.by, "publisher")' = Up(q.by, "publisher")
    BY <1>1, <2>1, <2>3, <2>4 DEF Up
  <2>8. QED
    BY <2>5, <2>6, <2>7 DEF Closable
<1>3. CASE Drop(v, x)
  BY <1>1, <1>3 DEF Drop, Closable
<1>4. QED
  BY <1>2, <1>3

\* Where a manager's step leaves its unlink when closes are answered for.
LEMMA UnlinkGoesWell ==
    ASSUME Ordered, Closable, Kept, ~faults.drops, ClosesAnswered, NEW m \in Managers,
           ManagerStep(m), pc'[m] \in Unlinking
    PROVE  /\ pc'[m] \notin Confirming \cup {"unlink failed", "cancelled"}
           /\ pc'[m] \in Closing =>
                 /\ errors'[m] = {}
                 /\ Up(m, RoleAt(pc'[m]))
                 /\ RoleAt(pc'[m]) = first'[m] => Up(m, Other(first'[m]))
<1>1. /\ pc[m] \notin Confirming \cup {"unlink failed", "cancelled"}
      /\ pc[m] \in Closing => /\ answer[m] # "refused" /\ errors[m] = {}
                              /\ RoleAt(pc[m]) = first[m] => Up(m, Other(first[m]))
  BY DEF Closable
<1>2. ASSUME NEW side \in Sides
      PROVE  CloseOf(side) \in Closing /\ RoleAt(CloseOf(side)) = side
             /\ Other(side) \in Sides /\ Other(side) # side
  BY <1>2 DEF CloseOf, Closing, RoleAt, RollingBack, Other, Sides
<1>3. CASE Starts(m)
  <2>1. pc[m] \in Linked /\ first'[m] \in Sides /\ pc'[m] = CloseOf(first'[m]) /\ errors'[m] = {}
    BY <1>1, <1>3 DEF Starts, Linked
  <2>2. \A side \in Sides : Up(m, side)
    BY <2>1 DEF Kept, Owned, Sides
  <2>3. PICK side \in Sides : side = first'[m]
    BY <2>1
  <2>4. pc'[m] \in Closing /\ RoleAt(pc'[m]) = side /\ Other(side) \in Sides
    BY <1>2, <2>1, <2>3
  <2>5. QED
    BY <2>1, <2>2, <2>3, <2>4 DEF Closing, Confirming
<1>4. ASSUME NEW failed \in BOOLEAN, Done(m, failed)
      PROVE  /\ pc'[m] \notin Confirming \cup {"unlink failed", "cancelled"}
             /\ pc'[m] \in Closing =>
                   /\ errors'[m] = {}
                   /\ Up(m, RoleAt(pc'[m]))
                   /\ RoleAt(pc'[m]) = first'[m] => Up(m, Other(first'[m]))
  <2>1. pc[m] \in Closing
    BY <1>1, <1>4 DEF Done
  <2>2. ~failed /\ first'[m] = first[m]
    BY <1>4, <2>1 DEF Done, ClosesAnswered, Closing, Confirming
  <2>3. errors'[m] = {}
    BY <1>1, <1>4, <2>1, <2>2 DEF Done
  <2>4. first[m] \in Sides
    BY DEF Ordered, TypeOK
  <2>5. CASE RoleAt(pc[m]) = first[m]
    <3>1. pc'[m] = CloseOf(Other(first[m])) /\ Up(m, Other(first[m]))
      BY <1>1, <1>4, <2>1, <2>5 DEF Done
    <3>2. QED
      BY <1>2, <2>2, <2>3, <2>4, <3>1 DEF Closing, Confirming
  <2>6. CASE RoleAt(pc[m]) # first[m]
    BY <1>4, <2>3, <2>6 DEF Done, Closing, Confirming
  <2>7. QED
    BY <2>5, <2>6
<1>5. ~Asks(m) /\ ~IsCancelled(m)
  BY <1>1 DEF Asks, IsCancelled, ClosesAnswered
<1>6. QED
  BY <1>3, <1>4, <1>5, UnlinkNotes DEF Ordered

LEMMA ClosableManager ==
    ASSUME Ordered, Closable, Kept, NEW m \in Managers, ManagerStep(m)
    PROVE  Closable'
<1> USE DEF Ordered
<1>1. PICK to \in Follows(pc[m]), left \in {Late(m, pc[m]), Lost(m, pc[m])} :
         Moves(m, to, left) /\ Reason(m, to, left)
  BY ManagerMoves
<1>2. UNCHANGED <<faults, plan, conn>> /\ pc'[m] = to /\ answer'[m] = None
  BY <1>1 DEF Moves, TypeOK
<1>3. ASSUME NEW n \in Managers, n # m
      PROVE  pc'[n] = pc[n] /\ answer'[n] = answer[n] /\ first'[n] = first[n]
             /\ errors'[n] = errors[n]
  BY <1>1, <1>3, OthersNotes DEF Moves, TypeOK
<1> SUFFICES ASSUME ~faults.drops, ClosesAnswered
             PROVE  /\ \A q \in requests' : q.await \in RollingBack => Up(q.by, "publisher")'
                    /\ \A q \in requests' : q.await \in Closing => q.awaited
                    /\ \A n \in Managers :
                          /\ pc'[n] \notin Confirming \cup {"unlink failed", "cancelled"}
                          /\ pc'[n] \in Closing =>
                                /\ answer'[n] # "refused" /\ errors'[n] = {}
                                /\ answer'[n] = None => Up(n, RoleAt(pc[n]))'
                                /\ RoleAt(pc'[n]) = first'[n] => Up(n, Other(first[n]))'
  BY <1>2 DEF Closable, ClosesAnswered, Up
<1>4. Owned
  BY DEF Owned
<1>5. ASSUME NEW q \in requests', q.await \in RollingBack PROVE Up(q.by, "publisher")
  <2>1. CASE q \in requests
    BY <1>5, <2>1 DEF Closable
  <2>2. CASE q = Awaited(m, to)
    <3>1. to \in RollingBack /\ q.by = m
      BY <1>5, <2>2 DEF Awaited
    <3>2. pc[m] \in Establishing
      BY <3>1 DEF Follows, Ending, Establishing, RollingBack, Linked, Unlinking, Reading, Closing,
                  Confirming
    <3>3. to \notin Failures
      BY <3>1 DEF RollingBack, Failures
    <3>4. QED
      BY <1>1, <1>4, <3>1, <3>2, <3>3 DEF Reason, Kept, Establishing
  <2>3. CASE /\ q = [by |-> m, await |-> pc[m], awaited |-> FALSE]
             /\ Awaited(m, pc[m]) \in requests
    <3>1. Awaited(m, pc[m]).by = m /\ Awaited(m, pc[m]).await \in RollingBack /\ q.by = m
      BY <1>5, <2>3 DEF Awaited
    <3>2. QED
      BY <2>3, <3>1 DEF Closable
  <2>4. QED
    BY <1>1, <2>1, <2>2, <2>3, MovedRequests
<1>6. ASSUME NEW q \in requests', q.await \in Closing PROVE q.awaited
  <2>1. CASE q \in requests
    BY <1>6, <2>1 DEF Closable
  <2>2. CASE q = Awaited(m, to)
    BY <2>2 DEF Awaited
  <2>3. ~(/\ q = [by |-> m, await |-> pc[m], awaited |-> FALSE]
          /\ Awaited(m, pc[m]) \in requests)
    <3>1. q = [by |-> m, await |-> pc[m], awaited |-> FALSE] => pc[m] \in Closing
      BY <1>6
    <3>2. Awaited(m, pc[m]) \in requests => answer[m] = None
      BY DEF Corresponds, Awaited
    <3>3. QED
      BY <1>1, <3>1, <3>2 DEF Reason, ClosesAnswered
  <2>4. QED
    BY <1>1, <2>1, <2>2, <2>3, MovedRequests
<1>7. ASSUME NEW n \in Managers
      PROVE  /\ pc'[n] \notin Confirming \cup {"unlink failed", "cancelled"}
             /\ pc'[n] \in Closing =>
                   /\ answer'[n] # "refused" /\ errors'[n] = {}
                   /\ answer'[n] = None => Up(n, RoleAt(pc'[n]))
                   /\ RoleAt(pc'[n]) = first'[n] => Up(n, Other(first'[n]))
  <2>1. CASE n # m
    BY <1>3, <2>1 DEF Closable
  <2>2. CASE n = m /\ to \in Unlinking
    BY <1>2, <2>2, UnlinkGoesWell, NoneIsNothing DEF Answers
  <2>3. CASE n = m /\ to \notin Unlinking
    BY <1>2, <2>3 DEF Unlinking
  <2>4. QED
    BY <2>1, <2>2, <2>3
<1>8. \A n, role : Up(n, role)' = Up(n, role)
  BY <1>2 DEF Up
<1>9. ASSUME NEW n \in Managers
      PROVE  /\ Up(n, RoleAt(pc[n]))' = Up(n, RoleAt(pc'[n]))
             /\ Up(n, Other(first[n]))' = Up(n, Other(first'[n]))
  BY <1>2 DEF Up
<1>10. QED
  BY <1>5, <1>6, <1>7, <1>8, <1>9

-----------------------------------------------------------------------------
(* A link that was returned is up, and managers close only their own connections. *)

Upheld == Ordered /\ Kept /\ Closable

LEMMA UpheldInit == Init => Upheld
<1> SUFFICES ASSUME Init PROVE Upheld
  OBVIOUS
<1>1. Ordered
  BY OrderedInit
<1>2. requests = {} /\ \A m \in Managers : pc[m] \in {"idle", "absent"}
  BY DEF Init
<1>3. Kept
  BY <1>2 DEF Kept, Linked, Reading
<1>4. Closable
  BY <1>2 DEF Closable, Closing, Confirming
<1>5. QED
  BY <1>1, <1>3, <1>4 DEF Upheld

LEMMA UpheldStutter == Upheld /\ UNCHANGED vars => Upheld'
<1> SUFFICES ASSUME Upheld, UNCHANGED vars PROVE Upheld'
  OBVIOUS
<1>1. Ordered'
  BY OrderedStutter DEF Upheld
<1>2. Kept'
  BY DEF Upheld, vars, polling, Kept, Owned, Alone, ClosesAnswered, Up
<1>3. Closable'
  BY DEF Upheld, vars, polling, Closable, ClosesAnswered, Up
<1>4. QED
  BY <1>1, <1>2, <1>3 DEF Upheld

LEMMA UpheldManager ==
    ASSUME Upheld, NEW m \in Managers, ManagerStep(m)
    PROVE  Upheld'
<1>1. PICK to \in Follows(pc[m]), left \in {Late(m, pc[m]), Lost(m, pc[m])} :
         Moves(m, to, left) /\ Reason(m, to, left)
  BY ManagerMoves DEF Upheld, Ordered
<1>2. QED
  BY <1>1, OrderedManager, KeptMoves, ClosableManager DEF Upheld

LEMMA UpheldNext == Upheld /\ [Next]_vars => Upheld'
<1>1. ASSUME Upheld, NEW r \in requests, ServerStep(r) PROVE Upheld'
  BY <1>1, OrderedServer, KeptServer, ClosableServer DEF Upheld
<1>2. ASSUME Upheld, NEW v \in Servers, NEW x \in Names, Operate(v, x) \/ Drop(v, x) PROVE Upheld'
  BY <1>2, OrderedConnection, KeptConnection, ClosableConnection DEF Upheld
<1>3. QED
  BY <1>1, <1>2, Steps, UpheldStutter, UpheldManager

LEMMA UpheldAlways == Spec => []Upheld
BY UpheldInit, UpheldNext, PTL DEF Spec

\* A link that was returned is up at both ends until its manager unlinks it, whatever the
\* other managers do, unless servers end connections or closes go unanswered (fx.py:686-687,
\* :707).
THEOREM ReturnedLinksAreUp == Spec => []LinkedMeansBoth
<1>1. Upheld => LinkedMeansBoth
  BY DEF Upheld, Kept, Owned, Linked, LinkedMeansBoth
<1>2. QED
  BY <1>1, UpheldAlways, PTL

\* A rollback or an unlink ends no connection that another manager established
\* (fx.py:686-687, :707).
THEOREM OnlyOwnConnectionsEnd == Spec => ClosesItsOwn
<1>1. Upheld /\ [Next]_vars =>
         (Alone \/ (~faults.drops /\ ClosesAnswered) =>
            \A r \in requests \ requests' : \A v \in Servers, x \in Names :
               r.await \in Closing \cup RollingBack /\ conn[v][x] # None /\ conn'[v][x] = None
               => conn[v][x].by = r.by)
  <2> SUFFICES ASSUME Upheld, [Next]_vars, Alone \/ (~faults.drops /\ ClosesAnswered),
                      NEW r \in requests \ requests', NEW v \in Servers, NEW x \in Names,
                      r.await \in Closing \cup RollingBack, conn[v][x] # None, conn'[v][x] = None
               PROVE  conn[v][x].by = r.by
    OBVIOUS
  <2> USE DEF Upheld, Ordered
  <2>1. CASE \E q \in requests : ServerStep(q)
    <3>1. PICK q \in requests : ServerStep(q)
      BY <2>1
    <3>2. q = r
      BY <3>1, Served
    <3>3. ServeClose(r)
      BY <3>1, <3>2 DEF ServerStep, ServeEstablish, RefuseClose, ServeRead, Establishing, Reading,
                        Closing, Confirming, RollingBack
    <3>4. ServerAt(r.by, r.await) \in Servers /\ plan[r.by].name \in Names
      BY RequestFields, ServersAndNames DEF ServerAt
    <3>5. v = ServerAt(r.by, r.await) /\ x = plan[r.by].name
      BY <3>3, <3>4 DEF ServeClose, TypeOK
    <3>6. QED
      BY <3>5, OwnClose
  <2>2. CASE UNCHANGED conn
    BY <2>2
  <2>3. ASSUME NEW w \in Servers, NEW y \in Names, Operate(w, y) \/ Drop(w, y) PROVE FALSE
    BY <2>3 DEF Operate, Drop
  <2>4. ASSUME NEW m \in Managers, ManagerStep(m) PROVE UNCHANGED conn
    BY <2>4, ManagerMoves DEF Moves
  <2>5. UNCHANGED vars => UNCHANGED conn
    BY DEF vars
  <2>6. QED
    BY <2>1, <2>2, <2>3, <2>4, <2>5, Steps
<1>2. QED
  BY <1>1, UpheldAlways, PTL DEF Spec, ClosesItsOwn

-----------------------------------------------------------------------------
(* wait_operational *)

\* The status a read is answered with is that of the manager's connection.
LEMMA ReadIsTrue ==
    ASSUME Ordered, NEW r \in requests, ServerStep(r), NEW m \in Managers,
           pc[m] \in Reading, answer[m] = None, answer'[m] = "operational"
    PROVE  StatusOf(m, RoleAt(pc[m]))' = "operational"
<1> USE DEF Ordered
<1>1. m = r.by /\ pc[m] = r.await /\ r.awaited
  BY Served, NoneIsNothing DEF Answers, Statuses
<1>2. ServeRead(r)
  BY <1>1 DEF ServerStep, ServeEstablish, ServeClose, RefuseClose, Establishing, RollingBack, Closing,
              Reading
<1>3. Reply(r, Status(conn[ServerAt(r.by, r.await)][plan[r.by].name]))
  BY <1>2 DEF ServeRead
<1>4. Status(conn[ServerAt(m, pc[m])][plan[m].name]) = "operational"
  BY <1>1, <1>3 DEF Reply, TypeOK
<1>5. UNCHANGED <<plan, pc, conn>>
  BY <1>2 DEF ServeRead, Reply
<1>6. QED
  BY <1>4, <1>5 DEF StatusOf, ServerAt

LEMMA ReadServer ==
    ASSUME Upheld, Read, NEW r \in requests, ServerStep(r)
    PROVE  Read'
<1>1. UNCHANGED <<faults, plan, pc, seen>>
  BY Served DEF Upheld
<1> SUFFICES ASSUME Owned', NEW m \in Managers
             PROVE  /\ pc'[m] = "read publisher" /\ answer'[m] = "operational"
                          => StatusOf(m, "publisher")' = "operational"
                    /\ pc'[m] = "read subscriber" /\ seen'[m]
                          => StatusOf(m, "publisher")' = "operational"
                    /\ pc'[m] = "read subscriber" /\ answer'[m] = "operational"
                          => StatusOf(m, "subscriber")' = "operational"
                    /\ pc'[m] = "operational" => /\ StatusOf(m, "publisher")' = "operational"
                                                 /\ StatusOf(m, "subscriber")' = "operational"
  BY DEF Read, StatusOf
<1> Owned
  BY <1>1 DEF Owned, Alone, ClosesAnswered
<1>2. ASSUME NEW role \in Sides, pc[m] \in Linked, StatusOf(m, role) = "operational"
      PROVE  StatusOf(m, role)' = "operational"
  <2>1. Up(m, role)
    BY <1>2 DEF Upheld, Kept, Sides
  <2>2. ~(m = r.by /\ ServeClose(r))
    BY <1>2, ClosingRequester DEF Upheld, Ordered, ServeClose, RollingBack, Failures, Linked,
                                  Unlinking, Reading, Closing, Confirming
  <2>3. QED
    BY <1>2, <2>1, <2>2, StaysUp DEF Upheld, StatusOf
<1>3. ASSUME NEW role \in Sides, pc[m] \in Reading, RoleAt(pc[m]) = role,
             answer'[m] = "operational", answer[m] = "operational" =>
                                            StatusOf(m, role) = "operational"
      PROVE  StatusOf(m, role)' = "operational"
  <2>1. CASE answer[m] = "operational"
    BY <1>2, <1>3, <2>1 DEF Linked, StatusOf
  <2>2. CASE answer[m] # "operational"
    <3>1. answer[m] = None
      BY <1>3, <2>2, Served DEF Upheld
    <3>2. QED
      BY <1>1, <1>3, <3>1, ReadIsTrue DEF Upheld, StatusOf
  <2>3. QED
    BY <2>1, <2>2
<1>4. ASSUME pc[m] = "read publisher", answer'[m] = "operational"
      PROVE  StatusOf(m, "publisher")' = "operational"
  <2>1. RoleAt(pc[m]) = "publisher" /\ pc[m] \in Reading /\ "publisher" \in Sides
    BY <1>4 DEF RoleAt, Reading, Sides
  <2>2. answer[m] = "operational" => StatusOf(m, "publisher") = "operational"
    BY <1>4 DEF Read
  <2>3. QED
    BY <1>3, <1>4, <2>1, <2>2 DEF StatusOf
<1>5. ASSUME pc[m] = "read subscriber", answer'[m] = "operational"
      PROVE  StatusOf(m, "subscriber")' = "operational"
  <2>1. RoleAt(pc[m]) = "subscriber" /\ pc[m] \in Reading /\ "subscriber" \in Sides
    BY <1>5 DEF RoleAt, RollingBack, Reading, Sides
  <2>2. answer[m] = "operational" => StatusOf(m, "subscriber") = "operational"
    BY <1>5 DEF Read
  <2>3. QED
    BY <1>3, <1>5, <2>1, <2>2 DEF StatusOf
<1>6. ASSUME pc[m] = "read subscriber", seen[m]
      PROVE  StatusOf(m, "publisher")' = "operational"
  BY <1>2, <1>6 DEF Read, Linked, Reading, Sides, StatusOf
<1>7. ASSUME pc[m] = "operational", NEW role \in Sides
      PROVE  StatusOf(m, role)' = "operational"
  <2>1. StatusOf(m, role) = "operational" /\ pc[m] \in Linked
    BY <1>7 DEF Read, Linked, Sides
  <2>2. QED
    BY <1>2, <2>1 DEF StatusOf
<1>8. QED
  BY <1>1, <1>4, <1>5, <1>6, <1>7 DEF Sides, StatusOf

LEMMA ReadConnection ==
    ASSUME Ordered, Read, NEW v \in Servers, NEW x \in Names, Operate(v, x) \/ Drop(v, x)
    PROVE  Read'
<1>1. UNCHANGED <<faults, plan, pc, answer, seen>>
  BY DEF Operate, Drop, polling
<1>2. CASE Operate(v, x)
  <2>1. ASSUME NEW m \in Managers, NEW role \in Sides, StatusOf(m, role) = "operational"
        PROVE  StatusOf(m, role)' = "operational"
    BY <1>2, <2>1, OperatedUp DEF Ordered, StatusOf
  <2>2. "publisher" \in Sides /\ "subscriber" \in Sides
    BY DEF Sides
  <2>3. Owned' => Owned
    BY <1>1 DEF Owned, Alone, ClosesAnswered
  <2>4. QED
    BY <1>1, <2>1, <2>2, <2>3 DEF Read
<1>3. CASE Drop(v, x)
  BY <1>1, <1>3 DEF Drop, Read, Owned
<1>4. QED
  BY <1>2, <1>3

LEMMA ReadManager ==
    ASSUME Ordered, Read, NEW m \in Managers, ManagerStep(m)
    PROVE  Read'
<1>1. PICK to, left : Moves(m, to, left)
  BY ManagerMoves DEF Ordered
<1>2. UNCHANGED <<faults, plan, conn>> /\ answer'[m] = None /\ None # "operational"
  BY <1>1, NoneIsNothing DEF Moves, Ordered, TypeOK, Answers, Statuses
<1> SUFFICES ASSUME Owned', NEW n \in Managers
             PROVE  /\ pc'[n] = "read publisher" /\ answer'[n] = "operational"
                          => StatusOf(n, "publisher")' = "operational"
                    /\ pc'[n] = "read subscriber" /\ seen'[n]
                          => StatusOf(n, "publisher")' = "operational"
                    /\ pc'[n] = "read subscriber" /\ answer'[n] = "operational"
                          => StatusOf(n, "subscriber")' = "operational"
                    /\ pc'[n] = "operational" => /\ StatusOf(n, "publisher")' = "operational"
                                                 /\ StatusOf(n, "subscriber")' = "operational"
  BY DEF Read, StatusOf
<1> Owned
  BY <1>2 DEF Owned, Alone, ClosesAnswered
<1>3. /\ pc'[n] = "read publisher" /\ answer'[n] = "operational"
            => StatusOf(n, "publisher") = "operational"
      /\ pc'[n] = "read subscriber" /\ seen'[n] => StatusOf(n, "publisher") = "operational"
      /\ pc'[n] = "read subscriber" /\ answer'[n] = "operational"
            => StatusOf(n, "subscriber") = "operational"
      /\ pc'[n] = "operational" => /\ StatusOf(n, "publisher") = "operational"
                                   /\ StatusOf(n, "subscriber") = "operational"
  <2>1. CASE n # m
    <3>1. pc'[n] = pc[n] /\ answer'[n] = answer[n] /\ seen'[n] = seen[n]
      BY <1>1, <2>1, OthersNotes DEF Moves, Ordered, TypeOK
    <3>2. QED
      BY <3>1 DEF Read
  <2>2. CASE n = m
    <3>1. /\ pc'[m] = "read subscriber" =>
                pc[m] = "read publisher" /\ (seen'[m] => answer[m] = "operational")
          /\ pc'[m] = "operational" =>
                pc[m] = "read subscriber" /\ seen[m] /\ answer[m] = "operational"
      BY WaitNotes DEF Ordered
    <3>2. QED
      BY <1>2, <2>2, <3>1 DEF Read
  <2>3. QED
    BY <2>1, <2>2
<1>4. QED
  BY <1>2, <1>3 DEF StatusOf

LEMMA ReadAlways == Spec => []Read
<1>1. Init => Read
  BY DEF Init, Read
<1>2. Upheld /\ Read /\ [Next]_vars => Read'
  <2>1. Read /\ UNCHANGED vars => Read'
    BY DEF vars, polling, Read, Owned, Alone, ClosesAnswered, StatusOf
  <2>2. ASSUME Upheld, Read, NEW r \in requests, ServerStep(r) PROVE Read'
    BY <2>2, ReadServer
  <2>3. ASSUME Upheld, Read, NEW v \in Servers, NEW x \in Names, Operate(v, x) \/ Drop(v, x)
        PROVE  Read'
    BY <2>3, ReadConnection DEF Upheld
  <2>4. ASSUME Upheld, Read, NEW m \in Managers, ManagerStep(m) PROVE Read'
    BY <2>4, ReadManager DEF Upheld
  <2>5. QED
    BY <2>1, <2>2, <2>3, <2>4, Steps
<1>3. QED
  BY <1>1, <1>2, UpheldAlways, PTL DEF Spec

\* Both sides are operational when wait_operational returns, though it reads one after the
\* other (fx.py:590-603).
THEOREM BothAreOperational == Spec => []WaitTellsTheTruth
<1>1. Upheld /\ Read => WaitTellsTheTruth
  <2> SUFFICES ASSUME Upheld, Read, Owned, NEW m \in Managers, pc[m] = "operational"
               PROVE  /\ conn[plan[m].publisher][plan[m].name].status = "operational"
                      /\ conn[plan[m].subscriber][plan[m].name].status = "operational"
    BY DEF WaitTellsTheTruth, Owned
  <2>1. StatusOf(m, "publisher") = "operational" /\ StatusOf(m, "subscriber") = "operational"
    BY DEF Read
  <2>2. QED
    BY <2>1 DEF StatusOf, Status
<1>2. QED
  BY <1>1, UpheldAlways, ReadAlways, PTL

-----------------------------------------------------------------------------
(* unlink *)

LEMMA DealtServer ==
    ASSUME Ordered, Dealt, NEW r \in requests, ServerStep(r)
    PROVE  Dealt'
<1> USE DEF Ordered
<1>1. UNCHANGED <<plan, pc, first, errors>>
  BY Served
<1> SUFFICES ASSUME NEW m \in Managers, pc[m] \in Unlinking
             PROVE  /\ pc'[m] \in Closing /\ answer'[m] = "good" => ~Up(m, RoleAt(pc[m]))'
                    /\ pc'[m] \in Confirming /\ answer'[m] = "down" => ~Up(m, RoleAt(pc[m]))'
                    /\ pc'[m] \in Closing \cup Confirming /\ RoleAt(pc'[m]) # first'[m]
                          /\ Up(m, first[m])' => first'[m] \in errors'[m]
                    /\ pc'[m] \in {"unlinked", "unlink failed"} =>
                          \A side \in Sides : Up(m, side)' => side \in errors'[m]
  BY <1>1 DEF Dealt, Unlinking, Up
<1>2. ASSUME NEW role \in Sides, Up(m, role)' PROVE Up(m, role)
  <2>1. CASE UNCHANGED conn
    BY <1>1, <1>2, <2>1 DEF Up
  <2>2. CASE ServeEstablish(r) /\ Establish(ServerAt(r.by, r.await), r.by, r.await)
    <3>1. m # r.by
      BY <2>2, ClosingRequester DEF ServeEstablish, Establishing, Reading, Closing, Confirming
    <3>2. QED
      BY <1>1, <1>2, <2>2, <3>1, EstablishedUp, RequestFields
  <2>3. CASE ServeClose(r)
    <3>1. PICK v \in Servers, x \in Names : v = ServerAt(r.by, r.await) /\ x = plan[r.by].name
      BY RequestFields, ServersAndNames DEF ServerAt
    <3>2. conn' = [conn EXCEPT ![v][x] = None]
      BY <2>3, <3>1 DEF ServeClose
    <3>3. QED
      BY <1>1, <1>2, <3>2, ClosedDown
  <2>4. QED
    BY <2>1, <2>2, <2>3 DEF ServerStep, ServeEstablish, RefuseClose, ServeRead
<1>3. RoleAt(pc[m]) \in Sides /\ first[m] \in Sides
  BY RoleIsASide DEF TypeOK
<1>4. ASSUME pc[m] \in Closing, answer'[m] = "good", answer[m] = None PROVE ~Up(m, RoleAt(pc[m]))'
  <2>1. m = r.by /\ pc[m] = r.await /\ r.awaited
    BY <1>4, Served, NoneIsNothing DEF Answers
  <2>2. ~RefuseClose(r)
    BY <1>4, <2>1 DEF RefuseClose, Reply, TypeOK
  <2>3. ServeClose(r)
    BY <1>4, <2>1, <2>2 DEF ServerStep, ServeEstablish, ServeRead, Establishing, Closing, Reading,
                            Confirming
  <2>4. ServerAt(m, pc[m]) \in Servers /\ plan[m].name \in Names
    BY ServersAndNames DEF ServerAt
  <2>5. conn'[ServerAt(m, pc[m])][plan[m].name] = None
    BY <2>1, <2>3, <2>4 DEF ServeClose, TypeOK
  <2>6. QED
    BY <1>1, <2>5 DEF Up, ServerAt
<1>5. pc[m] \in Closing /\ answer'[m] = "good" => ~Up(m, RoleAt(pc[m]))'
  <2>1. answer'[m] = answer[m] \/ answer[m] = None
    BY Served
  <2>2. QED
    BY <1>1, <1>2, <1>3, <1>4, <2>1 DEF Dealt, Up
<1>6. ASSUME pc[m] \in Confirming, answer'[m] = "down", answer[m] = None
       PROVE  ~Up(m, RoleAt(pc[m]))'
  <2>1. m = r.by /\ pc[m] = r.await /\ r.awaited
    BY <1>6, Served, NoneIsNothing DEF Answers, Statuses
  <2>2. ServeRead(r)
    BY <1>6, <2>1 DEF ServerStep, ServeEstablish, ServeClose, RefuseClose, Establishing, RollingBack,
                       Closing, Confirming
  <2>3. Status(conn[ServerAt(m, pc[m])][plan[m].name]) = "down" /\ UNCHANGED conn
    BY <1>6, <2>1, <2>2 DEF ServeRead, Reply, TypeOK
  <2>4. ServerAt(m, pc[m]) \in Servers /\ plan[m].name \in Names
    BY ServersAndNames DEF ServerAt
  <2>5. conn[ServerAt(m, pc[m])][plan[m].name] = None
    BY <2>3, <2>4 DEF Status, TypeOK, Connection
  <2>6. QED
    BY <1>1, <2>3, <2>5 DEF Up, ServerAt
<1>7. pc[m] \in Confirming /\ answer'[m] = "down" => ~Up(m, RoleAt(pc[m]))'
  <2>1. answer'[m] = answer[m] \/ answer[m] = None
    BY Served
  <2>2. QED
    BY <1>1, <1>2, <1>3, <1>6, <2>1 DEF Dealt, Up
<1>8. pc[m] \in Closing \cup Confirming /\ RoleAt(pc[m]) # first[m] /\ Up(m, first[m])'
         => first[m] \in errors[m]
  BY <1>1, <1>2, <1>3 DEF Dealt, Up
<1>9. pc[m] \in {"unlinked", "unlink failed"} =>
         \A side \in Sides : Up(m, side)' => side \in errors[m]
  BY <1>2 DEF Dealt, Up
<1>10. QED
  BY <1>1, <1>5, <1>7, <1>8, <1>9 DEF Up

LEMMA DealtConnection ==
    ASSUME Ordered, Dealt, NEW v \in Servers, NEW x \in Names, Operate(v, x) \/ Drop(v, x)
    PROVE  Dealt'
<1>1. UNCHANGED <<plan, pc, answer, first, errors>>
  BY DEF Operate, Drop, polling
<1>2. ASSUME NEW m \in Managers, NEW role \in Sides, Up(m, role)' PROVE Up(m, role)
  BY <1>2, OperatedUp, ClosedDown DEF Drop, Ordered
<1>3. \A m \in Managers : RoleAt(pc[m]) \in Sides /\ first[m] \in Sides
  BY RoleIsASide DEF Ordered, TypeOK
<1>4. \A m \in Managers : /\ Up(m, RoleAt(pc[m]))' => Up(m, RoleAt(pc[m]))
                          /\ Up(m, first[m])' => Up(m, first[m])
  <2>1. ASSUME NEW m \in Managers, NEW role \in Sides PROVE Up(m, role)' => Up(m, role)
    BY <1>2
  <2>2. ASSUME NEW m \in Managers
        PROVE  /\ Up(m, RoleAt(pc[m]))' => Up(m, RoleAt(pc[m]))
               /\ Up(m, first[m])' => Up(m, first[m])
    <3>1. PICK mine \in Sides, one \in Sides : mine = RoleAt(pc[m]) /\ one = first[m]
      BY <1>3
    <3>2. (Up(m, mine)' => Up(m, mine)) /\ (Up(m, one)' => Up(m, one))
      BY <2>1
    <3>3. Up(m, RoleAt(pc[m]))' = Up(m, mine)' /\ Up(m, first[m])' = Up(m, one)'
      BY <1>1, <3>1 DEF Up
    <3>4. Up(m, RoleAt(pc[m])) = Up(m, mine) /\ Up(m, first[m]) = Up(m, one)
      BY <3>1
    <3>5. QED
      BY <3>2, <3>3, <3>4
  <2>3. QED
    BY <2>2
<1>5. \A m \in Managers : /\ pc'[m] = pc[m] /\ answer'[m] = answer[m]
                          /\ first'[m] = first[m] /\ errors'[m] = errors[m]
  BY <1>1
<1>6. QED
  BY <1>1, <1>2, <1>4, <1>5 DEF Dealt

\* What is dealt with once a manager has gone on in its unlink.
LEMMA UnlinkDeals ==
    ASSUME Ordered, Dealt, NEW m \in Managers, ManagerStep(m), pc'[m] \in Unlinking
    PROVE  /\ pc'[m] \in Closing \cup Confirming /\ RoleAt(pc'[m]) # first'[m] /\ Up(m, first'[m])
                 => first'[m] \in errors'[m]
           /\ pc'[m] \in {"unlinked", "unlink failed"} =>
                 \A side \in Sides : Up(m, side) => side \in errors'[m]
<1>1. ASSUME NEW side \in Sides
      PROVE  CloseOf(side) \in Closing \ Confirming /\ RoleAt(CloseOf(side)) = side
             /\ CloseOf(side) \notin {"unlinked", "unlink failed"}
             /\ Other(side) \in Sides /\ Other(side) # side
  BY <1>1 DEF CloseOf, Closing, Confirming, RoleAt, RollingBack, Other, Sides
<1>2. first[m] \in Sides /\ RoleAt(pc[m]) \in Sides
  BY RoleIsASide DEF Ordered, TypeOK
<1>3. /\ pc[m] \in Closing /\ answer[m] = "good" => ~Up(m, RoleAt(pc[m]))
      /\ pc[m] \in Confirming /\ answer[m] = "down" => ~Up(m, RoleAt(pc[m]))
      /\ pc[m] \in Closing \cup Confirming /\ RoleAt(pc[m]) # first[m] /\ Up(m, first[m])
            => first[m] \in errors[m]
  BY DEF Dealt
<1>4. CASE Starts(m)
  <2>1. PICK side \in Sides : side = first'[m]
    BY <1>4 DEF Starts
  <2>2. pc'[m] = CloseOf(side)
    BY <1>4, <2>1 DEF Starts
  <2>3. QED
    BY <1>1, <2>1, <2>2
<1>5. ASSUME NEW failed \in BOOLEAN, Done(m, failed)
      PROVE  /\ pc'[m] \in Closing \cup Confirming /\ RoleAt(pc'[m]) # first'[m]
                   /\ Up(m, first'[m]) => first'[m] \in errors'[m]
             /\ pc'[m] \in {"unlinked", "unlink failed"} =>
                   \A side \in Sides : Up(m, side) => side \in errors'[m]
  <2>1. Up(m, RoleAt(pc[m])) => RoleAt(pc[m]) \in errors'[m]
    <3>1. failed \/ ~Up(m, RoleAt(pc[m]))
      BY <1>3, <1>5, NoneIsNothing DEF Done, Answers
    <3>2. QED
      BY <1>5, <3>1 DEF Done
  <2>2. first'[m] = first[m] /\ errors[m] \subseteq errors'[m]
    BY <1>5 DEF Done
  <2>3. CASE RoleAt(pc[m]) = first[m]
    <3>1. pc'[m] = CloseOf(Other(first[m]))
      BY <1>5, <2>3 DEF Done
    <3>2. QED
      BY <1>1, <1>2, <2>1, <2>2, <2>3, <3>1
  <2>4. CASE RoleAt(pc[m]) # first[m]
    <3>1. pc'[m] \in {"unlinked", "unlink failed"}
      BY <1>5, <2>4 DEF Done
    <3>2. Up(m, first[m]) => first[m] \in errors'[m]
      BY <1>3, <1>5, <2>2, <2>4 DEF Done
    <3>3. \A side \in Sides : side \in {first[m], RoleAt(pc[m])}
      BY <1>2, <2>4 DEF Sides
    <3>4. QED
      BY <2>1, <3>1, <3>2, <3>3 DEF Closing, Confirming
  <2>5. QED
    BY <2>3, <2>4
<1>6. CASE Asks(m)
  BY <1>3, <1>6, NoneIsNothing DEF Asks, Closing, Confirming, Answers
<1>7. CASE IsCancelled(m)
  BY <1>7 DEF IsCancelled, Closing, Confirming
<1>8. QED
  BY <1>4, <1>5, <1>6, <1>7, UnlinkNotes DEF Ordered

LEMMA DealtManager ==
    ASSUME Ordered, Dealt, NEW m \in Managers, ManagerStep(m)
    PROVE  Dealt'
<1>1. PICK to, left : Moves(m, to, left)
  BY ManagerMoves DEF Ordered
<1>2. UNCHANGED <<plan, conn>> /\ answer'[m] = None
  BY <1>1 DEF Moves, Ordered, TypeOK
<1> SUFFICES ASSUME NEW n \in Managers
             PROVE  /\ pc'[n] \in Closing /\ answer'[n] = "good" => ~Up(n, RoleAt(pc[n]))'
                    /\ pc'[n] \in Confirming /\ answer'[n] = "down" => ~Up(n, RoleAt(pc[n]))'
                    /\ pc'[n] \in Closing \cup Confirming /\ RoleAt(pc'[n]) # first'[n]
                          /\ Up(n, first[n])' => first'[n] \in errors'[n]
                    /\ pc'[n] \in {"unlinked", "unlink failed"} =>
                          \A side \in Sides : Up(n, side)' => side \in errors'[n]
  BY DEF Dealt, Up
<1>3. /\ pc'[n] \in Closing /\ answer'[n] = "good" => ~Up(n, RoleAt(pc'[n]))
      /\ pc'[n] \in Confirming /\ answer'[n] = "down" => ~Up(n, RoleAt(pc'[n]))
      /\ pc'[n] \in Closing \cup Confirming /\ RoleAt(pc'[n]) # first'[n]
            /\ Up(n, first'[n]) => first'[n] \in errors'[n]
      /\ pc'[n] \in {"unlinked", "unlink failed"} =>
            \A side \in Sides : Up(n, side) => side \in errors'[n]
  <2>1. CASE n # m
    <3>1. /\ pc'[n] = pc[n] /\ answer'[n] = answer[n] /\ first'[n] = first[n]
          /\ errors'[n] = errors[n]
      BY <1>1, <2>1, OthersNotes DEF Moves, Ordered, TypeOK
    <3>2. QED
      BY <3>1 DEF Dealt
  <2>2. CASE n = m /\ pc'[m] \in Unlinking
    BY <1>2, <2>2, UnlinkDeals, NoneIsNothing DEF Answers, Statuses
  <2>3. CASE n = m /\ pc'[m] \notin Unlinking
    BY <2>3 DEF Unlinking
  <2>4. QED
    BY <2>1, <2>2, <2>3
<1>4. QED
  BY <1>2, <1>3 DEF Up

LEMMA DealtAlways == Spec => []Dealt
<1>1. Init => Dealt
  BY DEF Init, Dealt, Closing, Confirming
<1>2. Ordered /\ Dealt /\ [Next]_vars => Dealt'
  <2>1. Dealt /\ UNCHANGED vars => Dealt'
    <3> SUFFICES ASSUME Dealt, UNCHANGED vars PROVE Dealt'
      OBVIOUS
    <3>1. UNCHANGED <<plan, pc, answer, first, errors, conn>>
      BY DEF vars, polling
    <3>2. QED
      BY <3>1 DEF Dealt, Up
  <2>2. ASSUME Ordered, Dealt, NEW r \in requests, ServerStep(r) PROVE Dealt'
    BY <2>2, DealtServer
  <2>3. ASSUME Ordered, Dealt, NEW v \in Servers, NEW x \in Names, Operate(v, x) \/ Drop(v, x)
        PROVE  Dealt'
    BY <2>3, DealtConnection
  <2>4. ASSUME Ordered, Dealt, NEW m \in Managers, ManagerStep(m) PROVE Dealt'
    BY <2>4, DealtManager
  <2>5. QED
    BY <2>1, <2>2, <2>3, <2>4, Steps
<1>3. QED
  BY <1>1, <1>2, OrderedAlways, PTL DEF Spec

\* A side that is up when unlink returns is one it complained of, whatever was refused (the
\* close of a connection that is up, too), raised or cancelled, in every scenario
\* (fx.py:735-737).
THEOREM UnlinkIsHonest == Spec => []UnlinkTellsTheTruth
<1>1. Dealt => UnlinkTellsTheTruth
  BY DEF Dealt, UnlinkTellsTheTruth
<1>2. QED
  BY <1>1, DealtAlways, PTL

=============================================================================
