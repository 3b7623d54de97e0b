---------------------------- MODULE ListenerProofs ----------------------------
(***************************************************************************)
(* What holds of the listener for any catalog, any endpoints, any number of *)
(* descriptors and however many requests sync at the same time.            *)
(***************************************************************************)
EXTENDS Listener, FiniteSetTheorems, WellFoundedInduction, TLAPS

\* A table of receivers, the descriptors and the syncs in progress of some tasks
\* belong together: what is held or being opened is bound to its endpoint, and no
\* descriptor is that of two.
Sound(tasks, held, fds) ==
    /\ \A e \in Endpoints : held[e] # NoSocket => fds[held[e]] = e
    /\ \A t \in tasks : Busy(t) =>
          /\ task[t].socket \in Sockets
          /\ fds[task[t].socket] = task[t].at
          /\ held[task[t].at] # task[t].socket
    /\ \A t, u \in tasks : Busy(t) /\ Busy(u) /\ task[t].socket = task[u].socket => t = u

\* Every registered endpoint is held, has failed, or is still to be visited by a sync.
Heard ==
    up = "serving" /\ "unsaved" \notin mishaps =>
        \A e \in Wanted(registered) :
            \/ transports[e] # NoSocket
            \/ e \in errors
            \/ \E t \in Tasks : Busy(t) /\ (e = task[t].at \/ e \in task[t].todo)

\* While syncs do not overlap, what is open is held or being opened, and what is being
\* opened is not held.
Tidy ==
    /\ \A t, u \in Tasks : Busy(t) /\ Busy(u) => t = u
    /\ \A s \in Open(sockets) :
          \/ transports[sockets[s]] = s
          \/ \E t \in Tasks : Busy(t) /\ task[t].socket = s
    /\ \A t \in Tasks : Busy(t) => transports[task[t].at] = NoSocket

Single ==
    /\ up = "starting" => Quiet
    /\ "overlap" \notin mishaps => Tidy

\* And if every save succeeded, it is registered.
Current ==
    mishaps = {} =>
        /\ \A s \in Open(sockets) : sockets[s] \in Wanted(registered)
        /\ \A t \in Tasks : Busy(t) => task[t].todo \subseteq Wanted(registered)

-----------------------------------------------------------------------------
(* The steps of a sync. *)

\* The kernel hands out a descriptor that is free.
LEMMA FreeSocket ==
    ASSUME NEW fds, Free(fds) # {}
    PROVE  Min(Free(fds)) \in Sockets /\ fds[Min(Free(fds))] = None
<1>1. Free(fds) \subseteq Nat
  BY DEF Free, Sockets
<1>2. PICK s \in Free(fds) : \A r \in Free(fds) : <<r, s>> \notin OpToRel(<, Nat)
  BY <1>1, NatLessThanWellFounded, WFMin
<1>3. \A r \in Free(fds) : s <= r
  <2>1. OpToRel(<, Nat) = {ss \in Nat \X Nat : ss[1] < ss[2]}
    BY Zenon DEF OpToRel
  <2> SUFFICES ASSUME NEW r \in Free(fds), r < s PROVE FALSE
    BY <1>1
  <2>2. <<r, s>> \in {ss \in Nat \X Nat : ss[1] < ss[2]}
    BY <1>1
  <2>3. QED
    BY <1>2, <2>1, <2>2
<1>4. Min(Free(fds)) \in Free(fds)
  BY <1>3 DEF Min
<1>5. QED
  BY <1>4 DEF Free, Open

\* A sync visits what is left and ends, or opens a receiver for one more endpoint.
Ends(t, todo, held, fds) ==
    /\ task' = [task EXCEPT ![t] = Idle]
    /\ sockets' = fds
    /\ \A e \in todo : held[e] # NoSocket \/ e \in errors'

Opens(t, todo, held, fds, e, s, rest) ==
    /\ e \in todo /\ rest \subseteq todo
    /\ s \in Sockets /\ fds[s] = None /\ held[e] = NoSocket
    /\ sockets' = [fds EXCEPT ![s] = e]
    /\ task' = [task EXCEPT ![t] = [todo |-> rest, at |-> e, socket |-> s]]
    /\ \A x \in todo : held[x] # NoSocket \/ x \in errors' \/ x = e \/ x \in rest

LEMMA Visits ==
    ASSUME NEW t, NEW todo, NEW held, NEW fds, NEW failed, Visit(t, todo, held, fds, failed)
    PROVE  /\ failed \subseteq errors' /\ errors' \subseteq failed \cup todo
           /\ \/ Ends(t, todo, held, fds)
              \/ \E e, s, rest : Opens(t, todo, held, fds, e, s, rest)
<1>1. PICK visited \in SUBSET todo :
         /\ errors' = failed \cup {e \in visited : held[e] = NoSocket}
         /\ \/ /\ visited = todo
               /\ task' = [task EXCEPT ![t] = Idle]
               /\ sockets' = fds
            \/ \E e \in todo \ visited :
               /\ held[e] = NoSocket
               /\ Free(fds) # {}
               /\ sockets' = [fds EXCEPT ![Min(Free(fds))] = e]
               /\ task' = [task EXCEPT ![t] = [todo |-> todo \ (visited \cup {e}), at |-> e,
                                               socket |-> Min(Free(fds))]]
  BY DEF Visit
<1>2. CASE visited = todo /\ task' = [task EXCEPT ![t] = Idle] /\ sockets' = fds
  BY <1>1, <1>2 DEF Ends
<1>3. ASSUME NEW e \in todo \ visited, held[e] = NoSocket, Free(fds) # {},
             sockets' = [fds EXCEPT ![Min(Free(fds))] = e],
             task' = [task EXCEPT ![t] = [todo |-> todo \ (visited \cup {e}), at |-> e,
                                          socket |-> Min(Free(fds))]]
      PROVE  Opens(t, todo, held, fds, e, Min(Free(fds)), todo \ (visited \cup {e}))
  <2>1. Min(Free(fds)) \in Sockets /\ fds[Min(Free(fds))] = None
    BY <1>3, FreeSocket
  <2>2. QED
    BY <1>1, <1>3, <2>1 DEF Opens
<1>4. QED
  BY <1>1, <1>2, <1>3

Kept(wanted) == [e \in Endpoints |-> IF e \in wanted THEN transports[e] ELSE NoSocket]

Remaining(wanted) ==
    [s \in Sockets |-> IF s \in {transports[e] : e \in Endpoints \ wanted} THEN None ELSE sockets[s]]

LEMMA Syncs ==
    ASSUME NEW t, NEW catalog, Sync(t, catalog)
    PROVE  /\ transports' = Kept(Wanted(catalog))
           /\ Visit(t, Wanted(catalog), Kept(Wanted(catalog)), Remaining(Wanted(catalog)), {})
BY DEF Sync, Kept, Remaining

Opened(t) == [transports EXCEPT ![task[t].at] = task[t].socket]

LEMMA Resumes ==
    ASSUME NEW t, Resume(t)
    PROVE  /\ Busy(t) /\ transports' = Opened(t)
           /\ Visit(t, task[t].todo, Opened(t), sockets, errors)
BY DEF Resume, Opened

Catalogs == [Names -> Endpoints \cup {None}]

LEMMA WantedAre == ASSUME NEW catalog \in Catalogs PROVE Wanted(catalog) \subseteq Endpoints
BY DEF Wanted, Catalogs

\* What a handler, or a pass of the mirror loop, does.
LEMMA Changes ==
    ASSUME TypeOK,
           \/ \E t \in Clients, n \in Names, e \in Endpoints : Put(t, n, e)
           \/ \E t \in Clients, n \in Names : Delete(t, n)
           \/ \E t \in Follower, adopted \in Catalogs : Follow(t, adopted)
    PROVE  \E t \in Tasks, catalog \in Catalogs :
              up = "serving" /\ ~Busy(t) /\ Change(t, catalog)
<1>1. registered \in Catalogs
  BY DEF TypeOK, Catalogs
<1>2. ASSUME NEW t \in Clients, NEW n \in Names, NEW e \in Endpoints, Put(t, n, e)
      PROVE  \E u \in Tasks, catalog \in Catalogs :
                up = "serving" /\ ~Busy(u) /\ Change(u, catalog)
  <2>1. t \in Tasks /\ [registered EXCEPT ![n] = e] \in Catalogs
    BY <1>1 DEF Tasks, Catalogs
  <2>2. QED
    BY <1>2, <2>1 DEF Put, Serving
<1>3. ASSUME NEW t \in Clients, NEW n \in Names, Delete(t, n)
      PROVE  \E u \in Tasks, catalog \in Catalogs :
                up = "serving" /\ ~Busy(u) /\ Change(u, catalog)
  <2>1. t \in Tasks /\ [registered EXCEPT ![n] = None] \in Catalogs
    BY <1>1 DEF Tasks, Catalogs
  <2>2. QED
    BY <1>3, <2>1 DEF Delete, Serving
<1>4. ASSUME NEW t \in Follower, NEW adopted \in Catalogs, Follow(t, adopted)
      PROVE  \E u \in Tasks, catalog \in Catalogs :
                up = "serving" /\ ~Busy(u) /\ Change(u, catalog)
  <2> DEFINE adoption == [n \in Names |-> IF adopted[n] # None THEN adopted[n] ELSE registered[n]]
  <2>1. t \in Tasks /\ adoption \in Catalogs
    BY <1>1 DEF Tasks, Catalogs
  <2>2. QED
    BY <1>4, <2>1 DEF Follow
<1>5. QED
  BY <1>2, <1>3, <1>4

-----------------------------------------------------------------------------
(* Types. *)

Tables == [Endpoints -> Sockets \cup {NoSocket}]

Descriptors == [Sockets -> Endpoints \cup {None}]

LEMMA VisitTypes ==
    ASSUME TypeOK, NEW t \in Tasks, NEW todo \in SUBSET Endpoints, NEW held \in Tables,
           NEW fds \in Descriptors, NEW failed \in SUBSET Endpoints,
           Visit(t, todo, held, fds, failed)
    PROVE  /\ errors' \subseteq Endpoints
           /\ sockets' \in Descriptors
           /\ task' \in [Tasks -> [todo : SUBSET Endpoints, at : Endpoints \cup {None},
                                   socket : Sockets \cup {NoSocket}]]
<1>1. errors' \subseteq Endpoints
  BY Visits
<1>2. CASE Ends(t, todo, held, fds)
  BY <1>1, <1>2 DEF Ends, Idle, TypeOK
<1>3. ASSUME NEW e, NEW s, NEW rest, Opens(t, todo, held, fds, e, s, rest)
      PROVE  /\ sockets' \in Descriptors
             /\ task' \in [Tasks -> [todo : SUBSET Endpoints, at : Endpoints \cup {None},
                                     socket : Sockets \cup {NoSocket}]]
  <2>1. e \in Endpoints /\ s \in Sockets /\ rest \in SUBSET Endpoints
    BY <1>3 DEF Opens
  <2>2. [todo |-> rest, at |-> e, socket |-> s]
           \in [todo : SUBSET Endpoints, at : Endpoints \cup {None}, socket : Sockets \cup {NoSocket}]
    BY <2>1
  <2>3. QED
    BY <1>3, <2>1, <2>2 DEF Opens, TypeOK, Descriptors
<1>4. QED
  BY <1>1, <1>2, <1>3, Visits

LEMMA SyncTypes ==
    ASSUME TypeOK, NEW t \in Tasks, NEW catalog \in Catalogs, Sync(t, catalog)
    PROVE  /\ transports' \in Tables /\ errors' \subseteq Endpoints /\ sockets' \in Descriptors
           /\ task' \in [Tasks -> [todo : SUBSET Endpoints, at : Endpoints \cup {None},
                                   socket : Sockets \cup {NoSocket}]]
<1>1. Kept(Wanted(catalog)) \in Tables /\ Remaining(Wanted(catalog)) \in Descriptors
  BY DEF Kept, Remaining, Tables, Descriptors, TypeOK
<1>2. Wanted(catalog) \in SUBSET Endpoints /\ {} \in SUBSET Endpoints
  BY WantedAre
<1>3. QED
  BY <1>1, <1>2, Syncs, VisitTypes

LEMMA OpenedTypes == ASSUME TypeOK, NEW t \in Tasks, Busy(t) PROVE Opened(t) \in Tables
BY DEF Opened, Tables, Busy, TypeOK

LEMMA CopiesAreCounted == ASSUME NEW e PROVE Copies(e) \in Nat
<1>1. IsFiniteSet(Sockets)
  BY ListenerConstants, FS_Interval DEF Sockets
<1>2. IsFiniteSet(OnPort(e))
  BY <1>1, FS_Subset DEF OnPort, Open
<1>3. QED
  BY <1>2, FS_CardinalityType DEF Copies

LEMMA TypeInit == Init => TypeOK
BY DEF Init, TypeOK, Idle

LEMMA TypeNext == TypeOK /\ [Next]_vars => TypeOK'
<1> SUFFICES ASSUME TypeOK, [Next]_vars PROVE TypeOK'
  OBVIOUS
<1>1. registered \in Catalogs /\ transports \in Tables /\ sockets \in Descriptors
  BY DEF TypeOK, Catalogs, Tables, Descriptors
<1>2. CASE StartListener
  <2>1. Sync(Boot, registered) /\ Boot \in Tasks
    BY <1>2 DEF StartListener, Tasks
  <2>2. QED
    BY <1>1, <1>2, <2>1, SyncTypes DEF StartListener, TypeOK, Tables, Descriptors
<1>3. ASSUME NEW t \in Tasks, Resume(t) PROVE TypeOK'
  <2>1. Busy(t) /\ transports' = Opened(t) /\ Visit(t, task[t].todo, Opened(t), sockets, errors)
    BY <1>3, Resumes
  <2>2. Opened(t) \in Tables /\ task[t].todo \in SUBSET Endpoints /\ errors \in SUBSET Endpoints
    BY <2>1, OpenedTypes DEF TypeOK
  <2>3. QED
    BY <1>1, <1>3, <2>1, <2>2, VisitTypes DEF Resume, TypeOK, Tables, Descriptors
<1>4. ASSUME NEW t \in Tasks, NEW catalog \in Catalogs, Change(t, catalog) PROVE TypeOK'
  <2>1. CASE Sync(t, catalog)
    BY <1>4, <2>1, SyncTypes DEF Change, TypeOK, Tables, Descriptors, Catalogs
  <2>2. CASE UNCHANGED <<transports, errors, sockets, task>>
    BY <1>4, <2>2 DEF Change, TypeOK, Catalogs
  <2>3. QED
    BY <1>4, <2>1, <2>2 DEF Change
<1>5. CASE StopListener
  BY <1>5 DEF StopListener, TypeOK
<1>6. ASSUME NEW n \in Names, Datagram(n) PROVE TypeOK'
  <2>1. Copies(registered[n]) \in Nat
    BY CopiesAreCounted
  <2>2. QED
    BY <1>6, <2>1 DEF Datagram, TypeOK
<1>7. CASE UNCHANGED vars
  BY <1>7 DEF vars, TypeOK
<1>8. QED
  BY <1>2, <1>3, <1>4, <1>5, <1>6, <1>7, Changes DEF Next, Catalogs

\* The listener's state is well-typed for any catalog and any number of descriptors.
THEOREM TypeCorrect == Spec => []TypeOK
<1>1. QED
  BY TypeInit, TypeNext, PTL DEF Spec

-----------------------------------------------------------------------------
(* What is held is open. *)

Bound == TypeOK /\ Sound(Tasks, transports, sockets)

LEMMA BoundInit == Init => Bound
BY TypeInit DEF Init, Bound, Sound, Busy, Idle

\* A step of a sync leaves table, descriptors and syncs together, if it finds the
\* table, the descriptors and the other syncs so.
LEMMA VisitBinds ==
    ASSUME TypeOK, NEW t \in Tasks, NEW todo \in SUBSET Endpoints, NEW held \in Tables,
           NEW fds \in Descriptors, NEW failed, Visit(t, todo, held, fds, failed),
           transports' = held, Sound(Tasks \ {t}, held, fds)
    PROVE  Sound(Tasks, transports, sockets)'
<1>1. CASE Ends(t, todo, held, fds)
  <2>1. task'[t].at = None /\ \A u \in Tasks \ {t} : task'[u] = task[u]
    BY <1>1 DEF Ends, Idle, TypeOK
  <2>2. QED
    BY <1>1, <2>1 DEF Ends, Sound, Busy
<1>2. ASSUME NEW e, NEW s, NEW rest, Opens(t, todo, held, fds, e, s, rest)
      PROVE  Sound(Tasks, transports, sockets)'
  <2>1. /\ task'[t].at = e /\ task'[t].socket = s
        /\ \A u \in Tasks \ {t} : task'[u] = task[u]
    BY <1>2 DEF Opens, TypeOK
  <2>2. /\ e \in Endpoints /\ s \in Sockets /\ fds[s] = None /\ held[e] = NoSocket
        /\ sockets'[s] = e /\ \A r \in Sockets \ {s} : sockets'[r] = fds[r]
    BY <1>2 DEF Opens, Descriptors
  <2>3. None \notin Endpoints /\ NoSocket \notin Sockets
    BY ListenerConstants DEF NoSocket, Sockets
  <2>4. ASSUME NEW x \in Endpoints, held[x] # NoSocket PROVE sockets'[held[x]] = x
    <3>1. held[x] \in Sockets /\ fds[held[x]] = x
      BY <2>4 DEF Tables, Sound
    <3>2. QED
      BY <2>2, <2>3, <3>1
  <2>5. ASSUME NEW u \in Tasks \ {t}, Busy(u)
        PROVE  /\ task[u].socket \in Sockets \ {s}
               /\ sockets'[task[u].socket] = task[u].at
               /\ held[task[u].at] # task[u].socket
    <3>1. /\ task[u].socket \in Sockets /\ fds[task[u].socket] = task[u].at
          /\ held[task[u].at] # task[u].socket
      BY <2>5 DEF Sound
    <3>2. task[u].socket # s
      BY <2>2, <2>5, <3>1 DEF Busy
    <3>3. QED
      BY <2>2, <3>1, <3>2
  <2>6. \A x \in Endpoints : transports'[x] # NoSocket => sockets'[transports'[x]] = x
    BY <2>4
  <2>7. \A u \in Tasks : task'[u].at # None =>
           /\ task'[u].socket \in Sockets
           /\ sockets'[task'[u].socket] = task'[u].at
           /\ transports'[task'[u].at] # task'[u].socket
    <3> SUFFICES ASSUME NEW u \in Tasks, task'[u].at # None
                 PROVE  /\ task'[u].socket \in Sockets
                        /\ sockets'[task'[u].socket] = task'[u].at
                        /\ transports'[task'[u].at] # task'[u].socket
      OBVIOUS
    <3>1. CASE u = t
      BY <2>1, <2>2, <2>3, <3>1
    <3>2. CASE u # t
      BY <2>1, <2>5, <3>2 DEF Busy
    <3>3. QED
      BY <3>1, <3>2
  <2>8. \A u, v \in Tasks :
           task'[u].at # None /\ task'[v].at # None /\ task'[u].socket = task'[v].socket => u = v
    <3>1. \A u, v \in Tasks \ {t} :
             Busy(u) /\ Busy(v) /\ task[u].socket = task[v].socket => u = v
      BY DEF Sound
    <3>2. \A u \in Tasks \ {t} : Busy(u) => task[u].socket # s
      BY <2>5
    <3>3. QED
      BY <2>1, <3>1, <3>2 DEF Busy
  <2>9. QED
    BY <2>6, <2>7, <2>8 DEF Sound, Busy
<1>3. QED
  BY <1>1, <1>2, Visits

\* Closing the receivers of some endpoints leaves the others, and the syncs in progress.
LEMMA ClosingKeeps ==
    ASSUME Bound, NEW wanted
    PROVE  Sound(Tasks, Kept(wanted), Remaining(wanted))
<1>1. NoSocket \notin Sockets
  BY DEF NoSocket, Sockets
<1>2. ASSUME NEW s \in Sockets, NEW x \in Endpoints \ wanted, s = transports[x]
      PROVE  sockets[s] = x
  BY <1>1, <1>2 DEF Bound, Sound
<1>3. ASSUME NEW e \in Endpoints, Kept(wanted)[e] # NoSocket
      PROVE  Remaining(wanted)[Kept(wanted)[e]] = e
  <2>1. e \in wanted /\ Kept(wanted)[e] = transports[e] /\ transports[e] \in Sockets
    BY <1>3 DEF Kept, Bound, TypeOK
  <2>2. sockets[transports[e]] = e
    BY <1>3, <2>1 DEF Bound, Sound
  <2>3. QED
    BY <1>2, <2>1, <2>2 DEF Remaining
<1>4. ASSUME NEW t \in Tasks, Busy(t)
      PROVE  /\ task[t].socket \in Sockets
             /\ Remaining(wanted)[task[t].socket] = task[t].at
             /\ Kept(wanted)[task[t].at] # task[t].socket
  <2>1. /\ task[t].socket \in Sockets /\ sockets[task[t].socket] = task[t].at
        /\ transports[task[t].at] # task[t].socket /\ task[t].at \in Endpoints
    BY <1>4 DEF Bound, Sound, Busy, TypeOK
  <2>2. \A x \in Endpoints \ wanted : task[t].socket # transports[x]
    BY <1>2, <2>1
  <2>3. QED
    BY <1>1, <2>1, <2>2 DEF Remaining, Kept
<1>5. QED
  BY <1>3, <1>4 DEF Bound, Sound

\* Keeping the receiver that a sync opened leaves what the other syncs are opening.
LEMMA OpenedKeeps ==
    ASSUME Bound, NEW t \in Tasks, Busy(t)
    PROVE  Sound(Tasks \ {t}, Opened(t), sockets)
<1>1. /\ task[t].at \in Endpoints /\ task[t].socket \in Sockets
      /\ sockets[task[t].socket] = task[t].at
  BY DEF Bound, Sound, Busy, TypeOK
<1>2. \A e \in Endpoints :
         Opened(t)[e] = IF e = task[t].at THEN task[t].socket ELSE transports[e]
  BY DEF Opened, Bound, TypeOK
<1>3. \A u \in Tasks \ {t} : Busy(u) => task[u].at \in Endpoints /\ task[u].socket # task[t].socket
  BY DEF Bound, Sound, Busy, TypeOK
<1>4. QED
  BY <1>1, <1>2, <1>3 DEF Bound, Sound

LEMMA FewerAreSound ==
    ASSUME NEW held, NEW fds, NEW t, Sound(Tasks, held, fds)
    PROVE  Sound(Tasks \ {t}, held, fds)
BY DEF Sound

LEMMA SyncBinds ==
    ASSUME Bound, NEW t \in Tasks, NEW catalog \in Catalogs, Sync(t, catalog)
    PROVE  Sound(Tasks, transports, sockets)'
<1>1. Wanted(catalog) \in SUBSET Endpoints
  BY WantedAre
<1>2. Kept(Wanted(catalog)) \in Tables /\ Remaining(Wanted(catalog)) \in Descriptors
  BY DEF Kept, Remaining, Tables, Descriptors, Bound, TypeOK
<1>3. Sound(Tasks \ {t}, Kept(Wanted(catalog)), Remaining(Wanted(catalog)))
  BY ClosingKeeps, FewerAreSound
<1>4. QED
  BY <1>1, <1>2, <1>3, Syncs, VisitBinds DEF Bound

LEMMA ResumeBinds ==
    ASSUME Bound, NEW t \in Tasks, Resume(t)
    PROVE  Sound(Tasks, transports, sockets)'
<1>1. Busy(t) /\ transports' = Opened(t) /\ Visit(t, task[t].todo, Opened(t), sockets, errors)
  BY Resumes
<1>2. Opened(t) \in Tables /\ task[t].todo \in SUBSET Endpoints /\ sockets \in Descriptors
  BY <1>1, OpenedTypes DEF Bound, TypeOK, Descriptors
<1>3. QED
  BY <1>1, <1>2, OpenedKeeps, VisitBinds DEF Bound

LEMMA BoundNext == Bound /\ [Next]_vars => Bound'
<1> SUFFICES ASSUME Bound, [Next]_vars PROVE Sound(Tasks, transports, sockets)'
  BY TypeNext DEF Bound
<1>1. ASSUME UNCHANGED <<transports, sockets, task>> PROVE Sound(Tasks, transports, sockets)'
  BY <1>1 DEF Bound, Sound, Busy
<1>2. CASE StartListener
  <2>1. Sync(Boot, registered) /\ Boot \in Tasks /\ registered \in Catalogs
    BY <1>2 DEF StartListener, Tasks, Catalogs, Bound, TypeOK
  <2>2. QED
    BY <2>1, SyncBinds
<1>3. ASSUME NEW t \in Tasks, Resume(t) PROVE Sound(Tasks, transports, sockets)'
  BY <1>3, ResumeBinds
<1>4. ASSUME NEW t \in Tasks, NEW catalog \in Catalogs, Change(t, catalog)
      PROVE  Sound(Tasks, transports, sockets)'
  BY <1>1, <1>4, SyncBinds DEF Change
<1>5. CASE StopListener
  <2>1. transports' = [e \in Endpoints |-> NoSocket] /\ task' = task /\ \A t \in Tasks : ~Busy(t)
    BY <1>5 DEF StopListener, Quiet
  <2>2. QED
    BY <2>1 DEF Sound, Busy
<1>6. ASSUME NEW n \in Names, Datagram(n) PROVE Sound(Tasks, transports, sockets)'
  BY <1>1, <1>6 DEF Datagram
<1>7. CASE UNCHANGED vars
  BY <1>1, <1>7 DEF vars
<1>8. QED
  BY <1>2, <1>3, <1>4, <1>5, <1>6, <1>7, Changes DEF Next, Catalogs, Bound

LEMMA BoundAlways == Spec => []Bound
BY BoundInit, BoundNext, PTL DEF Spec

\* Whatever syncs interleave, the listener holds open receivers, each on its endpoint
\* (listener.py:81-83, :93).
THEOREM HeldStaysOpen == Spec => []HeldIsOpen
<1>1. Bound => HeldIsOpen
  BY DEF Bound, Sound, HeldIsOpen
<1>2. QED
  BY <1>1, BoundAlways, PTL

-----------------------------------------------------------------------------
(* Reception is not interrupted. *)

LEMMA SyncDisturbsNone ==
    ASSUME Bound, NEW t \in Tasks, NEW catalog \in Catalogs, Sync(t, catalog),
           NEW e \in Wanted(catalog)
    PROVE  BoundTo(e) \subseteq BoundTo(e)'
<1> DEFINE wanted == Wanted(catalog)
<1>1. NoSocket \notin Sockets /\ None \notin Endpoints /\ e \in Endpoints
  BY WantedAre, ListenerConstants DEF NoSocket, Sockets
<1>2. \A s \in BoundTo(e) : s \in Sockets /\ sockets[s] = e
  BY DEF BoundTo, Open
<1>3. \A s \in BoundTo(e) : Remaining(wanted)[s] = e
  <2> SUFFICES ASSUME NEW s \in BoundTo(e), NEW x \in Endpoints \ wanted, s = transports[x]
               PROVE  FALSE
    BY <1>2 DEF Remaining
  <2>1. sockets[s] = x
    BY <1>1, <1>2 DEF Bound, Sound
  <2>2. QED
    BY <1>2, <2>1
<1>4. \A s \in BoundTo(e) : sockets'[s] = e
  <2> SUFFICES ASSUME NEW s \in BoundTo(e) PROVE sockets'[s] = e
    OBVIOUS
  <2>1. CASE sockets' = Remaining(wanted)
    BY <1>3, <2>1
  <2>2. ASSUME NEW x, NEW r \in Sockets, Remaining(wanted)[r] = None,
               sockets' = [Remaining(wanted) EXCEPT ![r] = x]
        PROVE  sockets'[s] = e
    <3>1. r # s
      BY <1>1, <1>3, <2>2
    <3>2. QED
      BY <1>2, <1>3, <2>2, <3>1 DEF Remaining
  <2>3. QED
    BY <2>1, <2>2, Syncs, Visits DEF Ends, Opens
<1>5. QED
  BY <1>1, <1>2, <1>4 DEF BoundTo, Open

\* No request for another publication, and no sync of another request, closes the
\* receiver of an endpoint that stays registered (listener.py:71-73, :81-86).
THEOREM ReceptionIsUndisturbed == Spec => Undisturbed
<1>1. ASSUME Bound, [Next]_vars, up' = "serving",
             NEW e \in Wanted(registered) \cap Wanted(registered')
      PROVE  BoundTo(e) \subseteq BoundTo(e)'
  <2>1. ASSUME UNCHANGED sockets PROVE BoundTo(e) \subseteq BoundTo(e)'
    BY <2>1 DEF BoundTo, Open
  <2>2. CASE StartListener
    <3>1. Sync(Boot, registered) /\ Boot \in Tasks /\ registered \in Catalogs
      BY <1>1, <2>2 DEF StartListener, Tasks, Catalogs, Bound, TypeOK
    <3>2. QED
      BY <1>1, <3>1, SyncDisturbsNone
  <2>3. ASSUME NEW t \in Tasks, Resume(t) PROVE BoundTo(e) \subseteq BoundTo(e)'
    <3>1. None \notin Endpoints /\ e \in Endpoints
      BY <1>1, WantedAre, ListenerConstants DEF Bound, TypeOK, Catalogs
    <3>2. \A s \in BoundTo(e) : s \in Sockets /\ sockets[s] = e
      BY DEF BoundTo, Open
    <3>3. sockets' = sockets \/ \E x, r : sockets[r] = None /\ sockets' = [sockets EXCEPT ![r] = x]
      BY <2>3, Resumes, Visits DEF Ends, Opens
    <3>4. \A s \in BoundTo(e) : sockets'[s] = e
      BY <1>1, <3>1, <3>2, <3>3 DEF Bound, TypeOK
    <3>5. QED
      BY <3>1, <3>2, <3>4 DEF BoundTo, Open
  <2>4. ASSUME NEW t \in Tasks, NEW catalog \in Catalogs, Change(t, catalog)
        PROVE  BoundTo(e) \subseteq BoundTo(e)'
    BY <1>1, <2>1, <2>4, SyncDisturbsNone DEF Change
  <2>5. CASE StopListener
    BY <1>1, <2>5 DEF StopListener
  <2>6. ASSUME NEW n \in Names, Datagram(n) PROVE BoundTo(e) \subseteq BoundTo(e)'
    BY <2>1, <2>6 DEF Datagram
  <2>7. CASE UNCHANGED vars
    BY <2>1, <2>7 DEF vars
  <2>8. QED
    BY <1>1, <2>2, <2>3, <2>4, <2>5, <2>6, <2>7, Changes DEF Next, Catalogs, Bound
<1>2. Bound /\ [Next]_vars =>
         [up' = "serving" =>
            \A e \in Wanted(registered) \cap Wanted(registered') :
               transports[e] # NoSocket => BoundTo(e) \subseteq BoundTo(e)']_vars
  BY <1>1
<1>3. QED
  BY <1>2, BoundAlways, PTL DEF Spec, Undisturbed

-----------------------------------------------------------------------------
(* What is registered is heard. *)

LEMMA HeardInit == Init => Heard
BY DEF Init, Heard

\* After a step of a sync, what it still had to visit is held, has failed, or remains.
LEMMA VisitHears ==
    ASSUME TypeOK, NEW t \in Tasks, NEW todo \in SUBSET Endpoints, NEW held, NEW fds, NEW failed,
           Visit(t, todo, held, fds, failed)
    PROVE  \A e \in todo :
              \/ held[e] # NoSocket
              \/ e \in errors'
              \/ Busy(t)' /\ (e = task'[t].at \/ e \in task'[t].todo)
<1>1. CASE Ends(t, todo, held, fds)
  BY <1>1 DEF Ends
<1>2. ASSUME NEW e, NEW s, NEW rest, Opens(t, todo, held, fds, e, s, rest)
      PROVE  \A x \in todo :
                \/ held[x] # NoSocket
                \/ x \in errors'
                \/ Busy(t)' /\ (x = task'[t].at \/ x \in task'[t].todo)
  <2>1. task'[t].at = e /\ task'[t].todo = rest /\ e \in Endpoints
    BY <1>2 DEF Opens, TypeOK
  <2>2. Busy(t)'
    BY <2>1, ListenerConstants DEF Busy
  <2>3. QED
    BY <1>2, <2>1, <2>2 DEF Opens
<1>3. QED
  BY <1>1, <1>2, Visits

LEMMA SyncHears ==
    ASSUME TypeOK, NEW t \in Tasks, NEW catalog \in Catalogs, Sync(t, catalog)
    PROVE  \A e \in Wanted(catalog) :
              \/ transports'[e] # NoSocket
              \/ e \in errors'
              \/ Busy(t)' /\ (e = task'[t].at \/ e \in task'[t].todo)
BY Syncs, WantedAre, VisitHears

LEMMA ResumeHears ==
    ASSUME Bound, Heard, NEW t \in Tasks, Resume(t)
    PROVE  Heard'
<1>1. Busy(t) /\ transports' = Opened(t) /\ Visit(t, task[t].todo, Opened(t), sockets, errors)
  BY Resumes
<1>2. UNCHANGED <<registered, up, mishaps>>
  BY DEF Resume
<1>3. \A u \in Tasks \ {t} : task'[u] = task[u]
  BY <1>1, Visits DEF Ends, Opens, Bound, TypeOK
<1>4. errors \subseteq errors'
  BY <1>1, Visits
<1>5. task[t].socket # NoSocket /\ task[t].at \in Endpoints
  BY <1>1 DEF Bound, Sound, TypeOK, Busy, NoSocket, Sockets
<1>6. /\ transports'[task[t].at] # NoSocket
      /\ \A e \in Endpoints : transports[e] # NoSocket => transports'[e] # NoSocket
  BY <1>1, <1>5 DEF Opened, Bound, TypeOK
<1>7. \A e \in task[t].todo :
         \/ transports'[e] # NoSocket
         \/ e \in errors'
         \/ Busy(t)' /\ (e = task'[t].at \/ e \in task'[t].todo)
  <2>1. task[t].todo \in SUBSET Endpoints
    BY DEF Bound, TypeOK
  <2>2. QED
    BY <1>1, <2>1, VisitHears DEF Bound
<1>8. ASSUME up = "serving", "unsaved" \notin mishaps, NEW e \in Wanted(registered)
      PROVE  \/ transports'[e] # NoSocket
             \/ e \in errors'
             \/ \E u \in Tasks : Busy(u)' /\ (e = task'[u].at \/ e \in task'[u].todo)
  <2>1. \/ transports[e] # NoSocket
        \/ e \in errors
        \/ \E u \in Tasks : Busy(u) /\ (e = task[u].at \/ e \in task[u].todo)
    BY <1>8 DEF Heard
  <2>2. e \in Endpoints
    BY WantedAre DEF Bound, TypeOK, Catalogs
  <2>3. ASSUME NEW u \in Tasks \ {t}, Busy(u), e = task[u].at \/ e \in task[u].todo
        PROVE  Busy(u)' /\ (e = task'[u].at \/ e \in task'[u].todo)
    BY <1>3, <2>3 DEF Busy
  <2>4. QED
    BY <1>4, <1>6, <1>7, <2>1, <2>2, <2>3
<1>9. QED
  BY <1>2, <1>8 DEF Heard, Wanted

LEMMA HeardNext == Bound /\ Heard /\ [Next]_vars => Heard'
<1> SUFFICES ASSUME Bound, Heard, [Next]_vars PROVE Heard'
  OBVIOUS
<1>1. TypeOK /\ registered \in Catalogs
  BY DEF Bound, TypeOK, Catalogs
<1>2. ASSUME UNCHANGED <<registered, transports, errors, task>>, up' = up, mishaps' = mishaps
      PROVE  Heard'
  BY <1>2 DEF Heard, Wanted, Busy
<1>3. ASSUME NEW t \in Tasks, NEW catalog \in Catalogs, Sync(t, catalog), registered' = catalog
      PROVE  Heard'
  BY <1>1, <1>3, SyncHears DEF Heard
<1>4. CASE StartListener
  BY <1>1, <1>3, <1>4 DEF StartListener, Tasks
<1>5. ASSUME NEW t \in Tasks, Resume(t) PROVE Heard'
  BY <1>5, ResumeHears
<1>6. ASSUME NEW t \in Tasks, NEW catalog \in Catalogs, Change(t, catalog) PROVE Heard'
  <2>1. CASE Sync(t, catalog)
    BY <1>3, <1>6, <2>1 DEF Change
  <2>2. CASE "unsaved" \in mishaps'
    BY <2>2 DEF Heard
  <2>3. QED
    BY <1>6, <2>1, <2>2 DEF Change
<1>7. CASE StopListener
  BY <1>7 DEF StopListener, Heard
<1>8. ASSUME NEW n \in Names, Datagram(n) PROVE Heard'
  BY <1>2, <1>8 DEF Datagram
<1>9. CASE UNCHANGED vars
  BY <1>2, <1>9 DEF vars
<1>10. QED
  BY <1>1, <1>4, <1>5, <1>6, <1>7, <1>8, <1>9, Changes DEF Next, Catalogs

\* However many syncs overlap: when the last one ends, every registered endpoint is heard
\* or its failure is on record, unless a save failed since (listener.py:70-73).
THEOREM RegisteredIsHeard == Spec => []HeardWhenSaved
<1>1. Heard => HeardWhenSaved
  BY DEF Heard, HeardWhenSaved, HeardOrReported, Quiet
<1>2. Init => Heard
  BY HeardInit
<1>3. Bound /\ Heard /\ [Next]_vars => Heard'
  BY HeardNext
<1>4. QED
  BY <1>1, <1>2, <1>3, BoundAlways, PTL DEF Spec

-----------------------------------------------------------------------------
(* While syncs do not overlap, nothing is left open. *)

\* A step of the only sync in progress opens receivers where none is held, for endpoints
\* it was still to visit.
LEMMA VisitTidies ==
    ASSUME TypeOK, NEW t \in Tasks, NEW todo \in SUBSET Endpoints, NEW held \in Tables,
           NEW fds \in Descriptors, NEW failed, Visit(t, todo, held, fds, failed),
           transports' = held, \A u \in Tasks \ {t} : ~Busy(u),
           \A s \in Open(fds) : held[fds[s]] = s
    PROVE  /\ Tidy'
           /\ \A s \in Open(sockets') :
                 (s \in Open(fds) /\ sockets'[s] = fds[s]) \/ sockets'[s] \in todo
           /\ \A u \in Tasks : Busy(u)' => task'[u].todo \subseteq todo
<1>1. \A u \in Tasks \ {t} : ~Busy(u)'
  BY Visits DEF Ends, Opens, TypeOK, Busy
<1>2. CASE Ends(t, todo, held, fds)
  <2>1. sockets' = fds /\ ~Busy(t)'
    BY <1>2 DEF Ends, Idle, TypeOK, Busy
  <2>2. QED
    BY <1>1, <2>1 DEF Tidy, Open
<1>3. ASSUME NEW e, NEW s, NEW rest, Opens(t, todo, held, fds, e, s, rest)
      PROVE  /\ Tidy'
             /\ \A r \in Open(sockets') :
                   (r \in Open(fds) /\ sockets'[r] = fds[r]) \/ sockets'[r] \in todo
             /\ \A u \in Tasks : Busy(u)' => task'[u].todo \subseteq todo
  <2>1. /\ task'[t].at = e /\ task'[t].socket = s /\ task'[t].todo = rest
        /\ e \in todo /\ e \in Endpoints /\ rest \subseteq todo /\ held[e] = NoSocket
    BY <1>3 DEF Opens, TypeOK
  <2>2. s \in Sockets /\ sockets'[s] = e /\ \A r \in Sockets \ {s} : sockets'[r] = fds[r]
    BY <1>3 DEF Opens, Descriptors
  <2>3. Busy(t)'
    BY <2>1, ListenerConstants DEF Busy
  <2>4. \A r \in Open(sockets') \ {s} : r \in Open(fds) /\ sockets'[r] = fds[r]
    BY <2>2 DEF Open
  <2>5. \A r \in Open(sockets') : transports'[sockets'[r]] = r \/ task'[t].socket = r
    BY <2>1, <2>4
  <2>6. Tidy'
    BY <1>1, <2>1, <2>3, <2>5 DEF Tidy, Open
  <2>7. QED
    BY <1>1, <2>1, <2>2, <2>4, <2>6
<1>4. QED
  BY <1>2, <1>3, Visits

\* A sync that starts when none is in progress leaves only what the catalog wants.
LEMMA SyncTidies ==
    ASSUME Bound, Tidy, Quiet, NEW t \in Tasks, NEW catalog \in Catalogs, Sync(t, catalog)
    PROVE  /\ Tidy'
           /\ \A s \in Open(sockets') : sockets'[s] \in Wanted(catalog)
           /\ \A u \in Tasks : Busy(u)' => task'[u].todo \subseteq Wanted(catalog)
<1> DEFINE wanted == Wanted(catalog)
<1>1. wanted \in SUBSET Endpoints
  BY WantedAre
<1>2. Kept(wanted) \in Tables /\ Remaining(wanted) \in Descriptors
  BY DEF Kept, Remaining, Tables, Descriptors, Bound, TypeOK
<1>3. \A s \in Open(Remaining(wanted)) :
         Remaining(wanted)[s] \in wanted /\ Kept(wanted)[Remaining(wanted)[s]] = s
  <2> SUFFICES ASSUME NEW s \in Sockets, Remaining(wanted)[s] # None
               PROVE  Remaining(wanted)[s] \in wanted /\ Kept(wanted)[Remaining(wanted)[s]] = s
    BY DEF Open
  <2>1. Remaining(wanted)[s] = sockets[s] /\ s \notin {transports[x] : x \in Endpoints \ wanted}
    BY DEF Remaining
  <2>2. transports[sockets[s]] = s /\ sockets[s] \in Endpoints
    BY <2>1 DEF Tidy, Quiet, Open, Bound, TypeOK
  <2>3. sockets[s] \in wanted
    BY <2>1, <2>2
  <2>4. QED
    BY <2>1, <2>2, <2>3 DEF Kept
<1>4. \A u \in Tasks \ {t} : ~Busy(u)
  BY DEF Quiet
<1>5. TypeOK /\ transports' = Kept(wanted) /\ Visit(t, wanted, Kept(wanted), Remaining(wanted), {})
  BY Syncs DEF Bound
<1> HIDE DEF wanted
<1>6. /\ Tidy'
      /\ \A s \in Open(sockets') :
            (s \in Open(Remaining(wanted)) /\ sockets'[s] = Remaining(wanted)[s])
            \/ sockets'[s] \in wanted
      /\ \A u \in Tasks : Busy(u)' => task'[u].todo \subseteq wanted
  BY <1>1, <1>2, <1>3, <1>4, <1>5, VisitTidies
<1>7. QED
  BY <1>3, <1>6 DEF wanted

LEMMA ResumeTidies ==
    ASSUME Bound, Tidy, NEW t \in Tasks, Resume(t)
    PROVE  /\ Tidy'
           /\ \A s \in Open(sockets') :
                 (s \in Open(sockets) /\ sockets'[s] = sockets[s]) \/ sockets'[s] \in task[t].todo
           /\ \A u \in Tasks : Busy(u)' => task'[u].todo \subseteq task[t].todo
<1>1. Busy(t) /\ transports' = Opened(t) /\ Visit(t, task[t].todo, Opened(t), sockets, errors)
  BY Resumes
<1>2. TypeOK /\ Opened(t) \in Tables /\ task[t].todo \in SUBSET Endpoints /\ sockets \in Descriptors
  BY <1>1, OpenedTypes DEF Bound, TypeOK, Descriptors
<1>3. \A u \in Tasks \ {t} : ~Busy(u)
  BY <1>1 DEF Tidy
<1>4. /\ task[t].at \in Endpoints /\ sockets[task[t].socket] = task[t].at
      /\ transports[task[t].at] = NoSocket
  BY <1>1 DEF Tidy, Bound, Sound, TypeOK, Busy
<1>5. \A e \in Endpoints :
         Opened(t)[e] = IF e = task[t].at THEN task[t].socket ELSE transports[e]
  BY DEF Opened, Bound, TypeOK
<1>6. \A s \in Open(sockets) : Opened(t)[sockets[s]] = s
  <2> SUFFICES ASSUME NEW s \in Open(sockets) PROVE Opened(t)[sockets[s]] = s
    OBVIOUS
  <2>1. s # NoSocket
    BY DEF Open, Sockets, NoSocket
  <2>2. sockets[s] \in Endpoints /\ (transports[sockets[s]] = s \/ task[t].socket = s)
    BY <1>3 DEF Tidy, Open, Bound, TypeOK
  <2>3. QED
    BY <1>4, <1>5, <2>1, <2>2
<1>7. QED
  BY <1>1, <1>2, <1>3, <1>6, VisitTidies

\* Clean-up closes everything.
LEMMA StopCloses ==
    ASSUME Bound, Tidy, StopListener
    PROVE  Open(sockets') = {}
<1> SUFFICES ASSUME NEW s \in Sockets, sockets'[s] # None PROVE FALSE
  BY DEF Open
<1>1. s \notin Held /\ s \in Open(sockets) /\ s # NoSocket
  BY DEF StopListener, Open, Sockets, NoSocket
<1>2. transports[sockets[s]] = s /\ sockets[s] \in Endpoints
  BY <1>1 DEF StopListener, Tidy, Quiet, Open, Bound, TypeOK
<1>3. QED
  BY <1>1, <1>2 DEF Held

Ordered == Bound /\ Single /\ Current

LEMMA OrderedInit == Init => Ordered
<1>1. Init => Open(sockets) = {} /\ Quiet
  BY DEF Init, Open, Quiet, Busy, Idle
<1>2. QED
  BY <1>1, BoundInit DEF Ordered, Single, Current, Tidy, Quiet

LEMMA OrderedNext == Ordered /\ [Next]_vars => Ordered'
<1> SUFFICES ASSUME Ordered, [Next]_vars PROVE Single' /\ Current'
  BY BoundNext DEF Ordered
<1>1. Bound /\ TypeOK /\ Single /\ Current /\ registered \in Catalogs
  BY DEF Ordered, Bound, TypeOK, Catalogs
<1>2. ASSUME UNCHANGED <<transports, sockets, task>>, up' = up \/ up' = "serving",
             "overlap" \notin mishaps' => "overlap" \notin mishaps,
             mishaps' = {} => mishaps = {} /\ registered' = registered
      PROVE  Single' /\ Current'
  <2>1. Tidy => Tidy'
    BY <1>2 DEF Tidy, Open, Busy
  <2>2. Single'
    BY <1>1, <1>2, <2>1 DEF Single, Quiet, Busy
  <2>3. Current'
    BY <1>1, <1>2 DEF Current, Open, Busy, Wanted
  <2>4. QED
    BY <2>2, <2>3
<1>3. ASSUME NEW t \in Tasks, NEW catalog \in Catalogs, Sync(t, catalog), registered' = catalog,
             up' = "serving", "overlap" \notin mishaps' => Quiet /\ "overlap" \notin mishaps
      PROVE  Single' /\ Current'
  <2>1. "overlap" \notin mishaps' =>
           /\ Tidy'
           /\ \A s \in Open(sockets') : sockets'[s] \in Wanted(catalog)
           /\ \A u \in Tasks : Busy(u)' => task'[u].todo \subseteq Wanted(catalog)
    BY <1>1, <1>3, SyncTidies DEF Single
  <2>2. Single'
    BY <1>3, <2>1 DEF Single
  <2>3. Current'
    BY <1>3, <2>1 DEF Current, Open
  <2>4. QED
    BY <2>2, <2>3
<1>4. CASE StartListener
  <2>1. Quiet
    BY <1>1, <1>4 DEF StartListener, Single
  <2>2. QED
    BY <1>1, <1>3, <1>4, <2>1 DEF StartListener, Tasks
<1>5. ASSUME NEW t \in Tasks, Resume(t) PROVE Single' /\ Current'
  <2>1. UNCHANGED <<registered, up, mishaps>> /\ up # "starting"
    BY <1>1, <1>5 DEF Resume, Single, Quiet
  <2>2. "overlap" \notin mishaps =>
           /\ Tidy'
           /\ \A s \in Open(sockets') :
                 (s \in Open(sockets) /\ sockets'[s] = sockets[s]) \/ sockets'[s] \in task[t].todo
           /\ \A u \in Tasks : Busy(u)' => task'[u].todo \subseteq task[t].todo
    BY <1>1, <1>5, ResumeTidies DEF Single
  <2>3. Single'
    BY <2>1, <2>2 DEF Single
  <2>4. Current'
    <3> SUFFICES ASSUME mishaps = {}
                 PROVE  /\ \A s \in Open(sockets') : sockets'[s] \in Wanted(registered)
                        /\ \A u \in Tasks : Busy(u)' => task'[u].todo \subseteq Wanted(registered)
      BY <2>1 DEF Current, Open, Wanted
    <3>1. Busy(t)
      BY <1>5 DEF Resume
    <3>2. /\ task[t].todo \subseteq Wanted(registered)
          /\ \A s \in Open(sockets) : sockets[s] \in Wanted(registered)
      BY <1>1, <3>1 DEF Current
    <3>3. QED
      BY <2>2, <3>2
  <2>5. QED
    BY <2>3, <2>4
<1>6. ASSUME NEW t \in Tasks, NEW catalog \in Catalogs, up = "serving", Change(t, catalog)
      PROVE  Single' /\ Current'
  <2>1. CASE Sync(t, catalog) /\ mishaps' = (mishaps \ {"unsaved"}) \cup (IF Quiet THEN {} ELSE {"overlap"})
    BY <1>3, <1>6, <2>1 DEF Change
  <2>2. CASE mishaps' = mishaps \cup {"unsaved"} /\ UNCHANGED <<transports, errors, sockets, task>>
    BY <1>2, <1>6, <2>2 DEF Change
  <2>3. QED
    BY <1>6, <2>1, <2>2 DEF Change
<1>7. CASE StopListener
  <2>1. UNCHANGED <<task, mishaps>> /\ up' = "stopped" /\ Quiet
    BY <1>7 DEF StopListener
  <2>2. \A u \in Tasks : ~Busy(u)'
    BY <2>1 DEF Quiet, Busy
  <2>3. "overlap" \notin mishaps => Open(sockets') = {}
    BY <1>1, <1>7, StopCloses DEF Single
  <2>4. "overlap" \notin mishaps => Tidy'
    BY <2>2, <2>3 DEF Tidy, Open
  <2>5. Single' /\ Current'
    BY <2>1, <2>2, <2>3, <2>4 DEF Single, Current, Open
  <2>6. QED
    BY <2>5
<1>8. ASSUME NEW n \in Names, Datagram(n) PROVE Single' /\ Current'
  BY <1>2, <1>8 DEF Datagram
<1>9. CASE UNCHANGED vars
  BY <1>2, <1>9 DEF vars
<1>10. QED
  BY <1>1, <1>4, <1>5, <1>6, <1>7, <1>8, <1>9, Changes DEF Next, Catalogs

LEMMA OrderedAlways == Spec => []Ordered
BY OrderedInit, OrderedNext, PTL DEF Spec

\* As long as no syncs overlap and every save succeeds: when no sync is in progress there
\* is one receiver for each endpoint that is heard, and no other is open (listener.py:81-83).
THEOREM NothingStaysOpen == Spec => []NothingLeftOpen
<1>1. Ordered => NothingLeftOpen
  BY DEF Ordered, Single, Tidy, Current, NothingLeftOpen, Quiet
<1>2. QED
  BY <1>1, OrderedAlways, PTL

-----------------------------------------------------------------------------
(* A datagram is counted once. *)

LEMMA OneSocketEach ==
    ASSUME Bound, Tidy, NEW e \in Endpoints, NEW r \in BoundTo(e), NEW s \in BoundTo(e)
    PROVE  r = s
<1>1. /\ r \in Open(sockets) /\ s \in Open(sockets) /\ sockets[r] = e /\ sockets[s] = e
      /\ r # NoSocket /\ s # NoSocket
  BY DEF BoundTo, Open, Sockets, NoSocket
<1>2. CASE transports[e] = r /\ transports[e] = s
  BY <1>2
<1>3. ASSUME NEW t \in Tasks, Busy(t), task[t].socket = r \/ task[t].socket = s
      PROVE  transports[e] = NoSocket
  <2>1. task[t].at = e
    BY <1>1, <1>3 DEF Bound, Sound
  <2>2. QED
    BY <1>3, <2>1 DEF Tidy
<1>4. ASSUME NEW t \in Tasks, NEW u \in Tasks, Busy(t), Busy(u),
             task[t].socket = r, task[u].socket = s
      PROVE  r = s
  BY <1>4 DEF Tidy
<1>5. \A x \in {r, s} : transports[e] = x \/ \E t \in Tasks : Busy(t) /\ task[t].socket = x
  BY <1>1 DEF Tidy
<1>6. QED
  BY <1>1, <1>2, <1>3, <1>4, <1>5

LEMMA CopiedOnce ==
    ASSUME Bound, Tidy, OwnPorts, NEW e \in Endpoints
    PROVE  Copies(e) \in {0, 1}
<1>1. OnPort(e) = BoundTo(e)
  BY DEF OnPort, BoundTo, OwnPorts, Open, Bound, TypeOK
<1>2. CASE e \in Multicast /\ BoundTo(e) # {}
  <2>1. PICK s : BoundTo(e) = {s}
    BY <1>2, OneSocketEach
  <2>2. QED
    BY <1>1, <1>2, <2>1, FS_Singleton DEF Copies
<1>3. QED
  BY <1>2 DEF Copies

\* As long as no syncs overlap and every endpoint has a port of its own, a datagram is
\* counted at most once (listener.py:112-123).
THEOREM DatagramsAreCountedOnce == Spec => []CountedOnce
<1>1. Init => CountedOnce
  BY DEF Init, CountedOnce
<1>2. Ordered /\ CountedOnce /\ [Next]_vars => CountedOnce'
  <2> SUFFICES ASSUME Ordered, CountedOnce, [Next]_vars PROVE CountedOnce'
    OBVIOUS
  <2>1. ASSUME UNCHANGED <<sent, seen>>, "overlap" \notin mishaps' => "overlap" \notin mishaps
        PROVE  CountedOnce'
    BY <2>1 DEF CountedOnce, OwnPorts
  <2>2. ASSUME NEW n \in Names, Datagram(n) PROVE CountedOnce'
    <3> SUFFICES ASSUME OwnPorts, "overlap" \notin mishaps, NEW m \in Names
                 PROVE  seen'[m] <= sent'[m]
      BY <2>2 DEF Datagram, CountedOnce, OwnPorts
    <3>1. seen[m] <= sent[m] /\ seen \in [Names -> Nat] /\ sent \in [Names -> Nat]
      BY DEF CountedOnce, Ordered, Bound, TypeOK
    <3>2. registered[n] \in Endpoints
      BY <2>2 DEF Datagram, Ordered, Bound, TypeOK
    <3>3. Copies(registered[n]) \in {0, 1}
      BY <3>2, CopiedOnce DEF Ordered, Single
    <3>4. /\ sent' = [sent EXCEPT ![n] = @ + 1]
          /\ seen' = [seen EXCEPT ![n] = @ + Copies(registered[n])]
      BY <2>2 DEF Datagram
    <3> HIDE DEF Ordered
    <3>5. QED
      BY <3>1, <3>3, <3>4
  <2>3. CASE UNCHANGED vars
    BY <2>1, <2>3 DEF vars
  <2>4. CASE StartListener \/ StopListener \/ \E t \in Tasks : Resume(t)
    BY <2>1, <2>4 DEF StartListener, StopListener, Resume
  <2>5. ASSUME NEW t \in Tasks, NEW catalog \in Catalogs, Change(t, catalog) PROVE CountedOnce'
    BY <2>1, <2>5 DEF Change
  <2>6. QED
    BY <2>2, <2>3, <2>4, <2>5, Changes DEF Next, Catalogs, Ordered, Bound
<1>3. QED
  BY <1>1, <1>2, OrderedAlways, PTL DEF Spec

=============================================================================
