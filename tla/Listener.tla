------------------------------- MODULE Listener -------------------------------
(***************************************************************************)
(* The registry's request handlers and its listener (registry/service.py,  *)
(* registry/listener.py).  A handler changes the catalog under a lock and  *)
(* then, outside it, brings the receivers in line with the catalog; opening *)
(* a receiver suspends, so the syncs of several handlers interleave.        *)
(*                                                                         *)
(* A step is what the event loop runs between two suspensions.  The order   *)
(* in which a sync visits the endpoints (that of the sorted names) is any.  *)
(***************************************************************************)
EXTENDS Naturals, FiniteSets, FiniteSetsExt

CONSTANTS Names,        \* publication names
          Endpoints,    \* (host, port) pairs
          Port,         \* Port[e]: the port of an endpoint
          Multicast,    \* the endpoints whose host is a multicast group
          Unbindable,   \* endpoints that may fail to bind, at any attempt
          MaxSockets,   \* how many descriptors the process may open
          Boot,         \* the task that runs the start-up hook
          Clients,      \* the tasks that serve requests
          Follower,     \* the task of the mirror loop, in a set, or no task
          SaveFails,    \* may the store fail to write its file?
          MaxSent,      \* bound on the datagrams sent
          None

ASSUME ListenerConstants ==
    /\ Port \in [Endpoints -> Nat]
    /\ Multicast \subseteq Endpoints /\ Unbindable \subseteq Endpoints
    /\ MaxSockets \in Nat /\ MaxSent \in Nat
    /\ SaveFails \in BOOLEAN
    /\ None \notin Endpoints
    /\ Boot \notin Clients \cup Follower /\ Clients \cap Follower = {}

Tasks == Clients \cup Follower \cup {Boot}
Sockets == 1..MaxSockets
NoSocket == 0

VARIABLES
    registered,   \* the address of each publication in the store
    transports,   \* _transports: the receiver the listener holds for an endpoint
    errors,       \* endpoint_errors
    sockets,      \* what each descriptor of the process is bound to
    task,         \* a sync in progress: endpoints still to visit, and the
                  \* receiver being opened
    up,           \* "starting", "serving" or "stopped"
    sent, seen,   \* datagrams sent, and LiveState.messages, per publication
    mishaps       \* "overlap" once two syncs were in progress at a time, "unsaved"
                  \* from a failed save to the next sync (no program variable)

vars == <<registered, transports, errors, sockets, task, up, sent, seen, mishaps>>

Idle == [todo |-> {}, at |-> None, socket |-> NoSocket]

Busy(t) == task[t].at # None

Quiet == \A t \in Tasks : ~Busy(t)

Wanted(catalog) == {catalog[n] : n \in Names} \ {None}

Open(fds) == {s \in Sockets : fds[s] # None}
Free(fds) == Sockets \ Open(fds)

\* Descriptors bound to e; a receiver is lost if it is open and not held.
BoundTo(e) == {s \in Open(sockets) : sockets[s] = e}
Held == {transports[e] : e \in Endpoints} \ {NoSocket}

Init ==
    /\ registered \in [Names -> Endpoints \cup {None}]
    /\ transports = [e \in Endpoints |-> NoSocket]
    /\ errors = {}
    /\ sockets = [s \in Sockets |-> None]
    /\ task = [t \in Tasks |-> Idle]
    /\ up = "starting"
    /\ sent = [n \in Names |-> 0]
    /\ seen = [n \in Names |-> 0]
    /\ mishaps = {}

-----------------------------------------------------------------------------
(* Listener.sync *)

\* Faulty: a receiver is opened whether or not one is held.
VisitAll(t, todo, held, fds, failed) ==
    \/ /\ todo = {} \/ Free(fds) = {}
       /\ errors' = failed \cup todo
       /\ task' = [task EXCEPT ![t] = Idle]
       /\ sockets' = fds
    \/ \E e \in todo :
       /\ Free(fds) # {}
       /\ errors' = failed
       /\ LET s == Min(Free(fds))
          IN  /\ sockets' = [fds EXCEPT ![s] = e]
              /\ task' = [task EXCEPT ![t] = [todo |-> todo \ {e}, at |-> e, socket |-> s]]

\* The loop over the wanted endpoints, up to the next suspension: the endpoints
\* in "visited" are held, or fail to bind and are recorded; then either none is
\* left, or one binds and its receiver is awaited.
Visit(t, todo, held, fds, failed) ==
    \E visited \in SUBSET todo :
        LET failing == {e \in visited : held[e] = NoSocket}
        IN  /\ failing \subseteq Unbindable \/ Free(fds) = {}
            /\ errors' = failed \cup failing
            /\ \/ /\ visited = todo
                  /\ task' = [task EXCEPT ![t] = Idle]
                  /\ sockets' = fds
               \/ \E e \in todo \ visited :
                  /\ held[e] = NoSocket
                  /\ Free(fds) # {}
                  /\ LET s == Min(Free(fds))
                     IN  /\ sockets' = [fds EXCEPT ![s] = e]
                         /\ task' = [task EXCEPT ![t] =
                               [todo |-> todo \ (visited \cup {e}), at |-> e, socket |-> s]]

\* Faulty: closed receivers are not dropped, unwanted ones not closed, wanted ones
\* closed and opened again.
SyncWithoutPop(t, catalog) ==
    LET closed == {transports[e] : e \in Endpoints \ Wanted(catalog)}
        fds == [s \in Sockets |-> IF s \in closed THEN None ELSE sockets[s]]
    IN  /\ UNCHANGED transports
        /\ Visit(t, Wanted(catalog), transports, fds, {})

SyncWithoutClose(t, catalog) ==
    LET held == [e \in Endpoints |-> IF e \in Wanted(catalog) THEN transports[e] ELSE NoSocket]
    IN  /\ transports' = held
        /\ Visit(t, Wanted(catalog), held, sockets, {})

SyncAnew(t, catalog) ==
    LET none == [e \in Endpoints |-> NoSocket]
    IN  /\ transports' = none
        /\ Visit(t, Wanted(catalog), none,
                 [s \in Sockets |-> IF s \in Held THEN None ELSE sockets[s]], {})

\* What a sync does before it first suspends: forget the recorded errors, close
\* the receivers the catalog does not want, start visiting.
Sync(t, catalog) ==
    LET wanted == Wanted(catalog)
        closed == {transports[e] : e \in Endpoints \ wanted}
        held == [e \in Endpoints |-> IF e \in wanted THEN transports[e] ELSE NoSocket]
        fds == [s \in Sockets |-> IF s \in closed THEN None ELSE sockets[s]]
    IN  /\ transports' = held
        /\ Visit(t, wanted, held, fds, {})

\* Faulty: the endpoints that failed before the suspension are forgotten, or the
\* receiver is not kept and is opened again.
ResumeForgetting(t) ==
    /\ Busy(t)
    /\ LET held == [transports EXCEPT ![task[t].at] = task[t].socket]
       IN  /\ transports' = held
           /\ Visit(t, task[t].todo, held, sockets, {})
    /\ UNCHANGED <<registered, up, sent, seen, mishaps>>

ResumeAgain(t) ==
    /\ Busy(t)
    /\ Visit(t, task[t].todo \cup {task[t].at}, transports,
             [sockets EXCEPT ![task[t].socket] = None], errors)
    /\ UNCHANGED <<registered, transports, up, sent, seen, mishaps>>

\* The receiver is open: keep it and go on.
Resume(t) ==
    /\ Busy(t)
    /\ LET held == [transports EXCEPT ![task[t].at] = task[t].socket]
       IN  /\ transports' = held
           /\ Visit(t, task[t].todo, held, sockets, errors)
    /\ UNCHANGED <<registered, up, sent, seen, mishaps>>

-----------------------------------------------------------------------------
(* The application: start-up hook, handlers, mirror loop, clean-up hook. *)

StartListener ==
    /\ up = "starting"
    /\ ~Busy(Boot)
    /\ Sync(Boot, registered)
    /\ up' = "serving"
    /\ UNCHANGED <<registered, sent, seen, mishaps>>

\* The catalog changes, and the receivers with it; but the catalog alone if the
\* store cannot write its file, for the error ends the handler or the pass.
Change(t, catalog) ==
    /\ registered' = catalog
    /\ \/ /\ Sync(t, catalog)
          /\ mishaps' = (mishaps \ {"unsaved"}) \cup (IF Quiet THEN {} ELSE {"overlap"})
       \/ /\ SaveFails
          /\ mishaps' = mishaps \cup {"unsaved"}
          /\ UNCHANGED <<transports, errors, sockets, task>>
    /\ UNCHANGED <<up, sent, seen>>

\* Requests are served once the start-up hook is done.
Serving(t) == up = "serving" /\ ~Busy(Boot) /\ ~Busy(t)

\* PUT, accepted: the publication is (re-)registered at an endpoint.
Put(t, n, e) ==
    /\ Serving(t)
    /\ Change(t, [registered EXCEPT ![n] = e])

Delete(t, n) ==
    /\ Serving(t)
    /\ registered[n] # None
    /\ Change(t, [registered EXCEPT ![n] = None])

\* A pass of the mirror loop adopts any number of publications, then syncs once; it
\* does not wait for the start-up hook.
Follow(t, adopted) ==
    /\ up = "serving" /\ ~Busy(t)
    /\ Change(t, [n \in Names |-> IF adopted[n] # None THEN adopted[n] ELSE registered[n]])

\* Faulty: what is left in the table is not a receiver.
StopListenerVoid ==
    /\ up = "serving"
    /\ Quiet
    /\ sockets' = [s \in Sockets |-> IF s \in Held THEN None ELSE sockets[s]]
    /\ transports' = [e \in Endpoints |-> None]
    /\ up' = "stopped"
    /\ UNCHANGED <<registered, errors, task, sent, seen, mishaps>>

\* Clean-up runs when no request is left: close the receivers that are held.
StopListener ==
    /\ up = "serving"
    /\ Quiet
    /\ sockets' = [s \in Sockets |-> IF s \in Held THEN None ELSE sockets[s]]
    /\ transports' = [e \in Endpoints |-> NoSocket]
    /\ up' = "stopped"
    /\ UNCHANGED <<registered, errors, task, sent, seen, mishaps>>

-----------------------------------------------------------------------------
(* A datagram of publication n, and the kernel (external): a multicast one is *)
(* copied to every socket on its port, a unicast one goes to a single socket. *)

OnPort(e) == {s \in Open(sockets) : Port[sockets[s]] = Port[e]}

Copies(e) ==
    IF e \in Multicast
    THEN IF BoundTo(e) = {} THEN 0 ELSE Cardinality(OnPort(e))
    ELSE IF OnPort(e) = {} THEN 0 ELSE 1

AllSent == MapThenSumSet(LAMBDA n : sent[n], Names)

Datagram(n) ==
    /\ up = "serving"
    /\ registered[n] # None
    /\ AllSent < MaxSent
    /\ sent' = [sent EXCEPT ![n] = @ + 1]
    /\ seen' = [seen EXCEPT ![n] = @ + Copies(registered[n])]
    /\ UNCHANGED <<registered, transports, errors, sockets, task, up, mishaps>>

Next ==
    \/ StartListener
    \/ \E t \in Tasks : Resume(t)
    \/ \E t \in Clients, n \in Names, e \in Endpoints : Put(t, n, e)
    \/ \E t \in Clients, n \in Names : Delete(t, n)
    \/ \E t \in Follower, adopted \in [Names -> Endpoints \cup {None}] : Follow(t, adopted)
    \/ StopListener
    \/ \E n \in Names : Datagram(n)

Spec == Init /\ [][Next]_vars

\* The event loop resumes every suspended task; nothing obliges a client to ask.
FairSpec ==
    /\ Spec
    /\ WF_vars(StartListener)
    /\ \A t \in Tasks : WF_vars(Resume(t))

-----------------------------------------------------------------------------
(* Properties. *)

TypeOK ==
    /\ registered \in [Names -> Endpoints \cup {None}]
    /\ transports \in [Endpoints -> Sockets \cup {NoSocket}]
    /\ errors \subseteq Endpoints
    /\ sockets \in [Sockets -> Endpoints \cup {None}]
    /\ task \in [Tasks -> [todo : SUBSET Endpoints, at : Endpoints \cup {None},
                           socket : Sockets \cup {NoSocket}]]
    /\ up \in {"starting", "serving", "stopped"}
    /\ sent \in [Names -> Nat]
    /\ seen \in [Names -> Nat]
    /\ mishaps \subseteq {"overlap", "unsaved"}

\* "One receiver per distinct (host, port)" (listener.py:2), at least once the
\* syncs have ended.
OneReceiverPerEndpoint ==
    Quiet => \A e \in Endpoints : Cardinality(BoundTo(e)) <= 1

\* "It listens to what it registers" (listener.py:1): when the last sync ends every
\* registered endpoint is heard or its failure is on record (listener.py:70-73).
HeardOrReported ==
    up = "serving" /\ Quiet =>
        \A e \in Wanted(registered) : transports[e] # NoSocket \/ e \in errors

\* So it is, whatever the syncs interleaved with, unless a save failed since.
HeardWhenSaved == "unsaved" \in mishaps \/ HeardOrReported

\* What the listener holds is a receiver that is open, on that endpoint: no sync
\* closes the receiver of another (listener.py:81-83, :93).
HeldIsOpen ==
    \A e \in Endpoints : transports[e] # NoSocket => sockets[transports[e]] = e

\* Reception of an endpoint that stays registered is never interrupted by the
\* requests for the others (listener.py:71-73, :81-86).
Undisturbed ==
    [][up' = "serving" =>
          \A e \in Wanted(registered) \cap Wanted(registered') :
              transports[e] # NoSocket => BoundTo(e) \subseteq BoundTo(e)']_vars

\* As long as no syncs overlap, there is one receiver for each endpoint that is
\* registered, or none and its failure is on record, and no other is left open.
NothingLeftOpen ==
    Quiet /\ mishaps = {} => \A s \in Open(sockets) :
        sockets[s] \in Wanted(registered) /\ transports[sockets[s]] = s

OwnPorts == \A e, f \in Endpoints : Port[e] = Port[f] => e = f

\* As long as no syncs overlap, and no two endpoints share a port, a datagram is
\* counted at most once (listener.py:112-123).
CountedOnce ==
    OwnPorts /\ "overlap" \notin mishaps => \A n \in Names : seen[n] <= sent[n]

\* Every request comes to an end, and so does the start-up hook.
SyncsEnd == \A t \in Tasks : Busy(t) ~> ~Busy(t)

=============================================================================
