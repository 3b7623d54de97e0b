-------------------------------- MODULE Store --------------------------------
(***************************************************************************)
(* The registry's store (registry/store.py): two indexes over the same     *)
(* publications, a JSON file rewritten through a temporary file and a      *)
(* rename after every change, and a loader that trusts nothing it reads.   *)
(*                                                                         *)
(* Every method of the store is synchronous, so requests never interleave  *)
(* inside one.  A crash may, hence the phases: a change is made in memory  *)
(* ("saving"), the temporary file is written ("replacing"), then renamed.  *)
(* The constructor's loop is one step per entry of the file.  The file is  *)
(* a set of entries: what the store writes has no two alike, and whatever  *)
(* order a hand-edited file lists its entries in is one the loop may take. *)
(***************************************************************************)
EXTENDS Registrations, Naturals

CONSTANTS MaxTime,      \* bound on the clock
          EditedFiles   \* files an operator may put in place of the store's

Time == 0..MaxTime

Publication == [name : Names, stream : Streams, registered : Time, renewed : Time]

\* What reading an element of the file may run into: nothing, an error the
\* constructor catches, or one it does not (an AttributeError).
Faults == {"none", "caught", "uncaught"}

File == [entries : SUBSET Publication, fault : Faults]

NoFile == [entries |-> {}, fault |-> "none"]   \* read exactly as an empty list

TornFile == [entries |-> {}, fault |-> "caught"]

ASSUME StoreConstants ==
    /\ MaxTime \in Nat
    /\ Absent \notin Names \cup Streams \cup Publication
    /\ EditedFiles \subseteq File

\* The assumption under which the two indexes agree: no hand-edited file lists
\* one name twice.
NamesListedOnce ==
    \A f \in EditedFiles : \A p, q \in f.entries : p.name = q.name => p = q

TriplesListedOnce(f) == \A p, q \in f.entries : p.stream = q.stream => p = q

VARIABLES
    phase,       \* "down", "loading", "serving", "saving", "replacing"
    by_name,     \* _by_name: the publication of a name
    by_stream,   \* _by_stream: the name of the publication a triple leads to
    disk,        \* the store file
    tmp,         \* the temporary file beside it
    corrupt,     \* the file put aside as .corrupt
    todo,        \* entries of the file not read yet
    reply,       \* how the last change ended: "none" (no change yet), "done", "failed"
    now          \* the clock

vars == <<phase, by_name, by_stream, disk, tmp, corrupt, todo, reply, now>>

memory == <<by_name, by_stream>>
files == <<disk, tmp, corrupt>>

Registered == {n \in Names : by_name[n] # Absent}

\* What _persist serialises.
Payload == [entries |-> {by_name[n] : n \in Registered}, fault |-> "none"]

EmptyMemory ==
    /\ by_name' = [n \in Names |-> Absent]
    /\ by_stream' = [s \in Streams |-> Absent]

Init ==
    /\ phase = "down"
    /\ by_name = [n \in Names |-> Absent]
    /\ by_stream = [s \in Streams |-> Absent]
    /\ disk = NoFile
    /\ tmp = NoFile
    /\ corrupt = NoFile
    /\ todo = {}
    /\ reply = "none"
    /\ now = 0

-----------------------------------------------------------------------------
(* The constructor. *)

Open ==
    /\ phase = "down"
    /\ phase' = "loading"
    /\ todo' = disk.entries
    /\ reply' = "none"
    /\ UNCHANGED <<memory, files, now>>

\* Faulty: a restart renews every lease.
LoadRenewed(p) ==
    /\ phase = "loading"
    /\ p \in todo
    /\ by_stream[p.stream] = Absent
    /\ by_name' = [by_name EXCEPT ![p.name] = [p EXCEPT !.renewed = now]]
    /\ by_stream' = [by_stream EXCEPT ![p.stream] = p.name]
    /\ todo' = todo \ {p}
    /\ UNCHANGED <<phase, files, reply, now>>

LoadEntry(p) ==
    /\ phase = "loading"
    /\ p \in todo
    /\ by_stream[p.stream] = Absent
    /\ by_name' = [by_name EXCEPT ![p.name] = p]
    /\ by_stream' = [by_stream EXCEPT ![p.stream] = p.name]
    /\ todo' = todo \ {p}
    /\ UNCHANGED <<phase, files, reply, now>>

SkipDuplicate(p) ==
    /\ phase = "loading"
    /\ p \in todo
    /\ by_stream[p.stream] # Absent
    /\ todo' = todo \ {p}
    /\ UNCHANGED <<phase, memory, files, reply, now>>

LoadDone ==
    /\ phase = "loading"
    /\ todo = {}
    /\ disk.fault = "none"
    /\ phase' = "serving"
    /\ UNCHANGED <<memory, files, todo, reply, now>>

\* Faulty: what was loaded before the error stays.
QuarantineKeeping ==
    /\ phase = "loading"
    /\ disk.fault = "caught"
    /\ corrupt' = disk
    /\ disk' = NoFile
    /\ todo' = {}
    /\ phase' = "serving"
    /\ UNCHANGED <<memory, tmp, reply, now>>

Quarantine ==
    /\ phase = "loading"
    /\ disk.fault = "caught"
    /\ corrupt' = disk
    /\ disk' = NoFile
    /\ EmptyMemory
    /\ todo' = {}
    /\ phase' = "serving"
    /\ UNCHANGED <<tmp, reply, now>>

\* The error escapes the constructor: the service does not start.
StartFails ==
    /\ phase = "loading"
    /\ disk.fault = "uncaught"
    /\ EmptyMemory
    /\ todo' = {}
    /\ phase' = "down"
    /\ UNCHANGED <<files, reply, now>>

-----------------------------------------------------------------------------
(* The three changes, and their refusals. *)

\* Faulty: the triple may be another's, or a replacement counts as a first
\* registration.
RegisterColliding(n, s, replace) ==
    /\ phase = "serving"
    /\ by_name[n] = Absent \/ replace
    /\ by_name' = [by_name EXCEPT ![n] =
          [name |-> n, stream |-> s, registered |-> now, renewed |-> now]]
    /\ by_stream' = [by_stream EXCEPT ![s] = n]
    /\ phase' = "saving"
    /\ UNCHANGED <<files, todo, reply, now>>

RegisterAnew(n, s, replace) ==
    /\ phase = "serving"
    /\ by_name[n] = Absent \/ replace
    /\ by_stream[s] \in {Absent, n}
    /\ by_name' = [by_name EXCEPT ![n] =
          [name |-> n, stream |-> s, registered |-> now, renewed |-> now]]
    /\ by_stream' = [t \in Streams |->
          IF t = s THEN n ELSE IF by_stream[t] = n THEN Absent ELSE by_stream[t]]
    /\ phase' = "saving"
    /\ UNCHANGED <<files, todo, reply, now>>

Register(n, s, replace) ==
    LET existing == by_name[n]
        first == IF existing = Absent THEN now ELSE existing.registered
        published == [name |-> n, stream |-> s, registered |-> first, renewed |-> now]
    IN  /\ phase = "serving"
        /\ existing = Absent \/ replace
        /\ by_stream[s] \in {Absent, n}
        /\ by_name' = [by_name EXCEPT ![n] = published]
        /\ by_stream' = [t \in Streams |->
              IF t = s THEN n
              ELSE IF existing # Absent /\ t = existing.stream THEN Absent
              ELSE by_stream[t]]
        /\ phase' = "saving"
        /\ UNCHANGED <<files, todo, reply, now>>

\* Faulty: the end of the lease is stored in place of its renewal.
RenewUntil(n) ==
    /\ phase = "serving"
    /\ by_name[n] # Absent
    /\ by_name' = [by_name EXCEPT ![n].renewed = now + 1]
    /\ phase' = "saving"
    /\ UNCHANGED <<by_stream, files, todo, reply, now>>

Renew(n) ==
    /\ phase = "serving"
    /\ by_name[n] # Absent
    /\ by_name' = [by_name EXCEPT ![n].renewed = now]
    /\ phase' = "saving"
    /\ UNCHANGED <<by_stream, files, todo, reply, now>>

\* Faulty: the triple is not given up.
RemoveNameOnly(n) ==
    /\ phase = "serving"
    /\ by_name[n] # Absent
    /\ by_name' = [by_name EXCEPT ![n] = Absent]
    /\ phase' = "saving"
    /\ UNCHANGED <<by_stream, files, todo, reply, now>>

Remove(n) ==
    /\ phase = "serving"
    /\ by_name[n] # Absent
    /\ by_name' = [by_name EXCEPT ![n] = Absent]
    /\ by_stream' = [by_stream EXCEPT ![by_name[n].stream] = Absent]
    /\ phase' = "saving"
    /\ UNCHANGED <<files, todo, reply, now>>

\* A request that does not validate, a name or a triple that is taken, a name
\* that is not registered: StoreError, and nothing changes.
Refuse(n, s, replace, valid) ==
    /\ phase = "serving"
    /\ \/ ~valid
       \/ by_name[n] # Absent /\ ~replace
       \/ by_stream[s] \notin {Absent, n}
    /\ UNCHANGED vars

RefuseUnknown(n) ==
    /\ phase = "serving"
    /\ by_name[n] = Absent
    /\ UNCHANGED vars

-----------------------------------------------------------------------------
(* _persist. *)

WriteTemp ==
    /\ phase = "saving"
    /\ tmp' = Payload
    /\ phase' = "replacing"
    /\ UNCHANGED <<memory, disk, corrupt, todo, reply, now>>

\* Faulty: the error is swallowed.
WriteFailsQuietly ==
    /\ phase = "saving"
    /\ tmp' \in {tmp, TornFile}
    /\ reply' = "done"
    /\ phase' = "serving"
    /\ UNCHANGED <<memory, disk, corrupt, todo, now>>

\* The error reaches the client (500); the change stays in memory.
WriteFails ==
    /\ phase = "saving"
    /\ tmp' \in {tmp, TornFile}
    /\ reply' = "failed"
    /\ phase' = "serving"
    /\ UNCHANGED <<memory, disk, corrupt, todo, now>>

Replace ==
    /\ phase = "replacing"
    /\ disk' = tmp
    /\ tmp' = NoFile
    /\ reply' = "done"
    /\ phase' = "serving"
    /\ UNCHANGED <<memory, corrupt, todo, now>>

ReplaceFails ==
    /\ phase = "replacing"
    /\ reply' = "failed"
    /\ phase' = "serving"
    /\ UNCHANGED <<memory, files, todo, now>>

-----------------------------------------------------------------------------
(* The process stops at any point; time passes; an operator edits the file. *)

Crash ==
    /\ phase # "down"
    /\ phase' = "down"
    /\ tmp' \in {tmp} \cup (IF phase = "saving" THEN {TornFile} ELSE {})
    /\ EmptyMemory
    /\ todo' = {}
    /\ UNCHANGED <<disk, corrupt, reply, now>>

Tick ==
    /\ now < MaxTime
    /\ now' = now + 1
    /\ UNCHANGED <<phase, memory, files, todo, reply>>

EditFile(f) ==
    /\ phase = "down"
    /\ disk' = f
    /\ UNCHANGED <<phase, memory, tmp, corrupt, todo, reply, now>>

Next ==
    \/ Open
    \/ \E p \in todo : LoadEntry(p)
    \/ \E p \in todo : SkipDuplicate(p)
    \/ LoadDone
    \/ Quarantine
    \/ StartFails
    \/ \E n \in Names, s \in Streams, replace \in BOOLEAN : Register(n, s, replace)
    \/ \E n \in Names : Renew(n)
    \/ \E n \in Names : Remove(n)
    \/ \E n \in Names, s \in Streams, replace, valid \in BOOLEAN :
          Refuse(n, s, replace, valid)
    \/ \E n \in Names : RefuseUnknown(n)
    \/ WriteTemp
    \/ WriteFails
    \/ Replace
    \/ ReplaceFails
    \/ Crash
    \/ Tick
    \/ \E f \in EditedFiles : EditFile(f)

Spec == Init /\ [][Next]_vars

-----------------------------------------------------------------------------
(* Properties. *)

TypeOK ==
    /\ phase \in {"down", "loading", "serving", "saving", "replacing"}
    /\ by_name \in [Names -> Publication \cup {Absent}]
    /\ by_stream \in [Streams -> Names \cup {Absent}]
    /\ disk \in File
    /\ tmp \in File
    /\ corrupt \in File
    /\ todo \subseteq Publication
    /\ reply \in {"none", "done", "failed"}
    /\ now \in Time

\* The triple of a registered publication leads to it, in every phase of every
\* request and of the loading of any file: a datagram of a registered stream is
\* never given to another name, and no two names share a triple (store.py:204).
NameHoldsItsTriple ==
    \A n \in Registered : by_stream[by_name[n].stream] = n

\* And no triple leads anywhere else: what a removed or re-pointed name gave up
\* is free again, and a collision is only ever blamed on a name that is
\* registered with the triple (store.py:206-210, :215, :239).
TripleLeadsToItsName ==
    \A s \in Streams : by_stream[s] # Absent =>
        /\ by_stream[s] \in Registered
        /\ by_name[by_stream[s]].stream = s

\* A change that was answered is in the file until the next one begins, however
\* many changes failed to be saved before it (store.py:242-248).
AnsweredIsSaved ==
    phase = "serving" /\ reply = "done" => disk = Payload

\* A restart serves exactly what the file says, if the file gives no triple to two
\* names (the store never writes such a file): a crash in the middle of a save loses
\* at most the change that was not answered (store.py:247-248, :172-180).
RestartRestores ==
    phase = "serving" /\ reply = "none" /\ TriplesListedOnce(disk) => Payload = disk

\* A name keeps the date of its first registration through renewals and
\* replacements (store.py:212): it is what a follower compares.
RegistrationDateKept ==
    [][phase = "serving" =>
          \A n \in Registered \cap Registered' :
              by_name'[n].registered = by_name[n].registered]_vars

-----------------------------------------------------------------------------
(* The catalog this store implements. *)

Answering == phase \in {"serving", "saving", "replacing"}

Phonebook == [n \in Names |->
    IF Answering /\ by_name[n] # Absent THEN by_name[n].stream ELSE Absent]

Catalog == INSTANCE Catalog WITH
    running <- Answering,
    live <- Phonebook,
    saved <- {<<p.name, p.stream>> : p \in disk.entries}

\* Seen from its clients, through crashes, failed saves and hand-edited files,
\* the store is the phonebook of module Catalog.
ImplementsCatalog == Catalog!Spec

=============================================================================
