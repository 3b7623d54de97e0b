----------------------------- MODULE StoreProofs -----------------------------
(***************************************************************************)
(* What holds of the store whatever the names, the triples, the clock and  *)
(* the files an operator leaves; and, in the second half, of the store of  *)
(* a follower, whatever lists it merges, however late, and whenever it     *)
(* restarts.                                                               *)
(***************************************************************************)
EXTENDS Store, Mirror, TLAPS

(* The parts of the invariant that the properties rest on. *)

NamedByKey == \A n \in Registered : by_name[n].name = n

DownIsEmpty == phase = "down" => /\ by_name = [n \in Names |-> Absent]
                                 /\ by_stream = [s \in Streams |-> Absent]

TempIsPayload == phase = "replacing" => tmp = Payload

LoadingUnanswered == phase = "loading" => reply = "none"

LEMMA PayloadIsFile ==
    ASSUME by_name \in [Names -> Publication \cup {Absent}]
    PROVE  Payload \in File
<1>1. {by_name[n] : n \in Registered} \subseteq Publication
  BY DEF Registered
<1>2. QED
  BY <1>1 DEF Payload, File, Faults

LEMMA NoFileIsFile == NoFile \in File /\ TornFile \in File
BY DEF NoFile, TornFile, File, Faults

LEMMA EntriesArePublications == ASSUME NEW f \in File PROVE f.entries \subseteq Publication
BY DEF File

-----------------------------------------------------------------------------

LEMMA TypeInit == Init => TypeOK
BY NoFileIsFile, StoreConstants DEF Init, TypeOK, Time

LEMMA TypeStep == TypeOK /\ [Next]_vars => TypeOK'
<1> SUFFICES ASSUME TypeOK, [Next]_vars PROVE TypeOK'
  OBVIOUS
<1> USE DEF TypeOK
<1>1. CASE Open
  BY <1>1, EntriesArePublications DEF Open, memory, files
<1>2. ASSUME NEW p \in todo, LoadEntry(p) PROVE TypeOK'
  <2>1. p \in Publication /\ p.name \in Names /\ p.stream \in Streams
    BY DEF Publication
  <2>2. QED
    BY <1>2, <2>1 DEF LoadEntry, memory, files
<1>3. ASSUME NEW p \in todo, SkipDuplicate(p) PROVE TypeOK'
  BY <1>3 DEF SkipDuplicate, memory, files
<1>4. CASE LoadDone
  BY <1>4 DEF LoadDone, memory, files
<1>5. CASE Quarantine
  BY <1>5, NoFileIsFile DEF Quarantine, EmptyMemory
<1>6. CASE StartFails
  BY <1>6 DEF StartFails, EmptyMemory, files
<1>7. ASSUME NEW n \in Names, NEW s \in Streams, NEW replace \in BOOLEAN,
             Register(n, s, replace)
      PROVE  TypeOK'
  <2> DEFINE first == IF by_name[n] = Absent THEN now ELSE by_name[n].registered
             published == [name |-> n, stream |-> s, registered |-> first, renewed |-> now]
  <2>1. published \in Publication
    BY DEF Publication
  <2>2. by_name' = [by_name EXCEPT ![n] = published]
    BY <1>7 DEF Register
  <2>3. by_name' \in [Names -> Publication \cup {Absent}]
    BY <2>1, <2>2
  <2>4. by_stream' \in [Streams -> Names \cup {Absent}]
    BY <1>7 DEF Register
  <2>5. QED
    BY <1>7, <2>3, <2>4 DEF Register, memory, files
<1>8. ASSUME NEW n \in Names, Renew(n) PROVE TypeOK'
  <2>1. by_name[n] \in Publication
    BY <1>8 DEF Renew
  <2>2. [by_name[n] EXCEPT !.renewed = now] \in Publication
    BY <2>1 DEF Publication
  <2>3. by_name' = [by_name EXCEPT ![n] = [by_name[n] EXCEPT !.renewed = now]]
    BY <1>8 DEF Renew
  <2>4. QED
    BY <1>8, <2>2, <2>3 DEF Renew, files
<1>9. ASSUME NEW n \in Names, Remove(n) PROVE TypeOK'
  BY <1>9 DEF Remove, files
<1>10. CASE WriteTemp
  BY <1>10, PayloadIsFile DEF WriteTemp, memory
<1>11. CASE WriteFails
  BY <1>11, NoFileIsFile DEF WriteFails, memory
<1>12. CASE Replace
  BY <1>12, NoFileIsFile DEF Replace, memory
<1>13. CASE ReplaceFails
  BY <1>13 DEF ReplaceFails, memory, files
<1>14. CASE Crash
  BY <1>14, NoFileIsFile DEF Crash, EmptyMemory
<1>15. CASE Tick
  BY <1>15, StoreConstants DEF Tick, memory, files, Time
<1>16. ASSUME NEW f \in EditedFiles, EditFile(f) PROVE TypeOK'
  BY <1>16, StoreConstants DEF EditFile, memory
<1>17. CASE UNCHANGED vars
  BY <1>17 DEF vars
<1>18. QED
  BY <1>1, <1>2, <1>3, <1>4, <1>5, <1>6, <1>7, <1>8, <1>9, <1>10, <1>11, <1>12,
     <1>13, <1>14, <1>15, <1>16, <1>17 DEF Next, Refuse, RefuseUnknown

\* The store's variables keep their types in every run.
THEOREM TypeCorrect == Spec => []TypeOK
<1>1. QED
  BY TypeInit, TypeStep, PTL DEF Spec

-----------------------------------------------------------------------------
(* A registered name and the triple it holds. *)

HoldInv ==
    /\ TypeOK
    /\ NamedByKey
    /\ NameHoldsItsTriple
    /\ DownIsEmpty
    /\ TempIsPayload
    /\ AnsweredIsSaved
    /\ LoadingUnanswered

LEMMA HoldInit == Init => HoldInv
BY TypeInit DEF Init, HoldInv, NamedByKey, NameHoldsItsTriple, DownIsEmpty,
           TempIsPayload, AnsweredIsSaved,
                LoadingUnanswered, Registered

\* A step that leaves both indexes alone changes neither who is registered nor
\* what would be written.
LEMMA SameMemory ==
    ASSUME memory' = memory
    PROVE  /\ by_name' = by_name /\ by_stream' = by_stream
           /\ Registered' = Registered /\ Payload' = Payload
BY DEF memory, Registered, Payload

LEMMA HoldStep == HoldInv /\ [Next]_vars => HoldInv'
<1> SUFFICES ASSUME HoldInv, [Next]_vars PROVE HoldInv'
  OBVIOUS
<1> TypeOK'
  BY TypeStep DEF HoldInv
<1> USE DEF HoldInv
<1>1. ASSUME memory' = memory, phase # "down" => phase' # "down"
      PROVE  NamedByKey' /\ NameHoldsItsTriple' /\ (phase # "down" => DownIsEmpty')
  BY <1>1, SameMemory DEF NamedByKey, NameHoldsItsTriple, DownIsEmpty
<1>2. ASSUME EmptyMemory
      PROVE  NamedByKey' /\ NameHoldsItsTriple' /\ DownIsEmpty'
  BY <1>2 DEF EmptyMemory, NamedByKey, NameHoldsItsTriple, DownIsEmpty, Registered
<1>3. CASE Open
  BY <1>3, <1>1, SameMemory DEF Open, DownIsEmpty, TempIsPayload, AnsweredIsSaved, LoadingUnanswered
<1>4. ASSUME NEW p \in todo, LoadEntry(p) PROVE HoldInv'
  <2>1. p \in Publication /\ p.name \in Names /\ p.stream \in Streams
    BY DEF TypeOK, Publication
  <2>2. /\ by_name' = [by_name EXCEPT ![p.name] = p]
        /\ by_stream' = [by_stream EXCEPT ![p.stream] = p.name]
        /\ by_stream[p.stream] = Absent
        /\ phase = "loading" /\ phase' = phase /\ reply' = reply
    BY <1>4 DEF LoadEntry
  <2>3. NamedByKey'
    BY <2>1, <2>2 DEF NamedByKey, Registered, TypeOK
  <2>4. NameHoldsItsTriple'
    BY <2>1, <2>2, StoreConstants DEF NameHoldsItsTriple, Registered, TypeOK
  <2>5. QED
    BY <2>2, <2>3, <2>4 DEF DownIsEmpty, TempIsPayload, AnsweredIsSaved, LoadingUnanswered
<1>5. ASSUME NEW p \in todo, SkipDuplicate(p) PROVE HoldInv'
  BY <1>5, <1>1 DEF SkipDuplicate, DownIsEmpty, TempIsPayload, AnsweredIsSaved, LoadingUnanswered
<1>6. CASE LoadDone
  BY <1>6, <1>1, SameMemory DEF LoadDone, DownIsEmpty, TempIsPayload, AnsweredIsSaved, LoadingUnanswered
<1>7. CASE Quarantine
  BY <1>7, <1>2 DEF Quarantine, TempIsPayload, AnsweredIsSaved, LoadingUnanswered
<1>8. CASE StartFails
  BY <1>8, <1>2 DEF StartFails, TempIsPayload, AnsweredIsSaved, LoadingUnanswered
<1>9. ASSUME NEW n \in Names, NEW s \in Streams, NEW replace \in BOOLEAN,
             Register(n, s, replace)
      PROVE  HoldInv'
  <2> DEFINE first == IF by_name[n] = Absent THEN now ELSE by_name[n].registered
             published == [name |-> n, stream |-> s, registered |-> first, renewed |-> now]
  <2>1. /\ by_name' = [by_name EXCEPT ![n] = published]
        /\ by_stream[s] \in {Absent, n}
        /\ by_stream' = [t \in Streams |->
              IF t = s THEN n
              ELSE IF by_name[n] # Absent /\ t = by_name[n].stream THEN Absent
              ELSE by_stream[t]]
    BY <1>9 DEF Register
  <2>2. published.name = n /\ published.stream = s
    OBVIOUS
  <2> HIDE DEF published
  <2>3. NamedByKey'
    BY <2>1, <2>2 DEF NamedByKey, Registered, TypeOK
  <2>4. NameHoldsItsTriple'
    <3> SUFFICES ASSUME NEW m \in Names, by_name'[m] # Absent
                 PROVE  by_stream'[by_name'[m].stream] = m
      BY DEF NameHoldsItsTriple, Registered
    <3>1. CASE m = n
      BY <2>1, <2>2, <3>1 DEF TypeOK
    <3>2. CASE m # n
      <4>1. by_name'[m] = by_name[m] /\ by_name[m] \in Publication
        BY <2>1, <3>2 DEF TypeOK
      <4>2. by_stream[by_name[m].stream] = m /\ by_name[m].stream \in Streams
        BY <4>1 DEF NameHoldsItsTriple, Registered, Publication
      <4>3. by_name[m].stream # s
        BY <2>1, <4>2, <3>2, StoreConstants
      <4>4. by_name[n] # Absent => by_name[m].stream # by_name[n].stream
        BY <4>2, <3>2 DEF NameHoldsItsTriple, Registered
      <4>5. QED
        BY <2>1, <4>1, <4>2, <4>3, <4>4
    <3>3. QED
      BY <3>1, <3>2
  <2>5. phase = "serving" /\ phase' = "saving"
    BY <1>9 DEF Register
  <2>6. QED
    BY <2>3, <2>4, <2>5 DEF DownIsEmpty, TempIsPayload, AnsweredIsSaved, LoadingUnanswered
<1>10. ASSUME NEW n \in Names, Renew(n) PROVE HoldInv'
  <2>1. /\ by_name' = [by_name EXCEPT ![n] = [by_name[n] EXCEPT !.renewed = now]]
        /\ by_stream' = by_stream /\ by_name[n] # Absent
        /\ phase = "serving" /\ phase' = "saving"
    BY <1>10 DEF Renew
  <2>2. by_name[n] \in Publication
    BY <2>1 DEF TypeOK
  <2>3. /\ [by_name[n] EXCEPT !.renewed = now].name = by_name[n].name
        /\ [by_name[n] EXCEPT !.renewed = now].stream = by_name[n].stream
    BY <2>2 DEF Publication
  <2>4. NamedByKey'
    BY <2>1, <2>3 DEF NamedByKey, Registered, TypeOK
  <2>5. NameHoldsItsTriple'
    BY <2>1, <2>3 DEF NameHoldsItsTriple, Registered, TypeOK
  <2>6. QED
    BY <2>1, <2>4, <2>5 DEF DownIsEmpty, TempIsPayload, AnsweredIsSaved, LoadingUnanswered
<1>11. ASSUME NEW n \in Names, Remove(n) PROVE HoldInv'
  <2>1. /\ by_name' = [by_name EXCEPT ![n] = Absent]
        /\ by_stream' = [by_stream EXCEPT ![by_name[n].stream] = Absent]
        /\ by_name[n] # Absent
        /\ phase = "serving" /\ phase' = "saving"
    BY <1>11 DEF Remove
  <2>2. NamedByKey'
    BY <2>1 DEF NamedByKey, Registered, TypeOK
  <2>3. NameHoldsItsTriple'
    <3> SUFFICES ASSUME NEW m \in Names, by_name'[m] # Absent
                 PROVE  by_stream'[by_name'[m].stream] = m
      BY DEF NameHoldsItsTriple, Registered
    <3>1. m # n /\ by_name'[m] = by_name[m] /\ by_name[m] \in Publication
      BY <2>1 DEF TypeOK
    <3>2. /\ by_stream[by_name[m].stream] = m /\ by_name[m].stream \in Streams
          /\ by_stream[by_name[n].stream] = n
      BY <2>1, <3>1 DEF NameHoldsItsTriple, Registered, Publication
    <3>3. QED
      BY <2>1, <3>1, <3>2 DEF TypeOK
  <2>4. QED
    BY <2>1, <2>2, <2>3 DEF DownIsEmpty, TempIsPayload, AnsweredIsSaved, LoadingUnanswered
<1>12. CASE WriteTemp
  BY <1>12, <1>1, SameMemory DEF WriteTemp, DownIsEmpty, TempIsPayload, AnsweredIsSaved, LoadingUnanswered
<1>13. CASE WriteFails
  BY <1>13, <1>1 DEF WriteFails, DownIsEmpty, TempIsPayload, AnsweredIsSaved, LoadingUnanswered
<1>14. CASE Replace
  BY <1>14, <1>1, SameMemory DEF Replace, DownIsEmpty, TempIsPayload, AnsweredIsSaved, LoadingUnanswered
<1>15. CASE ReplaceFails
  BY <1>15, <1>1 DEF ReplaceFails, DownIsEmpty, TempIsPayload, AnsweredIsSaved, LoadingUnanswered
<1>16. CASE Crash
  BY <1>16, <1>2 DEF Crash, TempIsPayload, AnsweredIsSaved, LoadingUnanswered
<1>17. CASE Tick
  BY <1>17, SameMemory DEF Tick, files, NamedByKey, NameHoldsItsTriple, DownIsEmpty,
     TempIsPayload, AnsweredIsSaved, LoadingUnanswered
<1>18. ASSUME NEW f \in EditedFiles, EditFile(f) PROVE HoldInv'
  BY <1>18, SameMemory DEF EditFile, NamedByKey, NameHoldsItsTriple, DownIsEmpty,
     TempIsPayload, AnsweredIsSaved, LoadingUnanswered
<1>19. CASE UNCHANGED vars
  BY <1>19, SameMemory DEF vars, memory, NamedByKey, NameHoldsItsTriple, DownIsEmpty,
     TempIsPayload, AnsweredIsSaved, LoadingUnanswered
<1>20. QED
  BY <1>3, <1>4, <1>5, <1>6, <1>7, <1>8, <1>9, <1>10, <1>11, <1>12, <1>13, <1>14,
     <1>15, <1>16, <1>17, <1>18, <1>19 DEF Next, Refuse, RefuseUnknown

\* Whatever the store file holds, the triple of a registered name leads to that
\* name: two registered names never share a triple.
THEOREM NamesHoldTheirTriples == Spec => []NameHoldsItsTriple
<1>1. HoldInv => NameHoldsItsTriple
  BY DEF HoldInv
<1>2. QED
  BY <1>1, HoldInit, HoldStep, PTL DEF Spec

\* A change that was answered is in the file, whatever crashed or failed before.
THEOREM AnsweredChangesAreSaved == Spec => []AnsweredIsSaved
<1>1. HoldInv => AnsweredIsSaved
  BY DEF HoldInv
<1>2. QED
  BY <1>1, HoldInit, HoldStep, PTL DEF Spec

-----------------------------------------------------------------------------
(* The other direction: no triple leads to a name that does not hold it.   *)
(* This needs files that list a name once.                                 *)

ListedOnce(f) == \A p, q \in f.entries : p.name = q.name => p = q

ToLoad == phase = "loading" =>
    /\ todo \subseteq disk.entries
    /\ \A p \in todo : by_name[p.name] = Absent

LeadInv ==
    /\ ListedOnce(disk)
    /\ ToLoad
    /\ TripleLeadsToItsName

LEMMA PayloadListedOnce == ASSUME NamedByKey PROVE ListedOnce(Payload)
BY DEF NamedByKey, ListedOnce, Payload

LEMMA NoFileListedOnce == ListedOnce(NoFile)
BY DEF ListedOnce, NoFile

LEMMA LeadInit == Init => LeadInv
BY NoFileListedOnce DEF Init, LeadInv, ToLoad, TripleLeadsToItsName

LEMMA LeadStep ==
    ASSUME NamesListedOnce, HoldInv, LeadInv, [Next]_vars
    PROVE  LeadInv'
<1> USE DEF LeadInv
<1>1. ASSUME memory' = memory PROVE TripleLeadsToItsName'
  BY <1>1, SameMemory DEF TripleLeadsToItsName
<1>2. ASSUME EmptyMemory PROVE TripleLeadsToItsName'
  BY <1>2 DEF EmptyMemory, TripleLeadsToItsName
<1>3. ASSUME disk' = disk PROVE ListedOnce(disk)'
  BY <1>3 DEF ListedOnce
<1>4. CASE Open
  <2>1. \A p \in disk.entries : by_name[p.name] = Absent
    BY <1>4, EntriesArePublications DEF Open, HoldInv, TypeOK, DownIsEmpty, Publication
  <2>2. QED
    BY <1>4, <1>1, <1>3, <2>1, SameMemory DEF Open, files, ToLoad
<1>5. ASSUME NEW p \in todo, LoadEntry(p) PROVE LeadInv'
  <2>1. p \in Publication /\ p.name \in Names /\ p.stream \in Streams
    BY DEF HoldInv, TypeOK, Publication
  <2>2. /\ by_name' = [by_name EXCEPT ![p.name] = p]
        /\ by_stream' = [by_stream EXCEPT ![p.stream] = p.name]
        /\ by_stream[p.stream] = Absent
        /\ todo' = todo \ {p} /\ disk' = disk
        /\ phase = "loading" /\ phase' = phase
    BY <1>5 DEF LoadEntry, files
  <2>3. todo \subseteq disk.entries /\ by_name[p.name] = Absent
    BY <2>2 DEF ToLoad
  <2>4. \A q \in todo' : q.name # p.name /\ by_name[q.name] = Absent /\ q.name \in Names
    BY <2>2, <2>3 DEF ListedOnce, ToLoad, HoldInv, TypeOK, Publication
  <2>5. ToLoad'
    BY <2>1, <2>2, <2>3, <2>4 DEF ToLoad, HoldInv, TypeOK
  <2>6. TripleLeadsToItsName'
    <3> SUFFICES ASSUME NEW u \in Streams, by_stream'[u] # Absent
                 PROVE  /\ by_stream'[u] \in Names
                        /\ by_name'[by_stream'[u]] # Absent
                        /\ by_name'[by_stream'[u]].stream = u
      BY DEF TripleLeadsToItsName, Registered
    <3>1. CASE u = p.stream
      BY <2>1, <2>2, <3>1, StoreConstants DEF HoldInv, TypeOK
    <3>2. CASE u # p.stream
      <4>1. /\ by_stream'[u] = by_stream[u] /\ by_stream[u] \in Names
            /\ by_name[by_stream[u]] # Absent /\ by_name[by_stream[u]].stream = u
        BY <2>2, <3>2 DEF TripleLeadsToItsName, Registered, HoldInv, TypeOK
      <4>2. by_stream[u] # p.name
        BY <2>3, <4>1
      <4>3. QED
        BY <2>2, <4>1, <4>2 DEF HoldInv, TypeOK
    <3>3. QED
      BY <3>1, <3>2
  <2>7. QED
    BY <1>3, <2>2, <2>5, <2>6
<1>6. ASSUME NEW p \in todo, SkipDuplicate(p) PROVE LeadInv'
  BY <1>6, <1>1, <1>3, SameMemory DEF SkipDuplicate, files, ToLoad
<1>7. CASE LoadDone
  BY <1>7, <1>1, <1>3 DEF LoadDone, files, ToLoad
<1>8. CASE Quarantine
  BY <1>8, <1>2, NoFileListedOnce DEF Quarantine, ToLoad, ListedOnce
<1>9. CASE StartFails
  BY <1>9, <1>2, <1>3 DEF StartFails, files, ToLoad
<1>10. ASSUME NEW n \in Names, NEW s \in Streams, NEW replace \in BOOLEAN,
              Register(n, s, replace)
       PROVE  LeadInv'
  <2> DEFINE first == IF by_name[n] = Absent THEN now ELSE by_name[n].registered
             published == [name |-> n, stream |-> s, registered |-> first, renewed |-> now]
  <2>1. /\ by_name' = [by_name EXCEPT ![n] = published]
        /\ by_stream' = [t \in Streams |->
              IF t = s THEN n
              ELSE IF by_name[n] # Absent /\ t = by_name[n].stream THEN Absent
              ELSE by_stream[t]]
        /\ disk' = disk /\ phase' = "saving"
    BY <1>10 DEF Register, files
  <2>2. published.stream = s /\ published \in Publication
    BY DEF HoldInv, TypeOK, Publication
  <2> HIDE DEF published
  <2>3. TripleLeadsToItsName'
    <3> SUFFICES ASSUME NEW u \in Streams, by_stream'[u] # Absent
                 PROVE  /\ by_stream'[u] \in Names
                        /\ by_name'[by_stream'[u]] # Absent
                        /\ by_name'[by_stream'[u]].stream = u
      BY DEF TripleLeadsToItsName, Registered
    <3>1. CASE u = s
      BY <2>1, <2>2, <3>1, StoreConstants DEF HoldInv, TypeOK
    <3>2. CASE u # s
      <4>1. /\ by_stream'[u] = by_stream[u] /\ by_stream[u] \in Names
            /\ by_name[by_stream[u]] # Absent /\ by_name[by_stream[u]].stream = u
        BY <2>1, <3>2 DEF TripleLeadsToItsName, Registered, HoldInv, TypeOK
      <4>2. by_stream[u] # n
        BY <2>1, <3>2, <4>1
      <4>3. QED
        BY <2>1, <4>1, <4>2 DEF HoldInv, TypeOK
    <3>3. QED
      BY <3>1, <3>2
  <2>4. QED
    BY <1>3, <2>1, <2>3 DEF ToLoad
<1>11. ASSUME NEW n \in Names, Renew(n) PROVE LeadInv'
  <2>1. /\ by_name' = [by_name EXCEPT ![n] = [by_name[n] EXCEPT !.renewed = now]]
        /\ by_stream' = by_stream /\ by_name[n] # Absent
        /\ disk' = disk /\ phase' = "saving"
    BY <1>11 DEF Renew, files
  <2>2. by_name[n] \in Publication
    BY <2>1 DEF HoldInv, TypeOK
  <2>3. /\ [by_name[n] EXCEPT !.renewed = now].stream = by_name[n].stream
        /\ [by_name[n] EXCEPT !.renewed = now] \in Publication
    BY <2>2 DEF Publication, HoldInv, TypeOK
  <2>4. TripleLeadsToItsName'
    BY <2>1, <2>3, StoreConstants DEF TripleLeadsToItsName, Registered, HoldInv, TypeOK
  <2>5. QED
    BY <1>3, <2>1, <2>4 DEF ToLoad
<1>12. ASSUME NEW n \in Names, Remove(n) PROVE LeadInv'
  <2>1. /\ by_name' = [by_name EXCEPT ![n] = Absent]
        /\ by_stream' = [by_stream EXCEPT ![by_name[n].stream] = Absent]
        /\ disk' = disk /\ phase' = "saving"
    BY <1>12 DEF Remove, files
  <2>2. TripleLeadsToItsName'
    BY <2>1 DEF TripleLeadsToItsName, Registered, HoldInv, TypeOK
  <2>3. QED
    BY <1>3, <2>1, <2>2 DEF ToLoad
<1>13. CASE WriteTemp
  BY <1>13, <1>1, <1>3 DEF WriteTemp, ToLoad
<1>14. CASE WriteFails
  BY <1>14, <1>1, <1>3 DEF WriteFails, ToLoad
<1>15. CASE Replace
  <2>1. ListedOnce(Payload) /\ disk' = Payload
    BY <1>15, PayloadListedOnce DEF Replace, HoldInv, TempIsPayload
  <2>2. QED
    BY <1>15, <1>1, <2>1 DEF Replace, ToLoad, ListedOnce
<1>16. CASE ReplaceFails
  BY <1>16, <1>1, <1>3 DEF ReplaceFails, files, ToLoad
<1>17. CASE Crash
  BY <1>17, <1>2, <1>3 DEF Crash, ToLoad
<1>18. CASE Tick
  BY <1>18, <1>1, <1>3, SameMemory DEF Tick, files, ToLoad
<1>19. ASSUME NEW f \in EditedFiles, EditFile(f) PROVE LeadInv'
  BY <1>19, <1>1 DEF EditFile, ToLoad, NamesListedOnce, ListedOnce
<1>20. CASE UNCHANGED vars
  BY <1>20, <1>1, <1>3, SameMemory DEF vars, memory, ToLoad
<1>21. QED
  BY <1>4, <1>5, <1>6, <1>7, <1>8, <1>9, <1>10, <1>11, <1>12, <1>13, <1>14, <1>15,
     <1>16, <1>17, <1>18, <1>19, <1>20 DEF Next, Refuse, RefuseUnknown

\* If no hand-edited file lists a name twice, a triple only ever leads to the
\* name registered with it: what a name gives up is free again.
THEOREM TriplesLeadToTheirNames == NamesListedOnce => (Spec => []TripleLeadsToItsName)
<1> SUFFICES ASSUME NamesListedOnce PROVE Spec => []TripleLeadsToItsName
  OBVIOUS
<1>1. Init => HoldInv /\ LeadInv
  BY HoldInit, LeadInit
<1>2. HoldInv /\ LeadInv /\ [Next]_vars => (HoldInv /\ LeadInv)'
  BY HoldStep, LeadStep
<1>3. HoldInv /\ LeadInv => TripleLeadsToItsName
  BY DEF LeadInv
<1>4. QED
  BY <1>1, <1>2, <1>3, PTL DEF Spec

-----------------------------------------------------------------------------
(* Restart.  If the file gives no triple to two names, and no name two     *)
(* triples, the loader skips nothing: at each step what it has read and    *)
(* what it has not make up the file.                                       *)

Loaded == {by_name[n] : n \in Registered}

RestartInv ==
    /\ phase = "loading" /\ TriplesListedOnce(disk) => Loaded \cup todo = disk.entries
    /\ RestartRestores

LEMMA EmptyMemoryLoadsNothing ==
    ASSUME by_name = [n \in Names |-> Absent] PROVE Loaded = {} /\ Payload = NoFile
BY DEF Loaded, Payload, NoFile, Registered

LEMMA RestartInit == Init => RestartInv
BY DEF Init, RestartInv, RestartRestores

LEMMA RestartStep ==
    ASSUME HoldInv, LeadInv, RestartInv, [Next]_vars
    PROVE  RestartInv'
<1> USE DEF RestartInv
<1>1. ASSUME disk' = disk PROVE TriplesListedOnce(disk)' = TriplesListedOnce(disk)
  BY <1>1 DEF TriplesListedOnce
<1>2. ASSUME memory' = memory PROVE Loaded' = Loaded /\ Payload' = Payload
  BY <1>2, SameMemory DEF Loaded
<1>3. ASSUME EmptyMemory PROVE Loaded' = {} /\ Payload' = NoFile
  BY <1>3 DEF EmptyMemory, Loaded, Payload, NoFile, Registered
<1>4. CASE Open
  <2>1. Loaded = {}
    BY <1>4, EmptyMemoryLoadsNothing DEF Open, HoldInv, DownIsEmpty
  <2>2. QED
    BY <1>4, <1>1, <1>2, <2>1 DEF Open, files, RestartRestores
<1>5. ASSUME NEW p \in todo, LoadEntry(p) PROVE RestartInv'
  <2>1. p \in Publication /\ p.name \in Names
    BY DEF HoldInv, TypeOK, Publication
  <2>2. /\ by_name' = [by_name EXCEPT ![p.name] = p]
        /\ todo' = todo \ {p} /\ disk' = disk
        /\ phase = "loading" /\ phase' = phase
    BY <1>5 DEF LoadEntry, files
  <2>3. by_name[p.name] = Absent
    BY <2>2 DEF LeadInv, ToLoad
  <2>4. Loaded' = Loaded \cup {p}
    BY <2>1, <2>2, <2>3, StoreConstants DEF Loaded, Registered, HoldInv, TypeOK
  <2>5. QED
    BY <1>1, <2>2, <2>4 DEF RestartRestores
<1>6. ASSUME NEW p \in todo, SkipDuplicate(p), TriplesListedOnce(disk) PROVE FALSE
  <2>1. p \in disk.entries /\ by_name[p.name] = Absent /\ p.stream \in Streams
    BY <1>6 DEF SkipDuplicate, LeadInv, ToLoad, HoldInv, TypeOK, Publication
  <2> DEFINE m == by_stream[p.stream]
  <2>2. m \in Registered /\ by_name[m].stream = p.stream
    BY <1>6, <2>1 DEF SkipDuplicate, LeadInv, TripleLeadsToItsName
  <2>3. by_name[m] \in disk.entries /\ by_name[m].name = m
    BY <1>6, <2>2 DEF SkipDuplicate, Loaded, HoldInv, NamedByKey
  <2>4. by_name[m] = p
    BY <1>6, <2>1, <2>2, <2>3 DEF TriplesListedOnce
  <2>5. QED
    BY <2>1, <2>2, <2>3, <2>4 DEF Registered
<1>7. CASE LoadDone
  <2>1. TriplesListedOnce(disk) => Payload = disk
    BY <1>7, EntriesArePublications
    DEF LoadDone, Payload, Loaded, HoldInv, TypeOK, File
  <2>2. QED
    BY <1>7, <1>1, <1>2, <2>1 DEF LoadDone, files, RestartRestores
<1>8. CASE Quarantine
  BY <1>8, <1>3 DEF Quarantine, NoFile, RestartRestores
<1>9. CASE StartFails
  BY <1>9, <1>1 DEF StartFails, files, RestartRestores
<1>10. ASSUME NEW n \in Names, NEW s \in Streams, NEW replace \in BOOLEAN,
              Register(n, s, replace)
       PROVE  RestartInv'
  BY <1>10, <1>1 DEF Register, files, RestartRestores
<1>11. ASSUME NEW n \in Names, Renew(n) PROVE RestartInv'
  BY <1>11, <1>1 DEF Renew, files, RestartRestores
<1>12. ASSUME NEW n \in Names, Remove(n) PROVE RestartInv'
  BY <1>12, <1>1 DEF Remove, files, RestartRestores
<1>13. CASE WriteTemp
  BY <1>13, <1>1 DEF WriteTemp, RestartRestores
<1>14. CASE WriteFails
  BY <1>14, <1>1 DEF WriteFails, RestartRestores
<1>15. CASE Replace
  BY <1>15 DEF Replace, RestartRestores
<1>16. CASE ReplaceFails
  BY <1>16, <1>1 DEF ReplaceFails, files, RestartRestores
<1>17. CASE Crash
  BY <1>17, <1>1 DEF Crash, RestartRestores
<1>18. CASE Tick
  BY <1>18, <1>1, <1>2 DEF Tick, files, RestartRestores
<1>19. ASSUME NEW f \in EditedFiles, EditFile(f) PROVE RestartInv'
  BY <1>19 DEF EditFile, RestartRestores
<1>20. CASE UNCHANGED vars
  BY <1>20, <1>1, <1>2 DEF vars, memory, RestartRestores
<1>21. ASSUME NEW p \in todo, SkipDuplicate(p) PROVE RestartInv'
  BY <1>6, <1>21, <1>1 DEF SkipDuplicate, files, RestartRestores
<1>22. QED
  BY <1>4, <1>5, <1>21, <1>7, <1>8, <1>9, <1>10, <1>11, <1>12, <1>13, <1>14, <1>15,
     <1>16, <1>17, <1>18, <1>19, <1>20 DEF Next, Refuse, RefuseUnknown

\* If no file lists a name twice, a restart from a file that gives no triple to two
\* names serves what the file says, no more and no less, whenever the process stopped.
THEOREM RestartsRestore == NamesListedOnce => (Spec => []RestartRestores)
<1> SUFFICES ASSUME NamesListedOnce PROVE Spec => []RestartRestores
  OBVIOUS
<1>1. Init => HoldInv /\ LeadInv /\ RestartInv
  BY HoldInit, LeadInit, RestartInit
<1>2. HoldInv /\ LeadInv /\ RestartInv /\ [Next]_vars => (HoldInv /\ LeadInv /\ RestartInv)'
  BY HoldStep, LeadStep, RestartStep
<1>3. HoldInv /\ LeadInv /\ RestartInv => RestartRestores
  BY DEF RestartInv
<1>4. QED
  BY <1>1, <1>2, <1>3, PTL DEF Spec

-----------------------------------------------------------------------------

\* No request changes the date of a name's first registration.
THEOREM RegistrationDatesAreKept == Spec => RegistrationDateKept
<1>1. ASSUME TypeOK, [Next]_vars, phase = "serving",
             NEW n \in Registered \cap Registered'
      PROVE  by_name'[n].registered = by_name[n].registered
  <2>1. ASSUME memory' = memory PROVE by_name'[n].registered = by_name[n].registered
    BY <2>1, SameMemory
  <2>2. ASSUME NEW m \in Names, NEW s \in Streams, NEW replace \in BOOLEAN,
               Register(m, s, replace)
        PROVE  by_name'[n].registered = by_name[n].registered
    BY <1>1, <2>2 DEF Register, Registered, TypeOK
  <2>3. ASSUME NEW m \in Names, Renew(m)
        PROVE  by_name'[n].registered = by_name[n].registered
    <3>1. /\ by_name' = [by_name EXCEPT ![m] = [by_name[m] EXCEPT !.renewed = now]]
          /\ by_name[m] \in Publication
      BY <1>1, <2>3 DEF Renew, TypeOK
    <3>2. [by_name[m] EXCEPT !.renewed = now].registered = by_name[m].registered
      BY <3>1 DEF Publication
    <3>3. QED
      BY <1>1, <3>1, <3>2 DEF TypeOK, Registered
  <2>4. ASSUME NEW m \in Names, Remove(m)
        PROVE  by_name'[n].registered = by_name[n].registered
    BY <1>1, <2>4 DEF Remove, Registered, TypeOK
  <2>5. CASE Crash
    BY <1>1, <2>5 DEF Crash, EmptyMemory, Registered
  <2>6. CASE Tick
    BY <2>1, <2>6 DEF Tick
  <2>7. CASE UNCHANGED vars
    BY <2>1, <2>7 DEF vars, memory
  <2>8. QED
    BY <1>1, <2>2, <2>3, <2>4, <2>5, <2>6, <2>7
    DEF Next, Open, LoadEntry, SkipDuplicate, LoadDone, Quarantine, StartFails, Refuse,
        RefuseUnknown, WriteTemp, WriteFails, Replace, ReplaceFails, EditFile
<1>2. TypeOK /\ [Next]_vars =>
        [phase = "serving" =>
          \A n \in Registered \cap Registered' :
              by_name'[n].registered = by_name[n].registered]_vars
  BY <1>1
<1>3. QED
  BY <1>2, TypeCorrect, PTL DEF Spec, RegistrationDateKept

-----------------------------------------------------------------------------
(* Every behaviour of the store is, seen from its clients, a behaviour of *)
(* the catalog, if no hand-edited file lists a name twice.                 *)

(* While a file is loaded: what was read is in it, and the triple of an     *)
(* entry that was read or skipped is taken.                                 *)
LoadCovers == phase = "loading" =>
    /\ Loaded \cup todo \subseteq disk.entries
    /\ \A p \in disk.entries \ todo : by_stream[p.stream] # Absent

LEMMA CoverInit == Init => LoadCovers
BY DEF Init, LoadCovers

LEMMA CoverStep ==
    ASSUME HoldInv, LoadCovers, [Next]_vars
    PROVE  LoadCovers'
<1>1. CASE Open
  BY <1>1, SameMemory, EmptyMemoryLoadsNothing
  DEF Open, files, LoadCovers, HoldInv, DownIsEmpty, Loaded
<1>2. ASSUME NEW p \in todo, LoadEntry(p) PROVE LoadCovers'
  <2>1. p \in Publication /\ p.name \in Names /\ p.stream \in Streams
    BY DEF HoldInv, TypeOK, Publication
  <2>2. /\ by_name' = [by_name EXCEPT ![p.name] = p]
        /\ by_stream' = [by_stream EXCEPT ![p.stream] = p.name]
        /\ todo' = todo \ {p} /\ disk' = disk /\ phase = "loading"
    BY <1>2 DEF LoadEntry, files
  <2>3. \A q \in disk.entries : q.stream \in Streams
    BY EntriesArePublications DEF HoldInv, TypeOK, Publication
  <2>4. \A q \in disk'.entries \ todo' : by_stream'[q.stream] # Absent
    BY <2>1, <2>2, <2>3, StoreConstants DEF LoadCovers, HoldInv, TypeOK
  <2>5. Loaded' \subseteq Loaded \cup {p}
    BY <2>1, <2>2 DEF Loaded, Registered, HoldInv, TypeOK
  <2>6. QED
    BY <2>2, <2>4, <2>5 DEF LoadCovers
<1>3. ASSUME NEW p \in todo, SkipDuplicate(p) PROVE LoadCovers'
  BY <1>3, SameMemory DEF SkipDuplicate, files, LoadCovers, Loaded
<1>4. CASE Tick
  BY <1>4, SameMemory DEF Tick, files, LoadCovers, Loaded
<1>5. CASE UNCHANGED vars
  BY <1>5, SameMemory DEF vars, memory, LoadCovers, Loaded
<1>6. QED
  BY <1>1, <1>2, <1>3, <1>4, <1>5
  DEF Next, LoadDone, Quarantine, StartFails, Register, Renew, Remove, Refuse,
      RefuseUnknown, WriteTemp, WriteFails, Replace, ReplaceFails, Crash, EditFile,
      LoadCovers

-----------------------------------------------------------------------------

Claims(f) == {<<p.name, p.stream>> : p \in f.entries}

LEMMA SameView ==
    ASSUME memory' = memory, Answering' = Answering
    PROVE  Phonebook' = Phonebook
BY SameMemory DEF Phonebook

LEMMA OpenPhonebook ==
    ASSUME HoldInv, Answering
    PROVE  /\ Phonebook \in [Names -> Streams \cup {Absent}]
           /\ \A n \in Names : by_name[n] # Absent =>
                 Phonebook[n] = by_name[n].stream /\ Phonebook[n] # Absent
           /\ \A n \in Names : by_name[n] = Absent => Phonebook[n] = Absent
BY StoreConstants DEF Phonebook, HoldInv, TypeOK, Publication

LEMMA PhonebookIsAssignment ==
    HoldInv /\ Answering => Phonebook \in Catalog!Assignments
<1> SUFFICES ASSUME HoldInv, Answering PROVE Phonebook \in Catalog!Assignments
  OBVIOUS
<1>1. \A m, n \in Names : m # n /\ Phonebook[m] = Phonebook[n] => Phonebook[n] = Absent
  BY OpenPhonebook DEF HoldInv, NameHoldsItsTriple, Registered
<1>2. QED
  BY <1>1, OpenPhonebook DEF Catalog!Assignments, Catalog!Injective

\* The claims of the phonebook are those of the publications in memory.
LEMMA ClaimsOfPhonebook ==
    HoldInv /\ Answering =>
        Catalog!ClaimsOf(Phonebook) = {<<p.name, p.stream>> : p \in Loaded}
<1> SUFFICES ASSUME HoldInv, Answering
             PROVE  Catalog!ClaimsOf(Phonebook) = {<<p.name, p.stream>> : p \in Loaded}
  OBVIOUS
<1>1. ASSUME NEW c \in Catalog!ClaimsOf(Phonebook)
      PROVE  \E p \in Loaded : c = <<p.name, p.stream>>
  <2>1. c \in Names \X Streams /\ Phonebook[c[1]] = c[2]
    BY DEF Catalog!ClaimsOf
  <2>2. c[1] \in Registered /\ by_name[c[1]].stream = c[2]
    BY <2>1, OpenPhonebook, StoreConstants DEF Registered
  <2>3. QED
    BY <2>1, <2>2 DEF Loaded, HoldInv, NamedByKey
<1>2. ASSUME NEW p \in Loaded
      PROVE  <<p.name, p.stream>> \in Catalog!ClaimsOf(Phonebook)
  <2>1. PICK n \in Registered : p = by_name[n]
    BY DEF Loaded
  <2>2. n \in Names /\ p.name = n /\ p \in Publication /\ Phonebook[n] = p.stream
    BY <2>1, OpenPhonebook DEF Registered, HoldInv, NamedByKey, TypeOK
  <2>3. QED
    BY <2>2 DEF Catalog!ClaimsOf, Publication
<1>3. QED
  BY <1>1, <1>2

LEMMA NextPhonebook ==
    (HoldInv /\ Answering =>
        /\ Phonebook \in Catalog!Assignments
        /\ Catalog!ClaimsOf(Phonebook) = {<<p.name, p.stream>> : p \in Loaded})'
BY PhonebookIsAssignment, ClaimsOfPhonebook, PTL

-----------------------------------------------------------------------------

LEMMA InitMaps == Init => Catalog!Init
BY DEF Init, Catalog!Init, Answering, Phonebook, NoFile

LEMMA StepMaps ==
    ASSUME HoldInv, HoldInv', LeadInv, LoadCovers, [Next]_vars
    PROVE  [Catalog!Next]_(Catalog!vars)
<1>1. ASSUME memory' = memory, Answering' = Answering, disk' = disk
      PROVE  UNCHANGED Catalog!vars
  BY <1>1, SameView DEF Catalog!vars
<1>2. ASSUME ~Answering, ~Answering', disk' = disk
      PROVE  UNCHANGED Catalog!vars
  <2>1. Answering' = Answering
    BY <1>2 DEF Answering
  <2>2. Phonebook' = Phonebook
    BY <1>2 DEF Phonebook
  <2>3. QED
    BY <1>2, <2>1, <2>2 DEF Catalog!vars
<1>3. CASE Open
  BY <1>3, <1>2 DEF Open, files, Answering
<1>4. ASSUME NEW p \in todo, LoadEntry(p) PROVE UNCHANGED Catalog!vars
  BY <1>4, <1>2 DEF LoadEntry, files, Answering
<1>5. ASSUME NEW p \in todo, SkipDuplicate(p) PROVE UNCHANGED Catalog!vars
  BY <1>5, <1>2 DEF SkipDuplicate, files, Answering
<1>6. CASE LoadDone
  <2>1. /\ ~Answering /\ Answering' /\ disk' = disk /\ memory' = memory
        /\ phase = "loading" /\ todo = {}
    BY <1>6 DEF LoadDone, files, Answering
  <2>2. Catalog!ClaimsOf(Phonebook') = {<<p.name, p.stream>> : p \in Loaded'}
    BY <2>1, NextPhonebook DEF Catalog!ClaimsOf
  <2>3. Loaded' = Loaded
    BY <2>1, SameMemory DEF Loaded
  <2>4. Loaded \subseteq disk.entries
    BY <2>1 DEF LoadCovers
  <2>5. \A p \in disk.entries : \E q \in Loaded : q.stream = p.stream
    <3> SUFFICES ASSUME NEW p \in disk.entries
                 PROVE  \E q \in Loaded : q.stream = p.stream
      OBVIOUS
    <3>1. p.stream \in Streams /\ by_stream[p.stream] # Absent
      BY <2>1, EntriesArePublications DEF LoadCovers, HoldInv, TypeOK, Publication
    <3>2. QED
      BY <3>1 DEF LeadInv, TripleLeadsToItsName, Loaded
  <2>6. Phonebook' \in Catalog!Assignments
    BY <2>1, NextPhonebook DEF Catalog!Assignments, Catalog!Injective
  <2>7. Catalog!Recover(Phonebook')
    <3> DEFINE kept == {<<p.name, p.stream>> : p \in Loaded}
               saved == {<<p.name, p.stream>> : p \in disk.entries}
    <3>1. Catalog!ClaimsOf(Phonebook') = kept
      BY <2>2, <2>3
    <3>2. kept \subseteq saved
      BY <2>4
    <3>3. \A c \in saved : \E k \in kept : k[2] = c[2]
      <4>1. ASSUME NEW p \in disk.entries PROVE \E k \in kept : k[2] = p.stream
        <5>1. PICK q \in Loaded : q.stream = p.stream
          BY <2>5
        <5>2. <<q.name, q.stream>> \in kept
          BY <5>1
        <5>3. QED
          BY <5>1, <5>2
      <4>2. QED
        BY <4>1
    <3>4. saved' = saved /\ Answering' = TRUE
      BY <2>1 DEF Answering
    <3> HIDE DEF kept
    <3>5. QED
      BY <2>1, <3>1, <3>2, <3>3, <3>4 DEF Catalog!Recover
  <2>8. QED
    BY <2>6, <2>7 DEF Catalog!Next
<1>7. CASE Quarantine
  <2>1. Catalog!StartEmpty
    BY <1>7 DEF Quarantine, EmptyMemory, NoFile, Catalog!StartEmpty, Answering, Phonebook
  <2>2. QED
    BY <2>1 DEF Catalog!Next
<1>8. CASE StartFails
  BY <1>8, <1>2 DEF StartFails, files, Answering
<1>9. ASSUME NEW n \in Names, NEW s \in Streams, NEW replace \in BOOLEAN,
             Register(n, s, replace)
      PROVE  Catalog!Assign(n, s)
  <2>1. /\ Answering /\ Answering' /\ disk' = disk /\ by_stream[s] \in {Absent, n}
        /\ \A m \in Names : by_name'[m] =
              IF m = n
              THEN [name |-> n, stream |-> s,
                    registered |-> IF by_name[n] = Absent THEN now
                                   ELSE by_name[n].registered,
                    renewed |-> now]
              ELSE by_name[m]
    BY <1>9 DEF Register, files, Answering, HoldInv, TypeOK
  <2>2. by_name'[n] # Absent /\ by_name'[n].stream = s
    <3>1. by_name'[n].stream = s /\ by_name'[n].name = n
      BY <2>1
    <3>2. by_name'[n] \in Publication
      BY <2>1 DEF HoldInv, TypeOK, Publication
    <3>3. QED
      BY <3>1, <3>2, StoreConstants
  <2>3. \A m \in Names \ {n} : Phonebook[m] # s
    BY <2>1, OpenPhonebook, StoreConstants DEF HoldInv, NameHoldsItsTriple, Registered
  <2>4. Phonebook' = [Phonebook EXCEPT ![n] = s]
    BY <2>1, <2>2 DEF Phonebook
  <2>5. QED
    BY <2>1, <2>3, <2>4 DEF Catalog!Assign
<1>10. ASSUME NEW n \in Names, Renew(n) PROVE UNCHANGED Catalog!vars
  <2>1. /\ Answering /\ Answering' /\ disk' = disk /\ by_name[n] # Absent
        /\ by_name' = [by_name EXCEPT ![n] = [by_name[n] EXCEPT !.renewed = now]]
    BY <1>10 DEF Renew, files, Answering
  <2>2. by_name[n] \in Publication
    BY <2>1 DEF HoldInv, TypeOK
  <2>3. /\ [by_name[n] EXCEPT !.renewed = now].stream = by_name[n].stream
        /\ [by_name[n] EXCEPT !.renewed = now] \in Publication
    BY <2>2 DEF Publication, HoldInv, TypeOK
  <2>4. Phonebook' = Phonebook
    BY <2>1, <2>3, StoreConstants DEF Phonebook, HoldInv, TypeOK
  <2>5. QED
    BY <2>1, <2>4 DEF Catalog!vars
<1>11. ASSUME NEW n \in Names, Remove(n) PROVE Catalog!Release(n)
  <2>1. /\ Answering /\ Answering' /\ disk' = disk
        /\ by_name' = [by_name EXCEPT ![n] = Absent]
    BY <1>11 DEF Remove, files, Answering
  <2>2. Phonebook' = [Phonebook EXCEPT ![n] = Absent]
    BY <2>1 DEF Phonebook, HoldInv, TypeOK
  <2>3. QED
    BY <2>1, <2>2 DEF Catalog!Release
<1>12. CASE WriteTemp
  BY <1>12, <1>1 DEF WriteTemp, Answering
<1>13. CASE WriteFails
  BY <1>13, <1>1 DEF WriteFails, Answering
<1>14. CASE Replace
  <2>1. Answering /\ Answering' /\ memory' = memory /\ disk'.entries = Loaded
    BY <1>14 DEF Replace, Answering, HoldInv, TempIsPayload, Payload, Loaded
  <2>2. Catalog!Save
    BY <2>1, SameView, ClaimsOfPhonebook DEF Catalog!Save
  <2>3. QED
    BY <2>2 DEF Catalog!Next
<1>15. CASE ReplaceFails
  BY <1>15, <1>1 DEF ReplaceFails, files, Answering
<1>16. CASE Crash
  <2>1. Catalog!Stop
    BY <1>16 DEF Crash, Catalog!Stop, Answering, Phonebook
  <2>2. QED
    BY <2>1 DEF Catalog!Next
<1>17. CASE Tick
  BY <1>17, <1>1 DEF Tick, files, Answering
<1>18. ASSUME NEW f \in EditedFiles, EditFile(f) PROVE [Catalog!Next]_(Catalog!vars)
  <2>1. ~Answering /\ ~Answering' /\ disk' = f /\ f \in File
    BY <1>18, StoreConstants DEF EditFile, Answering
  <2>2. Claims(f) \in SUBSET (Names \X Streams)
    BY <2>1, EntriesArePublications DEF Claims, Publication
  <2>3. Catalog!Replaced(Claims(f))
    BY <2>1, <1>18, SameMemory DEF Catalog!Replaced, Claims, EditFile, Phonebook, Answering
  <2>4. QED
    BY <2>2, <2>3 DEF Catalog!Next
<1>19. CASE UNCHANGED vars
  BY <1>19, <1>1 DEF vars, memory, Answering
<1>20. QED
  BY <1>3, <1>4, <1>5, <1>6, <1>7, <1>8, <1>9, <1>10, <1>11, <1>12, <1>13, <1>14,
     <1>15, <1>16, <1>17, <1>18, <1>19
  DEF Next, Refuse, RefuseUnknown, Catalog!Next

\* The store, through crashes, failed saves and hand-edited files that list no
\* name twice, implements the catalog.
THEOREM StoreImplements == NamesListedOnce => (Spec => ImplementsCatalog)
<1> SUFFICES ASSUME NamesListedOnce PROVE Spec => Catalog!Spec
  BY DEF ImplementsCatalog
<1>1. Init => HoldInv /\ LeadInv /\ LoadCovers /\ Catalog!Init
  BY HoldInit, LeadInit, CoverInit, InitMaps
<1>2. HoldInv /\ LeadInv /\ LoadCovers /\ [Next]_vars => (HoldInv /\ LeadInv /\ LoadCovers)'
  BY HoldStep, LeadStep, CoverStep
<1>3. HoldInv /\ HoldInv' /\ LeadInv /\ LoadCovers /\ [Next]_vars
        => [Catalog!Next]_(Catalog!vars)
  BY StepMaps
<1>4. QED
  BY <1>1, <1>2, <1>3, PTL DEF Spec, Catalog!Spec

-----------------------------------------------------------------------------
(* The follower. *)

\* No two names of a store hold the same triple.
NoTripleTwice(store) ==
    \A m, n \in Names : m # n /\ store[m] # Absent /\ store[n] # Absent =>
        store[m].stream # store[n].stream

Stores == [Names -> Copy \cup {Absent}]

\* Nothing is left to merge between passes; the store and the file it may be restarted
\* from both give each triple to one name.
Merged ==
    /\ FollowerTypeOK
    /\ pc # "merging" => rest = {}
    /\ NoTripleTwice(follower)
    /\ NoTripleTwice(file)

-----------------------------------------------------------------------------
(* Store.register *)

LEMMA StoredTyped ==
    ASSUME NEW store \in Stores, NEW n \in Names, NEW s \in Streams, NEW time \in Dates,
           NEW written \in Dates
    PROVE  Stored(store, n, s, time, written) \in Stores
<1>1. [stream |-> s, registered |-> IF store[n] = Absent THEN time ELSE store[n].registered,
       written |-> written] \in Copy
  BY DEF Stores, Copy
<1>2. QED
  BY <1>1 DEF Stored, Stores

\* A triple no other name holds can be registered.
LEMMA StoredOnce ==
    ASSUME NEW store \in Stores, NoTripleTwice(store), NEW n \in Names, NEW s \in Streams,
           NEW time, NEW written, ~Refused(store, n, s)
    PROVE  NoTripleTwice(Stored(store, n, s, time, written))
<1> DEFINE after == Stored(store, n, s, time, written)
<1>1. after[n].stream = s /\ \A k \in Names \ {n} : after[k] = store[k]
  BY DEF Stored, Stores
<1>2. \A k \in Names \ {n} : store[k] # Absent => store[k].stream # s
  BY DEF Refused, Holders
<1> HIDE DEF after
<1>3. NoTripleTwice(after)
  BY <1>1, <1>2 DEF NoTripleTwice
<1>4. QED
  BY <1>3 DEF after

-----------------------------------------------------------------------------

LEMMA MergedInit == FollowerInit => Merged
BY MirrorConstants DEF FollowerInit, Merged, FollowerTypeOK, NoTripleTwice

LEMMA Clocks ==
    ASSUME FollowerTypeOK
    PROVE  /\ clock + Skew \in Dates
           /\ clock < MaxRequests => /\ clock + 1 \in 0..MaxRequests /\ clock + 1 \in Dates
                                     /\ clock + 1 + Skew \in Dates
BY MirrorConstants DEF FollowerTypeOK, Dates

LEMMA PutMerged ==
    ASSUME Merged, NEW n \in Names, NEW s \in Streams, NEW replace \in BOOLEAN,
           PutPrimary(n, s, replace) \/ PutFollower(n, s, replace)
    PROVE  Merged'
<1> USE DEF Merged
<1>1. primary \in Stores /\ follower \in Stores /\ file \in Stores
  BY DEF FollowerTypeOK, Stores
<1>2. CASE PutPrimary(n, s, replace)
  <2>1. primary' \in Stores /\ clock' \in 0..MaxRequests
    BY <1>1, <1>2, Clocks, StoredTyped DEF PutPrimary
  <2>2. QED
    BY <1>2, <2>1 DEF PutPrimary, loop, FollowerTypeOK, Stores, NoTripleTwice
<1>3. CASE PutFollower(n, s, replace)
  <2>1. follower' \in Stores /\ clock' \in 0..MaxRequests
    BY <1>1, <1>3, Clocks, StoredTyped DEF PutFollower
  <2>2. NoTripleTwice(follower)'
    BY <1>1, <1>3, StoredOnce DEF PutFollower, NoTripleTwice
  <2>3. file' \in Stores /\ NoTripleTwice(file)'
    BY <1>1, <1>3, <2>1, <2>2 DEF PutFollower, NoTripleTwice
  <2>4. QED
    BY <1>3, <2>1, <2>2, <2>3 DEF PutFollower, loop, FollowerTypeOK, Stores
<1>4. QED
  BY <1>2, <1>3

LEMMA DeleteMerged ==
    ASSUME Merged, NEW n \in Names, DeletePrimary(n) \/ DeleteFollower(n)
    PROVE  Merged'
<1> USE DEF Merged
<1>1. CASE DeletePrimary(n)
  BY <1>1 DEF DeletePrimary, loop, FollowerTypeOK, NoTripleTwice
<1>2. CASE DeleteFollower(n)
  <2>1. follower' = [follower EXCEPT ![n] = Absent] /\ file' \in {follower', file}
    BY <1>2 DEF DeleteFollower
  <2>2. follower' \in [Names -> Copy \cup {Absent}] /\ file' \in [Names -> Copy \cup {Absent}]
    BY <2>1 DEF FollowerTypeOK
  <2>3. \A k \in Names : follower'[k] # Absent => follower'[k] = follower[k]
    BY <2>1 DEF FollowerTypeOK
  <2>4. NoTripleTwice(follower)'
    BY <2>3 DEF NoTripleTwice
  <2>5. NoTripleTwice(file)'
    BY <2>1, <2>4 DEF NoTripleTwice
  <2>6. QED
    BY <1>2, <2>2, <2>4, <2>5 DEF DeleteFollower, loop, FollowerTypeOK
<1>3. QED
  BY <1>1, <1>2

LEMMA LoopMerged ==
    ASSUME Merged, Ask \/ Answer \/ Fail \/ Receive \/ EndPass \/ Restart
    PROVE  Merged'
<1> USE DEF Merged
<1>1. CASE Ask
  BY <1>1 DEF Ask, FollowerTypeOK, NoTripleTwice
<1>2. CASE Answer
  <2>1. listed' \subseteq Entry
    BY <1>2 DEF Answer, FollowerTypeOK, Entry
  <2>2. QED
    BY <1>2, <2>1 DEF Answer, FollowerTypeOK, NoTripleTwice
<1>3. CASE Fail
  BY <1>3 DEF Fail, FollowerTypeOK, NoTripleTwice
<1>4. CASE Receive
  BY <1>4 DEF Receive, FollowerTypeOK, NoTripleTwice
<1>5. CASE EndPass
  BY <1>5 DEF EndPass, FollowerTypeOK, NoTripleTwice
<1>6. CASE Restart
  BY <1>6 DEF Restart, FollowerTypeOK, NoTripleTwice
<1>7. QED
  BY <1>1, <1>2, <1>3, <1>4, <1>5, <1>6

LEMMA EntriesMerged ==
    ASSUME Merged, NEW e \in rest, Skip(e) \/ Collide(e) \/ AdoptAndGoOn(e) \/ AdoptAndGiveUp(e)
    PROVE  Merged'
<1> USE DEF Merged
<1>1. CASE Skip(e) \/ Collide(e)
  BY <1>1 DEF Skip, Collide, FollowerTypeOK, NoTripleTwice
<1>2. ASSUME Adopt(e) PROVE follower' \in Stores /\ NoTripleTwice(follower)'
  <2>1. e.name \in Names /\ e.copy \in Copy
    BY DEF FollowerTypeOK, Entry
  <2>2. e.copy.stream \in Streams /\ e.copy.written \in Dates /\ follower \in Stores
    BY <2>1 DEF Copy, FollowerTypeOK, Stores
  <2>3. follower' \in Stores
    BY <1>2, <2>1, <2>2, Clocks, StoredTyped DEF Adopt
  <2>4. NoTripleTwice(follower)'
    BY <1>2, <2>1, <2>2, StoredOnce DEF Adopt, NoTripleTwice
  <2>5. QED
    BY <2>3, <2>4
<1>3. CASE AdoptAndGoOn(e)
  <2>1. follower' \in Stores /\ NoTripleTwice(follower)' /\ pc = "merging"
    BY <1>2, <1>3 DEF AdoptAndGoOn, Adopt
  <2>2. QED
    BY <1>3, <2>1 DEF AdoptAndGoOn, FollowerTypeOK, Stores, NoTripleTwice
<1>4. CASE AdoptAndGiveUp(e)
  <2>1. follower' \in Stores /\ NoTripleTwice(follower)'
    BY <1>2, <1>4 DEF AdoptAndGiveUp
  <2>2. QED
    BY <1>4, <2>1 DEF AdoptAndGiveUp, FollowerTypeOK, Stores, NoTripleTwice
<1>5. QED
  BY <1>1, <1>3, <1>4

LEMMA MergedNext == Merged /\ [FollowerNext]_followerVars => Merged'
<1> SUFFICES ASSUME Merged, [FollowerNext]_followerVars PROVE Merged'
  OBVIOUS
<1>1. CASE UNCHANGED followerVars
  BY <1>1 DEF followerVars, loop, Merged, FollowerTypeOK, NoTripleTwice
<1>2. CASE \E n \in Names, s \in Streams, replace \in BOOLEAN :
              PutPrimary(n, s, replace) \/ PutFollower(n, s, replace)
  BY <1>2, PutMerged
<1>3. CASE \E n \in Names : DeletePrimary(n) \/ DeleteFollower(n)
  BY <1>3, DeleteMerged
<1>4. CASE Ask \/ Answer \/ Fail \/ Receive \/ EndPass \/ Restart
  BY <1>4, LoopMerged
<1>5. CASE (\E n \in Names : Merge(n)) \/ (\E e \in rest : AdoptAndGiveUp(e))
  BY <1>5, EntriesMerged DEF Merge
<1>6. QED
  BY <1>1, <1>2, <1>3, <1>4, <1>5 DEF FollowerNext

LEMMA MergedAlways == FollowerSpec => []Merged
BY MergedInit, MergedNext, PTL DEF FollowerSpec

\* The stores, the file and the lists are what they should be.
THEOREM FollowerTypeCorrect == FollowerSpec => []FollowerTypeOK
<1>1. Merged => FollowerTypeOK
  BY DEF Merged
<1>2. QED
  BY <1>1, MergedAlways, PTL

\* A follower gives no triple to two names, whatever its clients register, whatever list of
\* the primary it merges, and though it restarts from a file that missed the last change
\* (service.py:129-133, store.py:204).
THEOREM TriplesStayUnique == FollowerSpec => []UniqueTriples
<1>1. Merged => UniqueTriples
  BY DEF Merged, NoTripleTwice, UniqueTriples
<1>2. QED
  BY <1>1, MergedAlways, PTL


=============================================================================
