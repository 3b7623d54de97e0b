----------------------------- MODULE LookupProofs -----------------------------
(***************************************************************************)
(* What holds of lookups for any clients, registries and cache files.       *)
(***************************************************************************)
EXTENDS Lookup, TLAPS

NameOf(c) == Clients[c].name
NetworkOf(c) == Clients[c].network

\* The types, with those of what no program stores.
Typed == TypeOK /\ served \in [Who -> SUBSET Registries]

-----------------------------------------------------------------------------

LEMMA ClientTypes ==
    ASSUME NEW c \in Who
    PROVE  /\ Clients[c].kind \in Kinds /\ NameOf(c) \in Names
           /\ NetworkOf(c) \in Networks \cup {None} /\ Clients[c].address \in Addresses
           /\ FileOf(NameOf(c)) \in Range(CacheName)
BY LookupConstants DEF Client, NameOf, NetworkOf, FileOf, Range

LEMMA Asked ==
    ASSUME TypeOK, NEW c \in Who
    PROVE  /\ at[c] \in Nat \ {0} /\ Len(Order) \in Nat \ {0}
           /\ Order[at[c]] \in Registries
BY LookupConstants DEF TypeOK, Registries, Range

\* One client goes on, the others stay where they are.
LEMMA OneBecomes ==
    ASSUME TypeOK, NEW c \in Who, NEW state, Becomes(c, state)
    PROVE  /\ pc'[c] = state /\ \A d \in Who \ {c} : pc'[d] = pc[d]
           /\ state \in States => pc' \in [Who -> States]
BY DEF TypeOK, Becomes

LEMMA NextRegistry ==
    ASSUME TypeOK, NEW c \in Who,
           \/ at[c] < Len(Order) /\ at' = [at EXCEPT ![c] = @ + 1]
           \/ at' = at
    PROVE  at' \in [Who -> 1..Len(Order)]
<1>1. CASE at[c] < Len(Order) /\ at' = [at EXCEPT ![c] = @ + 1]
  <2>1. at[c] + 1 \in 1..Len(Order)
    BY <1>1, Asked
  <2>2. QED
    BY <1>1, <2>1 DEF TypeOK
<1>2. CASE at' = at
  BY <1>2 DEF TypeOK
<1>3. QED
  BY <1>1, <1>2

LEMMA EntryTyped ==
    ASSUME TypeOK, NEW r \in Registries, NEW n \in Names, NEW e \in Entry \cup {None},
           entries' = [entries EXCEPT ![r][n] = e]
    PROVE  entries' \in [Registries -> [Names -> Entry \cup {None}]]
BY DEF TypeOK

LEMMA TypedInit == Init => Typed
<1> SUFFICES ASSUME Init PROVE Typed
  OBVIOUS
<1>1. pc \in [Who -> States]
  BY DEF Init, States
<1>2. at \in [Who -> 1..Len(Order)]
  BY LookupConstants DEF Init
<1>3. entries \in [Registries -> [Names -> Entry \cup {None}]]
  BY LookupConstants DEF Init
<1>4. QED
  BY <1>1, <1>2, <1>3 DEF Init, Typed, TypeOK

LEMMA AddressTyped ==
    ASSUME NEW entry \in Entry, NEW network \in Networks \cup {None}
    PROVE  AddressFor(entry, network) \in Addresses
BY DEF AddressFor, Entry

LEMMA AskTypes ==
    ASSUME Typed, NEW c \in Who, Lookup(c) \/ Answered(c) \/ NotServed(c) \/ Raised(c) \/ Again(c)
    PROVE  Typed'
<1> USE DEF Typed
<1>1. CASE Lookup(c) \/ Again(c)
  <2>1. \E name : served' = [served EXCEPT ![c] = {r \in Registries : Serves(r, name)}]
    BY <1>1 DEF Lookup, Again
  <2>2. at' = [at EXCEPT ![c] = 1] /\ Becomes(c, "ask")
    BY <1>1 DEF Lookup, Again
  <2>3. pc' \in [Who -> States]
    BY <2>2, OneBecomes DEF States
  <2>4. at' \in [Who -> 1..Len(Order)]
    BY <2>2, LookupConstants DEF TypeOK
  <2>5. QED
    BY <1>1, <2>1, <2>3, <2>4 DEF Lookup, Again, TypeOK
<1>2. CASE Answered(c)
  <2>1. entries[Order[at[c]]][NameOf(c)] \in Entry
    BY <1>2, Asked, ClientTypes DEF Answered, Serves, TypeOK, NameOf
  <2>2. [name |-> NameOf(c),
         address |-> AddressFor(entries[Order[at[c]]][NameOf(c)], NetworkOf(c))] \in Coordinates
    BY <2>1, AddressTyped, ClientTypes DEF Coordinates
  <2>3. coords' \in [Who -> Coordinates \cup {None}]
    BY <1>2, <2>2 DEF Answered, NameOf, NetworkOf, TypeOK
  <2>4. pc' \in [Who -> States]
    BY <1>2, OneBecomes DEF Answered, States
  <2>5. QED
    BY <1>2, <2>3, <2>4 DEF Answered, TypeOK
<1>3. CASE NotServed(c)
  <2>1. pc' \in [Who -> States]
    BY <1>3, OneBecomes DEF NotServed, States, TypeOK
  <2>2. at' \in [Who -> 1..Len(Order)]
    BY <1>3, NextRegistry DEF NotServed
  <2>3. QED
    BY <1>3, <2>1, <2>2 DEF NotServed, TypeOK
<1>4. CASE Raised(c)
  <2>1. pc' \in [Who -> States]
    BY <1>4, OneBecomes DEF Raised, States
  <2>2. QED
    BY <1>4, <2>1 DEF Raised, TypeOK
<1>5. QED
  BY <1>1, <1>2, <1>3, <1>4

LEMMA CacheTypes ==
    ASSUME Typed, NEW c \in Who,
           \/ OpenFile(c) \/ WriteFile(c) \/ CacheUnwritable(c) \/ ReadCache(c) \/ NotCached(c)
    PROVE  Typed'
<1> USE DEF Typed
<1>1. pc' \in [Who -> States]
  BY OneBecomes DEF OpenFile, WriteFile, CacheUnwritable, ReadCache, NotCached, States
<1>2. FileOf(NameOf(c)) \in Range(CacheName)
  BY ClientTypes
<1>3. CASE OpenFile(c)
  BY <1>1, <1>3 DEF OpenFile, TypeOK
<1>4. CASE WriteFile(c)
  BY <1>1, <1>4 DEF WriteFile, TypeOK
<1>5. CASE CacheUnwritable(c)
  BY <1>1, <1>5 DEF CacheUnwritable, TypeOK
<1>6. CASE ReadCache(c)
  <2>1. files[FileOf(NameOf(c))] \in Coordinates \cup {None, Empty}
    BY <1>2 DEF TypeOK
  <2>2. coords' \in [Who -> Coordinates \cup {None}]
    BY <1>6, <2>1 DEF ReadCache, NameOf, TypeOK
  <2>3. QED
    BY <1>1, <1>6, <2>2 DEF ReadCache, TypeOK
<1>7. CASE NotCached(c)
  BY <1>1, <1>7 DEF NotCached, TypeOK
<1>8. QED
  BY <1>3, <1>4, <1>5, <1>6, <1>7

LEMMA PublishTypes ==
    ASSUME Typed, NEW c \in Who, Publish(c) \/ Put(c)
    PROVE  Typed'
<1> USE DEF Typed
<1>1. CASE Publish(c)
  <2>1. pc' \in [Who -> States]
    BY <1>1, OneBecomes DEF Publish, States
  <2>2. at' \in [Who -> 1..Len(Order)]
    BY <1>1, LookupConstants DEF Publish, TypeOK
  <2>3. QED
    BY <1>1, <2>1, <2>2 DEF Publish, TypeOK
<1>2. CASE Put(c)
  <2>1. [address |-> Clients[c].address, endpoints |-> [n \in Networks |-> None]] \in Entry
    BY ClientTypes DEF Entry
  <2>2. entries' \in [Registries -> [Names -> Entry \cup {None}]]
    <3>1. Order[at[c]] \in Registries /\ Clients[c].name \in Names
      BY Asked, ClientTypes DEF NameOf
    <3>2. UNCHANGED entries => entries' \in [Registries -> [Names -> Entry \cup {None}]]
      BY DEF TypeOK
    <3>3. QED
      BY <1>2, <2>1, <3>1, <3>2, EntryTyped DEF Put
  <2>3. pc' \in [Who -> States]
    BY <1>2, OneBecomes DEF Put, States, TypeOK
  <2>4. at' \in [Who -> 1..Len(Order)]
    BY <1>2, NextRegistry DEF Put
  <2>5. QED
    BY <1>2, <2>2, <2>3, <2>4 DEF Put, TypeOK
<1>3. QED
  BY <1>1, <1>2

LEMMA ChangeTypes == Typed /\ Change => Typed'
<1> SUFFICES ASSUME Typed, Change PROVE Typed'
  OBVIOUS
<1> USE DEF Typed
<1>1. health' \in [Registries -> {"up", "down", "ill"}]
  BY DEF Change, TypeOK
<1>2. entries' \in [Registries -> [Names -> Entry \cup {None}]]
  <2>1. UNCHANGED entries => entries' \in [Registries -> [Names -> Entry \cup {None}]]
    BY DEF TypeOK
  <2>2. QED
    BY <2>1, EntryTyped, LookupConstants DEF Change
<1>3. served' \in [Who -> SUBSET Registries]
  BY DEF Change, StillServed
<1>4. QED
  BY <1>1, <1>2, <1>3 DEF Change, TypeOK

LEMMA TypedNext == Typed /\ [Next]_vars => Typed'
<1>1. Typed /\ UNCHANGED vars => Typed'
  BY DEF vars, Typed, TypeOK
<1>2. QED
  BY <1>1, AskTypes, CacheTypes, PublishTypes, ChangeTypes DEF Next, Steps

LEMMA TypedAlways == Spec => []Typed
BY TypedInit, TypedNext, PTL DEF Spec

\* What registries hold, clients work with and cache files contain is of its kind.
THEOREM TypeCorrect == Spec => []TypeOK
<1>1. Typed => TypeOK
  BY DEF Typed
<1>2. QED
  BY <1>1, TypedAlways, PTL

-----------------------------------------------------------------------------
(* A registry that could serve is not missed. *)

Missing == {"cache", "from cache", "sleeping", "failed"}

\* The registries a lookup has passed are not among those that could have served it all
\* along, and those could still.
Reached ==
    \A c \in Who :
        /\ pc[c] = "ask" =>
              /\ \A r \in served[c] : Serves(r, NameOf(c))
              /\ \A i \in 1..(at[c] - 1) : Order[i] \notin served[c]
        /\ pc[c] \in Missing => served[c] = {}

LEMMA ReachedInit == Init => Reached
BY DEF Init, Reached, Missing

\* The steps of a client that is asking.
LEMMA AskReached ==
    ASSUME Typed, Reached, NEW c \in Who,
           Lookup(c) \/ Answered(c) \/ NotServed(c) \/ Raised(c) \/ Again(c)
    PROVE  Reached'
<1>1. UNCHANGED <<entries, health>>
  BY DEF Lookup, Answered, NotServed, Raised, Again
<1>2. ASSUME NEW d \in Who, d # c
      PROVE  pc'[d] = pc[d] /\ at'[d] = at[d] /\ served'[d] = served[d]
  BY <1>2 DEF Lookup, Answered, NotServed, Raised, Again, Becomes, Typed, TypeOK
<1>3. /\ pc'[c] = "ask" =>
            /\ \A r \in served'[c] : Serves(r, NameOf(c))
            /\ \A i \in 1..(at'[c] - 1) : Order[i] \notin served'[c]
      /\ pc'[c] \in Missing => served'[c] = {}
  <2>1. CASE Lookup(c) \/ Again(c)
    <3>1. pc'[c] = "ask" /\ at'[c] = 1
          /\ served'[c] = {r \in Registries : Serves(r, Clients[c].name)}
      BY <2>1 DEF Lookup, Again, Becomes, Typed, TypeOK
    <3>2. QED
      BY <3>1 DEF NameOf, Missing
  <2>2. CASE Answered(c) \/ Raised(c)
    BY <2>2 DEF Answered, Raised, Becomes, Missing, Typed, TypeOK
  <2>3. CASE NotServed(c)
    <3>1. /\ \A r \in served[c] : Serves(r, NameOf(c))
          /\ \A i \in 1..(at[c] - 1) : Order[i] \notin served[c]
          /\ ~Serves(Order[at[c]], NameOf(c)) /\ served' = served
      BY <2>3 DEF NotServed, Reached, NameOf
    <3>2. \A i \in 1..at[c] : Order[i] \notin served[c]
      BY <3>1, Asked DEF Typed
    <3>3. CASE at[c] < Len(Order)
      <4>1. pc'[c] = "ask" /\ at'[c] = at[c] + 1
        BY <2>3, <3>3 DEF NotServed, Typed, TypeOK
      <4>2. QED
        BY <3>1, <3>2, <4>1, Asked DEF Missing, Typed
    <3>4. CASE at[c] = Len(Order)
      <4>1. served[c] = {}
        <5>1. \A r \in Registries : \E i \in 1..Len(Order) : Order[i] = r
          BY LookupConstants DEF Registries, Range
        <5>2. QED
          BY <3>2, <3>4, <5>1 DEF Typed
      <4>2. pc'[c] # "ask"
        BY <2>3, <3>4, Asked DEF NotServed, Becomes, Typed, TypeOK
      <4>3. QED
        BY <3>1, <4>1, <4>2
    <3>5. at[c] \in 1..Len(Order)
      BY DEF Typed, TypeOK
    <3>6. QED
      BY <3>3, <3>4, <3>5, Asked DEF Typed
  <2>4. QED
    BY <2>1, <2>2, <2>3
<1>4. QED
  BY <1>1, <1>2, <1>3 DEF Reached, Serves, NameOf

\* The steps of the cache, and of publishers, leave no lookup asking.
LEMMA CacheReached ==
    ASSUME Typed, Reached, NEW c \in Who,
           \/ OpenFile(c) \/ WriteFile(c) \/ CacheUnwritable(c) \/ ReadCache(c) \/ NotCached(c)
    PROVE  Reached'
<1>1. UNCHANGED <<entries, health, at, served>>
  BY DEF OpenFile, WriteFile, CacheUnwritable, ReadCache, NotCached
<1>2. \A d \in Who : d # c => pc'[d] = pc[d]
  BY OneBecomes DEF OpenFile, WriteFile, CacheUnwritable, ReadCache, NotCached, Typed
<1>3. pc'[c] # "ask" /\ (pc'[c] \in Missing => pc[c] \in Missing)
  BY DEF OpenFile, WriteFile, CacheUnwritable, ReadCache, NotCached, Becomes, Missing, Typed, TypeOK
<1>4. QED
  BY <1>1, <1>2, <1>3 DEF Reached, Serves, NameOf

LEMMA PublishReached ==
    ASSUME Typed, Reached, NEW c \in Who, Publish(c) \/ Put(c)
    PROVE  Reached'
<1>1. UNCHANGED <<health, served>>
  BY DEF Publish, Put
<1>2. ASSUME NEW d \in Who, d # c PROVE pc'[d] = pc[d] /\ at'[d] = at[d]
  BY <1>2, OneBecomes DEF Publish, Put, Typed, TypeOK
<1>3. pc'[c] \notin {"ask"} \cup Missing
  BY DEF Publish, Put, Becomes, Missing, Typed, TypeOK
<1>4. ASSUME NEW r \in Registries, NEW n \in Names, Serves(r, n) PROVE Serves(r, n)'
  <2>1. CASE UNCHANGED entries
    BY <1>1, <1>4, <2>1 DEF Serves
  <2>2. CASE ~UNCHANGED entries
    <3>1. PICK e \in Entry : entries' = [entries EXCEPT ![Order[at[c]]][Clients[c].name] = e]
      <4>1. [address |-> Clients[c].address, endpoints |-> [k \in Networks |-> None]] \in Entry
        BY ClientTypes DEF Entry
      <4>2. QED
        BY <2>2, <4>1 DEF Publish, Put
    <3>2. e # None /\ Order[at[c]] \in Registries /\ Clients[c].name \in Names
      BY LookupConstants, Asked, ClientTypes DEF Typed, NameOf
    <3>3. QED
      BY <1>1, <1>4, <3>1, <3>2 DEF Serves, Typed, TypeOK
  <2>3. QED
    BY <2>1, <2>2
<1>5. ASSUME NEW d \in Who
      PROVE  \A r \in served[d] : Serves(r, NameOf(d)) => Serves(r, NameOf(d))'
  <2>1. NameOf(d) \in Names /\ served[d] \subseteq Registries
    BY ClientTypes DEF Typed
  <2>2. QED
    BY <1>4, <2>1 DEF Serves, NameOf
<1>6. QED
  BY <1>1, <1>2, <1>3, <1>5 DEF Reached, Serves, NameOf

LEMMA ChangeReached ==
    ASSUME Typed, Reached, Change
    PROVE  Reached'
<1>1. UNCHANGED <<pc, at>> /\ StillServed(entries')
  BY DEF Change
<1>2. ASSUME NEW c \in Who
      PROVE  IF pc[c] = "ask"
             THEN /\ served'[c] \subseteq served[c]
                  /\ \A r \in served'[c] : health'[r] = "up" /\ entries'[r][NameOf(c)] # None
             ELSE served'[c] = served[c]
  BY <1>1 DEF StillServed, NameOf
<1>3. QED
  BY <1>1, <1>2 DEF Reached, Serves, NameOf, Missing

LEMMA ReachedNext == Typed /\ Reached /\ [Next]_vars => Reached'
<1>1. Reached /\ UNCHANGED vars => Reached'
  BY DEF vars, Reached, Serves, NameOf
<1>2. QED
  BY <1>1, AskReached, CacheReached, PublishReached, ChangeReached DEF Next, Steps

\* A lookup neither fails nor falls back on the cache while one registry could have served
\* it at every moment since it began (client.py:155-167).
THEOREM NoServingRegistryIsMissed == Spec => []FailoverReaches
<1>1. Reached => FailoverReaches
  BY DEF Reached, Missing, FailoverReaches
<1>2. Spec => []Reached
  BY ReachedInit, ReachedNext, TypedAlways, PTL DEF Spec
<1>3. QED
  BY <1>1, <1>2, PTL

-----------------------------------------------------------------------------
(* What a client works with. *)

\* Given and SameFile, of any states and answers.
Held(answers, c, found) ==
    /\ found.name = NameOf(c)
    /\ <<NameOf(c), NetworkOf(c), found.address>> \in answers

Shared(states, answers, f, found) ==
    \E d \in Who : /\ states[d] # "absent" /\ Caches(d) /\ FileOf(NameOf(d)) = f
                   /\ Held(answers, d, found)

\* An answer was given to the client that holds it, and what a cache file holds, or was
\* read from it, to one of the clients at work that share the file.
Answers ==
    /\ \A c \in Who : pc[c] \in {"answered", "write", "resolved"} => Held(given, c, coords[c])
    /\ \A c \in Who : pc[c] \in {"answered", "write"} => Caches(c)
    /\ \A c \in Who : pc[c] = "from cache" =>
          coords[c] # None /\ Shared(pc, given, FileOf(NameOf(c)), coords[c])
    /\ \A f \in Range(CacheName) : files[f] \notin {None, Empty} => Shared(pc, given, f, files[f])

\* What was given stays so, and whoever is at work as well.
Lasting ==
    /\ \A c \in Who : \A found : Held(given, c, found) => Held(given', c, found)
    /\ \A f, found : Shared(pc, given, f, found) => Shared(pc', given', f, found)

LEMMA AnswersInit == Init => Answers
BY DEF Init, Answers

LEMMA AnswersLast ==
    ASSUME given \subseteq given', \A d \in Who : pc[d] # "absent" => pc'[d] # "absent"
    PROVE  Lasting
<1>1. \A c \in Who : \A found : Held(given, c, found) => Held(given', c, found)
  BY DEF Held
<1>2. ASSUME NEW f, NEW found, Shared(pc, given, f, found)
      PROVE  Shared(pc', given', f, found)
  <2>1. PICK d \in Who : /\ pc[d] # "absent" /\ Caches(d) /\ FileOf(NameOf(d)) = f
                         /\ Held(given, d, found)
    BY <1>2 DEF Shared
  <2>2. pc'[d] # "absent" /\ Held(given', d, found)
    BY <1>1, <2>1
  <2>3. QED
    BY <2>1, <2>2 DEF Shared
<1>3. QED
  BY <1>1, <1>2 DEF Lasting

\* So it is when a client goes on.
LEMMA StepsLast ==
    ASSUME Typed, NEW c \in Who, NEW state, state # "absent", Becomes(c, state),
           given \subseteq given'
    PROVE  Lasting
BY OneBecomes, AnswersLast DEF Typed

\* Where nothing new is held, all is as it was.
LEMMA AnswersKept ==
    ASSUME Answers, Lasting, UNCHANGED files,
           NEW c \in Who, \A d \in Who \ {c} : pc'[d] = pc[d] /\ coords'[d] = coords[d],
           pc'[c] \notin {"answered", "write", "resolved", "from cache"}
    PROVE  Answers'
BY DEF Answers, Lasting

LEMMA AnsweredAnswers ==
    ASSUME Typed, Answers, NEW c \in Who, Answered(c)
    PROVE  Answers'
<1> USE DEF Typed
<1>1. PICK found : coords' = [coords EXCEPT ![c] = found] /\ Held(given', c, found)
  <2> DEFINE address == AddressFor(entries[Order[at[c]]][NameOf(c)], NetworkOf(c))
             answer == [name |-> NameOf(c), address |-> address]
  <2>1. /\ coords' = [coords EXCEPT ![c] = answer]
        /\ given' = given \cup {<<NameOf(c), NetworkOf(c), address>>}
    BY DEF Answered, NameOf, NetworkOf
  <2>2. answer.name = NameOf(c) /\ answer.address = address
    OBVIOUS
  <2> HIDE DEF answer
  <2>3. QED
    BY <2>1, <2>2 DEF Held
<1>2. UNCHANGED files /\ given \subseteq given'
  BY DEF Answered
<1>3. pc'[c] \in {"answered", "resolved"} /\ (pc'[c] = "answered" => Caches(c))
  BY DEF Answered, Becomes, TypeOK
<1>4. coords'[c] = found /\ \A d \in Who \ {c} : coords'[d] = coords[d] /\ pc'[d] = pc[d]
  BY <1>1, OneBecomes DEF Answered, TypeOK
<1>5. Lasting
  BY <1>2, StepsLast DEF Answered
<1>6. \A d \in Who : pc'[d] \in {"answered", "write", "resolved"} => Held(given', d, coords'[d])
  BY <1>1, <1>4, <1>5 DEF Answers, Lasting
<1>7. \A d \in Who : pc'[d] \in {"answered", "write"} => Caches(d)
  BY <1>3, <1>4 DEF Answers
<1>8. \A d \in Who : pc'[d] = "from cache" =>
         coords'[d] # None /\ Shared(pc', given', FileOf(NameOf(d)), coords'[d])
  BY <1>3, <1>4, <1>5 DEF Answers, Lasting
<1>9. \A f \in Range(CacheName) : files'[f] \notin {None, Empty} =>
         Shared(pc', given', f, files'[f])
  BY <1>2, <1>5 DEF Answers, Lasting
<1>10. QED
  BY <1>6, <1>7, <1>8, <1>9 DEF Answers, Caches

LEMMA CacheAnswers ==
    ASSUME Typed, Answers, NEW c \in Who, OpenFile(c) \/ WriteFile(c) \/ ReadCache(c)
    PROVE  Answers'
<1> USE DEF Typed
<1>1. \A d \in Who \ {c} : pc'[d] = pc[d]
  BY OneBecomes DEF OpenFile, WriteFile, ReadCache
<1>2. FileOf(NameOf(c)) \in Range(CacheName) /\ UNCHANGED given
  BY ClientTypes DEF OpenFile, WriteFile, ReadCache
<1>3. Lasting
  BY <1>2, StepsLast DEF OpenFile, WriteFile, ReadCache
<1>4. CASE OpenFile(c)
  <2>1. pc[c] = "answered" /\ pc'[c] = "write" /\ UNCHANGED coords
    BY <1>4 DEF OpenFile, Becomes, TypeOK
  <2>2. \A f \in Range(CacheName) : files'[f] \in {files[f], Empty}
    BY <1>4 DEF OpenFile, TypeOK
  <2>3. QED
    BY <1>1, <1>2, <1>3, <2>1, <2>2 DEF Answers, Lasting
<1>5. CASE WriteFile(c)
  <2>1. pc[c] = "write" /\ pc'[c] = "resolved" /\ UNCHANGED coords
    BY <1>5 DEF WriteFile, Becomes, TypeOK
  <2>2. Held(given', c, coords[c]) /\ Shared(pc', given', FileOf(NameOf(c)), coords[c])
    BY <1>2, <2>1 DEF Answers, Shared
  <2>3. \A f \in Range(CacheName) :
           files'[f] = IF f = FileOf(NameOf(c)) THEN coords[c] ELSE files[f]
    BY <1>5 DEF WriteFile, TypeOK, NameOf
  <2>4. QED
    BY <1>1, <1>2, <1>3, <2>1, <2>2, <2>3 DEF Answers, Lasting
<1>6. CASE ReadCache(c)
  <2> DEFINE file == files[FileOf(NameOf(c))]
  <2>1. UNCHANGED files /\ file # None
    BY <1>6 DEF ReadCache, NameOf
  <2>2. CASE file = Empty
    <3>1. pc'[c] = "raised" /\ UNCHANGED coords
      BY <1>6, <2>2 DEF ReadCache, Becomes, TypeOK, NameOf
    <3>2. QED
      BY <1>1, <1>3, <2>1, <3>1, AnswersKept
  <2>3. CASE file # Empty
    <3>1. /\ pc'[c] = "from cache" /\ coords'[c] = file
          /\ \A d \in Who \ {c} : coords'[d] = coords[d]
      BY <1>6, <2>3 DEF ReadCache, Becomes, TypeOK, NameOf
    <3>2. Shared(pc', given', FileOf(NameOf(c)), file)
      BY <1>2, <1>3, <2>1, <2>3 DEF Answers, Lasting
    <3>3. QED
      BY <1>1, <1>2, <1>3, <2>1, <3>1, <3>2 DEF Answers, Lasting
  <2>4. QED
    BY <2>2, <2>3
<1>7. QED
  BY <1>4, <1>5, <1>6

LEMMA OtherAnswers ==
    ASSUME Typed, Answers, NEW c \in Who,
           \/ Lookup(c) \/ NotServed(c) \/ Raised(c) \/ Again(c)
           \/ CacheUnwritable(c) \/ NotCached(c) \/ Publish(c) \/ Put(c)
    PROVE  Answers'
<1>1. UNCHANGED <<files, given>>
  BY DEF Lookup, NotServed, Raised, Again, CacheUnwritable, NotCached, Publish, Put
<1>2. \A d \in Who : d = c \/ (pc'[d] = pc[d] /\ coords'[d] = coords[d])
  BY DEF Lookup, NotServed, Raised, Again, CacheUnwritable, NotCached, Publish, Put, Becomes, Typed,
         TypeOK
<1>3. pc'[c] \notin {"answered", "write", "resolved", "from cache", "absent"}
  BY DEF Lookup, NotServed, Raised, Again, CacheUnwritable, NotCached, Publish, Put, Becomes, Typed,
         TypeOK
<1>4. Lasting
  BY <1>1, <1>2, <1>3, AnswersLast
<1>5. QED
  BY <1>1, <1>2, <1>3, <1>4, AnswersKept

LEMMA AnswersNext == Typed /\ Answers /\ [Next]_vars => Answers'
<1>1. ASSUME Answers, Change \/ UNCHANGED vars PROVE Answers'
  <2>1. UNCHANGED <<files, pc, coords, given>>
    BY <1>1 DEF Change, vars
  <2>2. QED
    BY <1>1, <2>1 DEF Answers
<1>2. QED
  BY <1>1, AnsweredAnswers, CacheAnswers, OtherAnswers DEF Next, Steps

\* A client works with what a registry once answered for its own name and network, or, out
\* of the cache, for those of one at work that keeps its answers in the same file
\* (client.py:91-94, 155-167).
THEOREM AnswersAreOwn == Spec => []OwnAnswer
<1>1. Typed /\ Answers => OwnAnswer
  <2> SUFFICES ASSUME Typed, Answers, NEW c \in Who
               PROVE  /\ pc[c] = "resolved" => Given(c, coords[c])
                      /\ pc[c] = "from cache" =>
                            coords[c] \in Coordinates /\ \E d \in SameFile(c) : Given(d, coords[c])
    BY DEF OwnAnswer
  <2>1. CASE pc[c] = "resolved"
    BY <2>1 DEF Answers, Held, Given, NameOf, NetworkOf
  <2>2. CASE pc[c] = "from cache"
    <3>1. coords[c] \in Coordinates
      BY <2>2 DEF Answers, Typed, TypeOK
    <3>2. PICK d \in Who : /\ pc[d] # "absent" /\ Caches(d)
                           /\ FileOf(NameOf(d)) = FileOf(NameOf(c)) /\ Held(given, d, coords[c])
      BY <2>2 DEF Answers, Shared
    <3>3. d \in SameFile(c) /\ Given(d, coords[c])
      BY <3>2 DEF SameFile, Held, Given, FileOf, NameOf, NetworkOf
    <3>4. QED
      BY <2>2, <3>1, <3>2, <3>3
  <2>3. QED
    BY <2>1, <2>2
<1>2. Spec => []Answers
  BY AnswersInit, AnswersNext, TypedAlways, PTL DEF Spec
<1>3. QED
  BY <1>1, <1>2, TypedAlways, PTL

=============================================================================
