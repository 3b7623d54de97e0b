--------------------------------- MODULE Lookup ---------------------------------
(***************************************************************************)
(* Names to coordinates, as the clients resolve and register them: the       *)
(* Python Subscriber and the command-line "sub" that tries again (client.py,  *)
(* cli.py), with coordinates cached in a file per name; the Java client,      *)
(* without a cache (Registry.java); and Publishers, which put their           *)
(* publication at every registry.  Registries are asked one after the other.  *)
(*                                                                         *)
(* A registry is up, or down (no connection, or an error status), or ill: it  *)
(* takes the request, and reading its answer times out or yields no JSON.     *)
(* The triple and the fields of the coordinates are left out.                 *)
(***************************************************************************)
EXTENDS Naturals, Sequences, SequencesExt

CONSTANTS
    Clients,        \* what each client is and wants, see Client
    Who,            \* the clients
    Groups,         \* the sets of clients that may be at work together
    Publications,   \* what a registry may come to hold of a name
    Order,          \* the registries' URLs, in the order they are asked
    Names, Networks, Addresses,
    CacheName,      \* the cache file of each name
    Initial,        \* what the registries may hold at first
    MaxChanges,     \* how often a registry changes, by itself
    Empty,          \* a cache file opened to be written
    None

Registries == Range(Order)
Kinds == {"python", "sub", "java", "publisher"}

\* None stands for no network of its own.
Client == [kind : Kinds, name : Names, network : Networks \cup {None}, address : Addresses]

\* A publication: an address and, on some networks, that of a relayed copy.
Entry == [address : Addresses, endpoints : [Networks -> Addresses \cup {None}]]

Coordinates == [name : Names, address : Addresses]

ASSUME LookupConstants ==
    /\ Order \in Seq(Registries) \ {<<>>}
    /\ Clients \in [Who -> Client]
    /\ Publications \subseteq Entry /\ Initial \subseteq [Names -> Entry \cup {None}]
    /\ DOMAIN CacheName = Names
    /\ None \notin Networks \cup Addresses \cup Entry \cup Coordinates
    /\ Empty \notin Coordinates \cup {None}
    /\ MaxChanges \in Nat
VARIABLES
    entries,    \* what each registry holds of each name
    health,     \* of each registry
    files,      \* the cache: None, Empty, or coordinates
    pc, at,     \* of each client: where it is, the registry it is asking
    coords,     \* of each client: the coordinates it works with
    changes,    \* how often a registry changed
    served,     \* of each client: the registries that could have served its
                \* lookup at any moment since it began
    given       \* all that registries ever answered: name, network, address

vars == <<entries, health, files, pc, at, coords, changes, served, given>>

Serves(r, name) == health[r] = "up" /\ entries[r][name] # None

AddressFor(entry, network) ==
    IF network # None /\ entry.endpoints[network] # None THEN entry.endpoints[network]
    ELSE entry.address

Caches(c) == Clients[c].kind \in {"python", "sub"}

\* Faulty: one file for all names.
FileOfAll(name) == CHOOSE f \in Range(CacheName) : TRUE

FileOf(name) == CacheName[name]

Init ==
    /\ entries \in [Registries -> Initial]
    /\ health = [r \in Registries |-> "up"]
    /\ files = [f \in Range(CacheName) |-> None]
    /\ \E group \in Groups : pc = [c \in Who |-> IF c \in group THEN "idle" ELSE "absent"]
    /\ at = [c \in Who |-> 1]
    /\ coords = [c \in Who |-> None]
    /\ changes = 0
    /\ served = [c \in Who |-> {}]
    /\ given = {}

Becomes(c, state) == pc' = [pc EXCEPT ![c] = state]

-----------------------------------------------------------------------------
(* A lookup. *)

Lookup(c) ==
    /\ pc[c] = "idle" /\ Clients[c].kind # "publisher"
    /\ Becomes(c, "ask")
    /\ at' = [at EXCEPT ![c] = 1]
    /\ served' = [served EXCEPT ![c] = {r \in Registries : Serves(r, Clients[c].name)}]
    /\ UNCHANGED <<entries, health, files, coords, changes, given>>

\* Python is about to write its cache before it returns the answer.
Answered(c) ==
    LET r == Order[at[c]]
        name == Clients[c].name
        address == AddressFor(entries[r][name], Clients[c].network)
    IN  /\ pc[c] = "ask" /\ Serves(r, name)
        /\ coords' = [coords EXCEPT ![c] = [name |-> name, address |-> address]]
        /\ given' = given \cup {<<name, Clients[c].network, address>>}
        /\ Becomes(c, IF Caches(c) THEN "answered" ELSE "resolved")
        /\ UNCHANGED <<entries, health, files, at, changes, served>>

\* Faulty: the first error is final.
NotServedEnds(c) ==
    LET r == Order[at[c]]
    IN  /\ pc[c] = "ask"
        /\ ~Serves(r, Clients[c].name) /\ health[r] \in {"up", "down"}
        /\ Becomes(c, IF Caches(c) THEN "cache" ELSE "failed")
        /\ UNCHANGED <<entries, health, files, at, coords, changes, served, given>>

\* Unknown there, or down, or for Java ill as well: the next registry, if there is one.
NotServed(c) ==
    LET r == Order[at[c]]
    IN  /\ pc[c] = "ask"
        /\ ~Serves(r, Clients[c].name)
        /\ health[r] \in {"up", "down"} \/ ~Caches(c)
        /\ IF at[c] < Len(Order)
           THEN at' = [at EXCEPT ![c] = @ + 1] /\ UNCHANGED pc
           ELSE Becomes(c, IF Caches(c) THEN "cache" ELSE "failed") /\ UNCHANGED at
        /\ UNCHANGED <<entries, health, files, coords, changes, served, given>>

\* A timeout or an undecodable answer is not a RegistryError: the lookup is over.
Raised(c) ==
    /\ pc[c] \in {"ask", "put"}
    /\ Clients[c].kind # "java" /\ health[Order[at[c]]] = "ill"
    /\ Becomes(c, "raised")
    /\ UNCHANGED <<entries, health, files, at, coords, changes, served, given>>

OpenFile(c) ==
    /\ pc[c] = "answered"
    /\ files' = [files EXCEPT ![FileOf(Clients[c].name)] = Empty]
    /\ Becomes(c, "write")
    /\ UNCHANGED <<entries, health, at, coords, changes, served, given>>

WriteFile(c) ==
    /\ pc[c] = "write"
    /\ files' = [files EXCEPT ![FileOf(Clients[c].name)] = coords[c]]
    /\ Becomes(c, "resolved")
    /\ UNCHANGED <<entries, health, at, coords, changes, served, given>>

\* The cache cannot be written: no RegistryError either, the answer is dropped.
CacheUnwritable(c) ==
    /\ pc[c] \in {"answered", "write"}
    /\ Becomes(c, "raised")
    /\ coords' = [coords EXCEPT ![c] = None]
    /\ UNCHANGED <<entries, health, files, at, changes, served, given>>

\* Faulty: an empty file is read as coordinates.
ReadCacheAsIs(c) ==
    LET file == files[FileOf(Clients[c].name)]
    IN  /\ pc[c] = "cache" /\ file # None
        /\ coords' = [coords EXCEPT ![c] = file]
        /\ Becomes(c, "from cache")
        /\ UNCHANGED <<entries, health, files, at, changes, served, given>>

ReadCache(c) ==
    LET file == files[FileOf(Clients[c].name)]
    IN  /\ pc[c] = "cache" /\ file # None
        /\ IF file = Empty
           THEN Becomes(c, "raised") /\ UNCHANGED coords
           ELSE Becomes(c, "from cache") /\ coords' = [coords EXCEPT ![c] = file]
        /\ UNCHANGED <<entries, health, files, at, changes, served, given>>

\* No file: a RegistryError.  "sub" sleeps and tries again until its deadline.
NotCached(c) ==
    /\ pc[c] = "cache" /\ files[FileOf(Clients[c].name)] = None
    /\ \/ Becomes(c, "failed")
       \/ Clients[c].kind = "sub" /\ Becomes(c, "sleeping")
    /\ UNCHANGED <<entries, health, files, at, coords, changes, served, given>>

\* Faulty: the registries that failed are not asked again.
AgainWhereItStopped(c) ==
    /\ pc[c] = "sleeping"
    /\ Becomes(c, "cache")
    /\ served' = [served EXCEPT ![c] = {r \in Registries : Serves(r, Clients[c].name)}]
    /\ UNCHANGED <<entries, health, files, at, coords, changes, given>>

Again(c) ==
    /\ pc[c] = "sleeping"
    /\ Becomes(c, "ask")
    /\ at' = [at EXCEPT ![c] = 1]
    /\ served' = [served EXCEPT ![c] = {r \in Registries : Serves(r, Clients[c].name)}]
    /\ UNCHANGED <<entries, health, files, coords, changes, given>>

-----------------------------------------------------------------------------
(* A Publisher puts its publication at every registry, best effort. *)

Publish(c) ==
    /\ pc[c] = "idle" /\ Clients[c].kind = "publisher"
    /\ Becomes(c, "put")
    /\ at' = [at EXCEPT ![c] = 1]
    /\ UNCHANGED <<entries, health, files, coords, changes, served, given>>

Put(c) ==
    LET r == Order[at[c]]
        entry == [address |-> Clients[c].address, endpoints |-> [n \in Networks |-> None]]
    IN  /\ pc[c] = "put" /\ health[r] # "ill"
        /\ \/ /\ health[r] = "up"
              /\ entries' = [entries EXCEPT ![r][Clients[c].name] = entry]
           \/ UNCHANGED entries
        /\ IF at[c] < Len(Order)
           THEN at' = [at EXCEPT ![c] = @ + 1] /\ UNCHANGED pc
           ELSE Becomes(c, "published") /\ UNCHANGED at
        /\ UNCHANGED <<health, files, coords, changes, served, given>>

-----------------------------------------------------------------------------
(* Registries come and go, and what they hold of a name changes. *)

StillServed(after) ==
    served' = [c \in Who |-> IF pc[c] = "ask" THEN served[c] \cap {r \in Registries :
                   health'[r] = "up" /\ after[r][Clients[c].name] # None}
               ELSE served[c]]

Change ==
    /\ changes < MaxChanges
    /\ changes' = changes + 1
    /\ \/ /\ \E r \in Registries, h \in {"up", "down", "ill"} :
                health[r] # h /\ health' = [health EXCEPT ![r] = h]
          /\ UNCHANGED entries
       \/ /\ \E r \in Registries, n \in Names, e \in Publications \cup {None} :
                entries[r][n] # e /\ entries' = [entries EXCEPT ![r][n] = e]
          /\ UNCHANGED health
    /\ StillServed(entries')
    /\ UNCHANGED <<files, pc, at, coords, given>>

Steps(c) ==
    \/ Lookup(c) \/ Answered(c) \/ NotServed(c) \/ Raised(c)
    \/ OpenFile(c) \/ WriteFile(c) \/ ReadCache(c) \/ NotCached(c) \/ Again(c)
    \/ Publish(c) \/ Put(c)

Next == Change \/ \E c \in Who : Steps(c) \/ CacheUnwritable(c)

Spec == Init /\ [][Next]_vars

\* A client that runs goes on: every wait of a lookup is bounded by a timeout.
FairSpec == Spec /\ \A c \in Who : WF_vars(Steps(c))

-----------------------------------------------------------------------------
(* Properties. *)

States == {"absent", "idle", "ask", "answered", "write", "cache", "sleeping", "put",
           "resolved", "from cache", "failed", "raised", "published"}

TypeOK ==
    /\ entries \in [Registries -> [Names -> Entry \cup {None}]]
    /\ health \in [Registries -> {"up", "down", "ill"}]
    /\ files \in [Range(CacheName) -> Coordinates \cup {None, Empty}]
    /\ pc \in [Who -> States] /\ at \in [Who -> 1..Len(Order)]
    /\ coords \in [Who -> Coordinates \cup {None}]

\* A lookup during which some registry could have served the name at every moment
\* neither fails nor falls back on the cache, whatever the others did and however the
\* answers moved between them (client.py:155-167, DIP-PARITY.md:22).
FailoverReaches ==
    \A c \in Who : pc[c] \in {"cache", "from cache", "sleeping", "failed"} => served[c] = {}

\* Who is at work and keeps its answers in the file of c's name.
SameFile(c) ==
    {d \in Who : /\ pc[d] # "absent" /\ Caches(d)
                 /\ CacheName[Clients[d].name] = CacheName[Clients[c].name]}

\* Did a registry once give these coordinates for the name and the network of c?
Given(c, found) ==
    /\ found.name = Clients[c].name
    /\ <<Clients[c].name, Clients[c].network, found.address>> \in given

\* What a client works with is what a registry once answered for its name and network; out
\* of the cache, for those of one who shares the file: its own, unless the file is shared by
\* clients that want something else, for the file's name is made of the publication's name,
\* with "/" and "__" alike, and not of the network (client.py:91-94).  It is never half of
\* a file, whoever died or was stopped while writing it.
OwnAnswer ==
    \A c \in Who :
        /\ pc[c] = "resolved" => Given(c, coords[c])
        /\ pc[c] = "from cache" =>
              coords[c] \in Coordinates /\ \E d \in SameFile(c) : Given(d, coords[c])

\* A "sub" that waits for its name finds it once a registry serves it for good and none
\* is ill, unless the cache cannot be written (cli.py:130-149).
SubFinds ==
    \A c \in Who, r \in Registries :
        (pc[c] = "sleeping" /\ [](Serves(r, Clients[c].name) /\ "ill" \notin Range(health)))
        ~> pc[c] \in {"resolved", "raised"}

=============================================================================
