# hypernova, specified and checked

TLA+ modules of [hypernova](../src/README.md), the publish/subscribe middleware whose data
plane is OPC UA PubSub over UDP and whose control plane is a small HTTP registry. The modules
are read off the source and checked with TLC on small instances; every safety property that a
passing run checks is also proved for all instances with TLAPS.

Paths below are relative to the repository; `store.py`, `service.py` and `listener.py` are in
`hypernova/registry/`, the other Python files in `hypernova/`.

    tlc -config MCStore.cfg MCStore      # any run of PROJECT.json
    tlapm StoreProofs.tla                # any module of theorems

## 1. The system

Publishers send numbered UDP datagrams to a multicast group or a unicast address. A datagram
carries a triple (publisher id, writer group, dataset writer) and no name. The registry is the
phonebook from names to triples and addresses; it also listens to every registered address, to
show live values and count lost messages. Subscribers look a name up once and then receive from
the network; no data passes through the registry. A relay repeats datagrams into another
network segment, bridges translate to DIP and OPC UA, and the FX manager wires datasets of OPC
UA FX servers to one another by calls to both.

| component | state | operations | talks to |
|---|---|---|---|
| store (`store.py`) | two indexes, name to publication and triple to name; a JSON file | load, register, renew, remove, persist | file system |
| listener (`listener.py`, `transport.py`) | receivers by endpoint, bind errors, a live state per name | sync, close, receive a datagram | store, sockets |
| service (`service.py`) | a write lock, the mirror's task | PUT, renew, DELETE, list, lookup, mirror loop, start-up and clean-up hooks | store, listener, another registry |
| client library (`client.py`) | a subscriber's socket, thread, queue, cache file; a publisher's sequence number | lookup, start, stop, updates, send, renew | registry over HTTP, sockets |
| wire codec (`wire.py`) | none | encode, decode, sign, verify | |
| relay (`relay.py`) | routes with a receiver, a sender and counters | load configuration, start, forward, stop | sockets |
| FX manager (`fx.py`) | none of its own; the connections are the servers' | link, unlink, status, wait, registry payload | two FX servers over OPC UA |
| bridges (`bridge_dip.py`, `bridge_opcua.py`) | publishers by topic; nodes by publication | start, update, stop | client library, DIP, OPC UA server |
| Java client (`clients/java`) | as the Python client | lookup, subscribe, publish | registry, sockets |
| command line, keys, browser page (`cli.py`, `keys.py`, `registry/ui.py`) | none | | all of the above |

What is hard here, and what correctness means:

* **store**: two indexes and a file describe the same thing. A crash, a failed write or a file
  edited by hand must not make them disagree, and what was answered must survive.
* **service and listener**: handlers change the catalog under a lock and sync the receivers
  outside it. A sync suspends at every receiver it opens, so syncs interleave with one another
  and with later changes of the catalog. Registered endpoints must be heard, once, and without
  interruption.
* **mirror**: a follower merges lists that are old when they arrive, into a store its own
  clients change too. It must stay coherent and must catch up.
* **loss counting**: 16-bit numbers wrap, publishers restart, and the network loses, reorders
  and repeats.
* **FX manager**: one link is two calls to two servers. Either may be refused, lost or
  cancelled, and several managers contend for names and datasets.
* **client library**: failover between registries and to a cached answer; a receive thread, a
  bounded queue, and a stop that races with both.
* **relay and bridges**: a failure part-way through a start, and counters that must say what
  was sent.

`PROJECT.json` lists every hazard at the line where it bites, with the properties that would
catch it or the reason there is none.

## 2. Modules

| module | what it is |
|---|---|
| `Registrations` | the names and triples that registries deal with |
| `Catalog` | abstract: a phonebook with unique triples, and a saved copy of it |
| `Store` | the store, detailed to the points where a crash can fall; implements `Catalog` |
| `Listener` | handlers, mirror loop and hooks, as far as they change receivers; the receivers; the kernel |
| `Mirror` | a primary, a follower, the requests to both and the mirror loop |
| `LossCount` | a publisher's numbering, a network, and the registry's count of losses |
| `Lookup` | clients that resolve and register names at several registries, with a cache in files |
| `FxLink` | managers that link, wait and unlink, and the servers they call |
| `Wire` | the codec: encoder, decoder, signatures, a relay's re-encoding |
| `Stream` | abstract: what the reader of a publication is shown |
| `Air` | sockets and the datagrams between them |
| `DipBridge`, `Relay`, `OpcuaBridge` | the three programs of a pipeline, over `Air` |
| `Pipeline` | their composition; implements `Stream` |
| `StoreProofs` | theorems about `Store` and about `Mirror`, and their proofs |
| `ListenerProofs`, `LossCountProofs`, `LookupProofs`, `FxLinkProofs`, `PipelineProofs` | theorems about the module of that name, and their proofs |
| `WireProofs` | types and signatures of the codec; how a frame is laid out |
| `RoundTripProofs` | that the decoder undoes what the encoder wrote; what a relay keeps |
| `MC...` | values of the constants for TLC |

The modules of the registry meet at the catalog: `Store` has it with its file, `Listener` reduces
it to the address of each name, `Mirror` to the triple and the dates, `LossCount` to whether one
triple matches, `Lookup` to the addresses a name has on each network. The modules of the data
plane meet at the datagram: `Wire` says which frames a receiver accepts and what it makes of them,
`Pipeline` takes that as "signed with the key or not" and follows whole datagrams.

Definitions commented "Faulty:" are not part of any specification. Each stands just before the
definition it falsifies and says what a bug there might look like; put in its place it makes the
property named in `PROJECT.json` fail, which is how we know that the property watches that code.

### Store

| code | definition |
|---|---|
| `Store.__init__` 167-187 | `Open`, then `LoadEntry` or `SkipDuplicate` per element, then `LoadDone`, `Quarantine` or `StartFails` |
| `register` 198-219, with `_validate` | `Register`, `Refuse` |
| `renew` 226-232, `remove` 234-240 | `Renew`, `Remove`, `RefuseUnknown` |
| `_persist` 242-248 | `WriteTemp` or `WriteFails`, then `Replace` or `ReplaceFails` |
| the process ends | `Crash` |
| an operator edits the file | `EditFile` |

Methods of the store are synchronous and the service calls them under one lock, so requests do
not interleave inside one. A crash can fall inside one: after the change in memory (`phase =
"saving"`) and after the temporary file is written (`"replacing"`). The two files are whole
values or torn ones. The file is a set of entries: `LoadEntry` takes them in any order, which
is every order a hand-edited file could have. `fault` says what reading an element runs into,
after any number of good ones: nothing, an exception the constructor catches (181), or one it
does not (an element that is no object raises `AttributeError`). A failed write leaves the
change in memory: that is what the code does (the handler answers 500 and the catalog keeps
it), and `AnsweredIsSaved` is stated accordingly.

A publication is its name, its triple and its two dates. The other attributes (fields, address,
description) are carried along by the same assignments. Validation is one Boolean.

### Listener

An action is what the event loop runs between two suspensions. `Sync` is `Listener.sync` up to
its first `await`, `Resume` what follows the await of one receiver up to the next, `Visit` the
loop body they share. Lowest descriptor first, as the kernel gives them out. Binding fails for
an endpoint in `Unbindable`, at any attempt, or for all when descriptors run out. `StartListener`
and `StopListener` are the hooks of `create_app`; requests are served after the start-up hook
(aiohttp), the mirror loop's task does not wait for it. `Change` is the body of PUT and DELETE:
the catalog, then the receivers, or the catalog alone if the store could not be saved, since
the exception leaves the handler before the sync (248-254). The catalog's change and the sync's
first part are one step because no suspension separates them: releasing the `asyncio` lock does
not suspend.

`Datagram` is one datagram of a publication and all that the kernel makes of it: a copy for every
socket on the port if it is multicast and someone joined the group, one socket otherwise.
`mishaps` is a history variable: `"overlap"` once two syncs have overlapped, `"unsaved"` from a
failed save to the next sync. `CountedOnce` is stated for endpoints on different ports (`OwnPorts`):
a multicast datagram reaches every socket on its port whose group someone on the machine joined,
and two endpoints of one port count it at both. `MaxSent` bounds the datagrams of all names together.

### Mirror

`Ask`, `Answer`, `Receive`, then one of `Skip`, `Collide`, `AdoptAndGoOn`, `AdoptAndGiveUp` per
entry, then `EndPass`: the loop at `service.py` 113-140. The primary's list is taken at `Answer`
and merged later; between the two both registries serve requests. While it merges, the follower
serves none, for the loop body has no suspension there. `follower` and `file` differ after a
save that failed. `Restart` is the follower starting from its file. `written` is a history
variable: the time a client stated the content of a copy, which the code does not store; the
properties compare it with what the code does compare (`registeredAt`). The specification is
`FollowerSpec`, with `FollowerInit`, `FollowerNext` and `FollowerTypeOK`: the names of `Store` are
left to it, since the two are reasoned about together.

### LossCount

`Take` is line 340 of `client.py`; `Send` and `SendFails` are the rest of `send`, with
and without an exception from the encoder or the socket. `Observe` and `Gap` are
`LiveState.observe`. The network may lose or repeat a datagram and deliver in any order. `made`
travels with a datagram in the model only: it is the number of numbers taken, without wrapping,
by which the properties know what really is missing. `mishaps` records what the network and the
operators did, and the properties say under which of them the count is exact. Registrations come
and go (`Remove`, `Register`) while the live state of the name stays, as in `Listener.live`.
`setback` adds up by how much datagrams that came late or again were behind the one before. Messages
without a sequence number, which other publishers may send, are left out: they set `_last_sequence`
to `None` and the next number is not compared.

### Lookup

| code | definition |
|---|---|
| `lookup` and its helpers (`client.py` 71-173), `Registry.lookup` (Java) | `Lookup`, then `Answered`, `NotServed` or `Raised` per registry |
| writing the cache (160-165) | `OpenFile`, `WriteFile`, `CacheUnwritable` |
| the fallback (168-173) | `ReadCache`, `NotCached` |
| `sub` of `cli.py` (130-149) | `Again` |
| `Publisher` at its start (`client.py` 259 on) | `Publish`, `Put` |

The cache file is opened and written in two steps, for other clients on the machine read it
in between and a client can die there. A registry is down when it refuses, or answers with an
error status: both are a `RegistryError` and the next registry is asked. It is ill when reading
its answer times out or yields no JSON, which is no `RegistryError` in Python and ends the lookup
(`Raised`); the Java client treats both alike. `served` and `given` are history variables: which
registries could have served a lookup at every moment since it began, and what was ever answered.
Groups of clients run at a time: those that share a name, a file and a network in part. `OwnAnswer`
lets a client get out of the cache what a registry gave to one of those at work (`SameFile`) that keep
their answers in the same file, and nothing else: in the group of `python` and `twin`, who want the
same, that is its own name and network; in those of `other` (another network) and `shadow` (another
name) it may be the other one's, as in the code.

### FxLink

`pc` is the await a manager is at, or how its call ended. A request is in `requests` until its
server serves it; an answer is in `answer` until its manager goes on. `LoseLink` and `LoseUnlink`
are an await that raises: the request may be lost, may arrive later (`Late`), or may have been
served already. `CancelLink` and `CancelUnlink` are a cancellation, from which `link` shields its
rollback (`asyncio.shield`). The servers are external: `Establish`, `ServeClose` and `RefuseClose` say
what `fx.py` and `tests/test_fx.py` expect of them, the last one that a server may refuse to close a
connection that is up (`StuckClose`, 383-398). A connection is identified by its name, which is also
what `close_connection` names (503-510).

The rollback is awaited at three places: after a subscriber that failed (707), where the error says
so if the rollback failed too; after an answer without wire coordinates (694), where its result is
ignored; and after a cancellation, which is re-raised as it is. `Ending` and `RollBackFails` tell them
apart, and so does `NoOrphanPublisher`: a publisher still up after a failed subscriber is in the
error, and at the two other ends one remains only if its rollback was refused or lost. `errors` holds
the sides a manager said it could not close, in `link` or in `unlink`.

`WaitOperational`, `PublisherRead` and `SubscriberRead` are `wait_operational` (590-603): each poll
reads the publisher, then the subscriber, and the deadline may pass after any poll. `Unlink` closes
the two sides in either order, as the library does (the subscriber first) or the command (the
servers in the order given, `cli.py` 345-352), also after an `unlink` that failed or was cancelled.
A scenario, chosen with the initial state, says who takes part and what may go wrong: which awaits may
raise or be cancelled, whether servers end connections (`drops`) and whether they refuse to close some
(`stuck`).

A server closes whatever connection has the name it is given. What `link` and `wait_operational`
promise is therefore stated where managers close only what is theirs: one manager takes part
(`Alone`), or nobody's close is lost, cancelled or refused by a server that keeps the connection
(`ClosesAnswered`). Otherwise a close that is
carried out late, or asked for again by an `unlink` that never heard it was carried out, can meet a
connection that another manager has meanwhile established under the name, and end it. The proof
needs this condition and the scenarios of the run satisfy it.

### Wire

A datagram is a sequence of cells, one for each value the encoder packs: what it is, its value,
its width in bytes. The decoder is a step per section of `decode_network_message`, from flags to
fields; it reads cells by the widths it expects, so that a read that starts or ends elsewhere than
where a cell was written is "garbled", a read past the end is an error, and a section that is
there and not expected shifts everything after it. Signing covers the cells before the signature,
and only the same key over the same cells verifies.

| code | definition |
|---|---|
| `encode_network_message` and its helpers | `Encode`, `Bodies`, `DataSetMessage`, `DataValue`, `Variant`, `Unencodable` |
| `decode_network_message`, by section | `DecodeFlags`, `DecodePublisherId`, ..., `DecodeMessage`, `DecodeField` |
| another vendor's publisher (external) | `Foreign...`: the optional headers hypernova reads but never writes |
| `forward` in `Relay.start` (`relay.py` 102-116) | `Relay` |

On its way a frame stays whole, is cut after any cell, or has the value of one scalar changed (`Arrive`). What
was sent is one of `Sent`, which is a set of messages with every section and every kind of field
between them, signed or not. `WireConstants` says that these are messages of the data model
(`Message`, `DataSet`, `FieldValue`: the dataclasses of `wire.py` 190-232), that a publisher of
another make sends one byte as a DataValue, with a number of 16 bits, and sets the second extended
flags if it sets one of them (`Expressible`), and that a receiver which requires signatures has a key
(`wire.py` 558 raises otherwise).

### The pipeline

| code | definition |
|---|---|
| `open_receive_socket`, `open_send_socket` (`transport.py`), `close` | `OpenSockets`, `CloseSockets` |
| `DipBridge.start`, `_start`, `stop`, `_Handler.handleMessage` (`bridge_dip.py`) | `StartSubscription`, `StartFails`, `RegistrationRaises` (the constructor of a publisher, `client.py` 295-316), `Stop`, `HandleMessage`, `HandlerFails` |
| `Relay.start`, its `forward`, `Relay.stop` (`relay.py` 92-136) | `StartRelay`, `StartRelayFails`, `Forward`, `ForwardFails`, `DropInvalid`, `StopRelay` |
| `run_bridge` and its `pump` (`bridge_opcua.py` 44-105) | `LookedUp`, `LookupFails`, `StartPump`, `BindFails`, `End`, `StopSubscriber`, `Write`, `WriteFails` |
| `Subscriber._run` (`client.py` 221-256) | `Queue`, `Full`, `Skip`, `Undecodable`, `ThreadEnds` |
| the network | `Transmit`, `Multicast`, `LoseHop`, `LoseCopy` |

The programs share nothing but datagrams and start and stop in any order. All publications of a
bridge have one address, so every subscriber's socket gets the datagrams of all; a stranger may
send with the ids of one of them (`Stray`). The receive thread and the pump of a publication meet
at the bounded queue. A sample is a number and a quality; the number stands for the value, and
tells samples apart that have the same quality. `scenario` is how the programs are configured:
keys, relay or none, whether the network keeps the order, what may go wrong. `lost` is a history
variable, by which `ShowsLast` knows that something of a publication went missing since its latest
sample was sent.

## 3. What the runs check

Passing runs:

| run | instance | states | what it shows |
|---|---|---|---|
| `store` | 2 names, 2 triples, clock 0..1, 4 hand-edited files | 57 062 | indexes agree in every phase; an answered change is in the file; a restart serves the file; dates survive; the store implements `Catalog` |
| `listener` | 2 names, a multicast and a unicast endpoint, 3 descriptors, a client, a mirror loop, the start-up hook | 159 414 | whatever overlaps: registered endpoints are heard or recorded, held receivers are open, reception is not interrupted, syncs end. Without overlap: one receiver each, nothing left open, no datagram counted twice |
| `mirror` | 2 names, 2 triples, 2 requests | 9 240 | unique triples at the follower; what stays at the primary reaches it |
| `fx` | two scenarios: 2 managers with 3 plans that compete for a name, for a dataset, and in opposite directions; 1 manager whose every await may raise or be cancelled while servers drop connections and refuse to close some | 127 351 | a failed link leaves no publisher up that its error does not name, but where a rollback it does not report failed; a returned link is up at both ends, `wait_operational` tells the truth, nobody closes another's connection; `unlink` reports each side it leaves up and succeeds when called again after the outage |
| `loss_count` | 6 sequence numbers, 6 numbers taken, 2 datagrams on the way | 2 597 666 | the count is exact in order, never too small out of order, and too large by exactly what late and repeated datagrams were behind |
| `wire` | 7 messages of every shape, 2 encodings, 2 keys; 15 sets of foreign options; 3 receivers; one relay | 58 466 | what is whole and supported is decoded to what it carries, all else is rejected; who requires signatures takes nothing else; a relay changes nothing |
| `lookup` | 2 registries that change twice, 6 groups of clients | 93 831 | a registry that could serve is found; coordinates are one's own, or of one who shares the cache file; `sub` finds what is served |
| `pipeline` | 2 publications with 3 samples, a queue of 1, 6 configurations | 77 107 | what is shown was published, in order; the newest is shown in the end; what was stopped has closed its sockets, and what failed to start all but those named by `LeavesNothingElseOpen` |

Runs that end in a violation, each a disagreement between the program and what is said of it:

| run | statement | what happens |
|---|---|---|
| `store_repeated` | "never trust a hand-edited store file" (`store.py` 176) | the loader checks for repeated triples, not for repeated names; with one name under two triples the indexes disagree, and the first triple leads to a publication that was replaced |
| `listener_double` | "One receiver per distinct (host, port)" (`listener.py` 2) | two syncs find the endpoint missing before either stores its receiver: both bind, one is lost open, and datagrams are counted twice |
| `mirror_older` | the follower takes what it "has older" (`service.py` 104) | a replacement keeps the first date, so a re-pointed publication is never taken over |
| `loss_restart` | "sequence numbers reset; subscribers accept resets" (`ARCHITECTURE.md` 94) | a restart after number n > 0x8001 counts 0xffff + 1 - n messages as lost: 25536 after number 40000 |

More that the modules show and no run checks; where a property depends on it, the property names
the condition:

* The registry "listens to what it registers" (`listener.py` 1), but a failed save leaves the
  handler before the sync: the publication is listed, not listened to, and no error is recorded
  (`HeardOrReported` in `Listener`).
* `link` "never leaves a half-open connection publishing into the void" (`doc/fx.md` 167), but if the
  answer to the publisher's establish is lost, `link` fails without a close. `NoOrphanPublisher`
  is stated for links that got that answer. A cancelled link says nothing of a rollback that failed.
* When the publisher's answer names no coordinates, the error says "rolled the publisher back" (`fx.py`
  695-696) whatever became of the rollback (694): if the server refuses it, the publisher goes on
  emitting. `UnwiredIsRolledBack` is what the error claims, and the scenarios of the run break it within five steps. The same lost answer at the subscriber leaves the
  subscriber established after its publisher was rolled back.
* The follower can replace a copy its own client re-stated by one first registered later,
  though written earlier (the comparison of `service.py` 126).
* A relay that fails half-way through its start leaves the sockets of its targets open, and so does
  a publisher whose constructor raises after it opened its socket (`client.py` 295): nobody holds what
  would close it. The interpreter and the operating system do, sooner or later.
* A lookup that meets an ill registry raises, though the next registry or the cache could have
  answered; one that meets an empty cache file raises as well.

### Bounds, and why they are enough

* **Store.** Two names and two triples are what a collision and a re-pointing need: each
  conflict the code looks for is between two names, or between a name's old and new triple. Two
  dates distinguish first registration from renewal. The proofs remove these bounds.
* **Listener.** Two endpoints let a sync suspend at one while the other changes; three tasks
  overlap. Three descriptors for two endpoints let a double binding succeed and also let
  descriptors run out after one. One datagram suffices to be counted twice. The proofs remove
  these bounds, but for `SyncsEnd`.
* **Mirror.** Two names and two triples, as for the store; two requests let a name be registered
  and re-pointed, or two names collide. The finding needs three. The proofs remove these bounds, but
  for `Converges`.
* **LossCount.** With six numbers the half turn is three: gaps of 1 (next), 2 (a loss), 3 to 5
  (late or reset) and 0 (repeated) all occur, and six messages wrap the numbers once. Two
  datagrams on the way reorder. One repetition per behaviour. The proofs remove these bounds.
* **FxLink.** Plans contend pairwise; two managers are all a contention has. Requests per manager
  are bounded by the calls `link` and `unlink` make, plus abandoned ones. The proofs remove this
  bound, but for `UnlinkSucceeds`.
* **Wire.** Each section occurs with and without each neighbour that could shift it; at most 2
  messages per frame (255 in the code) and 60 bytes per body of several (65535), so that both limits
  are met and exceeded; sequence numbers of 3 bits, so that they wrap. The proofs remove these bounds:
  any messages of any length, any keys, any modulus.
* **Lookup.** Two registries and two changes: an answer can move from one to the other and back, or one can fail while the other is ill. Three names: two that share a file, and one with its own. A
  file is shared by two clients at a time.
  The proofs remove these bounds, but for `SubFinds`.
* **Pipeline.** Two publications interfere at one socket; one has two samples, so that order and
  "newest" mean something, and a queue of one overflows with the second. The proofs remove these
  bounds, but for `ShowsLast`.

`CHECK_DEADLOCK FALSE` stands where the system may stop: a registry that was shut down, a manager
whose call has ended, a publisher at the model's bound, a frame that was decoded, a lookup that is
over, a pipeline that was stopped.

### Fairness

* `Listener`: the event loop runs a task whose await has completed (weak fairness of
  `StartListener` and of each `Resume`). No request is ever owed.
* `Mirror`: the loop sleeps and asks again for ever (weak fairness of `Ask`); requests, merges and
  saves succeed again and again if they are tried again and again (strong fairness). `Fail`,
  `AdoptAndGiveUp` and `Restart` may happen infinitely often all the same. `Converges` assumes of
  the clients that the triple is not given to another name at the follower: two names that
  exchange their triples at the primary never get across, and the code does not claim it.
* `FxLink`: servers serve what has reached them and answers are handled (weak fairness); a manager
  whose `unlink` failed or was cancelled calls it again, as its docstring invites to. That losses,
  and refusals to close what is up, end is a premise of `UnlinkSucceeds` (`OutageEnds`), not a fairness
  condition.
* `Lookup`: a client that runs goes on (weak fairness of each client's steps): each request and each
  sleep has a timeout. Registries owe nothing; that one serves for good is a premise of `SubFinds`.
* `Pipeline`: a relay that is on forwards, a running thread takes what its socket holds, a pump
  writes what is queued (weak fairness of each). Publishers, starts and stops are never owed.

## 4. What is proved

With TLAPS. Of the store (`StoreProofs`), for any sets of names and
triples, any clock bound and any hand-edited files:

| theorem | statement |
|---|---|
| `TypeCorrect` | `Spec => []TypeOK` |
| `NamesHoldTheirTriples` | `Spec => []NameHoldsItsTriple` |
| `AnsweredChangesAreSaved` | `Spec => []AnsweredIsSaved` |
| `TriplesLeadToTheirNames` | `NamesListedOnce => (Spec => []TripleLeadsToItsName)` |
| `RestartsRestore` | `NamesListedOnce => (Spec => []RestartRestores)` |
| `RegistrationDatesAreKept` | `Spec => RegistrationDateKept` |
| `StoreImplements` | `NamesListedOnce => (Spec => ImplementsCatalog)` |

The only assumptions are `StoreConstants` (what the constants are) and, where stated,
`NamesListedOnce`: no hand-edited file lists one name twice. The run `store_repeated` shows that
the latter cannot be dropped.

The argument:

* `HoldInv` adds to `NameHoldsItsTriple` and `AnsweredIsSaved` what makes them inductive: a
  publication is stored under its own name, memory is empty while the process is down, the
  temporary file is the payload between the write and the rename, and nothing is answered while
  loading. The third is why a rename publishes exactly what was changed.
* `LeadInv` adds, for the other direction, that the file never lists a name twice (the store does
  not write such a file, the assumption covers the operator) and that entries still to be loaded
  have names not loaded yet. Without that, loading an entry could move a name and leave its
  old triple behind, which is what `store_repeated` shows.
* `RestartInv` says of the loop that what is loaded and what is still to be loaded make up the file.
* `LoadCovers`, for the refinement, says that an entry was skipped only because its triple was
  taken: this is the condition under which `Catalog` lets a restart drop a claim (`Recover`).

`StoreImplements` maps loading and being down to a phonebook that does not answer, requests to
`Assign` and `Release`, the rename to `Save`, and everything else to stuttering.

Of the loss count (`LossCountProofs`), for any even modulus, so for 2^16, and any number of
datagrams made and on their way:

| theorem | statement |
|---|---|
| `TypeCorrect` | `Spec => []TypeOK` |
| `LossStaysExact` | `Spec => []LossIsExact` |
| `FalseLossIsExact` | `Spec => []FalseLossIsTheSetback` |
| `LossIsNeverHidden` | `Spec => []LossIsNotHidden` |

The only assumption is `LossCountConstants`. `LossIsExact` is not inductive: `ExactInv` adds, for
behaviours in which datagrams are only lost, that each number is the remainder of how many were
made before it (`Numbered`), that the last number observed is that of the highest made, and that
whatever is still on its way was made after it (`Observed`). `GapIsMissing` then turns the gap of
two remainders into what was missed, by three lemmas on remainders: an integer has one, they
are added one by one, and integers less than a turn apart differ by the difference of theirs.

Late and repeated datagrams leave of `Observed` what `Balanced` says: the last datagram observed is at most
the highest, by no more than the setbacks, and what was received and counted is what there was between the
first and the last, and the setbacks. A datagram that is behind by at most half a turn adds nothing
(`NoGapBehind`), and the next one that is ahead adds what it is ahead of that one. Both remaining
theorems follow.

Of the pipeline (`PipelineProofs`), for any publications and samples, any keys and configurations,
any queue size and any faults a configuration names:

| theorem | statement |
|---|---|
| `TypeCorrect` | `Spec => []TypeOK` |
| `Closed` | `Spec => []LeavesNothingElseOpen` |
| `PipelineImplementsStream` | `Spec => ImplementsStream` |

The assumptions are `AirConstants`, `OrderIsASequence` and `QueueSizeIsNatural`, which say what the
constants are. `Closed` follows from `OpenInv`: an open socket belongs to a program that runs, and a
publisher's to a subscription the bridge's `stop` goes through; after a constructor that raised, one
publisher's is open at most, and after a relay's start that failed, not the receiver's. The refinement rests on two
invariants:

* `DataInv` says that each datagram in flight, each sample queued and each one shown was sent by its
  publication or by a stranger, that a stranger's datagrams are unsigned where signatures are
  required all the way, and that no number sent exceeds the publisher's last. `GenuineOnRoute` is
  its heart: a relay that signs makes nothing trusted that it did not verify.
* `OrderInv` says, where the network keeps the order, that what is shown was sent before what is
  queued, that before what the socket holds and that before what the relay has still to
  forward, each place being in order itself, and counting only datagrams that may come to be shown.
  A step moves the first datagram of one place behind the last of the next; the lemmas `Ordered...`
  say that this keeps the order, in terms of sequences and without the program.

`HandleMessage`, and `Stray` where strangers are believed, map to `Publish`, `Write` to `Show`, all
else to stuttering.

Of the listener (`ListenerProofs`), for any names, endpoints and ports, any number of descriptors and
any number of requests that sync at the same time:

| theorem | statement |
|---|---|
| `TypeCorrect` | `Spec => []TypeOK` |
| `HeldStaysOpen` | `Spec => []HeldIsOpen` |
| `ReceptionIsUndisturbed` | `Spec => Undisturbed` |
| `RegisteredIsHeard` | `Spec => []HeardWhenSaved` |
| `NothingStaysOpen` | `Spec => []NothingLeftOpen` |
| `DatagramsAreCountedOnce` | `Spec => []CountedOnce` |

The invariants describe the syncs that are suspended, whatever their number:

* `Bound`: what is held, or being opened by a task, is bound to its endpoint, and no descriptor is
  that of two. This is why a sync that resumes neither closes nor takes over another's socket.
* `Heard`: a registered endpoint is held, has failed, or is still to be visited by some sync. A sync
  that is overtaken by a change of the catalog keeps the endpoints it has still to visit, and the
  sync of that change visits the others.
* `Single` and `Current`, for behaviours in which no two syncs have overlapped: all that is open is
  held or being opened, and, if every save succeeded, registered.

Of the mirror (`StoreProofs`, second half), for any names, triples and clocks: `FollowerTypeCorrect`
(`FollowerSpec => []FollowerTypeOK`) and `TriplesStayUnique` (`FollowerSpec => []UniqueTriples`). `Merged` says that both what the follower holds and the file it may be
restarted from give each triple to one name; the second is needed because a restart takes over a
file that differs from what was held.

Of lookups (`LookupProofs`), for any clients, registries, cache files and any order of the registries:

| theorem | statement |
|---|---|
| `TypeCorrect` | `Spec => []TypeOK` |
| `NoServingRegistryIsMissed` | `Spec => []FailoverReaches` |
| `AnswersAreOwn` | `Spec => []OwnAnswer` |

`Reached` says that the registries a lookup has passed are not among those that could have served it
at every moment since it began. `Answers` says that what a cache file holds, if it is not empty, was
once answered to one of the clients at work that share the file, and so was what one has read from it.

Of the FX manager (`FxLinkProofs`), for any number of managers, servers, names and datasets, and in
every scenario of losses, cancellations, drops and refused closes:

| theorem | statement |
|---|---|
| `TypeCorrect` | `Spec => []TypeOK` |
| `NoPublisherIsOrphaned` | `Spec => []NoOrphanPublisher` |
| `ReturnedLinksAreUp` | `Spec => []LinkedMeansBoth` |
| `OnlyOwnConnectionsEnd` | `Spec => ClosesItsOwn` |
| `BothAreOperational` | `Spec => []WaitTellsTheTruth` |
| `UnlinkIsHonest` | `Spec => []UnlinkTellsTheTruth` |

The proofs see each of the two dozen actions of a manager as a move from one await to another
(`Moves`), which may leave a request behind, and treat the steps of servers and of the network
apart. `Ordered` says which requests can be on their way while their manager is where it is
(`Corresponds`), that only who has begun has a connection (`Begun`), and that the publisher of a
failing link is down, or its rollback is on its way, or was refused or lost and where it must be is in the
error (`Orphaned`); a manager has one rollback on its way at most (`RollsBackOnce`). `Upheld` adds `Kept`, that what a
manager was told is up still is, and `Closable`, that a request to close finds the manager's own
connection. The two hold each other up: a link stays up because no other manager's close meets it,
and a close meets only its own because that has stayed up. `Read` and `Dealt` follow what
`wait_operational` has read of one side while it reads the other, and what `unlink` has done with
one side while it closes the other.

Of the codec (`WireProofs`, `RoundTripProofs`), for any messages, receivers, keys and bounds, any frame
cut short or changed on its way, and a relay with any keys (to a second relay, what the first sends is
a message like any other):

| theorem | statement |
|---|---|
| `TypeCorrect` | `Spec => []TypeOK` |
| `OnlyTheVerified` | `Spec => []OnlyVerified` |
| `DecodesWhatWasSent` | `Spec => []RoundTrip` |
| `RelaysKeepTheData` | `Spec => []RelayKeeps` |

The first two rest on `Inv`, which has five parts. `Typed`: the records of encoder and decoder have
the fields and types of the data model. `Framed`: a datagram is cells whose values are those of their
kind, possibly before a signature by the sender's key over the cells that were sent; if these are the
cells before it, the datagram is whole. `Whole`: until it arrives, it is. `Progress`: the decoder is
within the datagram, has as many messages as were announced at most, and is in a field only if one is
left. `Trusted`: past the security header, what was required to be verified, or is marked so, was.
That an encoder makes cells, whatever it is given (`EncodeCells`), and that a section which takes the
kinds it wants gets values of their types (`GotAsWanted`, `InvField`), is most of the proof.

`RoundTrip` says of a frame of any length what its decoder makes of it. The proof has three parts:

* **Layout.** A frame, of hypernova (`OwnLayout`) or of another publisher (`ForeignLayout`), is a
  sequence of parts, one for each section of the decoder (`Body`, `Full`); each message and each
  field is a part of its own. Where the encoder joins its parts in one order and the decoder takes
  them in another, `BodyParts` and the lemmas `Group...` join them anew.
* **Sections.** If the part of a section comes next (`Upcoming`), what the section wants is exactly
  that part (`Suits`), cell by cell, although what it wants depends on flags, counts and lengths that
  it reads from the frame as it goes. If the frame ends inside the part, the section fails. One
  lemma per section (`GroupSuits`, `MessageSuits`, `FieldSuits`, ...).
* **Tracking.** `Followed` says of every state which parts have been taken and what the message holds
  by then (`Track`: for the n-th message and the k-th field, what `MessagesOf` and `FieldsOf` say), that
  the frame is the whole one until it arrives (`Laid`), and that the end is what is due (`Judged`). It
  is inductive relative to `Inv`. `WelcomeAccepted` and `CarriedMade` then say that the
  decoder's verdict and its result, put together section by section, are `Welcome` and `Carried`, which
  say what a frame is worth without speaking of frames.

This is an induction over the steps of the decoder, not over the frame; data of any length enter
through sequences built by their index. `FlattenSeq` and the sum of the widths are recursive
functions of the community modules. That they exist, and what their values are, is proved without
induction, from the least size of an argument at which they would fail (`SumsExist`, `JoinsExist`).

`RelayKeeps` follows from `RoundTrip` once it is known what a relay encodes. `Tidied` says that all that
was ever decoded, also from a damaged frame, is as a decoder makes it: a number fits 16 bits, a
keep-alive has no fields, a field without a value has the type of none, and one that came as a Variant
has neither status nor time. What is tidy is carried unchanged (`TidyMessageCarried`), but for the
number of a keep-alive.

The assumptions of all these are the constants' (`ListenerConstants`, `LookupConstants`, `FxConstants`,
`NoneIsNothing`, `WireConstants`, ...), which TLC evaluates on the values of every run.

Model-checked only are the liveness properties (`SyncsEnd`, `Converges`, `UnlinkSucceeds`, `SubFinds`,
`ShowsLast`), which are out of the prover's reach, as is `ENABLED`.

## 5. What is not modelled

Parts:

* `keys.py` (reads one file), `ui.py` (a constant page), `cli.py` but for the retries of `sub`, `fx unlink`
  and the wait of `fx link`: parsing and printing. `fx link` may also register the linked dataset,
  which is a `PUT` like any other.
* `fx.py`: reading self-descriptions (its failure is `LinkRejected`) and `registry_payload`: pure reading
  of nested nodes.
* Reading handlers of the service (health, metrics, list, lookup): they change nothing.
* Rates, last values and the undecodable count of a live state; the counters and the health page
  of relay and bridges: display only.
* Address parsing and option handling of `transport.py`: no state.
* The Java client but for `Registry.lookup`. Its codec differs from the Python one where it does
  less: it writes no keep-alives, ignores the field encoding of what it decoded, and does not check
  the number and the size of messages or the length of a key.

Simplifications, by module:

* `Store`, `Mirror`: attributes other than name, triple and dates are carried along.
* `Listener`: the clean-up hook cancels the mirror's task (`service.py` 146-153); that this may hit it in
  the middle of a sync, before the receivers are closed, is not modelled.
* `Lookup`: triple and fields of the coordinates are left out; a publisher's later renewals are
  requests like its first.
* `FxLink`: `WaitTellsTheTruth` and `LinkedMeansBoth` exclude scenarios in which servers end
  connections by themselves: no manager could know. Where managers contend they, and `ClosesItsOwn`,
  exclude a close that is lost, cancelled or refused by a server that keeps the connection as well
  (section 2).
* `Wire`: one scalar type of one byte and one of eight stand for all; a string is a cell with its
  length. The version nibble, a reserved message type and unknown publisher id types end in the
  same rejection and are not told apart. The reserved field encoding, which the code decodes as a
  DataValue (539-542), and the valid bit of a message, which it never reads, do not occur in a frame; nor do
  arrays of a length the code checks (475-479: a negative one is an empty list, more than 1 000 000
  elements are an error). A writer id out of range
  raises `struct.error` and not `WireError`; bytes after the last message are accepted; both are
  the code's behaviour and not compared with anything. A relay forwards a token as 1 and drops the
  sequence number of a keep-alive, which `RelayKeeps` excepts.
* `Pipeline`: one route (of several, one that fails to start leaves open the sockets of the earlier
  ones, receivers included); a DIP name occurs once in a configuration; a
  subscriber is not started a second time, which `client.py` 192 would not survive; a value stays
  shown when its publication falls silent, as in the code. A message whose value cannot be
  extracted uses up a number in the model: numbers there name the messages of DIP, while the code
  skips it before it takes one. A quality DIP does not define becomes good, as in the code, and is
  not told apart.

## 6. What is left

All components with state are modelled, and all their safety properties are proved. In this order:

1. `Lookup`: what a cache file holds is what one registry answered, as a refinement of a register that
   clients write whole.
2. A second mirror: a chain of followers, each the primary of the next. The merge is the same code; what
   is to be shown is that `UniqueTriples` needs nothing of the primary, which its proof suggests.
3. The parts of `cli.py` that call `fx.py`, if they come to hold more than the order of two calls.
