# A TLA+ development of effect-app-local-first

The repository is a TypeScript library for local-first applications: CRDTs, a
storage service, a synchronisation service, a message hub and a framework that binds
them. This directory models its components in TLA+, model-checks the models with TLC
and proves theorems about them with TLAPS. Paths below are relative to the repository,
so `src/src/Framework.ts` is the file `src/Framework.ts` of the package; F:, S:, T:
and H: stand for `Framework.ts`, `Sync.ts`, `Storage.ts` and `Hub.ts`.

## 1. Inventory

| Component | Source | State | Operations | What makes it hard |
|---|---|---|---|---|
| Vector clock | `Core.ts` `VectorClock` | immutable map node -> count | `empty`, `increment`, `compare` | `compare` answers 0 both for equal and for concurrent clocks |
| Synchronisation core | `Framework.ts` `setWithSync`, `applyOperations`, `performReconciliation`, `LocalFirstLive` | the `Ref` with the clock, the replica's storage, two background fibers | write and push, pull and apply, reconcile | every `yield*` on storage, the network or the scheduler lets another fiber run between a read and the write that depends on it; a lost push, a failed pull, a failed storage call, a restart |
| Collections | `Framework.ts`, eight classes | a CRDT per storage key | `get`, `add`, `put`, `remove`, ... | read-modify-write over asynchronous storage |
| CRDTs | `Core.ts` `GSet`, `PNCounter`, `LWWRegister`, `TwoPhaseSet`, `ORMap`, `OrderedSet`, `TombstoneSet`, `RGA` | immutable values | updates and `merge` | snapshots arrive late, twice and out of order; timestamps tie; positions are invented between neighbours |
| WebSocket transport | `Sync.ts` `WebSocketSyncLive` | `ws`, `reconnectAttempts`, three queues, listeners and timers | `connect`, `disconnect`, `push`, `pull`, `reconcile`, `partialSync` | one shared variable `ws` under callbacks of several sockets, timers and calls; late answers; a reconnect chain |
| Manual transport | `Sync.ts` `ManualSyncLive` | none | constants | - |
| Storage | `Storage.ts` memory, IndexedDB | a map; the listeners or the polling intervals of `watch` | `get`, `set`, `delete`, `clear`, `keys`, `watch`, `setWithModel`, ... | failing transactions; success reported before the commit; polls that overlap writes and one another |
| Hub | `Hub.ts` | a queue | `publish`, `publishAll`, their unsafe variants, `subscribe`, `size` | four strategies at a full queue; several subscribers of one queue; publishers and subscribers that are interrupted while they wait |
| Authorization | `Framework.ts` | none | `checkPermission` | a pure decision nobody calls |
| Errors, index, examples, Program | | none | | - |

How they interact: a collection operation reads the storage, applies a CRDT
operation, and calls `setWithSync`, which stores the value, increments the shared
clock and hands a `SyncOperation` to the transport. `LocalFirstLive` forks an
auto-sync fiber (pull everything, `applyOperations`, sleep, repeat) and a
reconciliation fiber (pull, `performReconciliation`, sleep, repeat). Both write the
same storage and the same clock as the callers, without a lock. `WebSocketSyncLive`
answers their requests over whatever socket `ws` holds, and what it hands over is
what `JSON.parse` returns. The hub stands by itself.

### What correctness means, per component

* Clock: `compare` decides a strict partial order; an increment is greater.
* Synchronisation core: no clock counts an event that did not happen; two operations
  never carry the same stamp; a push that arrives makes good for those that did not; a
  collection changes by calls of its own replica and by values the server holds; an
  element of a grow-only set does not disappear; readers end up with what the server
  holds; no fiber meets a missing method. The last three are not so (section 5).
* PNCounter: every update counts exactly once whatever happens to the snapshots.
* The set, map and register classes: a replica reads what the updates that have
  reached it leave, whatever the order of the snapshots.
* RGA: an element goes where it is asked to go, and replicas with the same elements
  show the same array.
* Transport: one reconnect chain that counts its attempts; a truthful status; a
  call that succeeds was processed by the server; every call ends.
* Storage: `watch` never goes back, misses nothing in memory and catches up in any
  case; an answer tells what became of the call; every call ends.
* Hub: a message is in one place at a time, is delivered in order, nobody waits in
  vain, the strategy alone decides what is dropped, and every message settles.

The places where these go wrong are listed with their lines under `hazards` in
`PROJECT.json`.

## 2. Modules

| Module | Models | Notes |
|---|---|---|
| `VectorClock` | `VectorClock` | clocks are total functions on `Node`; an absent entry reads as 0, as in `compare` and `increment` |
| `LocalFirst` | the synchronisation core with `GSetCollection.add` | the module everything else hangs on |
| `WriteBehind` | what a program can rely on of it | abstract; refined by `LocalFirst` |
| `MCLocalFirst` | instances for TLC | who writes where, on which storage and transport |
| `PNCounter`, `MCPNCounter` | `PNCounter` as a state-based CRDT | snapshots stay in a set: lost, repeated, reordered, relayed |
| `GSet`, `TwoPhaseSet`, `LWWRegister`, `OrderedSet`, `TombstoneSet`, `ORMap` | the classes of these names | values and their operations, no state |
| `Stamps` | what `LWWRegister`, `OrderedSet` and `TombstoneSet` share | the order of two stamped entries and the loop that merges two maps of them |
| `StateSets`, `MCStateSets` | replicas that share an object of one of these six classes | instantiates all six |
| `RGA`, `MCRGA` | `RGA` as a state-based CRDT | positions as the class makes and compares them |
| `WebSocketSync`, `MCWebSocketSync` | `WebSocketSyncLive` | sockets, callbacks, timers, calls |
| `Storage`, `MCStorage` | `MemoryStorageLive` and `IndexedDBLive` | clients, streams, the browser's database |
| `Hub`, `MCHub` | `makeHub` and its strategies | publishers, streams, effect's `Queue` |
| `LocalFirstProofs`, `CallerProofs`, `PNCounterProofs`, `StateSetsProofs`, `WebSocketSyncProofs`, `StorageProofs`, `HubProofs`, `RGAProofs` | proofs | see section 6 |

### LocalFirst

State: `store[r][k]` is the storage of replica r; `clock[r]` the Ref; `app[a]` the
control point of a caller of `add` and the operation it is building; `fiber[f]` the
control point of a background fiber (`f = <<replica, "auto" or "rec">>`), the
operations it has still to apply and, for a reconciliation, the parts of the answer
it has still to use. `log` and `serverClock` are the sync server, which is not in the
repository: it appends what is pushed and answers every pull with everything, because
the pull of the background fibers carries neither a cursor nor a clock.
`late` holds pushed operations whose call has given up on them and which may still
arrive. `stamps`, `rewound` and `defects` are ghosts: how many events each replica really
had, whose own count has gone back, and who raised a TypeError.

| Code | Actions |
|---|---|
| `GSetCollection.add`, `getOrCreateEmpty` | `AddRead`, `AddReadFails`, `AddDies` |
| `setWithSync` | `AddStore`, `AddStoreFails`, `AddIncrement`, `AddIncrementDies`, `AddSetClock`, `AddPush`, `AddPushNowhere`, `AddPushFails` |
| the auto-sync effect and `Effect.repeat` | `Pull`, `PullFails`, `ApplyDone` |
| `applyOperations` | `ApplySkip`, `ApplyDies` |
| `performReconciliation` | `RecRequest`, `PullFails`, `RecReply`, `RecEcho`, `RecFallback`, `RecResolve`, `RecConflict`, `WriteFails` |
| a new `LocalFirstLive` over the same storage | `Restart` |
| the server and the network | `RecReply`, `Arrive` |

*Atomicity.* JavaScript runs one piece of code at a time, so an action is what a
fiber does between two points where another may run. Storage on IndexedDB and every
network call are asynchronous. In memory they are not, but the Effect scheduler may
yield a fiber between any two effects (it does after a fixed number of operations), so
`Ref.get` and `Ref.set` in `setWithSync` are separate steps for both media.

*Configuration.* The constants are what `LocalFirstConfig` lets one choose, and nothing
else. `AutoSync` are the replicas with an `autoSyncInterval` and a `sync` other than
"manual": F:316-335 forks the auto-sync and the reconciliation fiber under one `if`, so
`Fiber` has both of a replica or neither. `Transport[r]` is what F:361-365 provides:
`WebSocketSyncLive` for `sync: "websocket"` with a `syncUrl`, `ManualSyncLive` otherwise,
also for a replica that forks the fibers (one with `sync: "websocket"` and no `syncUrl`).
`Medium[r]` is its storage.

*What an object loses.* A CRDT or a clock is an instance of a class. The structured
clone of IndexedDB and JSON keep its fields and drop its prototype, so `current.add`,
`clock.increment` or `vectorClock.compare` then throws. The field `methods` of `GSet`
and `VClock` says whether the class is still there. What `WebSocketSyncLive` hands over
comes from `JSON.parse`, so `ApplyDies` is what `applyOperations` does with every
operation of another replica: it throws at F:983. Lines 984 to 1002, which would store
the value and set the clock, are not reached over either transport and have no action.
(The "reconcile" operations of F:994-999 pass the same line 983.) Values of others
arrive through the conflicts of a reconciliation only, and clocks of others through its
resolved state.

*Faults.* `Faulty` names the calls that may fail, `MaxFaults` bounds how often.
Storage in memory does not fail, and neither does `ManualSyncLive`. A failed call takes
the path the code gives it: a failed push is swallowed, a failed pull ends
`Effect.repeat`, a failed read becomes an empty set, a reconciliation without answer
writes back the clock it began with. A push that has timed out, or whose process has
ended, may have been sent: `Arrive` may add it to the log later, behind its successors.

*What it implements.* `WriteBehind` has no clocks, fibers, transports or storage: each
replica shows a copy of each collection; a call reads it, or nothing where the read fails
(`Begin`), replaces it (`Keep`), and publishes what it has stored, once (`Publish`) or not
at all (`GiveUp`); a replica may take a published value over its own (`Adopt`) or start
again (`Restart`). `Behind` in `LocalFirst` is the refinement mapping and `WritesBehind`
says that the specification of `WriteBehind` holds of it. Its steps are weak because the
code is: a call may replace a larger copy, and a published value may be an old one. What
it rules out is everything else: a value stored by a pull or by a fiber that dies, a write
published before, without or in spite of its storage, twice, or under another call's
name, a copy mixed of two, a change of a copy by somebody else's call.

### PNCounter

Each replica updates its own copy, takes snapshots of it (`Send`) and merges any
snapshot ever taken, at any time and as often as it likes (`Receive`). A ghost `seen`
records which updates have reached a copy, so that "the same updates" can be said.

### The set, map and register classes

`StateSets` has the environment of `PNCounter`: `Add` and `Remove` call the class's own
operation on the copy of one replica, with `Date.now()` and the replica's identifier as
the collections of `Framework.ts` pass them, `Send` takes a snapshot and `Receive` merges
any snapshot ever taken. The framework itself never calls `merge`; a program that uses
the classes of `Core.ts` does. `class` is chosen by `Init` and stays. A call that returns
`this` changes nothing and is no update. A value is who wrote it when, so that two values
can be told apart. Elements, ids and keys do not meet in any operation (every loop is
entry by entry), so one `Id` is enough for TLC; a register has one anyway.

`ReadsWhatIsLeft` is the reference definition the classes are measured by: `Left` computes
from the set of updates, without any order of arrival, which add a reader must see. That
`TombstoneSet.merge` forgets elements and tombstones on the way must not show.

`Settled` is what the classes need to converge, stated as a guard on updates
(`TellsApart`). An `LWWRegister`, an `OrderedSet` and a `TombstoneSet` order two values by
time and replica, so one replica must not write one id twice in a millisecond, nor replace
a value in the millisecond it was written; an `ORMap` has no replica in its entries, so no
two updates of a key may fall in one millisecond at all.

All replicas share one time `now`: what clocks that disagree do is said in section 5.
`values()` is modelled as `Get` for every id; its order is left out.

### RGA

A position such as "0.2.5" is the sequence of its numbers, and `Before` the order
`localeCompare` gives the strings: the dot sorts before the digits, and numbers compare
as decimal strings, which is what `Rank` computes for numbers below 100. `NewPosition`
has the case distinctions of `generatePositionBetween`. A copy is a `Map`, modelled by
its entries in the order of insertion, since the stable sort of `toArray` shows that
order where positions are equal: `Place` says where the sort puts an entry, `EntryAt`
which entry it puts at a place. `InsertAt`, `RemoveAt`, `Send` and `Receive` are the
environment of the other CRDTs; `append` is `InsertAt` at the end. The elements a replica
may hold at the start are appended by the same code.
`HasRoom` in `InsertsWhereAsked` says between which neighbours the code can find a
position at all; the cases it excludes are in section 5.

### WebSocketSync

`socket[s]` is the ready state of each socket ever made; `ws` the shared variable;
`reconnects` counts pending reconnect timers; `call[c]` is the control point of a call,
`timers` and `listeners` what it has registered; `toServer` and `toClient` are the
messages under way on a socket. `again` is a ghost: the holder of the service called
`connect` once more.

The four calls are one piece of code written four times: check that the socket is
open, announce "syncing" (not for `pull`), send and register a timeout and a listener
in one synchronous block, end on an answer or on the timeout. `Kind[c]` chooses which,
and the operators differ only where the copies do: `Check` (the status) and `Answers`
(`pull` and `reconcile` compare an id, `push` and `partialSync` take any answer of
their type). The map points different actions to different copies.
`Closes` and the listener are as the code has them: a close asked for by `disconnect`
starts the reconnect chain like any other, and a listener removes itself from the
socket `ws` holds *by now*, after clearing its timeout.

Left out: `operationQueue` and `conflictQueue`, which take every message and which
nothing in the repository drains, and the delays of timers (any timer may fire at any
time, which allows every order the delays allow).

### Storage

`Init` chooses the layer. In memory an operation is one synchronous step (`CallMemory`)
that changes the map and, for the three writes, calls the listeners of the key. For
IndexedDB, `CallIndexedDB` and `Poll` request a transaction; the database, which is the
browser's and not in the repository, runs them in the order of the requests (`Succeeds`,
`Fails`), and commits or aborts a write after having announced its success (`Commit`,
`Abort`). `Release` is the end of the layer's scope, `db.close()`. A stream of `watch` is a
listener in memory and an interval of polls in IndexedDB; both put values into a buffer
the program takes from (`Deliver`).
Values are told apart by the write that stored them and by their form: an object, the
bytes of its JSON (`setWithModel`), or other bytes (`setRaw`). `floor` (what was committed
when a read was requested), `since`, `last` and `lost` are ghosts.

### Hub

One `queue`, whatever the strategy, and all streams of `subscribe` take from it: a
message reaches one of them. `takers` are the streams that wait at an empty queue and
`putters` the messages of publishers suspended at a full one, each in the order they
came; this is effect's `Queue`, which is not in the repository. `Publish(p, n)` is
`publish` for n = 1 and `publishAll` otherwise; with `Nobody` for p it is an unsafe
variant, which does not wait. A stream takes all there is as one chunk (`TakeUpTo`), waits
for one message otherwise (`Take`), and hands the messages to the program one by one
(`Handle`). `Interrupt` and `Stop` end a suspended publisher and a stream in any of its
states. `dropped` and `abandoned` are ghosts: what the strategy dropped, and what was in
the hands of a fiber that ended.

## 3. Runs

| Run | Configuration | What it shows |
|---|---|---|
| `LocalFirst_network` | two replicas in memory that write one collection over WebSocket (three calls of `add`), one of them with both fibers; two failures among pushes, pulls and reconciliations; pushes that arrive late; under `FairSpec` | `UniqueStamps`, `PushTellsAll`, `FibersRepeat` |
| `LocalFirst_storage` | a replica on IndexedDB and WebSocket beside one in memory on `ManualSyncLive`, both with both fibers; every answer a server may give (with or without operations, resolved state, conflict); one failing request or storage call, one restart, three calls of `add` | `TypeOK`, `ClockNeverAhead`, `WritesBehind`, also where calls and fibers die in the middle |
| `LocalFirst_lost_element` | two callers of one replica on IndexedDB, no fibers, nothing fails | finding: `GrowOnly` is violated |
| `LocalFirst_json_stops` | one writer and one reader, both with both fibers, nothing fails, under `FairSpec` | finding: `ReadersConverge` is violated |
| `PNCounter` | three replicas, two updates each, three snapshots, symmetric | `TypeOK`, `OwnerAhead`, `CountedOnce`, `SameUpdatesSameState`, `NeverForgets` |
| `StateSets` | each of the six classes, three replicas, three updates of one id within three milliseconds, three snapshots | `TypeOK`, `ReadsWhatIsLeft` |
| `RGA` | two replicas that start with none or two elements, four updates, two snapshots | `TypeOK`, `InsertsWhereAsked`, and `SameArrayWithoutTies`: what the finding below it leaves of convergence |
| `RGA_diverges` | two replicas append to an empty array each | finding: `SameElementsSameArray` is violated |
| `WebSocketSync` | three sockets, two reconciliations, `connect` and `disconnect` called at any time, one reconnect attempt, under `FairSpec` | `TypeOK`, `OneChain`, `StatusTruthful`, `AnsweredMeansProcessed`, `CallsEnd` |
| `WebSocketSync_any_ack` | two pushes | finding: `PushedMeansProcessed` is violated |
| `Storage` | both layers, two keys, two clients with two calls, one stream, one failure or end of the scope, two polls under way, under `FairSpec` | `TypeOK`, `WatchInOrder`, `WatchTruthful`, `AnswerTellsOutcome`, `WatchCatchesUp`, `CallsEnd` |
| `Hub` | five strategies (unbounded, sliding and dropping with capacity 2, backpressure with 1 and 2), two publishers and a caller of the unsafe variants, two subscribers, five messages in batches of up to three, two interrupts, under `FairSpec` | `TypeOK`, `OnePlace`, `InOrder`, `NobodyWaitsInVain`, `DropsByStrategy`, `EveryMessageSettles` |

Every property of a passing run is broken by a mutant of the definition that carries
it (`mutants` in `PROJECT.json`): the operator stands right before the original and
changes it as a plausible slip would.

### Bounds

* Two replicas in `LocalFirst`: a fiber tells its own operations from foreign ones, whoever
  made them, so a third replica adds no case; the theorems hold for any number. Three replicas in `PNCounter` and `StateSets`, because relaying a
  snapshot through a third is what the merges have to survive; two in `RGA`, whose
  `merge` only adds entries and whose state space is far larger.
* One collection in `LocalFirst`: no step reads one collection to write another; what
  collections share is the clock, and the theorems hold for any number of them. Two keys in
  `Storage`, so that a stream can hear of another key's write.
* Three adds, two on one replica: the second `add` is the one that meets a lost push, a
  clock written back, a resolved clock without its class, or an IndexedDB value without
  its class; the third is the other replica's.
* One restart, one or two failures: each failure path is taken, and in
  `LocalFirst_network` the second failure can hit what follows the first.
* Three sockets are the first one, its reconnect and one from `connect`; `MaxAttempts = 1`
  (5 in the code) reaches the limit within them. The proofs hold for any limit.
* Two calls and one failure in `Storage` let a write be overwritten, deleted, lost or
  refused while a poll or a read is queued before or behind it.
* A batch of three is larger than the room and larger than the hub in `Hub`; five messages
  let a suspended batch drain through a hub while another publisher waits behind it. A
  chunk of two (4096 in effect) is the least that holds several messages.
* Four updates in `RGA` let two replicas build two neighbours each, exchange them, and
  insert between what came from both sides.
* `MaxAdds`, `MaxFaults`, `MaxRestarts`, `MaxTime`, `MaxSent`, `MaxUpdates`,
  `MaxCalls`, `MaxPolls`, `MaxMessages`, `MaxBatch` and `MaxStops` are all the bounds there
  are, and each stands in a guard.

Deadlock is not checked where the model may stop: nobody has to call `add` or `publish`,
a stopped fiber stays stopped, sockets run out, and bounded environments end.

## 4. Fairness

* `LocalFirst!FairSpec`: a call of `add` that has begun goes on (the runtime schedules
  every runnable fiber), and a background fiber that has not died takes its next step
  (`Schedule.spaced` runs it again and again). A fiber that waits for the answer to a
  reconciliation gets one or falls back when its timeout fires (S:371), so the fallback
  stands in the fairness beside the answer. Nobody has to call `add`; nothing has to fail or
  to restart; a push under way need not arrive. `FibersRepeat` rests on it; in
  `LocalFirst_network` failures are bounded, so an answer comes in the end.
* `WebSocketSync!FairSpec`: a call that has begun goes on and its timer fires. Nothing
  is asked of sockets or of the server, so `CallsEnd` does not rest on answers.
* `Storage!FairSpec`: the database runs the next transaction and ends the one it has run
  (well or badly), an interval fires again, and the program that consumes a stream takes
  its next value. Nobody has to call the service or to watch.
* `Hub!FairSpec`: a stream that runs takes, and handles what it has taken. Nobody has to
  publish or to subscribe, so `EveryMessageSettles` speaks of behaviours in which somebody
  listens for good.
* Conditions stand in the properties, not in the fairness: `FibersRepeat` speaks of
  behaviours in which the server holds nothing of another replica (over WebSocket) and no
  call of the fiber fails, `ReadersConverge` of those without failures of a fiber,
  `WebSocketSync!CallsEnd` of those in which `connect` is not called again.

## 5. Where code and documentation part

Four disagreements have a run each and are listed under `findings`. The following were
seen in the same models with other constants; each can be reproduced by changing the
named configuration.

Synchronisation core:

* Operations of other replicas (`LocalFirst_json_stops`): the first one that a fiber sees
  kills it at F:983. Both fibers share this fate, and nothing starts them again, so over
  the transports of the repository a replica never stores what another one has written,
  unless the server reports it as a conflict.
* Two callers of one replica (`LocalFirst_lost_element`): the second of two calls that have
  read the same set takes the first one's element away.
* A failed read (`LocalFirst_storage` with `GrowOnly`): `getOrCreateEmpty` (F:377) takes
  every failure of `storage.get` for an absent collection, and the `add` stores the new
  element over the full set. `Begin` of `WriteBehind` allows for it.
* A second `add` on IndexedDB (`AddDies`): the stored set comes back without its class
  (T:228), and `current.add` throws. `src/src/Storage.ts:172` says that this layer
  "persists data in the browser's IndexedDB".
* A resolved state (`AddIncrementDies`): F:1049 puts the parsed clock into the Ref, and the
  next `add` dies at F:396, after it has stored its value and before it pushes it. It stays
  like that until a restart, or until an older clock is written back.
* A clock written back: the clock read before a reconciliation (F:1021) becomes its resolved
  state when no answer comes, and is the one `ManualSyncLive` answers with (F:1049). Writes
  stamped meanwhile are forgotten, and the next `add` takes their stamps again.
  A restart does the same, since the Ref is not persisted (F:309). `rewound` records whom it
  has happened to, and `UniqueStamps` excuses them, and only them.
* Two callers of one replica, `UniqueStamps` and `PushTellsAll` (`LocalFirst_network` with
  `Host <- AllOnA`): both read the same clock (F:395), and a push tells only of what its own
  call had read.
* Failed pulls: one failed pull ends auto-sync, or reconciliation, for good, for
  `Effect.repeat` does not go on after a failure.
* A write while offline: "Fail silently for offline" (`src/src/Framework.ts:409`) drops the
  operation. `PushTellsAll` says what makes good for it, the next push of that collection;
  when there is none the server is never told.
* A conflict overwrites the local value (F:1055, F:1063), whatever was added since the
  request, also for "merge".

CRDTs:

* `StateSets` with `Settled = FALSE` (`ReadsWhatIsLeft`): `ORMap.merge` keeps its own entry
  when the other is equally late (`src/src/Core.ts:1135`), so two replicas that put a key
  in one millisecond and exchange snapshots keep different values for good; `LWWRegister`,
  `OrderedSet` and `TombstoneSet` do the same with two values one replica wrote in one
  millisecond.
* An `ORMap` removal hides every put that is not later, observed or not. "a key can only be
  removed after it has been observed by all replicas" (`src/src/Core.ts:1044`) describes
  another map; `Left` says what this one does.
* `LWWRegister` where clocks disagree (not in the model, whose replicas share one time): a
  replica whose clock is behind replaces a value by one with a smaller timestamp, and a
  merge brings the older value back; "always choosing the value with the most recent
  timestamp" (`src/src/Core.ts:64`) holds for the timestamps, not for the writes.
* A `PNCounter` that loses its map and keeps its `replicaId` counts from zero under maxima
  others hold, and `OwnerAhead` fails at once: the class needs storage that outlives it.
* `RGA` (`InsertsWhereAsked` freed of `HasRoom`): `insertAt(0)` into an array whose only
  element has position "0.0" gets "0.0" too and lands behind it; after ten appends "0.10"
  sorts before "0.2"; what is inserted between "0.0" and "0.0.0" lands behind both. An
  element that was removed leaves no trace, so the next merge brings it back. Ids are
  taken to be unique, while the code draws them from 46656 per millisecond.

Transport:

* `WebSocketSync` with `disconnect`: the connection comes back by itself. With `connect`
  and then `disconnect`: the listener of a call on the replaced socket throws on
  `ws = null` after clearing its timeout, and the call never ends. This is what the
  condition of `CallsEnd` excludes.
* `WebSocketSync` with `connect` called again: the old socket lives on with its own
  reconnects, so there are two chains, and the status mixes both. This is what the
  condition `~again` of `OneChain` and `StatusTruthful` excludes.

Storage:

* A write on IndexedDB is reported when its request succeeds, before the commit, and
  nobody listens to `onabort` (T:207): a write that was reported may be lost. `lost` in
  `AnswerTellsOutcome` stands for this case.
* The memory layer tells its listeners of writes only: after a `delete` or a `clear` the
  stream still shows the old value.
* `get` after `setWithModel` returns the bytes, and `getWithModel` of bytes that are no
  JSON dies, for `deserialize` throws inside `Effect.map`. `setRaw` is modelled with such
  bytes only.
* After `db.close()` a call dies, and a stream fails with a `FiberFailure` cast to
  `StorageError`.

Hub:

* Subscribers compete: each message reaches one of them (`OnePlace`). The diagram of
  `src/ARCHITECTURE.md:86` and "Third message for all subscribers"
  (`src/src/examples/HubExample.ts:22`) tell of a broadcast.
* `subscriberCount()` is always 0 ("Get the current subscriber count"), and `size()` is
  negative while subscribers wait (`NobodyWaitsInVain` says what it tells).
* `unsafePublish` at a full backpressure hub throws, though its message stays queued; a
  dropping hub gives its publisher no word of the loss; and there is no operation that
  shuts a hub down, so a publisher suspended at a hub nobody reads waits for good.

## 6. Proofs

All proofs hold for every value of the constants under the named assumptions, which
TLC evaluates in every run. The bounds may be any numbers. Every invariant and every
action property that a passing run checks is a theorem, the refinement included; what is
left to TLC is liveness. Most assumptions say what kind of thing a constant is. The others:
`None`, `Failure` and `Nobody` are no values of the program; an actor of `Storage` is a
client or a stream, and there is a key (`KeyAssumption`); finitely many replicas share a
`PNCounter` (`ReplicaAssumption`: its value is a sum over a finite `Map`). Two theorems of
`CallerProofs` have a hypothesis of their own, `OneCaller`.

* `LocalFirstProofs`, about clocks: `CompareIsBefore` (the one loop that computes two flags
  decides "smaller everywhere and different"), `CompareAntisymmetric`, `CompareTransitive`,
  `CompareZero` (0 is equal *or concurrent*), `IncrementIsGreater`. The last ones are
  what a reader of `applyOperations` needs to know. About the core: `TypeCorrect`
  (`Spec => []TypeOK`) and `NeverAhead`
  (`Spec => []ClockNeverAhead`). `TypeOK` is inductive because it says at which control
  points which data is there. `ClockNeverAhead` is inductive together with `TypeOK` and
  because it also speaks of every copy: the operation of a call that has read the clock
  and not written it, pulled lists, the clock a reconciliation waits with, and the
  server's. Lemmas say that storage and JSON change no timestamps and that counted clocks stay counted when an event is added; there is one
  lemma for each group of actions.
* `CallerProofs`, what a program that calls `add` can rely on, with both background fibers,
  either transport and medium, and any failures, answers and restarts.
  `ImplementsWriteBehind` (`Spec => WritesBehind`) holds for any number of callers on a
  replica; the run has one on each. `Init` maps to `Init`, and under `BehindInv` each
  step to a step of `WriteBehind` or to a stutter (clocks, pulls, requests, answers, dying
  fibers). `BehindInv` joins to `TypeOK` that an operation is named after the call that makes
  it and a call under way has nothing on its way yet (`Named`, without which a late
  arrival could be taken for a second publication), that late operations are of different
  calls (`LateOnce`: the mapping drops clocks, and must not make one write of two), and
  that a conflict a fiber holds is of a value the server has (`ConflictsAreLogged`).
  `StampsAreUnique` and `PushesTellAll` assume `OneCaller`, at most one caller on each
  replica; section 5 says what two of them do. `UniqueStamps` is not inductive: `StampInv`
  adds `CountsOwn` (every clock that an operation carries counts one replica only,
  for a clock that has learned of others has come through JSON and cannot be
  incremented), `PullsCarryNothing` (only a reconciliation carries a clock), and `Fresh(r)` for
  a replica that is not rewound: its Ref is up to date unless its caller is about to set it,
  what a reconciliation would write back is older, and what it has published, might still
  publish and is about to publish has different counts. For `PushTellsAll`,
  `ToldInv` adds `ShowsTold` to `BehindInv`: while a call is on its way from the storage to
  the server, its replica shows nothing that is neither in its operation nor known to the
  server, for only conflicts write in between, and they bring what the server holds.
* `PNCounterProofs`: `MergeSemilattice` (commutative, associative, idempotent),
  `TypeCorrect`, `OwnerAlwaysAhead` and `CountsNeverForgotten`. `OwnerAhead` is inductive
  with `TypeOK` because a merge takes entry-wise maxima of bounded entries and only the
  owner raises its own. `SameUpdatesConverge` is strong eventual consistency. Its inductive
  invariant, `HistoryInv`, says that what a copy knows of one replica is always a stage of
  that replica's own history (`OneHistory`: of two stages, the one with more updates has
  the higher counts), that the owner knows its whole history, and that updates are numbered.
  `MergedStages` is the heart of it: for each replica, a merge knows what the more advanced
  of the two copies knew, so no copy ever holds a mixture that nobody has been in.
  `EachCountedOnce` (`Spec => []CountedOnce`) goes on from there: `StageSums` says that the
  amounts of the updates of one replica that a copy has seen add up to that replica's
  entries in it, and a sum over all updates is the sum of these sums. The lemmas
  `SumEmpty`, `SumStep` and `SumUnion` are the theory of sums over finite sets it rests on.
* `StateSetsProofs`: `TypeCorrect`, from a lemma for each operation that it returns an object
  of its class, and `ObjectStays`, that one stays an object as time goes on (no entry is
  ever of the future). `Converges`, which is `Settled => (Spec => []ReadsWhatIsLeft)`, strong
  eventual consistency of the six classes. `ReadsWhatIsLeft` is not inductive, since it says
  nothing of a purged entry, a hidden one, or a snapshot on its way. `Reflects(x, S)` says
  for each class what an object x that S has reached must still know: in a `TombstoneSet`,
  that a missing element or tombstone has been outlived by the other one. `MergedReflects`
  (no condition on times), `AddedReflects` (where `Settled` enters) and `RemovedReflects`
  preserve it, and `ReadsFollow` derives what is read; only for an `ORMap` does reading also
  need that no two updates of a key share a millisecond.
* `WebSocketSyncProofs`: `TypeCorrect`; `ReconnectsInOneChain` and `StatusIsTruthful`, from
  `ChainInv`; `AnswersMeanWork` (`Spec => []AnsweredMeansProcessed`), from
  `AnswersAreEarned`. `OneChain` alone is not inductive: a pending timer must still have an
  attempt to use, or firing it would exceed the limit; and `ws` must never hold an unmade
  socket. `AnsweredMeansProcessed` needs that every answer under way is of a request the
  server has processed.
* `StorageProofs`, for both layers and any number of keys, clients, streams, transactions
  under way, overlapping polls, failures and aborts: `TypeCorrect`, `NeverBack`
  (`WatchInOrder`), `NothingUntold` (`WatchTruthful`) and `OutcomeStands`
  (`AnswerTellsOutcome`). None of the three is inductive: what a stream will hear depends on
  what is stored, on what an abort would restore, and on the writes queued in front of its
  polls. The idea of `Inv` is that versions are times. Writes run in the order of their
  calls (`InTurn`); what is stored, and what an abort restores, is older than every write
  still to run (`StoredPast`, `UndoOlder`); and `Covered(x, k)` says that no reader of k can
  come to see anything older than x. `AllSound` has it for the floor of every read
  requested, `HeardCovered` for everything a stream has heard, and `AnswersStand` says of
  each answered write whether its key keeps it (`Kept`) or never sees it (`Gone`), also when
  the transaction behind it is undone. `OneEach` (one transaction for each waiting fiber)
  is the first-order form of the last conjunct of `TypeOK`, which counts them.
* `RGAProofs`, for any number of replicas, updates and snapshots, and positions of any
  length: `TypeCorrect`, `GoesWhereAsked` (`InsertsWhereAsked`) and `OrderedByPosition`
  (`SameArrayWithoutTies`). Four layers of lemmas carry them. (1) `Before` is a strict total
  order (`BeforeTransitive`, `BeforeTotal`, from `RankInjective`). (2) `NewPositionBetween`:
  under `HasRoom` the position made is strictly between its neighbours; one lemma for each
  of `PositionBefore`, `PositionAfter`, `PositionBetween`. (3) What sorting does: `Place` is
  a bijection (`ChainPlaces`, by a pigeonhole argument), an appended entry moves the places
  behind it by one (`AppendedPlaces`), so `InsertedAtIndex`; and `SameElementsSort`, that
  Maps with the same entries and no ties sort alike. (4) The state: `Inv` adds to `TypeOK`
  that no id in a copy or a snapshot has a number its replica has still to give
  (`IdsUsed`), and that one id is one element wherever it is held (`OneElementPerId`),
  which is why the timestamps that `merge` compares decide nothing. `MergedEntries` says
  what a merge holds. The array at the start is the recursive function `Grown`, whose
  existence is proved (`GrownExists`).
* `HubProofs`, for every capacity, number of publishers, subscribers and messages, and every
  size of chunks and batches: `TypeCorrect`, `FirstInFirstOut`, `NoLostWakeup`,
  `DropsAreByStrategy`, `NothingLostNothingTwice`. None of the properties is inductive alone;
  `Inv` joins `TypeOK`, `Fits` (the queue never exceeds its capacity), `FullFirst` (a
  publisher waits only at a full queue, under backpressure), `Once` (no subscriber is twice
  in line), that subscribers wait only at an empty backlog, `SubscribersWait` and
  `PublishersWait` (who is in line waits, and nobody else), and `Ordered`. Two lemmas carry the
  proof: `Joins`, what a call adds to the backlog under each strategy, and `TakesBacklog`,
  that what is taken is the front of the backlog and the rest stays as it is, although
  suspended publishers move from one of its parts to the other. Without that, `InOrder`
  cannot be kept. `OneHolder` states `OnePlace` by disjoint sets instead of cardinalities;
  it is preserved together with `Ordered`, which says that no message is twice in a sequence.

Where a proof needs an induction, over a finite set (sums) or over numbers (`Grown`,
places), it takes the smallest counterexample instead: the library's induction theorems
have an operator as a parameter, and the existence of a least element does not.

Only model-checked: liveness (`FibersRepeat` of `LocalFirst`,
`CallsEnd` of `WebSocketSync` and of `Storage`, `WatchCatchesUp`, `EveryMessageSettles`),
because it rests on fairness, whose ENABLED the provers do not handle; and the four
findings, which are counterexamples.

## 7. Not modelled, and the plan

Not modelled for good: the constant streams of `ManualSyncLive`, errors, index, examples and
`Program.ts` (no behaviour of their own), `query` and `subscriberCount` (constants),
logging, codes and messages of errors; `operationQueue` and `conflictQueue` (nothing takes
from them).

Not modelled yet:

1. The other collections: the read-modify-write of `LocalFirst` with the operation of the
   CRDT in the middle as a parameter; `GSetCollection.has` and `values`; the order of
   `values()` of `OrderedSet` and `TombstoneSet`, which for equal timestamp and replica is
   the order of insertion.
2. The composition of `LocalFirst` with `WebSocketSync` through the contract
   `AnsweredMeansProcessed`.
3. `checkPermission` as an operator, against a reference definition.
