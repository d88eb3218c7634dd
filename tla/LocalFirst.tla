----------------------------- MODULE LocalFirst -----------------------------
(***************************************************************************)
(* The synchronisation core of src/src/Framework.ts: replicas that write a *)
(* GSetCollection, stamp each write with the framework's vector clock and  *)
(* push it (setWithSync), and that pull, apply and reconcile the writes of *)
(* the others in two background fibers (LocalFirstLive, applyOperations,   *)
(* performReconciliation), over one of the two transports LocalFirstLive   *)
(* provides: WebSocketSyncLive or ManualSyncLive.                          *)
(*                                                                         *)
(* The sync server is not in the repository.  It is modelled as the client *)
(* uses it: an append-only log; every pull answers with the whole log      *)
(* because the request carries neither a cursor nor a clock.               *)
(*                                                                         *)
(* A step is what one fiber does between two points at which the Effect    *)
(* runtime may run another: asynchronous storage and network calls, and    *)
(* the scheduler's own yields.                                             *)
(***************************************************************************)
EXTENDS VectorClock, Sequences, FiniteSets

CONSTANTS
  Replica,      \* the configured replicaIds
  Key,          \* names of the collections
  App,          \* callers of GSetCollection.add, one call at a time each
  Host,         \* the replica each caller runs on
  AutoSync,     \* replicas with an autoSyncInterval and a config.sync other than
                \* "manual": each forks both background fibers
  Transport,    \* Transport[r]: "websocket" with config.sync = "websocket" and a
                \* syncUrl, "manual" otherwise, whatever AutoSync is
  Medium,       \* Medium[r]: config.storage of r, "memory" or "indexeddb"
  Faulty,       \* what may fail: "push", "pull", "reconcile", where there is a
                \* network, and "storage", where it is not a Map in memory
  Restartable,  \* replicas whose process may end and start again
  None,         \* an absent value (JavaScript's undefined)
  MaxAdds,      \* MaxAdds[a], bound: calls of a
  MaxFaults,    \* bound: failures
  MaxRestarts   \* bound: restarts

ASSUME NodeAssumption == Node = Replica
ASSUME HostAssumption == Host \in [App -> Replica]
ASSUME ConfigAssumption == /\ AutoSync \subseteq Replica
                           /\ Transport \in [Replica -> {"websocket", "manual"}]
                           /\ Medium \in [Replica -> {"memory", "indexeddb"}]
                           /\ Faulty \subseteq {"push", "pull", "storage", "reconcile"}
                           /\ Restartable \subseteq Replica
ASSUME BoundAssumption == MaxAdds \in [App -> Nat] /\ {MaxFaults, MaxRestarts} \subseteq Nat

-----------------------------------------------------------------------------
(* Data.  "methods" tells an instance of the class from a plain object with *)
(* the same fields, on which calling add, compare or increment throws.      *)

Element == App \X Nat   \* <<a, n>>: what the n-th call of a adds, and its operation's id

GSet == [elements : SUBSET Element, methods : BOOLEAN]

EmptyGSet == [elements |-> {}, methods |-> TRUE]

VClock == [timestamps : Clock, methods : BOOLEAN]

EmptyVClock == [timestamps |-> Empty, methods |-> TRUE]

\* A "set" operation, the only type that is ever made.
Operation == [id : Element, key : Key, value : GSet, vectorClock : VClock,
              replicaId : Replica]

\* The part of a reported conflict that is used: "server" and "merge" both take
\* the server's value, and "client" keeps ours as if there were no conflict.
Conflict == [key : Key, serverValue : GSet]

ASSUME NoneAssumption == None \notin GSet \cup VClock \cup Operation \cup Conflict

\* "auto" pulls and applies, "rec" reconciles; both are forked, or neither.
Fiber == AutoSync \X {"auto", "rec"}

\* The elements of a stored value; an absent collection has none.
Elements(v) == IF v = None THEN {} ELSE v.elements

\* JSON and the structured clone keep the fields and drop the prototype.
Plain(x) == [x EXCEPT !.methods = FALSE]

\* The value a storage.get on r returns after storage.set(v).
Stored(r, v) == IF Medium[r] = "indexeddb" THEN Plain(v) ELSE v

\* What JSON.parse makes of an operation.
Parsed(op) == [op EXCEPT !.value = Plain(@), !.vectorClock = Plain(@)]

-----------------------------------------------------------------------------
VARIABLES
  store,       \* store[r][k]: the StorageService of replica r
  clock,       \* clock[r]: the Ref localFirst.vectorClock
  app,         \* app[a]: the control point of caller a, the operation its call
               \* builds, and the number of its calls
  fiber,       \* fiber[f]: the control point of a background fiber, the
               \* operations it has to apply, and for a reconciliation the
               \* resolvedState and the conflict of its response
  log,         \* external: the operations the server has accepted
  serverClock, \* external: the join of their clocks
  late,        \* external: pushed operations nobody waits for any longer
  stamps,      \* ghost: stamps[r] counts the increments made by r
  rewound,     \* ghost: replicas whose own count has gone back
  defects,     \* ghost: the callers and fibers that raised a TypeError
  faults,      \* failures so far
  restarts     \* restarts so far

serverVars == <<log, serverClock, late>>
ghostVars  == <<stamps, rewound, defects>>
envVars    == <<faults, restarts>>
vars == <<store, clock, app, fiber, serverVars, ghostVars, envVars>>

\* The operation a call builds, before its clock is there.
NewOp(id, k, v, r) ==
  [id |-> id, key |-> k, value |-> v, vectorClock |-> EmptyVClock, replicaId |-> r]

Idle(calls) == [pc |-> "idle", op |-> None, calls |-> calls]

NewFiber == [pc |-> "idle", ops |-> <<>>, resolved |-> None, conflict |-> None]

StoppedFiber == [NewFiber EXCEPT !.pc = "stopped"]

Init ==
  /\ store = [r \in Replica |-> [k \in Key |-> None]]
  /\ clock = [r \in Replica |-> EmptyVClock]
  /\ app = [a \in App |-> Idle(0)]
  /\ fiber = [f \in Fiber |-> NewFiber]
  /\ log = <<>>
  /\ serverClock = Empty
  /\ late = {}
  /\ stamps = Empty
  /\ rewound = {}
  /\ defects = {}
  /\ faults = 0
  /\ restarts = 0

\* One more failure of the given kind, while the bound allows it.
Fault(kind) == /\ kind \in Faulty /\ faults < MaxFaults
               /\ faults' = faults + 1 /\ UNCHANGED restarts

StorageFault(r) == Medium[r] = "indexeddb" /\ Fault("storage")

NetworkFault(r, call) == Transport[r] = "websocket" /\ Fault(call)

-----------------------------------------------------------------------------
(* GSetCollection.add: storage.get, GSet.add, then setWithSync.             *)

\* A call adds its element to the current set and goes on to store the result.
AddTo(a, k, current) ==
  LET e == <<a, app[a].calls + 1>>
      updated == [current EXCEPT !.elements = @ \cup {e}]
  IN /\ app[a].pc = "idle" /\ app[a].calls < MaxAdds[a]
     /\ app' = [app EXCEPT ![a] = [pc |-> "store", calls |-> @.calls + 1,
                                   op |-> NewOp(e, k, updated, Host[a])]]
     /\ UNCHANGED <<store, clock, fiber, serverVars, ghostVars>>

\* "Key not found" is a failure of storage.get, and getOrCreateEmpty turns it
\* into an empty set.
AddRead(a, k) ==
  LET v == store[Host[a]][k]
      current == IF v = None THEN EmptyGSet ELSE v
  IN current.methods /\ AddTo(a, k, current) /\ UNCHANGED envVars

\* It does so with every other failure, too: the set seems to be empty.
AddReadFails(a, k) == StorageFault(Host[a]) /\ AddTo(a, k, EmptyGSet)

\* current.add is not a function: the stored value has lost its class.
AddDies(a, k) ==
  /\ app[a].pc = "idle" /\ app[a].calls < MaxAdds[a]
  /\ store[Host[a]][k] # None /\ ~store[Host[a]][k].methods
  /\ app' = [app EXCEPT ![a].calls = @ + 1]
  /\ defects' = defects \cup {a}
  /\ UNCHANGED <<store, clock, fiber, serverVars, stamps, rewound, envVars>>

AddStore(a) ==
  LET op == app[a].op
  IN /\ app[a].pc = "store"
     /\ store' = [store EXCEPT ![Host[a]][op.key] = Stored(Host[a], op.value)]
     /\ app' = [app EXCEPT ![a].pc = "increment"]
     /\ UNCHANGED <<clock, fiber, serverVars, ghostVars, envVars>>

\* Mutant of AddStoreFails: the error is swallowed, as that of a push is.
AddStoreFailsUnheard(a) ==
  /\ app[a].pc = "store" /\ StorageFault(Host[a])
  /\ app' = [app EXCEPT ![a].pc = "increment"]
  /\ UNCHANGED <<store, clock, fiber, serverVars, ghostVars>>

\* storage.set fails: the error reaches the caller, nothing is stamped.
AddStoreFails(a) ==
  /\ app[a].pc = "store" /\ StorageFault(Host[a])
  /\ app' = [app EXCEPT ![a] = Idle(@.calls)]
  /\ UNCHANGED <<store, clock, fiber, serverVars, ghostVars>>

\* Ref.get and clock.increment.
AddIncrement(a) ==
  LET r == Host[a]
      newClock == [timestamps |-> Increment(clock[r].timestamps, r), methods |-> TRUE]
  IN /\ app[a].pc = "increment" /\ clock[r].methods
     /\ app' = [app EXCEPT ![a].pc = "setclock", ![a].op.vectorClock = newClock]
     /\ stamps' = Increment(stamps, r)
     /\ UNCHANGED <<store, clock, fiber, serverVars, rewound, defects, envVars>>

\* clock.increment is not a function: the value is stored and never pushed.
AddIncrementDies(a) ==
  /\ app[a].pc = "increment" /\ ~clock[Host[a]].methods
  /\ app' = [app EXCEPT ![a] = Idle(@.calls)]
  /\ defects' = defects \cup {a}
  /\ UNCHANGED <<store, clock, fiber, serverVars, stamps, rewound, envVars>>

\* Mutant of AddSetClock: the Ref.set is forgotten.
AddSetClockForgotten(a) ==
  /\ app[a].pc = "setclock"
  /\ app' = [app EXCEPT ![a].pc = "push"]
  /\ UNCHANGED <<store, clock, fiber, serverVars, ghostVars, envVars>>

\* Ref.set writes the clock computed from the earlier Ref.get.
AddSetClock(a) ==
  /\ app[a].pc = "setclock"
  /\ clock' = [clock EXCEPT ![Host[a]] = app[a].op.vectorClock]
  /\ app' = [app EXCEPT ![a].pc = "push"]
  /\ UNCHANGED <<store, fiber, serverVars, ghostVars, envVars>>

\* External: the server accepts an operation.
Accepts(op) == /\ log' = Append(log, op)
               /\ serverClock' = Join(serverClock, op.vectorClock.timestamps)

\* Mutant of AddPush: only the new element is sent.
AddPushDelta(a) ==
  /\ app[a].pc = "push" /\ Transport[Host[a]] = "websocket"
  /\ Accepts([app[a].op EXCEPT !.value.elements = {app[a].op.id}])
  /\ app' = [app EXCEPT ![a] = Idle(@.calls)]
  /\ UNCHANGED <<store, clock, fiber, late, ghostVars, envVars>>

AddPush(a) ==
  /\ app[a].pc = "push" /\ Transport[Host[a]] = "websocket"
  /\ Accepts(app[a].op)
  /\ app' = [app EXCEPT ![a] = Idle(@.calls)]
  /\ UNCHANGED <<store, clock, fiber, late, ghostVars, envVars>>

\* ManualSyncLive.push does nothing.
AddPushNowhere(a) ==
  /\ app[a].pc = "push" /\ Transport[Host[a]] = "manual"
  /\ app' = [app EXCEPT ![a] = Idle(@.calls)]
  /\ UNCHANGED <<store, clock, fiber, serverVars, ghostVars, envVars>>

\* The push fails or times out; catchAll swallows the error and nothing keeps the
\* operation.  What has been sent may still arrive.
AddPushFails(a) ==
  /\ app[a].pc = "push" /\ NetworkFault(Host[a], "push")
  /\ app' = [app EXCEPT ![a] = Idle(@.calls)]
  /\ late' = late \cup {app[a].op}
  /\ UNCHANGED <<store, clock, fiber, log, serverClock, ghostVars>>

-----------------------------------------------------------------------------
(* The auto-sync fiber, and applyOperations, which both fibers run.         *)

\* The answer to a pull.
Pulled(r) == IF Transport[r] = "websocket" THEN [i \in DOMAIN log |-> Parsed(log[i])] ELSE <<>>

Pull(f) ==
  /\ f[2] = "auto" /\ fiber[f].pc = "idle"
  /\ fiber' = [fiber EXCEPT ![f].pc = "apply", ![f].ops = Pulled(f[1])]
  /\ UNCHANGED <<store, clock, app, serverVars, ghostVars, envVars>>

\* A failed pull fails the repeated effect: Effect.repeat ends, for good.
PullFails(f) ==
  /\ fiber[f].pc = "idle" /\ NetworkFault(f[1], "pull")
  /\ fiber' = [fiber EXCEPT ![f] = StoppedFiber]
  /\ UNCHANGED <<store, clock, app, serverVars, ghostVars>>

\* The loop of applyOperations has an operation to look at.
Looks(f) == fiber[f].pc = "apply" /\ fiber[f].ops # <<>>

ApplySkip(f) ==
  /\ Looks(f) /\ Head(fiber[f].ops).replicaId = f[1]
  /\ fiber' = [fiber EXCEPT ![f].ops = Tail(@)]
  /\ UNCHANGED <<store, clock, app, serverVars, ghostVars, envVars>>

\* Mutant of ApplyDies: the replica's own operations are not skipped.
ApplyDiesOnOwn(f) ==
  /\ Looks(f)
  /\ fiber' = [fiber EXCEPT ![f] = StoppedFiber]
  /\ defects' = defects \cup {f}
  /\ UNCHANGED <<store, clock, app, serverVars, stamps, rewound, envVars>>

\* operation.vectorClock.compare is not a function: every operation of another
\* replica has come through JSON.parse.  The rest of the loop (lines 984 to 1002),
\* which stores the value and sets the clock, is never reached.
ApplyDies(f) ==
  /\ Looks(f) /\ Head(fiber[f].ops).replicaId # f[1]
  /\ fiber' = [fiber EXCEPT ![f] = StoppedFiber]
  /\ defects' = defects \cup {f}
  /\ UNCHANGED <<store, clock, app, serverVars, stamps, rewound, envVars>>

\* All applied: wait for the schedule, or go on with the reconciliation.
ApplyDone(f) ==
  /\ fiber[f].pc = "apply" /\ fiber[f].ops = <<>>
  /\ fiber' = [fiber EXCEPT ![f].pc = IF f[2] = "auto" THEN "idle" ELSE "resolve"]
  /\ UNCHANGED <<store, clock, app, serverVars, ghostVars, envVars>>

-----------------------------------------------------------------------------
(* The reconciliation fiber: performReconciliation.                         *)

\* The pulled operations are only sent back; the clock is read once, here.
RecRequest(f) ==
  /\ f[2] = "rec" /\ fiber[f].pc = "idle"
  /\ fiber' = [fiber EXCEPT ![f].pc = "waiting", ![f].resolved = clock[f[1]]]
  /\ UNCHANGED <<store, clock, app, serverVars, ghostVars, envVars>>

\* The response: the fiber goes on to apply it.
Responds(f, ops, state, conflict) ==
  /\ fiber' = [fiber EXCEPT ![f] = [pc |-> "apply", ops |-> ops,
                                    resolved |-> state, conflict |-> conflict]]
  /\ UNCHANGED <<store, clock, app, serverVars, ghostVars>>

\* External: the server may report a conflict about any operation it holds.
Conflicts == {[key |-> log[i].key, serverValue |-> Plain(log[i].value)] : i \in DOMAIN log}

\* External: the answer has any of the optional parts of a
\* ReconciliationResponse; its resolvedState covers the client's clock and
\* every clock the server has seen.
RecReply(f) ==
  LET joined == [timestamps |-> Join(fiber[f].resolved.timestamps, serverClock),
                 methods |-> FALSE]
  IN /\ fiber[f].pc = "waiting" /\ Transport[f[1]] = "websocket"
     /\ \E ops \in {<<>>, Pulled(f[1])}, state \in {None, joined},
           conflict \in {None} \cup Conflicts :
          Responds(f, ops, state, conflict)
     /\ UNCHANGED envVars

\* ManualSyncLive answers with the request's own clock.
RecEcho(f) ==
  /\ fiber[f].pc = "waiting" /\ Transport[f[1]] = "manual"
  /\ Responds(f, <<>>, fiber[f].resolved, None)
  /\ UNCHANGED envVars

\* No answer: the clock read in RecRequest becomes the resolved state.
RecFallback(f) ==
  /\ fiber[f].pc = "waiting" /\ NetworkFault(f[1], "reconcile")
  /\ Responds(f, <<>>, fiber[f].resolved, None)

\* The clock that the resolved state sets, and whether it takes the replica's own
\* count back.
Resolved(f) == IF fiber[f].resolved # None THEN fiber[f].resolved ELSE clock[f[1]]

Rewinds(f) ==
  LET r == f[1]
  IN Resolved(f).methods /\ Resolved(f).timestamps[r] < clock[r].timestamps[r]

\* Mutants of RecResolve: an answer without a resolvedState is not checked for;
\* the reconciliation counts as an event of the replica.
RecResolveUnchecked(f) ==
  /\ fiber[f].pc = "resolve"
  /\ clock' = [clock EXCEPT ![f[1]] = fiber[f].resolved]
  /\ fiber' = [fiber EXCEPT ![f].pc = "conflict", ![f].resolved = None]
  /\ UNCHANGED <<store, app, serverVars, ghostVars, envVars>>

RecResolveTicks(f) ==
  /\ fiber[f].pc = "resolve"
  /\ clock' = [clock EXCEPT ![f[1]].timestamps = Increment(@, f[1])]
  /\ fiber' = [fiber EXCEPT ![f].pc = "conflict", ![f].resolved = None]
  /\ UNCHANGED <<store, app, serverVars, ghostVars, envVars>>

RecResolve(f) ==
  /\ fiber[f].pc = "resolve"
  /\ clock' = [clock EXCEPT ![f[1]] = Resolved(f)]
  /\ rewound' = IF Rewinds(f) THEN rewound \cup {f[1]} ELSE rewound
  /\ fiber' = [fiber EXCEPT ![f].pc = "conflict", ![f].resolved = None]
  /\ UNCHANGED <<store, app, serverVars, stamps, defects, envVars>>

TakesServerValue(f) == fiber[f].pc = "conflict" /\ fiber[f].conflict # None

RecConflict(f) ==
  LET c == fiber[f].conflict
  IN /\ fiber[f].pc = "conflict"
     /\ store' = IF TakesServerValue(f)
                   THEN [store EXCEPT ![f[1]][c.key] = Stored(f[1], c.serverValue)] ELSE store
     /\ fiber' = [fiber EXCEPT ![f] = NewFiber]
     /\ UNCHANGED <<clock, app, serverVars, ghostVars, envVars>>

\* A failing storage write fails the fiber, which never runs again.
WriteFails(f) ==
  /\ TakesServerValue(f) /\ StorageFault(f[1])
  /\ fiber' = [fiber EXCEPT ![f] = StoppedFiber]
  /\ UNCHANGED <<store, clock, app, serverVars, ghostVars>>

-----------------------------------------------------------------------------
(* The environment.                                                         *)

\* External: an operation arrives although its push has failed or its process ended.
Arrive(op) ==
  /\ op \in late
  /\ Accepts(op)
  /\ late' = late \ {op}
  /\ UNCHANGED <<store, clock, app, fiber, ghostVars, envVars>>

\* The process ends and LocalFirstLive is built again: the Ref starts empty,
\* IndexedDB keeps its data, memory storage does not.
Restart(r) ==
  LET sent == {a \in App : Host[a] = r /\ app[a].pc = "push" /\ Transport[r] = "websocket"}
  IN /\ r \in Restartable /\ restarts < MaxRestarts
     /\ restarts' = restarts + 1
     /\ clock' = [clock EXCEPT ![r] = EmptyVClock]
     /\ rewound' = rewound \cup {r}
     /\ store' = [store EXCEPT ![r] = IF Medium[r] = "memory" THEN [k \in Key |-> None] ELSE @]
     /\ app' = [a \in App |-> IF Host[a] = r THEN Idle(app[a].calls) ELSE app[a]]
     /\ late' = late \cup {app[a].op : a \in sent}
     /\ fiber' = [f \in Fiber |-> IF f[1] = r THEN NewFiber ELSE fiber[f]]
     /\ UNCHANGED <<log, serverClock, stamps, defects, faults>>

-----------------------------------------------------------------------------
AddCall(a) == \E k \in Key : AddRead(a, k) \/ AddDies(a, k)

AddStep(a) == AddStore(a) \/ AddIncrement(a) \/ AddIncrementDies(a)
              \/ AddSetClock(a) \/ AddPush(a) \/ AddPushNowhere(a)

AddFault(a) == (\E k \in Key : AddReadFails(a, k)) \/ AddStoreFails(a) \/ AddPushFails(a)

ApplyStep(f) == Pull(f) \/ ApplySkip(f) \/ ApplyDies(f) \/ ApplyDone(f)

RecStep(f) == RecRequest(f) \/ RecReply(f) \/ RecEcho(f) \/ RecResolve(f) \/ RecConflict(f)

\* What the fiber f does when nothing fails.
FiberStep(f) == ApplyStep(f) \/ RecStep(f)

FiberFault(f) == PullFails(f) \/ WriteFails(f) \/ RecFallback(f)

Next ==
  \/ \E a \in App : AddCall(a) \/ AddStep(a) \/ AddFault(a)
  \/ \E f \in Fiber : FiberStep(f) \/ FiberFault(f)
  \/ \E op \in late : Arrive(op)
  \/ \E r \in Replica : Restart(r)

Spec == Init /\ [][Next]_vars

\* A call that has begun goes on, and Schedule.spaced runs a background fiber
\* again and again; a request is answered, or fails by its timeout.  Nobody has to
\* call add, and nothing else has to fail.
FairSpec ==
  /\ Spec
  /\ \A a \in App : WF_vars(AddStep(a))
  /\ \A f \in Fiber : WF_vars(FiberStep(f) \/ RecFallback(f))

-----------------------------------------------------------------------------
(* Properties.                                                              *)

AppState == [pc : {"idle", "store", "increment", "setclock", "push"},
             op : Operation \cup {None}, calls : Nat]

FiberState == [pc : {"idle", "apply", "waiting", "resolve", "conflict", "stopped"},
               ops : Seq(Operation), resolved : VClock \cup {None},
               conflict : Conflict \cup {None}]

\* Every variable holds a value of its kind, and what a step is about to use is
\* there: a call under way has an operation, a request carries a clock.
TypeOK ==
  /\ store \in [Replica -> [Key -> GSet \cup {None}]]
  /\ clock \in [Replica -> VClock]
  /\ app \in [App -> AppState]
  /\ \A a \in App : app[a].pc # "idle" => app[a].op # None
  /\ fiber \in [Fiber -> FiberState]
  /\ \A f \in Fiber : fiber[f].pc = "waiting" => fiber[f].resolved # None
  /\ log \in Seq(Operation) /\ late \subseteq Operation
  /\ serverClock \in Clock
  /\ stamps \in Clock
  /\ rewound \subseteq Replica
  /\ defects \subseteq App \cup Fiber
  /\ faults \in Nat /\ restarts \in Nat

\* No clock, wherever it is kept or copied, counts more writes of a replica
\* than that replica has stamped: Ref.get, Ref.set, pushed operations, pulled
\* lists and reconciliation answers interleave, but no step invents an event.
Counted(c) == Leq(c.timestamps, stamps)

ClockNeverAhead ==
  /\ \A r \in Replica : Counted(clock[r])
  /\ \A a \in App : app[a].op # None => Counted(app[a].op.vectorClock)
  /\ \A i \in DOMAIN log : Counted(log[i].vectorClock)
  /\ \A op \in late : Counted(op.vectorClock)
  /\ \A f \in Fiber : /\ \A i \in DOMAIN fiber[f].ops : Counted(fiber[f].ops[i].vectorClock)
                      /\ fiber[f].resolved # None => Counted(fiber[f].resolved)
  /\ Leq(serverClock, stamps)

\* Two operations the server holds never carry the same clock, unless they come from
\* one replica whose own count has gone back, by a restart or by a reconciliation that
\* wrote back the clock it had read before its request (Framework.ts:1021, 1049).  It is
\* promised to replicas on which one call of add runs at a time (394-397).
UniqueStamps ==
  \A i, j \in DOMAIN log :
    i # j /\ log[i].vectorClock.timestamps = log[j].vectorClock.timestamps =>
      log[i].replicaId = log[j].replicaId /\ log[i].replicaId \in rewound

\* The elements of k that the operations held by the server tell of.
Told(k) == UNION {log[i].value.elements : i \in {j \in DOMAIN log : log[j].key = k}}

\* A lost push is made good by the next one (Framework.ts:409): once a push has reached the
\* server, the server has been told all the replica shows of that collection, what
\* earlier calls could not push, or dropped when they died, included.  It is promised
\* to replicas on which one call of add runs at a time.
PushTellsAll ==
  [][\A a \in App, k \in Key :
       AddPush(a) /\ app[a].op.key = k => Elements(store[Host[a]][k]) \subseteq Told(k)']_vars

\* A background fiber that is not stopped by a failing call comes back to its
\* schedule again and again, as long as the server holds nothing but the replica's
\* own operations.
FibersRepeat ==
  \A f \in Fiber :
    [](/\ Transport[f[1]] = "websocket" => \A i \in DOMAIN log : log[i].replicaId = f[1]
       /\ fiber[f].pc = "stopped" => f \in defects)
      => []<>(fiber[f].pc = "idle")

\* The last logged operation on k.
LastLogged(i, k) ==
  /\ i \in DOMAIN log /\ log[i].key = k
  /\ \A j \in DOMAIN log : log[j].key = k => j <= i

Readers == AutoSync \ {Host[a] : a \in App}

\* As long as no pull fails, every replica that only reads ends up, for good, with the
\* last value the server holds.  A TypeError is no excuse for a fiber to stop.
ReadersConverge ==
  [](\A f \in Fiber : fiber[f].pc = "stopped" => f \in defects) =>
    <>[](\A r \in Readers, k \in Key, i \in DOMAIN log :
           LastLogged(i, k) => Elements(store[r][k]) = log[i].value.elements)

\* A grow-only set never loses an element while its process lives.
GrowOnly ==
  [][restarts' = restarts =>
       \A r \in Replica, k \in Key :
         Elements(store[r][k]) \subseteq Elements(store'[r][k])]_vars

-----------------------------------------------------------------------------
(* What a program can rely on, with any number of callers: WriteBehind.      *)

\* An operation without its clock.
Write(op) == [id |-> op.id, key |-> op.key, elements |-> op.value.elements]

\* How far a call has come: its write is on the replica once it has been stored.
Draft(call) ==
  [pc    |-> CASE call.pc = "idle" -> "free" [] call.pc = "store" -> "begun" [] OTHER -> "kept",
   write |-> IF call.pc = "idle" THEN None ELSE Write(call.op)]

Behind ==
  INSTANCE WriteBehind
  WITH Caller <- App,
       calls <- [a \in App |-> app[a].calls],
       draft <- [a \in App |-> Draft(app[a])],
       view <- [r \in Replica |-> [k \in Key |-> Elements(store[r][k])]],
       late <- {Write(op) : op \in late},
       log <- [i \in DOMAIN log |-> Write(log[i])]

\* Pulls, requests, answers, clocks and dying fibers come to this: a collection changes
\* only by a call of its own replica, by a value the server holds, or by a restart, and
\* a write is stored before it is published and published at most once.
WritesBehind == Behind!Spec

=============================================================================
