------------------------------ MODULE Storage ------------------------------
(***************************************************************************)
(* The StorageService of src/src/Storage.ts: clients read, write and       *)
(* delete under keys, and streams watch a key.  Which layer provides it,   *)
(* is chosen at the start.                                                 *)
(*                                                                         *)
(* MemoryStorageLive does all it does in one synchronous step.             *)
(* IndexedDBLive requests a transaction and goes on when it hears of its   *)
(* success.  The database is the browser's: it runs the transactions of    *)
(* the one object store in the order they were requested, announces the    *)
(* success of a write before it commits it, and may fail to do either.     *)
(***************************************************************************)
EXTENDS Integers, Sequences, FiniteSets, SequencesExt

CONSTANTS
  Medium,     \* the layers to choose from: "memory", "indexeddb"
  Key,        \* the keys
  Client,     \* fibers that call the service
  Watcher,    \* fibers that run a stream of watch
  None,       \* an absent entry
  Failure,    \* the error of a stream
  MaxCalls,   \* bound: calls of the clients
  MaxFaults,  \* bound: failing requests, failing commits and ends of the scope
  MaxPolls    \* bound: polls of one stream under way or not handled yet

ASSUME MediumAssumption == Medium \subseteq {"memory", "indexeddb"}
ASSUME ActorAssumption == Client \cap Watcher = {}
ASSUME BoundAssumption == {MaxCalls, MaxFaults, MaxPolls} \subseteq Nat

\* A value is told apart by the write that stored it.  It is stored as it is,
\* as the bytes of its JSON, or as bytes that mean something else.
Entry == [version : Nat, form : {"object", "json", "raw"}]

Read == {"get", "getWithModel", "getRaw"}
Write == {"set", "setWithModel", "setRaw"}
Operation == Read \cup Write \cup {"keys", "delete", "clear"}

ASSUME KeyAssumption == Key # {}
ASSUME NoneAssumption == /\ None \notin Entry \cup [Key -> Entry \cup {None}]
                         /\ Failure \notin Entry \cup {None}

VARIABLES
  medium,     \* the layer
  data,       \* data[k]: the entry under k
  txs,        \* IndexedDB: the transactions requested and not run yet
  undo,       \* IndexedDB: data before the write that is not committed yet
  closed,     \* IndexedDB: the scope of the layer has ended
  call,       \* call[c]: the call of c, and its answer
  watch,      \* watch[w]: the stream of w
  calls,      \* the number of calls so far
  faults,     \* failures so far
  lost        \* ghost: the writes whose commit failed

dbVars == <<txs, undo, closed>>
vars == <<medium, data, dbVars, call, watch, calls, faults, lost>>

Init ==
  /\ medium \in Medium
  /\ data = [k \in Key |-> None]
  /\ txs = <<>> /\ undo = None /\ closed = FALSE
  /\ call = [c \in Client |-> [pc |-> "idle"]]
  /\ watch = [w \in Watcher |-> [state |-> "off"]]
  /\ calls = 0 /\ faults = 0 /\ lost = {}

Fault == faults < MaxFaults /\ faults' = faults + 1

-----------------------------------------------------------------------------
(* What an operation does.                                                  *)

\* The forms in which an operation stores its value.
Forms(op) == CASE op = "set" -> {"object"}
               [] op = "setWithModel" -> {"json"}
               [] op = "setRaw" -> {"raw"}
               [] OTHER -> {None}

\* The data after the request t.
After(t) ==
  CASE t.op \in Write -> [data EXCEPT ![t.key] = t.entry]
    [] t.op = "delete" -> [data EXCEPT ![t.key] = None]
    [] t.op = "clear" -> [k \in Key |-> None]
    [] OTHER -> data

\* The answer: "Key not found" is a failure, bytes that are no JSON a defect of
\* deserialize.
Answer(t) ==
  LET e == data[t.key]
  IN CASE t.op \in Read /\ e = None -> [status |-> "failed", entry |-> None]
       [] t.op = "getWithModel" /\ e # None /\ e.form = "raw" ->
            [status |-> "died", entry |-> None]
       [] t.op = "getWithModel" /\ e # None /\ e.form # "raw" ->
            [status |-> "ok", entry |-> [e EXCEPT !.form = "object"]]
       [] t.op = "getRaw" /\ e # None ->
            [status |-> "ok", entry |-> [e EXCEPT !.form = IF @ = "raw" THEN @ ELSE "json"]]
       [] t.op = "get" /\ e # None -> [status |-> "ok", entry |-> e]
       [] t.op = "keys" -> [status |-> "ok", keys |-> {k \in Key : data[k] # None}]
       [] OTHER -> [status |-> "ok", entry |-> None]

\* The request t is answered.
Answered(c, t, answer) ==
  call' = [call EXCEPT ![c] = [pc |-> "answered", request |-> t, answer |-> answer]]

On(w) == watch[w].state = "on"

Emit(w, x) == [watch[w] EXCEPT !.buffer = Append(@, x)]

\* Mutant of Notified: the raw bytes are stored without a word to the listeners.
NotifiedOfObjects(t) ==
  [w \in Watcher |->
     IF t.op \in Write \ {"setRaw"} /\ On(w) /\ watch[w].key = t.key
       THEN Emit(w, t.entry) ELSE watch[w]]

\* The writes of the memory layer call the listeners of the key; delete and clear
\* do not.
Notified(t) ==
  [w \in Watcher |->
     IF t.op \in Write /\ On(w) /\ watch[w].key = t.key
       THEN Emit(w, t.entry) ELSE watch[w]]

-----------------------------------------------------------------------------
(* The clients.                                                             *)

\* What no failing commit takes back.
Committed == IF undo = None THEN data ELSE undo

\* A request as c makes it; "floor" is a ghost: what was under the key at that time.
Requests(c, op, k) ==
  {[by |-> c, op |-> op, key |-> k,
    floor |-> IF op \in Read THEN Committed[k] ELSE None,
    entry |-> IF op \in Write THEN [version |-> calls + 1, form |-> f] ELSE None] :
     f \in Forms(op)}

\* keys and clear are about no key: the request names any one.
Targets(op) == IF op \in {"keys", "clear"} THEN {CHOOSE k \in Key : TRUE} ELSE Key

Begins(c) == call[c].pc # "requested" /\ calls < MaxCalls /\ calls' = calls + 1

\* Any operation of MemoryStorageLive.
CallMemory(c, op, k) ==
  /\ medium = "memory" /\ Begins(c)
  /\ \E t \in Requests(c, op, k) :
       /\ data' = After(t)
       /\ watch' = Notified(t)
       /\ Answered(c, t, Answer(t))
  /\ UNCHANGED <<medium, dbVars, faults, lost>>

\* Any operation of IndexedDBLive: db.transaction and the request to it.  After
\* db.close, db.transaction throws.
CallIndexedDB(c, op, k) ==
  /\ medium = "indexeddb" /\ Begins(c)
  /\ \E t \in Requests(c, op, k) :
       IF closed
         THEN Answered(c, t, [status |-> "died", entry |-> None]) /\ UNCHANGED txs
         ELSE /\ call' = [call EXCEPT ![c] = [pc |-> "requested"]]
              /\ txs' = Append(txs, t)
  /\ UNCHANGED <<medium, data, undo, closed, watch, faults, lost>>

-----------------------------------------------------------------------------
(* IndexedDB.                                                               *)

\* A stream that has ended hears no more of its polls.
Heard(w, x) == watch' = IF On(w) THEN [watch EXCEPT ![w] = Emit(w, x)] ELSE watch

\* request.onsuccess of the next transaction: a client goes on with the answer,
\* a poll emits what it has found.
Succeeds ==
  LET t == Head(txs)
  IN /\ txs # <<>> /\ undo = None
     /\ txs' = Tail(txs)
     /\ data' = After(t)
     /\ undo' = IF t.op \in Read \cup {"keys"} THEN None ELSE data
     /\ IF t.by \in Client
          THEN Answered(t.by, t, Answer(t)) /\ UNCHANGED watch
          ELSE /\ IF data[t.key] # None THEN Heard(t.by, data[t.key]) ELSE UNCHANGED watch
               /\ UNCHANGED call
     /\ UNCHANGED <<medium, closed, calls, faults, lost>>

\* Mutant of Fails: the answer does not depend on the event.
FailsUnnoticed ==
  LET t == Head(txs)
  IN /\ txs # <<>> /\ undo = None /\ Fault
     /\ txs' = Tail(txs)
     /\ IF t.by \in Client
          THEN Answered(t.by, t, Answer(t)) /\ UNCHANGED watch
          ELSE Heard(t.by, Failure) /\ UNCHANGED call
     /\ UNCHANGED <<medium, data, undo, closed, calls, lost>>

\* Mutant of Fails: nobody listens to request.onerror.
FailsUnheard ==
  /\ txs # <<>> /\ undo = None /\ Fault
  /\ txs' = Tail(txs)
  /\ UNCHANGED <<medium, data, undo, closed, call, watch, calls, lost>>

\* request.onerror: the transaction has no effect.
Fails ==
  LET t == Head(txs)
  IN /\ txs # <<>> /\ undo = None /\ Fault
     /\ txs' = Tail(txs)
     /\ IF t.by \in Client
          THEN Answered(t.by, t, [status |-> "failed", entry |-> None]) /\ UNCHANGED watch
          ELSE Heard(t.by, Failure) /\ UNCHANGED call
     /\ UNCHANGED <<medium, data, undo, closed, calls, lost>>

Commit ==
  /\ undo # None
  /\ undo' = None
  /\ UNCHANGED <<medium, data, txs, closed, call, watch, calls, faults, lost>>

\* The commit fails; nobody listens to transaction.onabort.
Abort ==
  /\ undo # None /\ Fault
  /\ data' = undo /\ undo' = None
  /\ lost' = lost \cup {data[k].version : k \in {k \in Key : data[k] \notin {None, undo[k]}}}
  /\ UNCHANGED <<medium, txs, closed, call, watch, calls>>

\* The scope ends: db.close lets the transactions under way finish.
Release ==
  /\ medium = "indexeddb" /\ ~closed /\ Fault
  /\ closed' = TRUE
  /\ UNCHANGED <<medium, data, txs, undo, call, watch, calls, lost>>

-----------------------------------------------------------------------------
(* The streams.  "since" and "last" are ghosts: the calls so far when the   *)
(* stream began, and the entry it handed out last.                          *)

Watch(w, k) ==
  /\ watch[w].state = "off"
  /\ watch' = [watch EXCEPT ![w] = [state |-> "on", key |-> k, buffer |-> <<>>,
                                    last |-> None, since |-> calls]]
  /\ UNCHANGED <<medium, data, dbVars, call, calls, faults, lost>>

Polls(w) == {i \in DOMAIN txs : txs[i].by = w}

\* Mutant of Poll: the interval is removed once it has found something.
PollUntilFound(w) ==
  /\ medium = "indexeddb" /\ On(w) /\ watch[w].last = None
  /\ Cardinality(Polls(w)) + Len(watch[w].buffer) < MaxPolls
  /\ IF closed
       THEN Heard(w, Failure) /\ UNCHANGED txs
       ELSE /\ \E t \in Requests(w, "get", watch[w].key) : txs' = Append(txs, t)
            /\ UNCHANGED watch
  /\ UNCHANGED <<medium, data, undo, closed, call, calls, faults, lost>>

\* The interval of IndexedDBLive: another poll, whether or not the last has
\* come back.
Poll(w) ==
  /\ medium = "indexeddb" /\ On(w)
  /\ Cardinality(Polls(w)) + Len(watch[w].buffer) < MaxPolls
  /\ IF closed
       THEN Heard(w, Failure) /\ UNCHANGED txs
       ELSE /\ \E t \in Requests(w, "get", watch[w].key) : txs' = Append(txs, t)
            /\ UNCHANGED watch
  /\ UNCHANGED <<medium, data, undo, closed, call, calls, faults, lost>>

\* Mutant of Deliver: the stream hands out the newest and forgets the others.
DeliverNewestLast(w) ==
  LET x == Last(watch[w].buffer)
  IN /\ On(w) /\ watch[w].buffer # <<>>
     /\ watch' = [watch EXCEPT ![w] = IF x = Failure THEN [state |-> "failed"]
                                      ELSE [watch[w] EXCEPT !.buffer = Front(@), !.last = x]]
     /\ UNCHANGED <<medium, data, dbVars, call, calls, faults, lost>>

\* The program takes the next value of the stream; a failure ends it.
Deliver(w) ==
  LET x == Head(watch[w].buffer)
  IN /\ On(w) /\ watch[w].buffer # <<>>
     /\ watch' = [watch EXCEPT ![w] = IF x = Failure THEN [state |-> "failed"]
                                      ELSE [watch[w] EXCEPT !.buffer = Tail(@), !.last = x]]
     /\ UNCHANGED <<medium, data, dbVars, call, calls, faults, lost>>

\* The stream ends: its listener or its interval is removed.
Unwatch(w) ==
  /\ On(w)
  /\ watch' = [watch EXCEPT ![w] = [state |-> "stopped"]]
  /\ UNCHANGED <<medium, data, dbVars, call, calls, faults, lost>>

Next ==
  \/ \E c \in Client, op \in Operation :
       \E k \in Targets(op) : CallMemory(c, op, k) \/ CallIndexedDB(c, op, k)
  \/ Succeeds \/ Fails \/ Commit \/ Abort \/ Release
  \/ \E w \in Watcher : (\E k \in Key : Watch(w, k)) \/ Poll(w) \/ Deliver(w) \/ Unwatch(w)

Spec == Init /\ [][Next]_vars

\* The runtime resumes a fiber that has a value, the interval goes on, and the browser
\* runs and ends what it was asked for.
FairSpec ==
  /\ Spec
  /\ WF_vars(Succeeds) /\ WF_vars(Commit)
  /\ \A w \in Watcher : WF_vars(Poll(w)) /\ WF_vars(Deliver(w))

-----------------------------------------------------------------------------
(* Properties.                                                              *)

Request ==
  [by : Client \cup Watcher, op : Operation, key : Key, floor : Entry \cup {None},
   entry : Entry \cup {None}]

CallType ==
  [pc : {"idle", "requested"}]
    \cup [pc : {"answered"}, request : Request,
          answer : [status : {"ok", "failed", "died"}, entry : Entry \cup {None}]
                     \cup [status : {"ok"}, keys : SUBSET Key]]

WatchType ==
  [state : {"off", "stopped", "failed"}]
    \cup [state : {"on"}, key : Key, buffer : Seq(Entry \cup {Failure}),
          last : Entry \cup {None}, since : Nat]

\* Types; and what the layers do not share: the memory layer has no transactions, a
\* client waits for the one transaction it has requested, and nothing is requested
\* of a closed database that has run all it was asked for.
TypeOK ==
  /\ medium \in Medium
  /\ data \in [Key -> Entry \cup {None}]
  /\ txs \in Seq(Request)
  /\ undo \in {None} \cup [Key -> Entry \cup {None}]
  /\ call \in [Client -> CallType] /\ watch \in [Watcher -> WatchType]
  /\ calls \in 0 .. MaxCalls /\ faults \in 0 .. MaxFaults
  /\ lost \subseteq 1 .. calls
  /\ medium = "memory" => txs = <<>> /\ undo = None /\ ~closed
  /\ \A c \in Client :
       Cardinality({i \in DOMAIN txs : txs[i].by = c})
         = IF call[c].pc = "requested" THEN 1 ELSE 0

\* What the program has got of the stream last, and what it will get.
Told(w) == (IF watch[w].last = None THEN <<>> ELSE <<watch[w].last>>) \o watch[w].buffer

\* A stream never goes back: what it hands out after a value was written after it, and
\* in the memory layer every write of the key is handed out once (watch, T:275 and T:346;
\* polls overlap, and writes of two clients do).
WatchInOrder ==
  \A w \in Watcher : On(w) =>
    \A i, j \in DOMAIN Told(w) : i < j /\ Failure \notin {Told(w)[i], Told(w)[j]} =>
      /\ Told(w)[i].version <= Told(w)[j].version
      /\ medium = "memory" => Told(w)[i] # Told(w)[j]

\* In the memory layer, what is under a watched key is the last that its stream heard,
\* or was there when the stream began: no operation of the service stores a value without
\* a word to the listeners (set, setWithModel and setRaw each have their own forEach).
WatchTruthful ==
  \A w \in Watcher :
    medium = "memory" /\ On(w) /\ data[watch[w].key] # None
      => IF Told(w) = <<>> THEN data[watch[w].key].version <= watch[w].since
                             ELSE data[watch[w].key] = Last(Told(w))

\* A fiber goes on with an answer that stays true: a write that failed is not
\* what the key holds; a write that succeeded is, or a later one, or the key was deleted
\* (unless its commit failed: withTransaction resumes at request.onsuccess); and a read does
\* not go behind what was committed when it was requested.
AnswerTellsOutcome ==
  \A c \in Client : call[c].pc = "answered" =>
    LET t == call[c].request
        a == call[c].answer
        held == data[t.key]
    IN /\ t.op \in Write /\ a.status # "ok" /\ held # None =>
            held.version # t.entry.version
       /\ t.op \in Write /\ a.status = "ok" /\ t.entry.version \notin lost /\ held # None =>
            held.version >= t.entry.version
       /\ t.op \in Read /\ a.status = "ok" /\ t.floor # None =>
            a.entry.version >= t.floor.version

\* A stream that goes on hands out at last what its key holds from then on: in the memory
\* layer if it was written after the stream began, by IndexedDB's polls in any case.
WatchCatchesUp ==
  \A w \in Watcher, k \in Key :
    <>[](/\ On(w) /\ watch[w].key = k /\ data[k] # None
         /\ medium = "memory" => data[k].version > watch[w].since)
      => <>[](On(w) => watch[w].last = data[k])

\* Every call ends, with an answer or a failure: whatever fails in the database, a fiber
\* that called the service goes on (request.onsuccess and request.onerror resume it).
CallsEnd == \A c \in Client : call[c].pc = "requested" ~> call[c].pc = "answered"

=============================================================================
