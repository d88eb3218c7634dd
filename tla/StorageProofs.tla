--------------------------- MODULE StorageProofs ---------------------------
(***************************************************************************)
(* Proofs about Storage: both layers, any number of clients, streams, keys, *)
(* transactions under way, failures and overlapping polls.                  *)
(***************************************************************************)
EXTENDS TLAPS, Storage, SequenceTheorems, FiniteSetTheorems

-----------------------------------------------------------------------------
(* The inductive invariant.  Versions are times: a write bears the number of *)
(* its call, and the transactions run in the order of the calls.             *)

\* What a reader may come to read: what is stored, and what an abort restores.
Layers == {data} \cup ({undo} \ {None})

\* Every write that has not run yet is newer than v.
Past(v) ==
  /\ v \in 1..calls
  /\ \A i \in DOMAIN txs : txs[i].op \in Write => v < txs[i].entry.version

\* Whatever is or will be read under k is at least as new as the entry x.
Covered(x, k) ==
  /\ Past(x.version)
  /\ \A d \in Layers : d[k] # None => x.version <= d[k].version

\* TypeOK without its last conjunct, which counts.
Shape ==
  /\ medium \in Medium
  /\ data \in [Key -> Entry \cup {None}]
  /\ txs \in Seq(Request)
  /\ undo \in {None} \cup [Key -> Entry \cup {None}]
  /\ call \in [Client -> CallType] /\ watch \in [Watcher -> WatchType]
  /\ calls \in 0 .. MaxCalls /\ faults \in 0 .. MaxFaults
  /\ lost \subseteq 1 .. calls
  /\ medium = "memory" => txs = <<>> /\ undo = None /\ ~closed
  /\ closed \in BOOLEAN

\* A client waits for one transaction, and for no other reason.
OneEach ==
  /\ \A i, j \in DOMAIN txs : txs[i].by \in Client /\ txs[i].by = txs[j].by => i = j
  /\ \A c \in Client : call[c].pc = "requested" <=> \E i \in DOMAIN txs : txs[i].by = c

\* The request t may be waiting to run.
Sound(t) ==
  /\ t.op \in Write => t.entry \in Entry /\ t.entry.version \in 1..calls
  /\ t.floor # None => Covered(t.floor, t.key)
  /\ t.by \in Watcher => /\ t.op = "get" /\ watch[t.by].state # "off"
                         /\ On(t.by) => watch[t.by].key = t.key

AllSound == \A t \in ToSet(txs) : Sound(t)

\* The writes run in the order in which they were called.
InTurn ==
  \A i, j \in DOMAIN txs :
    i < j /\ txs[i].op \in Write /\ txs[j].op \in Write =>
      txs[i].entry.version < txs[j].entry.version

StoredPast == \A k \in Key, d \in Layers : d[k] # None => Past(d[k].version)

UndoOlder ==
  undo # None => \A k \in Key : undo[k] # None /\ data[k] # None =>
                                  undo[k].version <= data[k].version

\* A stream has heard of nothing that its key could still go behind.
HeardCovered ==
  \A w \in Watcher : On(w) =>
    /\ \A k \in {watch[w].key}, x \in ToSet(Told(w)) \ {Failure} : Covered(x, k)
    /\ medium = "memory" => Failure \notin ToSet(Told(w))

\* The write v of the key k was answered with success: its key keeps it or goes on
\* to newer entries, save that the transaction that stored it may yet be undone.
Kept(v, k) ==
  /\ Past(v)
  /\ v \notin lost =>
       /\ data[k] # None => data[k].version >= v
       /\ undo # None /\ undo[k] # None =>
            undo[k].version >= v \/ (data[k] # None /\ data[k].version = v)

\* The write v failed: no key has it or will get it.
Gone(v) == \A k \in Key, d \in Layers : d[k] # None => d[k].version # v

AnswerStands(t, a) ==
  /\ t.op \in Write =>
       /\ t.entry \in Entry /\ t.entry.version \in 1..calls
       /\ \A i \in DOMAIN txs : txs[i].op \in Write => txs[i].entry.version # t.entry.version
       /\ a.status = "ok" => Kept(t.entry.version, t.key)
       /\ a.status # "ok" => Gone(t.entry.version)
  /\ t.op \in Read /\ a.status = "ok" /\ t.floor # None =>
       a.entry.version >= t.floor.version

Answers == {<<call[c].request, call[c].answer>> : c \in {b \in Client : call[b].pc = "answered"}}

AnswersStand == \A p \in Answers : AnswerStands(p[1], p[2])

Inv ==
  /\ Shape /\ OneEach /\ AllSound /\ InTurn
  /\ StoredPast /\ UndoOlder
  /\ HeardCovered /\ WatchInOrder /\ WatchTruthful
  /\ AnswersStand

-----------------------------------------------------------------------------
(* Sequences.                                                               *)

LEMMA TailFacts ==
  ASSUME NEW S, NEW s \in Seq(S), s # <<>>
  PROVE  /\ Tail(s) \in Seq(S) /\ Len(Tail(s)) = Len(s) - 1
         /\ \A i \in DOMAIN Tail(s) : i + 1 \in DOMAIN s /\ Tail(s)[i] = s[i + 1]
         /\ \A i \in DOMAIN s : i # 1 => i - 1 \in DOMAIN Tail(s) /\ Tail(s)[i - 1] = s[i]
         /\ 1 \in DOMAIN s /\ Head(s) = s[1] /\ s[1] \in S
<1>1. Len(s) \in Nat /\ Len(s) >= 1 /\ DOMAIN s = 1..Len(s)
  BY EmptySeq
<1>2. Tail(s) \in Seq(S) /\ Len(Tail(s)) = Len(s) - 1
  BY HeadTailProperties
<1>3. DOMAIN Tail(s) = 1..(Len(s) - 1)
  BY <1>1, <1>2
<1>4. \A i \in 1..(Len(s) - 1) : Tail(s)[i] = s[i + 1]
  BY HeadTailProperties
<1>5. QED
  BY <1>1, <1>2, <1>3, <1>4

LEMMA AppendFacts ==
  ASSUME NEW S, NEW s \in Seq(S), NEW x \in S
  PROVE  /\ Append(s, x) \in Seq(S) /\ Len(Append(s, x)) = Len(s) + 1
         /\ DOMAIN Append(s, x) = DOMAIN s \cup {Len(s) + 1}
         /\ \A i \in DOMAIN s : i \in 1..Len(s) /\ Append(s, x)[i] = s[i]
         /\ Append(s, x)[Len(s) + 1] = x
  BY AppendProperties

-----------------------------------------------------------------------------
(* Requests, their effects and answers.                                     *)

AnswerType == [status : {"ok", "failed", "died"}, entry : Entry \cup {None}]
                \cup [status : {"ok"}, keys : SUBSET Key]

LEMMA RequestFields ==
  ASSUME NEW t \in Request
  PROVE  /\ t.by \in Client \cup Watcher /\ t.op \in Operation /\ t.key \in Key
         /\ t.floor \in Entry \cup {None} /\ t.entry \in Entry \cup {None}
BY DEF Request

LEMMA ShapeFacts ==
  ASSUME Shape
  PROVE  /\ calls \in Nat /\ data \in [Key -> Entry \cup {None}]
         /\ txs \in Seq(Request)
         /\ Layers \subseteq [Key -> Entry \cup {None}]
         /\ Committed \in [Key -> Entry \cup {None}] /\ Committed \in Layers /\ data \in Layers
         /\ undo # None => undo \in Layers /\ Committed = undo
         /\ undo = None => Layers = {data} /\ Committed = data
         /\ medium \in {"memory", "indexeddb"}
<1>1. calls \in Nat
  BY BoundAssumption DEF Shape
<1>2. QED
  BY <1>1, NoneAssumption, MediumAssumption DEF Shape, Layers, Committed

LEMMA EntryFacts ==
  ASSUME NEW e \in Entry
  PROVE  e # None /\ e # Failure /\ e.version \in Nat /\ e.form \in {"object", "json", "raw"}
BY NoneAssumption DEF Entry

LEMMA RequestsFacts ==
  ASSUME Shape, NEW c \in Client \cup Watcher, NEW op \in Operation, NEW k \in Key,
         NEW t \in Requests(c, op, k)
  PROVE  /\ t \in Request /\ t.by = c /\ t.op = op /\ t.key = k
         /\ op \in Write => t.entry \in Entry /\ t.entry.version = calls + 1
         /\ t.floor = IF op \in Read THEN Committed[k] ELSE None
<1>1. calls \in Nat /\ calls + 1 \in Nat /\ Committed[k] \in Entry \cup {None}
  BY ShapeFacts
<1>2. PICK f \in Forms(op) :
        t = [by |-> c, op |-> op, key |-> k,
             floor |-> IF op \in Read THEN Committed[k] ELSE None,
             entry |-> IF op \in Write THEN [version |-> calls + 1, form |-> f] ELSE None]
  BY DEF Requests
<1>3. op \in Write => f \in {"object", "json", "raw"}
  BY DEF Forms, Write
<1>4. op \in Write => t.entry \in Entry /\ t.entry.version = calls + 1
  BY <1>1, <1>2, <1>3 DEF Entry
<1>5. op \notin Write => t.entry = None
  BY <1>2
<1>6. QED
  BY <1>1, <1>2, <1>4, <1>5 DEF Request

\* Every operation makes one request or another.
LEMMA AfterFacts ==
  ASSUME data \in [Key -> Entry \cup {None}], NEW t \in Request
  PROVE  /\ t.op \in Write => After(t) = [data EXCEPT ![t.key] = t.entry]
         /\ t.op = "delete" => After(t) = [data EXCEPT ![t.key] = None]
         /\ t.op = "clear" => After(t) = [k \in Key |-> None]
         /\ t.op \in Read \cup {"keys"} => After(t) = data
         /\ After(t) \in [Key -> Entry \cup {None}]
         /\ \A k \in Key : \/ After(t)[k] = data[k] \/ After(t)[k] = None
                           \/ t.op \in Write /\ k = t.key /\ After(t)[k] = t.entry
<1>1. t.key \in Key /\ t.entry \in Entry \cup {None} /\ t.op \in Operation
  BY RequestFields
<1>2. CASE t.op \in Write
  BY <1>1, <1>2 DEF After, Write, Read
<1>3. CASE t.op = "delete"
  BY <1>1, <1>3 DEF After, Write, Read
<1>4. CASE t.op = "clear"
  BY <1>1, <1>4 DEF After, Write, Read
<1>5. CASE t.op \in Read \cup {"keys"}
  BY <1>1, <1>5 DEF After, Write, Read
<1>6. QED
  BY <1>1, <1>2, <1>3, <1>4, <1>5 DEF Operation

LEMMA AnswerFacts ==
  ASSUME data \in [Key -> Entry \cup {None}], NEW t \in Request
  PROVE  /\ Answer(t) \in AnswerType
         /\ t.op \in Write => Answer(t).status = "ok"
         /\ t.op \in Read /\ Answer(t).status = "ok" =>
              data[t.key] # None /\ Answer(t).entry.version = data[t.key].version
<1> DEFINE e == data[t.key]
<1>1. t.key \in Key /\ t.op \in Operation /\ e \in Entry \cup {None}
  BY RequestFields
<1>2. CASE t.op \in Read /\ e = None
  BY <1>2 DEF Answer, AnswerType, Read, Write
<1>3. CASE t.op = "getWithModel" /\ e # None
  <2>1. e \in Entry /\ e.version \in Nat
    BY <1>1, <1>3, EntryFacts
  <2>2. [e EXCEPT !.form = "object"] \in Entry /\ [e EXCEPT !.form = "object"].version = e.version
    BY <2>1 DEF Entry
  <2>3. QED
    BY <1>3, <2>1, <2>2 DEF Answer, AnswerType, Read, Write
<1>4. CASE t.op = "getRaw" /\ e # None
  <2> DEFINE f == [e EXCEPT !.form = IF @ = "raw" THEN @ ELSE "json"]
  <2>1. e \in Entry
    BY <1>1, <1>4
  <2>2. f \in Entry /\ f.version = e.version
    BY <2>1 DEF Entry
  <2>3. Answer(t) = [status |-> "ok", entry |-> f]
    BY <1>4 DEF Answer, Read
  <2> HIDE DEF f
  <2>4. QED
    BY <1>4, <2>2, <2>3 DEF AnswerType, Write
<1>5. CASE t.op = "get" /\ e # None
  BY <1>1, <1>5 DEF Answer, AnswerType, Read, Write
<1>6. CASE t.op = "keys"
  BY <1>6 DEF Answer, AnswerType, Read, Write
<1>7. CASE t.op \in Write \cup {"delete", "clear"}
  BY <1>7 DEF Answer, AnswerType, Read, Write
<1>8. QED
  BY <1>1, <1>2, <1>3, <1>4, <1>5, <1>6, <1>7 DEF Operation, Read, Write

-----------------------------------------------------------------------------
(* What a step may do to the transactions and to the data.                  *)

\* A request of c joins the queue.
Queues(t) == /\ txs' = Append(txs, t) /\ t \in Request
             /\ t.op \in Write => t.entry \in Entry /\ t.entry.version = calls + 1 /\ calls' = calls + 1
             /\ t.floor = IF t.op \in Read THEN Committed[t.key] ELSE None
             /\ \/ /\ t.by \in Client /\ call[t.by].pc # "requested"
                   /\ call' = [call EXCEPT ![t.by] = [pc |-> "requested"]] /\ UNCHANGED watch
                \/ /\ t.by \in Watcher /\ t.op = "get" /\ On(t.by) /\ watch[t.by].key = t.key
                   /\ UNCHANGED <<call, watch>>

TxsMove ==
  /\ calls' \in {calls, calls + 1}
  /\ \/ txs' = txs
     \/ txs # <<>> /\ txs' = Tail(txs)
     \/ \E t \in Request : Queues(t)

\* The entry that layer d has under k was there before, or a write of now has stored it.
Explained(d, k) ==
  \/ d[k] = None
  \/ \E e \in Layers : d[k] = e[k]
  \/ txs # <<>> /\ txs' = Tail(txs) /\ Head(txs).op \in Write /\ d[k] = Head(txs).entry
  \/ txs' = <<>> /\ calls' = calls + 1 /\ d[k] \in Entry /\ d[k].version = calls + 1

DataMove == \A d \in Layers', k \in Key : Explained(d, k)

LEMMA TargetsFacts == \A op \in Operation : Targets(op) \subseteq Key
BY KeyAssumption DEF Targets

LEMMA Shared ==
  ASSUME Shape, UNCHANGED <<txs, data, undo>>, calls' \in {calls, calls + 1}
  PROVE  TxsMove /\ DataMove
<1>1. Layers' = Layers
  BY DEF Layers
<1>2. QED
  BY <1>1 DEF TxsMove, DataMove, Explained

LEMMA CallMemoryMoves ==
  ASSUME Shape, NEW c \in Client, NEW op \in Operation, NEW k \in Key, CallMemory(c, op, k)
  PROVE  TxsMove /\ DataMove
<1>1. PICK t \in Requests(c, op, k) : data' = After(t)
  BY DEF CallMemory
<1>2. t \in Request /\ (t.op \in Write => t.entry \in Entry /\ t.entry.version = calls + 1)
  BY <1>1, RequestsFacts
<1>3. /\ txs = <<>> /\ undo = None /\ UNCHANGED <<txs, undo>> /\ calls' = calls + 1
  BY DEF CallMemory, Begins, Shape, dbVars
<1>4. Layers' = {data'}
  BY <1>3 DEF Layers
<1>5. data \in Layers
  BY DEF Layers
<1>6. \A x \in Key : \/ data'[x] = data[x] \/ data'[x] = None
                     \/ t.op \in Write /\ data'[x] = t.entry
  BY <1>1, <1>2, AfterFacts DEF Shape
<1>7. DataMove
  BY <1>2, <1>3, <1>4, <1>5, <1>6 DEF DataMove, Explained
<1>8. TxsMove
  BY <1>3 DEF TxsMove
<1>9. QED
  BY <1>7, <1>8

LEMMA CallIndexedDBMoves ==
  ASSUME Shape, NEW c \in Client, NEW op \in Operation, NEW k \in Key, CallIndexedDB(c, op, k)
  PROVE  TxsMove /\ DataMove
<1>1. PICK t \in Requests(c, op, k) :
        \/ txs' = txs
        \/ /\ txs' = Append(txs, t) /\ UNCHANGED watch
           /\ call[c].pc # "requested" /\ call' = [call EXCEPT ![c] = [pc |-> "requested"]]
  BY DEF CallIndexedDB, Begins
<1>2. /\ t \in Request /\ t.key = k /\ t.op = op /\ t.by = c
      /\ t.op \in Write => t.entry \in Entry /\ t.entry.version = calls + 1
      /\ t.floor = IF op \in Read THEN Committed[k] ELSE None
  BY <1>1, RequestsFacts
<1>3. UNCHANGED <<data, undo>> /\ calls' = calls + 1
  BY DEF CallIndexedDB, Begins
<1>4. Layers' = Layers
  BY <1>3 DEF Layers
<1>5. DataMove
  BY <1>4 DEF DataMove, Explained
<1>6. TxsMove
  BY <1>1, <1>2, <1>3 DEF TxsMove, Queues
<1>7. QED
  BY <1>5, <1>6

LEMMA PollMoves ==
  ASSUME Shape, NEW w \in Watcher, Poll(w), watch[w].key \in Key
  PROVE  TxsMove /\ DataMove
<1>1. UNCHANGED <<data, undo>> /\ calls' = calls
  BY DEF Poll
<1>2. Layers' = Layers
  BY <1>1 DEF Layers
<1>3. DataMove
  BY <1>2 DEF DataMove, Explained
<1>4. CASE closed
  BY <1>1, <1>3, <1>4 DEF Poll, TxsMove
<1>5. CASE ~closed
  <2>1. /\ On(w) /\ UNCHANGED <<call, watch>>
        /\ \E t \in Requests(w, "get", watch[w].key) : txs' = Append(txs, t)
    BY <1>5 DEF Poll
  <2>2. PICK t \in Requests(w, "get", watch[w].key) : txs' = Append(txs, t)
    BY <2>1
  <2>3. "get" \in Operation /\ "get" \notin Write /\ "get" \in Read
    BY DEF Operation, Read, Write
  <2>4. /\ t \in Request /\ t.key = watch[w].key /\ t.op = "get" /\ t.by = w
        /\ t.floor = Committed[watch[w].key]
    BY <2>2, <2>3, RequestsFacts
  <2>5. Queues(t)
    BY <2>1, <2>2, <2>3, <2>4 DEF Queues
  <2>6. QED
    BY <1>1, <1>3, <2>4, <2>5 DEF TxsMove
<1>6. QED
  BY <1>4, <1>5

LEMMA SucceedsMoves ==
  ASSUME Shape, Succeeds
  PROVE  TxsMove /\ DataMove
<1>1. /\ txs # <<>> /\ undo = None /\ txs' = Tail(txs) /\ calls' = calls
      /\ data' = After(Head(txs)) /\ undo' \in {None, data}
  BY DEF Succeeds
<1>2. Head(txs) \in Request
  BY <1>1, TailFacts DEF Shape
<1>3. Layers' \subseteq {data', data}
  BY <1>1 DEF Layers
<1>4. \A x \in Key : \/ data'[x] = data[x] \/ data'[x] = None
                     \/ Head(txs).op \in Write /\ data'[x] = Head(txs).entry
  BY <1>1, <1>2, AfterFacts DEF Shape
<1>5. data \in Layers
  BY DEF Layers
<1>6. DataMove
  BY <1>1, <1>3, <1>4, <1>5 DEF DataMove, Explained
<1>7. QED
  BY <1>1, <1>6 DEF TxsMove

LEMMA FailsMoves ==
  ASSUME Shape, Fails
  PROVE  TxsMove /\ DataMove
<1>1. txs # <<>> /\ txs' = Tail(txs) /\ UNCHANGED <<data, undo, calls>>
  BY DEF Fails
<1>2. Layers' = Layers
  BY <1>1 DEF Layers
<1>3. QED
  BY <1>1, <1>2 DEF TxsMove, DataMove, Explained

LEMMA EndsMove ==
  ASSUME Shape, Commit \/ Abort
  PROVE  TxsMove /\ DataMove
<1>1. /\ undo # None /\ undo' = None /\ data' \in {data, undo} /\ UNCHANGED <<txs, calls>>
  BY DEF Commit, Abort
<1>2. Layers' \subseteq Layers
  BY <1>1 DEF Layers
<1>3. QED
  BY <1>1, <1>2 DEF TxsMove, DataMove, Explained

LEMMA WatchFields ==
  ASSUME Shape, NEW w \in Watcher
  PROVE  /\ On(w) => /\ watch[w].key \in Key /\ watch[w].buffer \in Seq(Entry \cup {Failure})
                     /\ watch[w].last \in Entry \cup {None} /\ watch[w].since \in Nat
                     /\ watch[w] = [state |-> "on", key |-> watch[w].key, buffer |-> watch[w].buffer,
                                    last |-> watch[w].last, since |-> watch[w].since]
         /\ watch[w].state \in {"off", "on", "stopped", "failed"}
BY DEF Shape, WatchType, On

LEMMA StepMoves ==
  ASSUME Shape, [Next]_vars
  PROVE  TxsMove /\ DataMove
<1>1. CASE UNCHANGED vars
  BY <1>1, Shared DEF vars, dbVars
<1>2. ASSUME NEW c \in Client, NEW op \in Operation, NEW k \in Targets(op),
             CallMemory(c, op, k) \/ CallIndexedDB(c, op, k)
      PROVE  TxsMove /\ DataMove
  <2>1. k \in Key
    BY TargetsFacts
  <2>2. QED
    BY <1>2, <2>1, CallMemoryMoves, CallIndexedDBMoves
<1>3. CASE Succeeds \/ Fails \/ Commit \/ Abort
  BY <1>3, SucceedsMoves, FailsMoves, EndsMove
<1>4. CASE Release
  BY <1>4, Shared DEF Release
<1>5. ASSUME NEW w \in Watcher, NEW k \in Key, Watch(w, k) PROVE TxsMove /\ DataMove
  BY <1>5, Shared DEF Watch, dbVars
<1>6. ASSUME NEW w \in Watcher, Deliver(w) \/ Unwatch(w) PROVE TxsMove /\ DataMove
  BY <1>6, Shared DEF Deliver, Unwatch, dbVars
<1>7. ASSUME NEW w \in Watcher, Poll(w) PROVE TxsMove /\ DataMove
  <2>1. On(w)
    BY <1>7 DEF Poll
  <2>2. watch[w].key \in Key
    BY <2>1, WatchFields
  <2>3. QED
    BY <1>7, <2>2, PollMoves
<1>8. QED
  BY <1>1, <1>2, <1>3, <1>4, <1>5, <1>6, <1>7 DEF Next

-----------------------------------------------------------------------------
(* Versions are times: what is past stays past, and covered stays covered.  *)

LEMMA PastStays ==
  ASSUME Shape, TxsMove, NEW v, Past(v)
  PROVE  Past(v)'
<1>1. calls \in Nat /\ txs \in Seq(Request) /\ calls' \in {calls, calls + 1}
  BY ShapeFacts DEF TxsMove
<1>2. v \in 1..calls' /\ v \in 1..calls
  BY <1>1 DEF Past
<1>3. CASE txs' = txs
  BY <1>2, <1>3 DEF Past
<1>4. CASE txs # <<>> /\ txs' = Tail(txs)
  BY <1>1, <1>2, <1>4, TailFacts DEF Past
<1>5. ASSUME NEW t \in Request, Queues(t) PROVE Past(v)'
  <2>1. txs' = Append(txs, t) /\ (t.op \in Write => t.entry.version = calls + 1)
    BY <1>5 DEF Queues
  <2>2. ASSUME NEW i \in DOMAIN txs', txs'[i].op \in Write PROVE v < txs'[i].entry.version
    <3>1. CASE i \in DOMAIN txs
      BY <1>1, <2>1, <2>2, <3>1, AppendFacts DEF Past
    <3>2. CASE i = Len(txs) + 1
      <4>1. txs'[i] = t
        BY <1>1, <2>1, <3>2, AppendFacts
      <4>2. QED
        BY <1>1, <1>2, <2>1, <2>2, <4>1
    <3>3. QED
      BY <1>1, <2>1, <3>1, <3>2, AppendFacts
  <2>3. QED
    BY <1>2, <2>2 DEF Past
<1>6. QED
  BY <1>3, <1>4, <1>5 DEF TxsMove

LEMMA CoveredStays ==
  ASSUME Shape, AllSound, TxsMove, DataMove, NEW x \in Entry, NEW k \in Key, Covered(x, k)
  PROVE  Covered(x, k)'
<1>1. Past(x.version) /\ Past(x.version)' /\ x.version \in 1..calls /\ calls \in Nat
  BY PastStays, ShapeFacts DEF Covered, Past
<1>2. ASSUME NEW d \in Layers', d[k] # None PROVE x.version <= d[k].version
  <2>1. CASE \E e \in Layers : d[k] = e[k]
    BY <1>2, <2>1 DEF Covered
  <2>2. CASE txs # <<>> /\ Head(txs).op \in Write /\ d[k] = Head(txs).entry
    <3>1. 1 \in DOMAIN txs /\ Head(txs) = txs[1]
      BY <2>2, TailFacts DEF Shape
    <3>2. x.version < txs[1].entry.version /\ txs[1].entry.version \in 1..calls
      BY <1>1, <2>2, <3>1 DEF Past, AllSound, Sound, ToSet
    <3>3. QED
      BY <1>1, <2>2, <3>1, <3>2
  <2>3. CASE d[k].version = calls + 1
    BY <1>1, <2>3
  <2>4. QED
    BY <1>2, <2>1, <2>2, <2>3 DEF DataMove, Explained
<1>3. QED
  BY <1>1, <1>2 DEF Covered

LEMMA StoredStays ==
  ASSUME Shape, AllSound, InTurn, StoredPast, TxsMove, DataMove
  PROVE  StoredPast'
<1>1. calls \in Nat /\ txs \in Seq(Request)
  BY ShapeFacts
<1>2. ASSUME NEW k \in Key, NEW d \in Layers', d[k] # None PROVE Past(d[k].version)'
  <2>1. CASE \E e \in Layers : d[k] = e[k]
    BY <1>2, <2>1, PastStays DEF StoredPast
  <2>2. CASE txs # <<>> /\ txs' = Tail(txs) /\ Head(txs).op \in Write /\ d[k] = Head(txs).entry
    <3>1. 1 \in DOMAIN txs /\ Head(txs) = txs[1]
      BY <1>1, <2>2, TailFacts
    <3>2. d[k].version \in 1..calls'
      BY <1>1, <2>2, <3>1 DEF AllSound, Sound, TxsMove, ToSet
    <3>3. ASSUME NEW i \in DOMAIN txs', txs'[i].op \in Write
          PROVE  d[k].version < txs'[i].entry.version
      <4>1. i + 1 \in DOMAIN txs /\ txs'[i] = txs[i + 1] /\ 1 < i + 1
        BY <1>1, <2>2, TailFacts
      <4>2. QED
        BY <2>2, <3>1, <3>3, <4>1 DEF InTurn
    <3>4. QED
      BY <3>2, <3>3 DEF Past
  <2>3. CASE txs' = <<>> /\ calls' = calls + 1 /\ d[k].version = calls + 1
    BY <1>1, <2>3 DEF Past
  <2>4. QED
    BY <1>2, <2>1, <2>2, <2>3 DEF DataMove, Explained
<1>3. QED
  BY <1>2 DEF StoredPast

LEMMA InTurnStays ==
  ASSUME Shape, AllSound, InTurn, TxsMove
  PROVE  InTurn'
<1>1. calls \in Nat /\ txs \in Seq(Request)
  BY ShapeFacts
<1>2. CASE txs' = txs
  BY <1>2 DEF InTurn
<1>3. CASE txs # <<>> /\ txs' = Tail(txs)
  <2>1. \A i \in DOMAIN txs' : i \in Int /\ i + 1 \in DOMAIN txs /\ txs'[i] = txs[i + 1]
    BY <1>1, <1>3, TailFacts
  <2>2. QED
    BY <2>1 DEF InTurn
<1>4. ASSUME NEW t \in Request, Queues(t) PROVE InTurn'
  <2>1. txs' = Append(txs, t) /\ (t.op \in Write => t.entry.version = calls + 1)
    BY <1>4 DEF Queues
  <2>2. /\ DOMAIN txs' = DOMAIN txs \cup {Len(txs) + 1} /\ txs'[Len(txs) + 1] = t
        /\ \A i \in DOMAIN txs : i \in 1..Len(txs) /\ txs'[i] = txs[i]
    BY <1>1, <2>1, AppendFacts
  <2>3. ASSUME NEW i \in DOMAIN txs', NEW j \in DOMAIN txs', i < j,
               txs'[i].op \in Write, txs'[j].op \in Write
        PROVE  txs'[i].entry.version < txs'[j].entry.version
    <3>1. i \in DOMAIN txs
      BY <1>1, <2>2, <2>3
    <3>2. CASE j \in DOMAIN txs
      BY <2>2, <2>3, <3>1, <3>2 DEF InTurn
    <3>3. CASE j = Len(txs) + 1
      BY <1>1, <2>1, <2>2, <2>3, <3>1, <3>3 DEF AllSound, Sound, ToSet
    <3>4. QED
      BY <2>2, <3>2, <3>3
  <2>4. QED
    BY <2>3 DEF InTurn
<1>5. QED
  BY <1>2, <1>3, <1>4 DEF TxsMove

LEMMA CommittedCovered ==
  ASSUME Shape, StoredPast, UndoOlder, NEW k \in Key, Committed[k] # None
  PROVE  Covered(Committed[k], k)
<1>1. Committed \in Layers /\ Past(Committed[k].version)
  BY ShapeFacts DEF StoredPast
<1>2. ASSUME NEW d \in Layers, d[k] # None PROVE Committed[k].version <= d[k].version
  <2>1. Committed[k].version \in Nat
    BY ShapeFacts, EntryFacts
  <2>2. d = data \/ d = undo
    BY DEF Layers
  <2>3. QED
    BY <1>2, <2>1, <2>2, ShapeFacts DEF UndoOlder
<1>3. QED
  BY <1>1, <1>2 DEF Covered

\* A stream that has begun does not begin again, and watches one key.
LEMMA WatchKeys ==
  ASSUME Shape, [Next]_vars, NEW w \in Watcher, watch[w].state # "off"
  PROVE  /\ watch'[w].state # "off"
         /\ On(w)' => On(w) /\ watch'[w].key = watch[w].key
<1>1. On(w) => /\ watch[w] = [state |-> "on", key |-> watch[w].key, buffer |-> watch[w].buffer,
                               last |-> watch[w].last, since |-> watch[w].since]
               /\ \A x : Emit(w, x).state = "on" /\ Emit(w, x).key = watch[w].key
  <2>1. On(w) => watch[w] = [state |-> "on", key |-> watch[w].key, buffer |-> watch[w].buffer,
                             last |-> watch[w].last, since |-> watch[w].since]
    BY WatchFields
  <2>2. QED
    BY <2>1 DEF Emit
<1>2. watch \in [Watcher -> WatchType]
  BY DEF Shape
<1>3. CASE watch'[w] = watch[w]
  BY <1>3 DEF On
<1>4. ASSUME NEW c \in Client, NEW op \in Operation, NEW k \in Key, CallMemory(c, op, k)
      PROVE  watch'[w] = watch[w] \/ (On(w) /\ \E x : watch'[w] = Emit(w, x))
  BY <1>4 DEF CallMemory, Notified
<1>5. ASSUME NEW v \in Watcher, NEW x, Heard(v, x)
      PROVE  watch'[w] = watch[w] \/ (On(w) /\ \E y : watch'[w] = Emit(w, y))
  BY <1>2, <1>5 DEF Heard
<1>6. ASSUME NEW v \in Watcher, NEW k \in Key, Watch(v, k) PROVE watch'[w] = watch[w]
  BY <1>6, <1>2 DEF Watch
<1>7. ASSUME NEW v \in Watcher, Deliver(v)
      PROVE  \/ watch'[w] = watch[w]
             \/ On(w) /\ watch'[w].state = "failed"
             \/ On(w) /\ watch'[w].state = "on" /\ watch'[w].key = watch[w].key
  BY <1>1, <1>2, <1>7 DEF Deliver
<1>8. ASSUME NEW v \in Watcher, Unwatch(v)
      PROVE  watch'[w] = watch[w] \/ watch'[w].state = "stopped"
  BY <1>2, <1>8 DEF Unwatch
<1>9. CASE On(w) /\ \E x : watch'[w] = Emit(w, x)
  BY <1>1, <1>9 DEF On
<1>10. ASSUME NEW v \in Watcher, Poll(v)
       PROVE  watch'[w] = watch[w] \/ (On(w) /\ \E y : watch'[w] = Emit(w, y))
  BY <1>5, <1>10 DEF Poll
<1>11. CASE Succeeds \/ Fails
  <2>1. \/ watch' = watch
        \/ Head(txs).by \notin Client /\ txs # <<>> /\ \E x : Heard(Head(txs).by, x)
    BY <1>11 DEF Succeeds, Fails
  <2>2. txs # <<>> => Head(txs).by \in Client \cup Watcher
    BY TailFacts, RequestFields DEF Shape
  <2>3. QED
    BY <1>3, <1>5, <1>9, <2>1, <2>2
<1>12. CASE UNCHANGED watch
  BY <1>3, <1>12
<1>13. ASSUME NEW c \in Client, NEW op \in Operation, NEW k \in Targets(op),
              CallMemory(c, op, k) \/ CallIndexedDB(c, op, k)
       PROVE  watch'[w] = watch[w] \/ (On(w) /\ \E y : watch'[w] = Emit(w, y))
  BY <1>4, <1>13, TargetsFacts DEF CallIndexedDB
<1>14. Commit \/ Abort \/ Release \/ UNCHANGED vars => UNCHANGED watch
  BY DEF Commit, Abort, Release, vars
<1>15. ASSUME NEW v \in Watcher, Deliver(v) \/ Unwatch(v)
       PROVE  /\ watch'[w].state # "off"
              /\ On(w)' => On(w) /\ watch'[w].key = watch[w].key
  BY <1>3, <1>7, <1>8, <1>15 DEF On
<1>16. QED
  BY <1>3, <1>6, <1>9, <1>10, <1>11, <1>12, <1>13, <1>14, <1>15 DEF Next

LEMMA SoundStays ==
  ASSUME Shape, AllSound, [Next]_vars, TxsMove, DataMove, NEW t \in Request, Sound(t)
  PROVE  Sound(t)'
<1>1. t.floor # None => Covered(t.floor, t.key)'
  <2>1. t.floor # None => t.floor \in Entry /\ t.key \in Key /\ Covered(t.floor, t.key)
    BY RequestFields DEF Sound
  <2>2. QED
    BY <2>1, CoveredStays
<1>2. t.op \in Write => t.entry \in Entry /\ t.entry.version \in 1..calls'
  BY ShapeFacts DEF Sound, TxsMove
<1>3. t.by \in Watcher => /\ watch[t.by].state # "off" /\ t.op = "get"
                          /\ On(t.by) => watch[t.by].key = t.key
  BY DEF Sound
<1>4. ASSUME t.by \in Watcher
      PROVE  watch'[t.by].state # "off" /\ (On(t.by)' => watch'[t.by].key = t.key)
  <2>1. PICK w \in Watcher : w = t.by
    BY <1>4
  <2>2. watch'[w].state # "off" /\ (On(w)' => On(w) /\ watch'[w].key = watch[w].key)
    BY <1>3, <2>1, WatchKeys
  <2>3. QED
    BY <1>3, <2>1, <2>2 DEF On
<1>5. QED
  BY <1>1, <1>2, <1>3, <1>4 DEF Sound, On

LEMMA AllSoundStays ==
  ASSUME Shape, AllSound, StoredPast, UndoOlder, [Next]_vars, TxsMove, DataMove
  PROVE  AllSound'
<1>1. calls \in Nat /\ txs \in Seq(Request)
  BY ShapeFacts
<1>2. ToSet(txs) \subseteq Request /\ \A t \in ToSet(txs) : Sound(t)'
  <2>1. ToSet(txs) \subseteq Request
    BY <1>1 DEF ToSet
  <2>2. QED
    BY <2>1, SoundStays DEF AllSound
<1>3. CASE txs' = txs
  BY <1>2, <1>3 DEF AllSound, ToSet
<1>4. CASE txs # <<>> /\ txs' = Tail(txs)
  <2>1. ToSet(txs)' \subseteq ToSet(txs)
    BY <1>1, <1>4, TailFacts DEF ToSet
  <2>2. QED
    BY <1>2, <2>1 DEF AllSound
<1>5. ASSUME NEW t \in Request, Queues(t) PROVE AllSound'
  <2>1. /\ txs' = Append(txs, t)
        /\ t.op \in Write => t.entry \in Entry /\ t.entry.version = calls + 1 /\ calls' = calls + 1
        /\ t.floor = IF t.op \in Read THEN Committed[t.key] ELSE None
    BY <1>5 DEF Queues
  <2>2. t.floor # None => Covered(t.floor, t.key)'
    <3>1. t.key \in Key /\ t.floor \in Entry \cup {None}
      BY RequestFields
    <3>2. ASSUME t.floor # None PROVE Covered(t.floor, t.key)'
      <4>1. t.floor \in Entry /\ t.floor = Committed[t.key]
        BY <2>1, <3>1, <3>2
      <4>2. Covered(t.floor, t.key)
        BY <3>1, <3>2, <4>1, CommittedCovered
      <4>3. QED
        BY <3>1, <4>1, <4>2, CoveredStays
    <3>3. QED
      BY <3>2
  <2>3. t.by \in Watcher => t.op = "get" /\ On(t.by) /\ watch[t.by].key = t.key /\ UNCHANGED watch
    BY <1>5, ActorAssumption DEF Queues
  <2>4. Sound(t)'
    BY <1>1, <2>1, <2>2, <2>3 DEF Sound, On
  <2>5. ToSet(txs)' \subseteq ToSet(txs) \cup {t}
    BY <1>1, <2>1, AppendFacts DEF ToSet
  <2>6. QED
    BY <1>2, <2>4, <2>5 DEF AllSound
<1>6. QED
  BY <1>3, <1>4, <1>5 DEF TxsMove

LEMMA UndoStays ==
  ASSUME Shape, AllSound, StoredPast, UndoOlder, [Next]_vars
  PROVE  UndoOlder'
<1>1. CASE Succeeds
  <2>1. /\ txs # <<>> /\ undo = None /\ data' = After(Head(txs)) /\ undo' \in {None, data}
    BY <1>1 DEF Succeeds
  <2>2. Head(txs) = txs[1] /\ 1 \in DOMAIN txs /\ Head(txs) \in Request
    BY <2>1, TailFacts DEF Shape
  <2>3. ASSUME NEW k \in Key, data[k] # None, data'[k] # None
        PROVE  data[k].version <= data'[k].version
    <3>1. Past(data[k].version) /\ data[k].version \in Nat
      BY <2>3, ShapeFacts, EntryFacts DEF StoredPast
    <3>2. CASE data'[k] = data[k]
      BY <3>1, <3>2
    <3>3. CASE Head(txs).op \in Write /\ data'[k] = Head(txs).entry
      <4>1. txs[1].op \in Write /\ data'[k].version = txs[1].entry.version
        BY <2>2, <3>3
      <4>2. data[k].version < txs[1].entry.version /\ txs[1].entry.version \in Int
        BY <2>2, <3>1, <4>1 DEF Past, AllSound, Sound, ToSet
      <4>3. QED
        BY <3>1, <4>1, <4>2
    <3>4. QED
      BY <2>1, <2>2, <2>3, <3>2, <3>3, AfterFacts, ShapeFacts
  <2>4. QED
    BY <2>1, <2>3 DEF UndoOlder
<1>2. CASE undo' = None
  BY <1>2 DEF UndoOlder
<1>3. CASE UNCHANGED <<data, undo>>
  BY <1>3 DEF UndoOlder
<1>4. ASSUME NEW c \in Client, NEW op \in Operation, NEW k \in Targets(op),
             CallMemory(c, op, k) \/ CallIndexedDB(c, op, k)
      PROVE  undo' = None \/ UNCHANGED <<data, undo>>
  BY <1>4 DEF CallMemory, CallIndexedDB, Shape, dbVars
<1>5. Fails \/ Release \/ UNCHANGED vars => UNCHANGED <<data, undo>>
  BY DEF Fails, Release, vars, dbVars
<1>6. Commit \/ Abort => undo' = None
  BY DEF Commit, Abort
<1>7. ASSUME NEW w \in Watcher, (\E k \in Key : Watch(w, k)) \/ Poll(w) \/ Deliver(w) \/ Unwatch(w)
      PROVE  UNCHANGED <<data, undo>>
  BY <1>7 DEF Watch, Poll, Deliver, Unwatch, dbVars
<1>8. QED
  BY <1>1, <1>2, <1>3, <1>4, <1>5, <1>6, <1>7 DEF Next

-----------------------------------------------------------------------------
(* A client waits for one transaction.                                      *)

LEMMA OneEachQueues ==
  ASSUME Shape, OneEach, NEW t \in Request, Queues(t)
  PROVE  OneEach'
<1>1. /\ DOMAIN txs' = DOMAIN txs \cup {Len(txs) + 1} /\ txs'[Len(txs) + 1] = t
      /\ \A i \in DOMAIN txs : txs'[i] = txs[i] /\ i # Len(txs) + 1
  <2>1. txs' = Append(txs, t) /\ txs \in Seq(Request)
    BY ShapeFacts DEF Queues
  <2>2. QED
    BY <2>1, AppendFacts
<1>2. CASE t.by \in Watcher /\ UNCHANGED call
  <2>1. t.by \notin Client
    BY <1>2, ActorAssumption
  <2>2. QED
    BY <1>1, <1>2, <2>1 DEF OneEach
<1>3. CASE t.by \in Client /\ call[t.by].pc # "requested"
             /\ call' = [call EXCEPT ![t.by] = [pc |-> "requested"]]
  <2>1. \A i \in DOMAIN txs : txs[i].by # t.by
    BY <1>3 DEF OneEach
  <2>2. \A c \in Client : call'[c].pc = "requested" <=> call[c].pc = "requested" \/ c = t.by
    BY <1>3 DEF Shape
  <2>3. QED
    BY <1>1, <1>3, <2>1, <2>2 DEF OneEach
<1>4. QED
  BY <1>2, <1>3 DEF Queues

LEMMA OneEachRuns ==
  ASSUME Shape, OneEach, txs # <<>>, txs' = Tail(txs),
         \A c \in Client : IF c = Head(txs).by THEN call'[c].pc = "answered" ELSE call'[c] = call[c]
  PROVE  OneEach'
<1>1. /\ \A i \in DOMAIN txs' : i \in Int /\ i + 1 \in DOMAIN txs /\ txs'[i] = txs[i + 1] /\ i + 1 # 1
      /\ \A i \in DOMAIN txs : i # 1 => i - 1 \in DOMAIN txs' /\ txs'[i - 1] = txs[i]
      /\ 1 \in DOMAIN txs /\ Head(txs) = txs[1]
  <2>1. txs \in Seq(Request)
    BY ShapeFacts
  <2>2. QED
    BY <2>1, TailFacts
<1>2. \A i, j \in DOMAIN txs' : txs'[i].by \in Client /\ txs'[i].by = txs'[j].by => i = j
  <2> SUFFICES ASSUME NEW i \in DOMAIN txs', NEW j \in DOMAIN txs',
                      txs'[i].by \in Client, txs'[i].by = txs'[j].by
               PROVE  i = j
    OBVIOUS
  <2>1. i + 1 = j + 1
    BY <1>1 DEF OneEach
  <2>2. QED
    BY <1>1, <2>1
<1>3. ASSUME NEW c \in Client
      PROVE  call'[c].pc = "requested" <=> \E i \in DOMAIN txs' : txs'[i].by = c
  <2>1. CASE c = txs[1].by
    <3>1. \A i \in DOMAIN txs' : txs'[i].by # c
      BY <1>1, <2>1 DEF OneEach
    <3>2. QED
      BY <1>1, <2>1, <3>1
  <2>2. CASE c # txs[1].by
    <3>1. call'[c] = call[c]
      BY <1>1, <2>2
    <3>2. ASSUME NEW i \in DOMAIN txs, txs[i].by = c PROVE \E j \in DOMAIN txs' : txs'[j].by = c
      <4>1. i - 1 \in DOMAIN txs' /\ txs'[i - 1] = txs[i]
        BY <1>1, <2>2, <3>2
      <4>2. QED
        BY <3>2, <4>1
    <3>3. ASSUME NEW j \in DOMAIN txs', txs'[j].by = c PROVE \E i \in DOMAIN txs : txs[i].by = c
      BY <1>1, <3>3
    <3>4. QED
      BY <3>1, <3>2, <3>3 DEF OneEach
  <2>3. QED
    BY <2>1, <2>2
<1>4. QED
  BY <1>2, <1>3 DEF OneEach

LEMMA OneEachStays ==
  ASSUME Shape, OneEach, [Next]_vars, TxsMove
  PROVE  OneEach'
<1>1. txs \in Seq(Request) /\ call \in [Client -> CallType]
  BY ShapeFacts DEF Shape
<1>2. CASE txs' = txs /\ \A c \in Client : \/ call'[c] = call[c]
                                           \/ call[c].pc # "requested" /\ call'[c].pc # "requested"
  BY <1>2 DEF OneEach
<1>3. ASSUME NEW c \in Client, NEW t, NEW a, Answered(c, t, a)
      PROVE  /\ call'[c].pc = "answered"
             /\ \A b \in Client : b # c => call'[b] = call[b]
  BY <1>1, <1>3 DEF Answered
<1>4. ASSUME NEW c \in Client, NEW op \in Operation, NEW k \in Key, CallMemory(c, op, k)
      PROVE  OneEach'
  <2>1. \E t \in Requests(c, op, k) : Answered(c, t, Answer(t))
    BY <1>4 DEF CallMemory
  <2>2. txs' = txs /\ call[c].pc # "requested"
    BY <1>4 DEF CallMemory, Begins, dbVars
  <2>3. QED
    BY <1>2, <1>3, <2>1, <2>2
<1>5. ASSUME NEW c \in Client, NEW op \in Operation, NEW k \in Key, CallIndexedDB(c, op, k)
      PROVE  OneEach'
  <2>1. PICK t \in Requests(c, op, k) :
          IF closed
            THEN Answered(c, t, [status |-> "died", entry |-> None]) /\ UNCHANGED txs
            ELSE txs' = Append(txs, t)
    BY <1>5 DEF CallIndexedDB
  <2>2. call[c].pc # "requested" /\ t \in Request
    BY <1>5, RequestsFacts DEF CallIndexedDB, Begins
  <2>3. CASE closed
    BY <1>2, <1>3, <2>1, <2>2, <2>3
  <2>4. CASE ~closed
    <3>1. Len(txs') = Len(txs) + 1 /\ Len(txs) \in Nat
      BY <1>1, <2>1, <2>2, <2>4, AppendFacts
    <3>2. txs' # txs /\ ~(txs # <<>> /\ txs' = Tail(txs))
      BY <1>1, <3>1, TailFacts
    <3>3. QED
      BY <3>2, OneEachQueues DEF TxsMove
  <2>5. QED
    BY <2>3, <2>4
<1>6. CASE Succeeds \/ Fails
  <2>1. /\ txs # <<>> /\ txs' = Tail(txs)
        /\ IF Head(txs).by \in Client THEN \E t, a : Answered(Head(txs).by, t, a) ELSE UNCHANGED call
    BY <1>6 DEF Succeeds, Fails
  <2>2. \A c \in Client : IF c = Head(txs).by THEN call'[c].pc = "answered" ELSE call'[c] = call[c]
    BY <1>3, <2>1
  <2>3. QED
    BY <2>1, <2>2, OneEachRuns
<1>7. ASSUME NEW w \in Watcher, Poll(w) PROVE OneEach'
  <2>1. UNCHANGED call
    BY <1>7 DEF Poll
  <2>2. CASE txs' = txs
    BY <1>2, <2>1, <2>2
  <2>3. CASE txs' # txs
    <3>1. "get" \in Operation /\ watch[w].key \in Key
      BY <1>7, WatchFields DEF Poll, Operation, Read
    <3>2. \E t \in Requests(w, "get", watch[w].key) : txs' = Append(txs, t)
      BY <1>7, <2>3 DEF Poll
    <3>3. \E t \in Request : txs' = Append(txs, t)
      BY <3>1, <3>2, RequestsFacts
    <3>4. Len(txs') = Len(txs) + 1 /\ Len(txs) \in Nat
      BY <1>1, <3>3, AppendFacts
    <3>5. ~(txs # <<>> /\ txs' = Tail(txs))
      BY <1>1, <3>4, TailFacts
    <3>6. QED
      BY <2>3, <3>5, OneEachQueues DEF TxsMove
  <2>4. QED
    BY <2>2, <2>3
<1>8. Commit \/ Abort \/ Release \/ UNCHANGED vars => UNCHANGED <<txs, call>>
  BY DEF Commit, Abort, Release, vars, dbVars
<1>9. ASSUME NEW w \in Watcher, (\E k \in Key : Watch(w, k)) \/ Deliver(w) \/ Unwatch(w)
      PROVE  UNCHANGED <<txs, call>>
  BY <1>9 DEF Watch, Deliver, Unwatch, dbVars
<1>10. QED
  BY <1>2, <1>4, <1>5, <1>6, <1>7, <1>8, <1>9, TargetsFacts DEF Next

-----------------------------------------------------------------------------
(* The state keeps its shape.                                               *)

LEMMA AnsweredType ==
  ASSUME Shape, NEW c \in Client, NEW t \in Request, NEW a \in AnswerType, Answered(c, t, a)
  PROVE  call' \in [Client -> CallType]
<1>1. [pc |-> "answered", request |-> t, answer |-> a] \in CallType
  BY DEF CallType, AnswerType
<1>2. QED
  BY <1>1 DEF Shape, Answered

\* What a record of a stream is with another buffer, and another entry handed out last.
LEMMA StreamRecord ==
  ASSUME NEW r \in WatchType, r.state = "on", NEW y
  PROVE  [r EXCEPT !.buffer = y]
           = [state |-> "on", key |-> r.key, buffer |-> y, last |-> r.last, since |-> r.since]
<1>1. r \in [state : {"on"}, key : {r.key}, buffer : {r.buffer}, last : {r.last}, since : {r.since}]
  BY DEF WatchType
<1>2. [r EXCEPT !.buffer = y]
        \in [state : {"on"}, key : {r.key}, buffer : {y}, last : {r.last}, since : {r.since}]
  BY <1>1
<1>3. \A q \in [state : {"on"}, key : {r.key}, buffer : {y}, last : {r.last}, since : {r.since}] :
        q = [state |-> "on", key |-> r.key, buffer |-> y, last |-> r.last, since |-> r.since]
  OBVIOUS
<1>4. QED
  BY <1>2, <1>3

LEMMA DeliverRecord ==
  ASSUME NEW r \in WatchType, r.state = "on", NEW y, NEW z
  PROVE  [r EXCEPT !.buffer = y, !.last = z]
           = [state |-> "on", key |-> r.key, buffer |-> y, last |-> z, since |-> r.since]
<1>1. r \in [state : {"on"}, key : {r.key}, buffer : {r.buffer}, last : {r.last}, since : {r.since}]
  BY DEF WatchType
<1>2. [r EXCEPT !.buffer = y, !.last = z]
        \in [state : {"on"}, key : {r.key}, buffer : {y}, last : {z}, since : {r.since}]
  BY <1>1
<1>3. \A q \in [state : {"on"}, key : {r.key}, buffer : {y}, last : {z}, since : {r.since}] :
        q = [state |-> "on", key |-> r.key, buffer |-> y, last |-> z, since |-> r.since]
  OBVIOUS
<1>4. QED
  BY <1>2, <1>3

LEMMA EmitType ==
  ASSUME Shape, NEW w \in Watcher, On(w), NEW x \in Entry \cup {Failure}
  PROVE  /\ Emit(w, x) \in WatchType
         /\ Emit(w, x) = [state |-> "on", key |-> watch[w].key, buffer |-> Append(watch[w].buffer, x),
                          last |-> watch[w].last, since |-> watch[w].since]
<1>1. /\ watch[w].key \in Key /\ watch[w].buffer \in Seq(Entry \cup {Failure})
      /\ watch[w].last \in Entry \cup {None} /\ watch[w].since \in Nat
      /\ watch[w] = [state |-> "on", key |-> watch[w].key, buffer |-> watch[w].buffer,
                     last |-> watch[w].last, since |-> watch[w].since]
  BY WatchFields
<1>2. Append(watch[w].buffer, x) \in Seq(Entry \cup {Failure})
  BY <1>1, AppendProperties
<1>3. Emit(w, x) = [state |-> "on", key |-> watch[w].key, buffer |-> Append(watch[w].buffer, x),
                    last |-> watch[w].last, since |-> watch[w].since]
  <2>1. Emit(w, x) = [watch[w] EXCEPT !.buffer = Append(watch[w].buffer, x)]
    BY DEF Emit
  <2>2. QED
    BY <2>1, StreamRecord DEF On, Shape
<1>4. QED
  BY <1>1, <1>2, <1>3 DEF WatchType

LEMMA HeardType ==
  ASSUME Shape, NEW w \in Watcher, NEW x \in Entry \cup {Failure}, Heard(w, x)
  PROVE  watch' \in [Watcher -> WatchType]
BY EmitType DEF Shape, Heard

LEMMA CallsGrow ==
  ASSUME Shape, NEW c \in Client, Begins(c)
  PROVE  calls' \in 0..MaxCalls /\ 1..calls \subseteq 1..calls'
BY BoundAssumption, ShapeFacts DEF Shape, Begins

LEMMA FaultsGrow ==
  ASSUME Shape, Fault
  PROVE  faults' \in 0..MaxFaults
BY BoundAssumption DEF Shape, Fault

LEMMA CallMemoryShape ==
  ASSUME Shape, NEW c \in Client, NEW op \in Operation, NEW k \in Key, CallMemory(c, op, k)
  PROVE  Shape'
<1>1. PICK t \in Requests(c, op, k) :
        data' = After(t) /\ watch' = Notified(t) /\ Answered(c, t, Answer(t))
  BY DEF CallMemory
<1>2. t \in Request /\ (t.op \in Write => t.entry \in Entry)
  BY <1>1, RequestsFacts
<1>3. data' \in [Key -> Entry \cup {None}]
  BY <1>1, <1>2, AfterFacts DEF Shape
<1>4. call' \in [Client -> CallType]
  BY <1>1, <1>2, AnswerFacts, AnsweredType DEF Shape
<1>5. watch' \in [Watcher -> WatchType]
  BY <1>1, <1>2, EmitType DEF Notified, Shape
<1>6. calls' \in 0..MaxCalls /\ 1..calls \subseteq 1..calls'
  BY CallsGrow DEF CallMemory
<1>7. UNCHANGED <<medium, txs, undo, closed, faults, lost>>
  BY DEF CallMemory, dbVars
<1>8. QED
  BY <1>3, <1>4, <1>5, <1>6, <1>7 DEF Shape

LEMMA CallIndexedDBShape ==
  ASSUME Shape, NEW c \in Client, NEW op \in Operation, NEW k \in Key, CallIndexedDB(c, op, k)
  PROVE  Shape'
<1>1. PICK t \in Requests(c, op, k) :
        IF closed
          THEN Answered(c, t, [status |-> "died", entry |-> None]) /\ UNCHANGED txs
          ELSE call' = [call EXCEPT ![c] = [pc |-> "requested"]] /\ txs' = Append(txs, t)
  BY DEF CallIndexedDB
<1>2. t \in Request
  BY <1>1, RequestsFacts
<1>3. call' \in [Client -> CallType]
  <2>1. CASE closed
    BY <1>1, <1>2, <2>1, AnsweredType DEF AnswerType
  <2>2. CASE ~closed
    <3>1. [pc |-> "requested"] \in CallType
      BY DEF CallType
    <3>2. QED
      BY <1>1, <2>2, <3>1 DEF Shape
  <2>3. QED
    BY <2>1, <2>2
<1>4. txs' \in Seq(Request)
  BY <1>1, <1>2, AppendProperties DEF Shape
<1>5. calls' \in 0..MaxCalls /\ 1..calls \subseteq 1..calls'
  BY CallsGrow DEF CallIndexedDB
<1>6. UNCHANGED <<medium, data, undo, closed, watch, faults, lost>> /\ medium = "indexeddb"
  BY DEF CallIndexedDB
<1>7. QED
  BY <1>3, <1>4, <1>5, <1>6 DEF Shape

LEMMA SucceedsShape == Shape /\ Succeeds => Shape'
<1> SUFFICES ASSUME Shape, Succeeds PROVE Shape'
  OBVIOUS
<1> DEFINE t == Head(txs)
<1>1. /\ txs # <<>> /\ txs' = Tail(txs) /\ data' = After(t) /\ undo' \in {None, data}
      /\ IF t.by \in Client
           THEN Answered(t.by, t, Answer(t)) /\ UNCHANGED watch
           ELSE /\ IF data[t.key] # None THEN Heard(t.by, data[t.key]) ELSE UNCHANGED watch
                /\ UNCHANGED call
      /\ UNCHANGED <<medium, closed, calls, faults, lost>>
  BY DEF Succeeds
<1>2. t \in Request /\ txs' \in Seq(Request)
  BY <1>1, TailFacts DEF Shape
<1> HIDE DEF t
<1>3. data' \in [Key -> Entry \cup {None}]
  BY <1>1, <1>2, AfterFacts DEF Shape
<1>4. call' \in [Client -> CallType]
  <2>1. CASE t.by \in Client
    BY <1>1, <1>2, <2>1, AnswerFacts, AnsweredType DEF Shape
  <2>2. CASE t.by \notin Client
    BY <1>1, <2>2 DEF Shape
  <2>3. QED
    BY <2>1, <2>2
<1>5. watch' \in [Watcher -> WatchType]
  <2>1. t.by \in Client \cup Watcher /\ data[t.key] \in Entry \cup {None}
    BY <1>2, RequestFields DEF Shape
  <2>2. QED
    BY <1>1, <2>1, HeardType DEF Shape
<1>6. medium # "memory"
  BY <1>1 DEF Shape
<1>7. QED
  BY <1>1, <1>2, <1>3, <1>4, <1>5, <1>6 DEF Shape

LEMMA FailsShape == Shape /\ Fails => Shape'
<1> SUFFICES ASSUME Shape, Fails PROVE Shape'
  OBVIOUS
<1> DEFINE t == Head(txs)
<1>1. /\ txs # <<>> /\ txs' = Tail(txs) /\ Fault
      /\ IF t.by \in Client
           THEN Answered(t.by, t, [status |-> "failed", entry |-> None]) /\ UNCHANGED watch
           ELSE Heard(t.by, Failure) /\ UNCHANGED call
      /\ UNCHANGED <<medium, data, undo, closed, calls, lost>>
  BY DEF Fails
<1>2. t \in Request /\ txs' \in Seq(Request)
  BY <1>1, TailFacts DEF Shape
<1> HIDE DEF t
<1>3. t.by \in Client \cup Watcher
  BY <1>2, RequestFields
<1>4. call' \in [Client -> CallType]
  <2>1. [status |-> "failed", entry |-> None] \in AnswerType
    BY DEF AnswerType
  <2>2. QED
    BY <1>1, <1>2, <2>1, AnsweredType DEF Shape
<1>5. watch' \in [Watcher -> WatchType]
  BY <1>1, <1>3, HeardType DEF Shape
<1>6. faults' \in 0..MaxFaults
  BY <1>1, FaultsGrow
<1>7. medium # "memory"
  BY <1>1 DEF Shape
<1>8. QED
  BY <1>1, <1>2, <1>4, <1>5, <1>6, <1>7 DEF Shape

LEMMA AbortShape == Shape /\ StoredPast /\ Abort => Shape'
<1> SUFFICES ASSUME Shape, StoredPast, Abort PROVE Shape'
  OBVIOUS
<1>1. /\ undo # None /\ Fault /\ data' = undo /\ undo' = None
      /\ lost' = lost \cup {data[k].version : k \in {k \in Key : data[k] \notin {None, undo[k]}}}
      /\ UNCHANGED <<medium, txs, closed, call, watch, calls>>
  BY DEF Abort
<1>2. \A k \in Key : data[k] # None => data[k].version \in 1..calls
  BY ShapeFacts DEF StoredPast, Past
<1>3. lost' \subseteq 1..calls
  BY <1>1, <1>2 DEF Shape
<1>4. faults' \in 0..MaxFaults
  BY <1>1, FaultsGrow
<1>5. QED
  BY <1>1, <1>3, <1>4 DEF Shape

LEMMA PollShape ==
  ASSUME Shape, NEW w \in Watcher, Poll(w)
  PROVE  Shape'
<1>1. /\ medium = "indexeddb" /\ On(w)
      /\ UNCHANGED <<medium, data, undo, closed, call, calls, faults, lost>>
  BY DEF Poll
<1>2. CASE closed
  <2>1. Heard(w, Failure) /\ UNCHANGED txs
    BY <1>2 DEF Poll
  <2>2. watch' \in [Watcher -> WatchType]
    BY <2>1, HeardType
  <2>3. QED
    BY <1>1, <2>1, <2>2 DEF Shape
<1>3. CASE ~closed
  <2>1. /\ UNCHANGED watch
        /\ \E t \in Requests(w, "get", watch[w].key) : txs' = Append(txs, t)
    BY <1>3 DEF Poll
  <2>2. PICK t \in Requests(w, "get", watch[w].key) : txs' = Append(txs, t)
    BY <2>1
  <2>3. "get" \in Operation /\ watch[w].key \in Key
    BY <1>1, WatchFields DEF Operation, Read
  <2>4. t \in Request
    BY <2>2, <2>3, RequestsFacts
  <2>5. txs' \in Seq(Request)
    BY <2>2, <2>4, AppendProperties DEF Shape
  <2>6. QED
    BY <1>1, <2>1, <2>5 DEF Shape
<1>4. QED
  BY <1>2, <1>3

LEMMA DeliverFacts ==
  ASSUME Shape, NEW w \in Watcher, Deliver(w)
  PROVE  /\ On(w) /\ watch[w].buffer # <<>>
         /\ watch' = [watch EXCEPT ![w] =
                        IF Head(watch[w].buffer) = Failure THEN [state |-> "failed"]
                        ELSE [state |-> "on", key |-> watch[w].key, buffer |-> Tail(watch[w].buffer),
                              last |-> Head(watch[w].buffer), since |-> watch[w].since]]
         /\ Head(watch[w].buffer) \in Entry \cup {Failure}
         /\ Tail(watch[w].buffer) \in Seq(Entry \cup {Failure})
<1>1. /\ On(w) /\ watch[w].buffer # <<>>
      /\ watch' = [watch EXCEPT ![w] =
                     IF Head(watch[w].buffer) = Failure THEN [state |-> "failed"]
                     ELSE [watch[w] EXCEPT !.buffer = Tail(watch[w].buffer), !.last = Head(watch[w].buffer)]]
  BY DEF Deliver
<1>2. /\ watch[w].buffer \in Seq(Entry \cup {Failure})
      /\ watch[w] = [state |-> "on", key |-> watch[w].key, buffer |-> watch[w].buffer,
                     last |-> watch[w].last, since |-> watch[w].since]
  BY <1>1, WatchFields
<1>3. [watch[w] EXCEPT !.buffer = Tail(watch[w].buffer), !.last = Head(watch[w].buffer)]
        = [state |-> "on", key |-> watch[w].key, buffer |-> Tail(watch[w].buffer),
           last |-> Head(watch[w].buffer), since |-> watch[w].since]
  <2>1. watch[w] \in WatchType /\ watch[w].state = "on"
    BY <1>1 DEF On, Shape
  <2>2. QED
    BY <2>1, DeliverRecord
<1>4. Head(watch[w].buffer) \in Entry \cup {Failure} /\ Tail(watch[w].buffer) \in Seq(Entry \cup {Failure})
  BY <1>1, <1>2, TailFacts
<1>5. QED
  BY <1>1, <1>3, <1>4

LEMMA StreamShape ==
  ASSUME Shape, NEW w \in Watcher, (\E k \in Key : Watch(w, k)) \/ Deliver(w) \/ Unwatch(w)
  PROVE  Shape'
<1>1. UNCHANGED <<medium, data, txs, undo, closed, call, calls, faults, lost>>
  BY DEF Watch, Deliver, Unwatch, dbVars
<1>2. ASSUME NEW k \in Key, Watch(w, k) PROVE watch' \in [Watcher -> WatchType]
  <2>1. [state |-> "on", key |-> k, buffer |-> <<>>, last |-> None, since |-> calls] \in WatchType
    BY ShapeFacts, EmptySeq DEF WatchType
  <2>2. QED
    BY <1>2, <2>1 DEF Watch, Shape
<1>3. CASE Deliver(w)
  <2>1. [state |-> "failed"] \in WatchType
    BY DEF WatchType
  <2>2. Head(watch[w].buffer) # Failure =>
          [state |-> "on", key |-> watch[w].key, buffer |-> Tail(watch[w].buffer),
           last |-> Head(watch[w].buffer), since |-> watch[w].since] \in WatchType
    BY <1>3, DeliverFacts, WatchFields DEF WatchType
  <2>3. watch' \in [Watcher -> WatchType]
    BY <1>3, <2>1, <2>2, DeliverFacts DEF Shape
  <2>4. QED
    BY <1>1, <2>3 DEF Shape
<1>4. CASE Unwatch(w)
  <2>1. [state |-> "stopped"] \in WatchType
    BY DEF WatchType
  <2>2. QED
    BY <1>1, <1>4, <2>1 DEF Unwatch, Shape
<1>5. QED
  BY <1>1, <1>2, <1>3, <1>4 DEF Shape

LEMMA ShapeStays == Shape /\ StoredPast /\ [Next]_vars => Shape'
<1> SUFFICES ASSUME Shape, StoredPast, [Next]_vars PROVE Shape'
  OBVIOUS
<1>1. CASE UNCHANGED vars
  BY <1>1 DEF vars, dbVars, Shape
<1>2. ASSUME NEW c \in Client, NEW op \in Operation, NEW k \in Targets(op),
             CallMemory(c, op, k) \/ CallIndexedDB(c, op, k)
      PROVE  Shape'
  BY <1>2, TargetsFacts, CallMemoryShape, CallIndexedDBShape
<1>3. CASE Commit
  BY <1>3 DEF Commit, Shape
<1>4. CASE Release
  BY <1>4, FaultsGrow DEF Release, Shape
<1>5. QED
  BY <1>1, <1>2, <1>3, <1>4, SucceedsShape, FailsShape, AbortShape, PollShape, StreamShape DEF Next

-----------------------------------------------------------------------------
(* What a stream has told and will tell.                                    *)

LEMMA ConcatAppend ==
  ASSUME NEW S, NEW s \in Seq(S), NEW t \in Seq(S), NEW x \in S
  PROVE  s \o Append(t, x) = Append(s \o t, x)
<1>1. Append(t, x) = t \o <<x>> /\ <<x>> \in Seq(S) /\ s \o t \in Seq(S)
  BY AppendIsConcat, ConcatProperties
<1>2. Append(s \o t, x) = (s \o t) \o <<x>>
  BY <1>1, AppendIsConcat
<1>3. (s \o t) \o <<x>> = s \o (t \o <<x>>)
  BY <1>1, ConcatAssociative
<1>4. QED
  BY <1>1, <1>2, <1>3

LEMMA ToldType ==
  ASSUME Shape, NEW w \in Watcher, On(w)
  PROVE  /\ Told(w) \in Seq(Entry \cup {Failure})
         /\ watch[w].last = None => Told(w) = watch[w].buffer
         /\ watch[w].last # None =>
              /\ <<watch[w].last>> \in Seq(Entry \cup {Failure})
              /\ Told(w) = <<watch[w].last>> \o watch[w].buffer
<1>1. watch[w].buffer \in Seq(Entry \cup {Failure}) /\ watch[w].last \in Entry \cup {None}
  BY WatchFields
<1>2. watch[w].last # None => <<watch[w].last>> \in Seq(Entry \cup {Failure})
  BY <1>1
<1>3. watch[w].last = None => Told(w) = watch[w].buffer
  <2>1. watch[w].last = None => Told(w) = <<>> \o watch[w].buffer
    BY DEF Told
  <2>2. QED
    BY <1>1, <2>1, ConcatEmptySeq
<1>4. watch[w].last # None => Told(w) = <<watch[w].last>> \o watch[w].buffer
  BY DEF Told
<1>5. QED
  BY <1>1, <1>2, <1>3, <1>4, ConcatProperties

\* What is emitted is told last.
LEMMA ToldEmit ==
  ASSUME Shape, NEW w \in Watcher, On(w), NEW x \in Entry \cup {Failure}, watch'[w] = Emit(w, x)
  PROVE  Told(w)' = Append(Told(w), x)
<1> DEFINE S == Entry \cup {Failure}
           b == watch[w].buffer
<1>1. Emit(w, x) = [state |-> "on", key |-> watch[w].key, buffer |-> Append(b, x),
                    last |-> watch[w].last, since |-> watch[w].since]
  BY EmitType
<1>2. watch'[w].last = watch[w].last /\ watch'[w].buffer = Append(b, x)
  BY <1>1
<1>3. b \in Seq(S) /\ Append(b, x) \in Seq(S)
  BY WatchFields, AppendProperties
<1>4. CASE watch[w].last = None
  <2>1. Told(w)' = <<>> \o Append(b, x)
    BY <1>2, <1>4 DEF Told
  <2>2. QED
    BY <1>3, <1>4, <2>1, ToldType, ConcatEmptySeq
<1>5. CASE watch[w].last # None
  <2>1. Told(w)' = <<watch[w].last>> \o Append(b, x)
    BY <1>2, <1>5 DEF Told
  <2>2. Told(w) = <<watch[w].last>> \o b /\ <<watch[w].last>> \in Seq(S)
    BY <1>5, ToldType
  <2>3. <<watch[w].last>> \o Append(b, x) = Append(<<watch[w].last>> \o b, x)
    BY <1>3, <2>2, ConcatAppend, SMTT(30)
  <2>4. QED
    BY <2>1, <2>2, <2>3
<1>6. QED
  BY <1>4, <1>5

Delivers(w) ==
  /\ watch[w].buffer # <<>> /\ Head(watch[w].buffer) # Failure
  /\ watch'[w] = [state |-> "on", key |-> watch[w].key, buffer |-> Tail(watch[w].buffer),
                  last |-> Head(watch[w].buffer), since |-> watch[w].since]

\* What is handed out stays told; what was handed out before is forgotten.
LEMMA ToldDeliver ==
  ASSUME Shape, NEW w \in Watcher, On(w), Delivers(w)
  PROVE  /\ Told(w) # <<>> /\ Told(w)' # <<>>
         /\ Told(w)' = Told(w) \/ Told(w)' = Tail(Told(w))
<1> DEFINE S == Entry \cup {Failure}
           b == watch[w].buffer
<1>1. b \in Seq(S) /\ b # <<>> /\ Head(b) # Failure /\ Head(b) \in S /\ Tail(b) \in Seq(S)
  BY WatchFields, HeadTailProperties DEF Delivers
<1>2. Head(b) # None
  BY <1>1, NoneAssumption
<1>3. Told(w)' = <<Head(b)>> \o Tail(b)
  BY <1>2 DEF Told, Delivers
<1>4. <<Head(b)>> \o Tail(b) = b
  <2>1. Len(<<Head(b)>>) = 1 /\ <<Head(b)>> \in Seq(S) /\ Len(b) \in Nat \ {0} /\ Len(Tail(b)) = Len(b) - 1
    BY <1>1, EmptySeq, HeadTailProperties
  <2>2. Len(<<Head(b)>> \o Tail(b)) = Len(b) /\ <<Head(b)>> \o Tail(b) \in Seq(S)
    BY <1>1, <2>1, ConcatProperties
  <2>3. ASSUME NEW i \in 1..Len(b) PROVE (<<Head(b)>> \o Tail(b))[i] = b[i]
    <3>1. (<<Head(b)>> \o Tail(b))[i] = IF i <= 1 THEN <<Head(b)>>[i] ELSE Tail(b)[i - 1]
      BY <1>1, <2>1, ConcatProperties
    <3>2. CASE i = 1
      BY <1>1, <3>1, <3>2
    <3>3. CASE i # 1
      <4>1. i - 1 \in 1..Len(Tail(b)) /\ i > 1
        BY <2>1, <3>3
      <4>2. Tail(b)[i - 1] = b[i - 1 + 1]
        BY <1>1, <4>1, HeadTailProperties
      <4>3. QED
        BY <3>1, <4>1, <4>2
    <3>4. QED
      BY <3>2, <3>3
  <2>4. QED
    BY <1>1, <2>2, <2>3, SeqEqual
<1>5. CASE watch[w].last = None
  BY <1>1, <1>3, <1>4, <1>5, ToldType
<1>6. CASE watch[w].last # None
  <2>1. Told(w) = <<watch[w].last>> \o b /\ <<watch[w].last>> \in Seq(S) /\ watch[w].last \in S
    BY <1>6, ToldType, WatchFields
  <2>2. Told(w) # <<>> /\ Tail(Told(w)) = b
    <3>1. Len(<<watch[w].last>>) = 1 /\ Len(b) \in Nat
      BY <1>1
    <3>2. Told(w) \in Seq(S) /\ Len(Told(w)) = 1 + Len(b)
      BY <1>1, <2>1, <3>1, ConcatProperties
    <3>3. Told(w) # <<>> /\ Tail(Told(w)) \in Seq(S) /\ Len(Tail(Told(w))) = Len(b)
      BY <3>1, <3>2, HeadTailProperties
    <3>4. ASSUME NEW i \in 1..Len(b) PROVE Tail(Told(w))[i] = b[i]
      <4>1. Tail(Told(w))[i] = Told(w)[i + 1] /\ i + 1 \in 1..(1 + Len(b)) /\ ~(i + 1 <= 1) /\ i + 1 - 1 = i
        BY <3>1, <3>2, <3>3, HeadTailProperties
      <4>2. Told(w)[i + 1] = b[i + 1 - 1]
        BY <1>1, <2>1, <3>1, <4>1, ConcatProperties
      <4>3. QED
        BY <4>1, <4>2
    <3>5. QED
      BY <1>1, <3>3, <3>4, SeqEqual
  <2>3. QED
    BY <1>1, <1>3, <1>4, <2>2
<1>7. QED
  BY <1>5, <1>6

-----------------------------------------------------------------------------
(* What a step does to a stream.                                            *)

\* The stream of w, which watches k, is told x.
Hears(w, k, x) ==
  /\ x \in Entry \cup {Failure} /\ watch'[w] = Emit(w, x)
  /\ x = Failure => medium # "memory"
  /\ x # Failure =>
       /\ Covered(x, k)'
       /\ \A y \in ToSet(Told(w)) \ {Failure} :
            y.version <= x.version /\ (medium = "memory" => y.version < x.version)
  /\ medium = "memory" => data'[k] = x

\* The stream of w is left alone, and its key gets no other value.
Stands(w, k) ==
  watch'[w] = watch[w] /\ (medium = "memory" => data'[k] \in {data[k], None})

Starts(w, k) ==
  /\ watch'[w] = [state |-> "on", key |-> k, buffer |-> <<>>, last |-> None, since |-> calls]
  /\ UNCHANGED data

StreamMove(w, k) ==
  \/ Starts(w, k)
  \/ /\ On(w) /\ watch[w].key = k
     /\ Stands(w, k) \/ (\E x : Hears(w, k, x)) \/ (Delivers(w) /\ UNCHANGED data)

\* What a poll has found, it has found in what was committed.
LEMMA FoundCovered ==
  ASSUME Shape, AllSound, StoredPast, UndoOlder, HeardCovered, TxsMove, DataMove,
         NEW w \in Watcher, On(w), NEW k \in Key, watch[w].key = k,
         undo = None, data[k] # None, medium # "memory",
         NEW x, x = data[k], watch'[w] = Emit(w, x)
  PROVE  Hears(w, k, x)
<1>1. x \in Entry /\ data \in Layers /\ Committed[k] = x
  BY ShapeFacts
<1>2. Covered(x, k)'
  <2>1. Covered(x, k)
    BY <1>1, CommittedCovered
  <2>2. QED
    BY <1>1, <2>1, CoveredStays
<1>3. \A y \in ToSet(Told(w)) \ {Failure} : y.version <= x.version
  BY <1>1 DEF HeardCovered, Covered
<1>4. QED
  BY <1>1, <1>2, <1>3, EntryFacts DEF Hears

\* A write of the memory layer.
LEMMA CallMemoryStreams ==
  ASSUME Shape, HeardCovered, NEW c \in Client, NEW op \in Operation, NEW q \in Key,
         CallMemory(c, op, q), NEW w \in Watcher, On(w)', NEW k \in Key, watch'[w].key = k
  PROVE  StreamMove(w, k)
<1>1. PICK t \in Requests(c, op, q) : data' = After(t) /\ watch' = Notified(t)
  BY DEF CallMemory
<1>2. /\ t \in Request /\ t.op = op /\ t.key = q
      /\ op \in Write => t.entry \in Entry /\ t.entry.version = calls + 1
  BY <1>1, RequestsFacts
<1>3. /\ medium = "memory" /\ txs = <<>> /\ undo = None /\ UNCHANGED <<txs, undo>>
      /\ calls' = calls + 1 /\ calls \in Nat
  BY ShapeFacts DEF CallMemory, Begins, Shape, dbVars
<1>4. CASE t.op \in Write /\ On(w) /\ watch[w].key = q
  <2>1. watch'[w] = Emit(w, t.entry)
    BY <1>1, <1>2, <1>4 DEF Notified
  <2>2. PICK x : x = t.entry
    OBVIOUS
  <2>3. x \in Entry /\ x.version = calls + 1 /\ x # Failure /\ watch'[w] = Emit(w, x)
    BY <1>2, <1>4, <2>1, <2>2, EntryFacts
  <2>4. k = q
    BY <1>4, <2>3, EmitType
  <2>5. data'[k] = x
    BY <1>1, <1>2, <1>4, <2>2, <2>4, AfterFacts DEF Shape
  <2>6. Past(x.version)'
    BY <1>3, <2>3 DEF Past
  <2>7. Layers' = {data'}
    BY <1>3 DEF Layers
  <2>8. Covered(x, k)'
    BY <1>3, <2>3, <2>5, <2>6, <2>7 DEF Covered
  <2>9. \A y \in ToSet(Told(w)) \ {Failure} : y.version <= x.version /\ y.version < x.version
    BY <1>3, <1>4, <2>3 DEF HeardCovered, Covered, Past
  <2>10. Hears(w, k, x)
    BY <2>3, <2>5, <2>8, <2>9 DEF Hears
  <2>11. QED
    BY <1>4, <2>4, <2>10 DEF StreamMove
<1>5. CASE ~(t.op \in Write /\ On(w) /\ watch[w].key = q)
  <2>1. watch'[w] = watch[w] /\ On(w) /\ watch[w].key = k
    BY <1>1, <1>2, <1>5 DEF Notified, On
  <2>2. data'[k] \in {data[k], None}
    BY <1>1, <1>2, <1>5, <2>1, AfterFacts DEF Shape
  <2>3. QED
    BY <2>1, <2>2 DEF StreamMove, Stands
<1>6. QED
  BY <1>4, <1>5

LEMMA SucceedsStreams ==
  ASSUME Shape, AllSound, StoredPast, UndoOlder, HeardCovered, TxsMove, DataMove, Succeeds,
         NEW w \in Watcher, On(w)', NEW k \in Key, watch'[w].key = k
  PROVE  StreamMove(w, k)
<1> DEFINE t == Head(txs)
<1>1. /\ txs # <<>> /\ undo = None
      /\ \/ UNCHANGED watch
         \/ t.by \notin Client /\ data[t.key] # None /\ Heard(t.by, data[t.key])
  BY DEF Succeeds
<1>2. t \in Request /\ t \in ToSet(txs)
  BY <1>1, TailFacts DEF Shape, ToSet
<1>3. medium # "memory" /\ watch \in [Watcher -> WatchType]
  BY <1>1 DEF Shape
<1> HIDE DEF t
<1>4. CASE watch'[w] = watch[w]
  BY <1>3, <1>4 DEF StreamMove, Stands, On
<1>5. CASE watch'[w] # watch[w]
  <2>1. t.by \in Watcher /\ data[t.key] # None /\ Heard(t.by, data[t.key])
    BY <1>1, <1>2, <1>5, RequestFields
  <2>2. t.by = w /\ On(w) /\ watch'[w] = Emit(w, data[t.key])
    BY <1>3, <1>5, <2>1 DEF Heard
  <2>3. watch[w].key = t.key /\ t.key \in Key
    BY <1>2, <2>2, RequestFields DEF AllSound, Sound
  <2>4. data[t.key] \in Entry
    BY <2>1, <2>3 DEF Shape
  <2>5. t.key = k
    BY <2>2, <2>3, <2>4, EmitType
  <2>6. PICK x : x = data[k]
    OBVIOUS
  <2>7. Hears(w, k, x)
    BY <1>1, <1>3, <2>1, <2>2, <2>3, <2>5, <2>6, FoundCovered
  <2>8. QED
    BY <2>2, <2>3, <2>5, <2>7 DEF StreamMove
<1>6. QED
  BY <1>4, <1>5

\* A poll that failed, or that found the database closed.
LEMMA FailureStreams ==
  ASSUME Shape, medium # "memory", NEW v \in Watcher, Heard(v, Failure),
         NEW w \in Watcher, On(w)', NEW k \in Key, watch'[w].key = k
  PROVE  StreamMove(w, k)
<1>1. watch \in [Watcher -> WatchType]
  BY DEF Shape
<1>2. CASE watch'[w] = watch[w]
  BY <1>2 DEF StreamMove, Stands, On
<1>3. CASE watch'[w] # watch[w]
  <2>1. On(w) /\ watch'[w] = Emit(w, Failure)
    BY <1>1, <1>3 DEF Heard
  <2>2. watch[w].key = k
    BY <2>1, EmitType
  <2>3. Hears(w, k, Failure)
    BY <2>1 DEF Hears
  <2>4. QED
    BY <2>1, <2>2, <2>3 DEF StreamMove
<1>4. QED
  BY <1>2, <1>3

LEMMA StreamMoves ==
  ASSUME Shape, AllSound, StoredPast, UndoOlder, HeardCovered, TxsMove, DataMove, [Next]_vars,
         NEW w \in Watcher, On(w)', NEW k \in Key, watch'[w].key = k
  PROVE  StreamMove(w, k)
<1>1. watch \in [Watcher -> WatchType]
  BY DEF Shape
<1>2. CASE watch'[w] = watch[w] /\ (medium = "memory" => data' = data)
  BY <1>2 DEF StreamMove, Stands, On
<1>3. ASSUME NEW c \in Client, NEW op \in Operation, NEW q \in Targets(op),
             CallMemory(c, op, q) \/ CallIndexedDB(c, op, q)
      PROVE  StreamMove(w, k)
  <2>1. q \in Key
    BY TargetsFacts
  <2>2. CASE CallMemory(c, op, q)
    BY <2>1, <2>2, CallMemoryStreams
  <2>3. CASE CallIndexedDB(c, op, q)
    BY <1>2, <2>3 DEF CallIndexedDB
  <2>4. QED
    BY <1>3, <2>2, <2>3
<1>4. CASE Succeeds
  BY <1>4, SucceedsStreams
<1>5. CASE Fails
  <2>1. txs # <<>> /\ (UNCHANGED watch \/ (Head(txs).by \notin Client /\ Heard(Head(txs).by, Failure)))
    BY <1>5 DEF Fails
  <2>2. medium # "memory" /\ Head(txs).by \in Client \cup Watcher
    BY <2>1, TailFacts, RequestFields DEF Shape
  <2>3. QED
    BY <1>2, <2>1, <2>2, FailureStreams
<1>6. CASE Commit \/ Abort \/ Release \/ UNCHANGED vars
  BY <1>2, <1>6 DEF Commit, Abort, Release, vars, Shape
<1>7. ASSUME NEW v \in Watcher, NEW q \in Key, Watch(v, q) PROVE StreamMove(w, k)
  <2>1. CASE v = w
    <3>1. /\ watch'[w] = [state |-> "on", key |-> q, buffer |-> <<>>, last |-> None, since |-> calls]
          /\ UNCHANGED data
      BY <1>1, <1>7, <2>1 DEF Watch
    <3>2. QED
      BY <3>1 DEF StreamMove, Starts
  <2>2. CASE v # w
    BY <1>1, <1>2, <1>7, <2>2 DEF Watch
  <2>3. QED
    BY <2>1, <2>2
<1>8. ASSUME NEW v \in Watcher, Poll(v) PROVE StreamMove(w, k)
  <2>1. medium # "memory" /\ (UNCHANGED watch \/ Heard(v, Failure))
    BY <1>8 DEF Poll
  <2>2. QED
    BY <1>2, <2>1, FailureStreams
<1>9. ASSUME NEW v \in Watcher, Deliver(v) PROVE StreamMove(w, k)
  <2>1. UNCHANGED data
    BY <1>9 DEF Deliver
  <2>2. CASE v # w
    BY <1>1, <1>2, <1>9, <2>1, <2>2 DEF Deliver
  <2>3. CASE v = w
    <3>1. /\ On(w) /\ watch[w].buffer # <<>>
          /\ watch'[w] = IF Head(watch[w].buffer) = Failure THEN [state |-> "failed"]
                         ELSE [state |-> "on", key |-> watch[w].key, buffer |-> Tail(watch[w].buffer),
                               last |-> Head(watch[w].buffer), since |-> watch[w].since]
      BY <1>1, <1>9, <2>3, DeliverFacts
    <3>2. Head(watch[w].buffer) # Failure
      BY <3>1 DEF On
    <3>3. Delivers(w) /\ watch[w].key = k
      BY <3>1, <3>2 DEF Delivers
    <3>4. QED
      BY <2>1, <3>1, <3>3 DEF StreamMove
  <2>4. QED
    BY <2>2, <2>3
<1>10. ASSUME NEW v \in Watcher, Unwatch(v) PROVE StreamMove(w, k)
  <2>1. v # w
    BY <1>1, <1>10 DEF Unwatch, On
  <2>2. QED
    BY <1>1, <1>2, <1>10, <2>1 DEF Unwatch
<1>11. QED
  BY <1>3, <1>4, <1>5, <1>6, <1>7, <1>8, <1>9, <1>10 DEF Next

\* What is told after a step: as before, one entry more, or the first forgotten.
LEMMA ToldMoves ==
  ASSUME Shape, NEW w \in Watcher, NEW k \in Key, StreamMove(w, k)
  PROVE  \/ Starts(w, k) /\ Told(w)' = <<>>
         \/ /\ On(w) /\ watch[w].key = k /\ Told(w) \in Seq(Entry \cup {Failure})
            /\ watch'[w].since = watch[w].since
            /\ \/ Stands(w, k) /\ Told(w)' = Told(w)
               \/ \E x \in Entry \cup {Failure} : Hears(w, k, x) /\ Told(w)' = Append(Told(w), x)
               \/ /\ Told(w) # <<>> /\ Told(w)' # <<>> /\ UNCHANGED data
                  /\ Told(w)' = Told(w) \/ Told(w)' = Tail(Told(w))
<1>1. CASE Starts(w, k)
  <2>1. watch'[w].last = None /\ watch'[w].buffer = <<>>
    BY <1>1 DEF Starts
  <2>2. Told(w)' = <<>> \o <<>>
    BY <2>1 DEF Told
  <2>3. QED
    BY <1>1, <2>2, EmptySeq, ConcatEmptySeq
<1>2. CASE On(w) /\ watch[w].key = k
  <2>1. Told(w) \in Seq(Entry \cup {Failure})
    BY <1>2, ToldType
  <2>2. CASE Stands(w, k)
    BY <1>2, <2>1, <2>2 DEF Stands, Told
  <2>3. ASSUME NEW x, Hears(w, k, x)
        PROVE  /\ x \in Entry \cup {Failure} /\ Told(w)' = Append(Told(w), x)
               /\ watch'[w].since = watch[w].since
    <3>1. x \in Entry \cup {Failure} /\ watch'[w] = Emit(w, x)
      BY <2>3 DEF Hears
    <3>2. QED
      BY <1>2, <3>1, ToldEmit, EmitType
  <2>4. CASE Delivers(w) /\ UNCHANGED data
    BY <1>2, <2>1, <2>4, ToldDeliver DEF Delivers
  <2>5. CASE Starts(w, k)
    BY <1>1, <2>5
  <2>6. QED
    BY <1>2, <2>1, <2>2, <2>3, <2>4, <2>5 DEF StreamMove
<1>3. QED
  BY <1>1, <1>2 DEF StreamMove

LEMMA HeardStays ==
  ASSUME Shape, AllSound, HeardCovered, TxsMove, DataMove, medium' = medium,
         NEW w \in Watcher, NEW k \in Key, StreamMove(w, k)
  PROVE  /\ \A x \in ToSet(Told(w))' \ {Failure} : Covered(x, k)'
         /\ medium' = "memory" => Failure \notin ToSet(Told(w))'
<1>1. CASE Told(w)' = <<>>
  BY <1>1 DEF ToSet
<1>2. CASE On(w) /\ watch[w].key = k /\ Told(w) \in Seq(Entry \cup {Failure})
  <2>1. /\ \A y \in ToSet(Told(w)) \ {Failure} : Covered(y, k)'
        /\ medium = "memory" => Failure \notin ToSet(Told(w))
    <3>1. \A y \in ToSet(Told(w)) \ {Failure} : y \in Entry /\ Covered(y, k)
      <4>1. ToSet(Told(w)) \subseteq Entry \cup {Failure}
        BY <1>2 DEF ToSet
      <4>2. \A y \in ToSet(Told(w)) \ {Failure} : Covered(y, k)
        BY <1>2 DEF HeardCovered
      <4>3. QED
        BY <4>1, <4>2
    <3>2. \A y \in ToSet(Told(w)) \ {Failure} : Covered(y, k)'
      BY <3>1, CoveredStays
    <3>3. QED
      BY <1>2, <3>2 DEF HeardCovered
  <2>2. CASE ToSet(Told(w))' \subseteq ToSet(Told(w))
    BY <2>1, <2>2
  <2>3. ASSUME NEW x \in Entry \cup {Failure}, Hears(w, k, x), Told(w)' = Append(Told(w), x)
        PROVE  /\ \A y \in ToSet(Told(w))' \ {Failure} : Covered(y, k)'
               /\ medium' = "memory" => Failure \notin ToSet(Told(w))'
    <3>1. ToSet(Told(w))' \subseteq ToSet(Told(w)) \cup {x}
      BY <1>2, <2>3, AppendFacts DEF ToSet
    <3>2. (x # Failure => Covered(x, k)') /\ (medium = "memory" => x # Failure)
      BY <2>3 DEF Hears
    <3>3. QED
      BY <2>1, <3>1, <3>2
  <2>4. CASE Told(w) # <<>> /\ Told(w)' = Tail(Told(w))
    <3>1. ToSet(Told(w))' \subseteq ToSet(Told(w))
      BY <1>2, <2>4, TailFacts DEF ToSet
    <3>2. QED
      BY <2>2, <3>1
  <2>5. CASE Told(w)' = Told(w)
    <3>1. ToSet(Told(w))' \subseteq ToSet(Told(w))
      BY <2>5 DEF ToSet
    <3>2. QED
      BY <2>2, <3>1
  <2>6. QED
    BY <1>1, <2>3, <2>4, <2>5, ToldMoves
<1>3. QED
  BY <1>1, <1>2, ToldMoves

\* The part of WatchInOrder about the stream of w.
InOrder(w) ==
  \A i, j \in DOMAIN Told(w) : i < j /\ Failure \notin {Told(w)[i], Told(w)[j]} =>
    /\ Told(w)[i].version <= Told(w)[j].version
    /\ medium = "memory" => Told(w)[i] # Told(w)[j]

LEMMA OrderStays ==
  ASSUME Shape, WatchInOrder, medium' = medium,
         NEW w \in Watcher, NEW k \in Key, StreamMove(w, k)
  PROVE  InOrder(w)'
<1>1. CASE Told(w)' = <<>>
  BY <1>1 DEF InOrder
<1>2. CASE On(w) /\ watch[w].key = k /\ Told(w) \in Seq(Entry \cup {Failure})
  <2>1. InOrder(w)
    BY <1>2 DEF WatchInOrder, InOrder
  <2>2. CASE Told(w)' = Told(w)
    BY <2>1, <2>2 DEF InOrder
  <2>3. CASE Told(w) # <<>> /\ Told(w)' = Tail(Told(w))
    <3>1. \A i \in DOMAIN Told(w)' : i \in Int /\ i + 1 \in DOMAIN Told(w) /\ Told(w)'[i] = Told(w)[i + 1]
      BY <1>2, <2>3, TailFacts
    <3>2. QED
      BY <2>1, <3>1 DEF InOrder
  <2>4. ASSUME NEW x \in Entry \cup {Failure}, Hears(w, k, x), Told(w)' = Append(Told(w), x)
        PROVE  InOrder(w)'
    <3>1. /\ DOMAIN Told(w)' = DOMAIN Told(w) \cup {Len(Told(w)) + 1} /\ Told(w)'[Len(Told(w)) + 1] = x
          /\ \A i \in DOMAIN Told(w) : i \in 1..Len(Told(w)) /\ Told(w)'[i] = Told(w)[i]
          /\ Len(Told(w)) \in Nat
      BY <1>2, <2>4, AppendFacts
    <3>2. \A i \in DOMAIN Told(w) : x # Failure /\ Told(w)[i] # Failure =>
            /\ Told(w)[i].version <= x.version
            /\ medium = "memory" => Told(w)[i].version < x.version
      BY <2>4 DEF Hears, ToSet
    <3>3. \A i \in DOMAIN Told(w) : x # Failure /\ Told(w)[i] # Failure =>
            /\ Told(w)[i].version <= x.version
            /\ medium = "memory" => Told(w)[i] # x
      <4>1. x # Failure => x.version \in Nat
        BY EntryFacts
      <4>2. QED
        BY <3>2, <4>1
    <3>4. ASSUME NEW i \in DOMAIN Told(w)', NEW j \in DOMAIN Told(w)', i < j
          PROVE  i \in DOMAIN Told(w) /\ (j \in DOMAIN Told(w) \/ j = Len(Told(w)) + 1)
      BY <3>1, <3>4
    <3>5. QED
      BY <2>1, <3>1, <3>3, <3>4 DEF InOrder
  <2>5. QED
    BY <1>1, <2>2, <2>3, <2>4, ToldMoves
<1>3. QED
  BY <1>1, <1>2, ToldMoves

\* The part of WatchTruthful about the stream of w, which watches k.
Truthful(w, k) ==
  medium = "memory" /\ data[k] # None
    => IF Told(w) = <<>> THEN data[k].version <= watch[w].since ELSE data[k] = Last(Told(w))

LEMMA TruthStays ==
  ASSUME Shape, StoredPast, WatchTruthful, medium' = medium,
         NEW w \in Watcher, NEW k \in Key, StreamMove(w, k)
  PROVE  Truthful(w, k)'
<1>1. CASE Starts(w, k) /\ Told(w)' = <<>>
  <2>1. watch'[w].since = calls /\ data' = data
    BY <1>1 DEF Starts
  <2>2. data[k] # None => data[k].version <= calls
    BY ShapeFacts DEF StoredPast, Past
  <2>3. QED
    BY <1>1, <2>1, <2>2 DEF Truthful
<1>2. CASE /\ On(w) /\ watch[w].key = k /\ Told(w) \in Seq(Entry \cup {Failure})
           /\ watch'[w].since = watch[w].since
  <2>1. Truthful(w, k)
    BY <1>2 DEF WatchTruthful, Truthful
  <2>2. CASE Stands(w, k) /\ Told(w)' = Told(w)
    BY <1>2, <2>1, <2>2 DEF Stands, Truthful
  <2>3. ASSUME NEW x \in Entry \cup {Failure}, Hears(w, k, x), Told(w)' = Append(Told(w), x)
        PROVE  Truthful(w, k)'
    <3>1. Told(w)' # <<>> /\ Last(Told(w)') = x
      BY <1>2, <2>3, AppendProperties DEF Last
    <3>2. QED
      BY <2>3, <3>1 DEF Hears, Truthful
  <2>4. CASE Told(w) # <<>> /\ Told(w)' = Told(w) /\ UNCHANGED data
    BY <2>1, <2>4 DEF Truthful
  <2>5. CASE Told(w) # <<>> /\ Told(w)' # <<>> /\ UNCHANGED data /\ Told(w)' = Tail(Told(w))
    <3>1. Len(Told(w)) \in Nat /\ Len(Told(w)') = Len(Told(w)) - 1 /\ Told(w)' \in Seq(Entry \cup {Failure})
      BY <1>2, <2>5, TailFacts
    <3>2. Len(Told(w)') \in Nat \ {0}
      BY <2>5, <3>1, EmptySeq
    <3>3. Len(Told(w)') \in DOMAIN Told(w)'
      BY <3>1, <3>2
    <3>4. Told(w)'[Len(Told(w)')] = Told(w)[Len(Told(w)') + 1]
      BY <1>2, <2>5, <3>3, TailFacts
    <3>5. Last(Told(w)') = Last(Told(w))
      BY <3>1, <3>2, <3>4 DEF Last
    <3>6. QED
      BY <2>1, <2>5, <3>5 DEF Truthful
  <2>6. QED
    BY <1>1, <2>2, <2>3, <2>4, <2>5, ToldMoves
<1>3. QED
  BY <1>1, <1>2, ToldMoves

LEMMA StreamsStay ==
  ASSUME Inv, [Next]_vars, Shape', TxsMove, DataMove
  PROVE  HeardCovered' /\ WatchInOrder' /\ WatchTruthful'
<1>1. medium' = medium
  BY DEF Next, vars, CallMemory, CallIndexedDB, Succeeds, Fails, Commit, Abort, Release, Watch, Poll,
         Deliver, Unwatch
<1>2. ASSUME NEW w \in Watcher, On(w)'
      PROVE  \E k \in Key : watch'[w].key = k /\ StreamMove(w, k)
  <2>1. watch'[w].key \in Key
    BY <1>2 DEF Shape, WatchType, On
  <2>2. QED
    BY <1>2, <2>1, StreamMoves DEF Inv
<1>3. HeardCovered'
  <2> SUFFICES ASSUME NEW w \in Watcher, On(w)'
               PROVE  /\ \A k \in {watch'[w].key}, x \in ToSet(Told(w))' \ {Failure} : Covered(x, k)'
                      /\ medium' = "memory" => Failure \notin ToSet(Told(w))'
    BY DEF HeardCovered
  <2>1. PICK k \in Key : watch'[w].key = k /\ StreamMove(w, k)
    BY <1>2
  <2>2. QED
    BY <1>1, <2>1, HeardStays DEF Inv
<1>4. WatchInOrder'
  <2>1. \A w \in Watcher : On(w)' => InOrder(w)'
    BY <1>1, <1>2, OrderStays DEF Inv
  <2>2. QED
    BY <2>1 DEF WatchInOrder, InOrder
<1>5. WatchTruthful'
  <2> SUFFICES ASSUME NEW w \in Watcher, On(w)', medium' = "memory", data'[watch'[w].key] # None
               PROVE  IF Told(w)' = <<>> THEN data'[watch'[w].key].version <= watch'[w].since
                                         ELSE data'[watch'[w].key] = Last(Told(w)')
    BY DEF WatchTruthful
  <2>1. PICK k \in Key : watch'[w].key = k /\ StreamMove(w, k)
    BY <1>2
  <2>2. Truthful(w, k)'
    BY <1>1, <2>1, TruthStays DEF Inv
  <2>3. QED
    BY <2>1, <2>2 DEF Truthful
<1>6. QED
  BY <1>3, <1>4, <1>5

-----------------------------------------------------------------------------
(* An answer that tells the outcome goes on telling it.                     *)

\* What keeps the write v of the key k when the data changes.
LEMMA KeptStays ==
  ASSUME Shape, AllSound, TxsMove, [Next]_vars, NEW k \in Key, NEW v, Kept(v, k)
  PROVE  Kept(v, k)'
<1>1. Past(v) /\ Past(v)' /\ v \in 1..calls /\ calls \in Nat
  BY PastStays, ShapeFacts DEF Kept, Past
<1>2. CASE UNCHANGED <<data, undo, lost>>
  BY <1>1, <1>2 DEF Kept
<1>3. ASSUME NEW c \in Client, NEW op \in Operation, NEW q \in Key, CallMemory(c, op, q)
      PROVE  Kept(v, k)'
  <2>1. PICK t \in Requests(c, op, q) : data' = After(t)
    BY <1>3 DEF CallMemory
  <2>2. t \in Request /\ (t.op \in Write => t.entry.version = calls + 1)
    BY <2>1, RequestsFacts
  <2>3. data'[k] = data[k] \/ data'[k] = None \/ data'[k].version = calls + 1
    BY <2>1, <2>2, AfterFacts DEF Shape
  <2>4. undo' = None /\ lost' = lost
    BY <1>3 DEF CallMemory, Shape, dbVars
  <2>5. QED
    BY <1>1, <2>3, <2>4 DEF Kept
<1>4. CASE Succeeds
  <2>1. /\ txs # <<>> /\ undo = None /\ data' = After(Head(txs)) /\ undo' \in {None, data}
        /\ lost' = lost
    BY <1>4 DEF Succeeds
  <2>2. Head(txs) = txs[1] /\ 1 \in DOMAIN txs /\ Head(txs) \in Request /\ Head(txs) \in ToSet(txs)
    BY <2>1, TailFacts DEF Shape, ToSet
  <2>3. \/ data'[k] = data[k] \/ data'[k] = None
        \/ Head(txs).op \in Write /\ data'[k] = Head(txs).entry
    BY <2>1, <2>2, AfterFacts DEF Shape
  <2>4. Head(txs).op \in Write => v < Head(txs).entry.version /\ Head(txs).entry.version \in Int
    BY <1>1, <2>2 DEF Past, AllSound, Sound
  <2>5. v \notin lost /\ data'[k] # None => data'[k].version >= v
    BY <1>1, <2>3, <2>4 DEF Kept
  <2>6. QED
    BY <1>1, <2>1, <2>5 DEF Kept
<1>5. CASE Commit
  BY <1>1, <1>5 DEF Commit, Kept
<1>6. CASE Abort
  <2>1. /\ undo # None /\ data' = undo /\ undo' = None /\ lost \subseteq lost'
        /\ data[k] \notin {None, undo[k]} => data[k].version \in lost'
    BY <1>6 DEF Abort
  <2>2. QED
    BY <1>1, <2>1 DEF Kept
<1>7. ASSUME NEW c \in Client, NEW op \in Operation, NEW q \in Key, CallIndexedDB(c, op, q)
      PROVE  UNCHANGED <<data, undo, lost>>
  BY <1>7 DEF CallIndexedDB
<1>8. Fails \/ Release \/ UNCHANGED vars => UNCHANGED <<data, undo, lost>>
  BY DEF Fails, Release, vars, dbVars
<1>9. ASSUME NEW w \in Watcher, (\E q \in Key : Watch(w, q)) \/ Poll(w) \/ Deliver(w) \/ Unwatch(w)
      PROVE  UNCHANGED <<data, undo, lost>>
  BY <1>9 DEF Watch, Poll, Deliver, Unwatch, dbVars
<1>10. QED
  BY <1>2, <1>3, <1>4, <1>5, <1>6, <1>7, <1>8, <1>9, TargetsFacts DEF Next

\* Nothing that is requested takes the number of a call that was answered.
LEMMA StandsStays ==
  ASSUME Shape, AllSound, TxsMove, DataMove, [Next]_vars, NEW t \in Request, NEW a,
         AnswerStands(t, a)
  PROVE  AnswerStands(t, a)'
<1> DEFINE v == t.entry.version
<1>1. calls \in Nat /\ calls' \in {calls, calls + 1} /\ txs \in Seq(Request) /\ t.key \in Key
  BY ShapeFacts, RequestFields DEF TxsMove
<1>2. t.op \in Read /\ a.status = "ok" /\ t.floor # None => a.entry.version >= t.floor.version
  BY DEF AnswerStands
<1>3. ASSUME t.op \in Write
      PROVE  /\ t.entry \in Entry /\ v \in 1..calls'
             /\ \A i \in DOMAIN txs' : txs'[i].op \in Write => txs'[i].entry.version # v
             /\ a.status = "ok" => Kept(v, t.key)'
             /\ a.status # "ok" => Gone(v)'
  <2>1. /\ t.entry \in Entry /\ v \in 1..calls
        /\ \A i \in DOMAIN txs : txs[i].op \in Write => txs[i].entry.version # v
        /\ a.status = "ok" => Kept(v, t.key)
        /\ a.status # "ok" => Gone(v)
    BY <1>3 DEF AnswerStands
  <2>2. v \in 1..calls'
    BY <1>1, <2>1
  <2>3. \A i \in DOMAIN txs' : txs'[i].op \in Write => txs'[i].entry.version # v
    <3>1. CASE txs' = txs
      BY <2>1, <3>1
    <3>2. CASE txs # <<>> /\ txs' = Tail(txs)
      BY <1>1, <2>1, <3>2, TailFacts
    <3>3. ASSUME NEW r \in Request, Queues(r)
          PROVE  \A i \in DOMAIN txs' : txs'[i].op \in Write => txs'[i].entry.version # v
      <4>1. txs' = Append(txs, r) /\ (r.op \in Write => r.entry.version = calls + 1)
        BY <3>3 DEF Queues
      <4>2. r.op \in Write => r.entry.version # v
        BY <1>1, <2>1, <4>1
      <4>3. \A i \in DOMAIN txs' : txs'[i] = r \/ (i \in DOMAIN txs /\ txs'[i] = txs[i])
        BY <1>1, <4>1, AppendFacts
      <4>4. QED
        BY <2>1, <4>2, <4>3
    <3>4. QED
      BY <3>1, <3>2, <3>3 DEF TxsMove
  <2>4. a.status = "ok" => Kept(v, t.key)'
    BY <1>1, <2>1, KeptStays
  <2>5. ASSUME a.status # "ok", NEW k \in Key, NEW d \in Layers', d[k] # None
        PROVE  d[k].version # v
    <3>1. CASE \E e \in Layers : d[k] = e[k]
      BY <2>1, <2>5, <3>1 DEF Gone
    <3>2. CASE txs # <<>> /\ Head(txs).op \in Write /\ d[k] = Head(txs).entry
      <4>1. 1 \in DOMAIN txs /\ Head(txs) = txs[1]
        BY <1>1, <3>2, TailFacts
      <4>2. QED
        BY <2>1, <3>2, <4>1
    <3>3. CASE d[k].version = calls + 1
      BY <1>1, <2>1, <3>3
    <3>4. QED
      BY <2>5, <3>1, <3>2, <3>3 DEF DataMove, Explained
  <2>6. QED
    BY <2>1, <2>2, <2>3, <2>4, <2>5 DEF Gone
<1>4. QED
  BY <1>2, <1>3 DEF AnswerStands

\* A new answer tells the outcome: first those of the memory layer.
LEMMA CallMemoryStands ==
  ASSUME Shape, NEW c \in Client, NEW op \in Operation, NEW k \in Key,
         NEW t \in Requests(c, op, k), NEW a, a = Answer(t), data' = After(t),
         CallMemory(c, op, k)
  PROVE  AnswerStands(t, a)'
<1>1. /\ t \in Request /\ t.op = op /\ t.key = k
      /\ op \in Write => t.entry \in Entry /\ t.entry.version = calls + 1
      /\ t.floor = IF op \in Read THEN Committed[k] ELSE None
  BY RequestsFacts
<1>2. /\ txs' = <<>> /\ undo = None /\ undo' = None /\ calls' = calls + 1 /\ calls \in Nat
      /\ Committed = data
  BY ShapeFacts DEF CallMemory, Begins, Shape, dbVars
<1>3. ASSUME op \in Write
      PROVE  Past(t.entry.version)' /\ a.status = "ok" /\ data'[k] = t.entry
  <2>1. Past(t.entry.version)'
    BY <1>1, <1>2, <1>3 DEF Past
  <2>2. QED
    BY <1>1, <1>3, <2>1, AnswerFacts, AfterFacts DEF Shape
<1>4. ASSUME op \in Read, a.status = "ok", t.floor # None
      PROVE  a.entry.version >= t.floor.version
  <2>1. a.entry.version = data[k].version /\ t.floor = data[k] /\ data[k] \in Entry \cup {None}
    BY <1>1, <1>2, <1>4, AnswerFacts DEF Shape
  <2>2. t.floor.version \in Nat
    BY <1>4, <2>1, EntryFacts
  <2>3. QED
    BY <2>1, <2>2
<1>5. op \in Write => Kept(t.entry.version, k)'
  BY <1>1, <1>2, <1>3, EntryFacts DEF Kept
<1>6. QED
  BY <1>1, <1>2, <1>3, <1>4, <1>5 DEF AnswerStands

\* The database is closed: the call dies and nothing is requested.
LEMMA ClosedStands ==
  ASSUME Shape, AllSound, StoredPast, NEW c \in Client, NEW op \in Operation, NEW k \in Key,
         NEW t \in Requests(c, op, k), NEW a, a.status = "died",
         UNCHANGED <<data, undo, txs>>, calls' = calls + 1
  PROVE  AnswerStands(t, a)'
<1>1. t.op = op /\ (op \in Write => t.entry \in Entry /\ t.entry.version = calls + 1)
  BY RequestsFacts
<1>2. calls \in Nat /\ Layers' = Layers
  BY ShapeFacts DEF Layers
<1>3. \A i \in DOMAIN txs : txs[i].op \in Write => txs[i].entry.version \in 1..calls
  BY DEF AllSound, Sound, ToSet
<1>4. op \in Write => Gone(t.entry.version)'
  BY <1>1, <1>2 DEF Gone, StoredPast, Past
<1>5. QED
  BY <1>1, <1>2, <1>3, <1>4 DEF AnswerStands

\* The next transaction has run, or has failed.
LEMMA HeadFacts ==
  ASSUME Shape, AllSound, InTurn, txs # <<>>, txs' = Tail(txs), calls' = calls,
         NEW t, t = Head(txs)
  PROVE  /\ t \in Request /\ t \in ToSet(txs) /\ Sound(t) /\ t = txs[1] /\ 1 \in DOMAIN txs
         /\ t.op \in Write => Past(t.entry.version)'
<1>1. /\ \A i \in DOMAIN txs' : i \in Int /\ i + 1 \in DOMAIN txs /\ txs'[i] = txs[i + 1] /\ 1 < i + 1
      /\ 1 \in DOMAIN txs /\ t = txs[1] /\ t \in Request
  BY TailFacts DEF Shape
<1>2. t \in ToSet(txs) /\ Sound(t)
  BY <1>1 DEF AllSound, ToSet
<1>3. ASSUME t.op \in Write PROVE Past(t.entry.version)'
  <2>1. t.entry.version \in 1..calls'
    BY <1>1, <1>2, <1>3 DEF Sound
  <2>2. \A i \in DOMAIN txs' : txs'[i].op \in Write => t.entry.version < txs'[i].entry.version
    BY <1>1, <1>3 DEF InTurn
  <2>3. QED
    BY <2>1, <2>2 DEF Past
<1>4. QED
  BY <1>1, <1>2, <1>3

LEMMA SucceedsStands ==
  ASSUME Shape, AllSound, InTurn, StoredPast, Succeeds,
         NEW t, t = Head(txs), NEW a, a = Answer(t)
  PROVE  AnswerStands(t, a)'
<1>1. /\ txs # <<>> /\ undo = None /\ txs' = Tail(txs) /\ data' = After(t) /\ undo' \in {None, data}
      /\ calls' = calls
  BY DEF Succeeds
<1>2. /\ t \in Request /\ t.key \in Key /\ t \in ToSet(txs) /\ Sound(t) /\ t = txs[1] /\ 1 \in DOMAIN txs
      /\ t.op \in Write => Past(t.entry.version)'
  BY <1>1, HeadFacts, RequestFields
<1>3. ASSUME t.op \in Write
      PROVE  /\ t.entry \in Entry /\ t.entry.version \in 1..calls'
             /\ \A i \in DOMAIN txs' : txs'[i].op \in Write => txs'[i].entry.version # t.entry.version
             /\ Kept(t.entry.version, t.key)' /\ a.status = "ok"
  <2>1. t.entry \in Entry /\ t.entry.version \in 1..calls' /\ t.entry # None /\ t.entry.version \in Nat
    BY <1>1, <1>2, <1>3, EntryFacts DEF Sound
  <2>2. \A i \in DOMAIN txs' : txs'[i].op \in Write => t.entry.version < txs'[i].entry.version
    BY <1>2, <1>3 DEF Past
  <2>3. data'[t.key] = t.entry /\ a.status = "ok"
    BY <1>1, <1>2, <1>3, AfterFacts, AnswerFacts DEF Shape
  <2>4. Kept(t.entry.version, t.key)'
    BY <1>2, <1>3, <2>1, <2>3 DEF Kept
  <2>5. QED
    BY <2>1, <2>2, <2>3, <2>4
<1>4. ASSUME t.op \in Read, a.status = "ok", t.floor # None
      PROVE  a.entry.version >= t.floor.version
  <2>1. a.entry.version = data[t.key].version /\ data[t.key] # None
    BY <1>2, <1>4, AnswerFacts DEF Shape
  <2>2. t.floor.version <= data[t.key].version
    BY <1>2, <1>4, <2>1, ShapeFacts DEF Sound, Covered
  <2>3. QED
    BY <1>2, <1>4, <2>1, <2>2, ShapeFacts, RequestFields, EntryFacts
<1>5. QED
  BY <1>3, <1>4 DEF AnswerStands

LEMMA FailsStands ==
  ASSUME Shape, AllSound, InTurn, StoredPast, Fails,
         NEW t, t = Head(txs), NEW a, a.status = "failed"
  PROVE  AnswerStands(t, a)'
<1>1. txs # <<>> /\ txs' = Tail(txs) /\ UNCHANGED <<data, undo, calls>>
  BY DEF Fails
<1>2. /\ Sound(t) /\ t = txs[1] /\ 1 \in DOMAIN txs
      /\ t.op \in Write => Past(t.entry.version)'
  BY <1>1, HeadFacts
<1>3. Layers' = Layers
  BY <1>1 DEF Layers
<1>4. ASSUME t.op \in Write
      PROVE  /\ t.entry \in Entry /\ t.entry.version \in 1..calls'
             /\ \A i \in DOMAIN txs' : txs'[i].op \in Write => txs'[i].entry.version # t.entry.version
             /\ Gone(t.entry.version)'
  <2>1. t.entry \in Entry /\ t.entry.version \in 1..calls' /\ t.entry.version \in Nat
    BY <1>1, <1>2, <1>4, EntryFacts DEF Sound
  <2>2. \A i \in DOMAIN txs' : txs'[i].op \in Write => t.entry.version < txs'[i].entry.version
    BY <1>2, <1>4 DEF Past
  <2>3. ASSUME NEW k \in Key, NEW d \in Layers, d[k] # None PROVE d[k].version # t.entry.version
    <3>1. d[k].version < t.entry.version
      BY <1>2, <1>4, <2>3 DEF StoredPast, Past
    <3>2. QED
      BY <2>1, <3>1
  <2>4. QED
    BY <1>3, <2>1, <2>2, <2>3 DEF Gone
<1>5. QED
  BY <1>4 DEF AnswerStands

LEMMA NewAnswers ==
  ASSUME Shape, AllSound, InTurn, StoredPast, [Next]_vars,
         NEW c \in Client, call'[c] # call[c], call'[c].pc = "answered"
  PROVE  \E t, a : /\ call'[c].request = t /\ call'[c].answer = a /\ t \in Request
                   /\ AnswerStands(t, a)'
<1>1. call \in [Client -> CallType]
  BY DEF Shape
<1>2. ASSUME NEW b, NEW t, NEW a, Answered(b, t, a)
      PROVE  b = c /\ call'[c].request = t /\ call'[c].answer = a
  BY <1>1, <1>2 DEF Answered
<1>3. ASSUME NEW b \in Client, NEW op \in Operation, NEW k \in Key, CallMemory(b, op, k)
      PROVE  \E t, a : /\ call'[c].request = t /\ call'[c].answer = a /\ t \in Request
                       /\ AnswerStands(t, a)'
  <2>1. PICK t \in Requests(b, op, k) : data' = After(t) /\ Answered(b, t, Answer(t))
    BY <1>3 DEF CallMemory
  <2>2. PICK a : a = Answer(t)
    OBVIOUS
  <2>3. AnswerStands(t, a)' /\ t \in Request
    BY <1>3, <2>1, <2>2, CallMemoryStands, RequestsFacts
  <2>4. QED
    BY <1>2, <2>1, <2>2, <2>3
<1>4. ASSUME NEW b \in Client, NEW op \in Operation, NEW k \in Key, CallIndexedDB(b, op, k)
      PROVE  \E t, a : /\ call'[c].request = t /\ call'[c].answer = a /\ t \in Request
                       /\ AnswerStands(t, a)'
  <2>1. PICK t \in Requests(b, op, k) :
          IF closed
            THEN Answered(b, t, [status |-> "died", entry |-> None]) /\ UNCHANGED txs
            ELSE call' = [call EXCEPT ![b] = [pc |-> "requested"]]
    BY <1>4 DEF CallIndexedDB
  <2>2. closed
    BY <1>1, <2>1
  <2>3. PICK a : a = [status |-> "died", entry |-> None]
    OBVIOUS
  <2>4. UNCHANGED <<data, undo>> /\ calls' = calls + 1 /\ UNCHANGED txs
    BY <1>4, <2>1, <2>2 DEF CallIndexedDB, Begins
  <2>5. AnswerStands(t, a)' /\ t \in Request
    BY <2>3, <2>4, ClosedStands, RequestsFacts
  <2>6. QED
    BY <1>2, <2>1, <2>2, <2>3, <2>5
<1>5. CASE Succeeds
  <2>1. PICK t : t = Head(txs)
    OBVIOUS
  <2>2. PICK a : a = Answer(t)
    OBVIOUS
  <2>3. UNCHANGED call \/ Answered(t.by, t, a)
    BY <1>5, <2>1, <2>2 DEF Succeeds
  <2>4. AnswerStands(t, a)' /\ t \in Request
    BY <1>5, <2>1, <2>2, SucceedsStands, TailFacts DEF Succeeds, Shape
  <2>5. QED
    BY <1>2, <2>3, <2>4
<1>6. CASE Fails
  <2>1. PICK t : t = Head(txs)
    OBVIOUS
  <2>2. PICK a : a = [status |-> "failed", entry |-> None]
    OBVIOUS
  <2>3. UNCHANGED call \/ Answered(t.by, t, a)
    BY <1>6, <2>1, <2>2 DEF Fails
  <2>4. AnswerStands(t, a)' /\ t \in Request
    BY <1>6, <2>1, <2>2, FailsStands, TailFacts DEF Fails, Shape
  <2>5. QED
    BY <1>2, <2>3, <2>4
<1>7. Commit \/ Abort \/ Release \/ UNCHANGED vars => UNCHANGED call
  BY DEF Commit, Abort, Release, vars
<1>8. ASSUME NEW w \in Watcher, (\E k \in Key : Watch(w, k)) \/ Poll(w) \/ Deliver(w) \/ Unwatch(w)
      PROVE  UNCHANGED call
  BY <1>8 DEF Watch, Poll, Deliver, Unwatch
<1>9. QED
  BY <1>3, <1>4, <1>5, <1>6, <1>7, <1>8, TargetsFacts DEF Next

LEMMA AnswersStay ==
  ASSUME Inv, [Next]_vars, TxsMove, DataMove
  PROVE  AnswersStand'
<1>1. Shape /\ AllSound /\ InTurn /\ StoredPast /\ AnswersStand /\ call \in [Client -> CallType]
  BY DEF Inv, Shape
<1> SUFFICES ASSUME NEW p \in Answers' PROVE AnswerStands(p[1], p[2])'
  BY DEF AnswersStand
<1>2. PICK c \in Client : call'[c].pc = "answered" /\ p = <<call'[c].request, call'[c].answer>>
  BY DEF Answers
<1>3. CASE call'[c] = call[c]
  <2>1. p \in Answers
    BY <1>2, <1>3 DEF Answers
  <2>2. PICK t, a : t = p[1] /\ a = p[2]
    OBVIOUS
  <2>3. AnswerStands(t, a)
    BY <1>1, <2>1, <2>2 DEF AnswersStand
  <2>4. t \in Request
    BY <1>1, <1>2, <1>3, <2>2 DEF CallType
  <2>5. AnswerStands(t, a)'
    BY <1>1, <2>3, <2>4, StandsStays
  <2>6. QED
    BY <2>2, <2>5
<1>4. CASE call'[c] # call[c]
  <2>1. PICK t, a : call'[c].request = t /\ call'[c].answer = a /\ AnswerStands(t, a)'
    BY <1>1, <1>2, <1>4, NewAnswers
  <2>2. p[1] = t /\ p[2] = a
    BY <1>2, <2>1
  <2>3. QED
    BY <2>1, <2>2
<1>5. QED
  BY <1>3, <1>4

-----------------------------------------------------------------------------
(* The theorems.                                                            *)

LEMMA InitInv == Init => Inv
<1> SUFFICES ASSUME Init PROVE Inv
  OBVIOUS
<1>1. /\ medium \in Medium /\ data = [k \in Key |-> None] /\ txs = <<>> /\ undo = None
      /\ closed = FALSE /\ calls = 0 /\ faults = 0 /\ lost = {}
      /\ call = [c \in Client |-> [pc |-> "idle"]]
      /\ watch = [w \in Watcher |-> [state |-> "off"]]
  BY DEF Init
<1>2. Shape
  <2>1. call \in [Client -> CallType] /\ watch \in [Watcher -> WatchType]
    BY <1>1 DEF CallType, WatchType
  <2>2. calls \in 0..MaxCalls /\ faults \in 0..MaxFaults
    BY <1>1, BoundAssumption
  <2>3. txs \in Seq(Request)
    BY <1>1, EmptySeq
  <2>4. QED
    BY <1>1, <2>1, <2>2, <2>3 DEF Shape
<1>3. OneEach /\ AllSound /\ InTurn
  BY <1>1 DEF OneEach, AllSound, InTurn, ToSet
<1>4. Layers = {data}
  BY <1>1 DEF Layers
<1>5. StoredPast /\ UndoOlder
  BY <1>1, <1>4 DEF StoredPast, UndoOlder
<1>6. HeardCovered /\ WatchInOrder /\ WatchTruthful
  <2>1. \A w \in Watcher : ~On(w)
    BY <1>1 DEF On
  <2>2. QED
    BY <2>1 DEF HeardCovered, WatchInOrder, WatchTruthful
<1>7. AnswersStand
  BY <1>1 DEF AnswersStand, Answers
<1>8. QED
  BY <1>2, <1>3, <1>5, <1>6, <1>7 DEF Inv

LEMMA StepInv == Inv /\ [Next]_vars => Inv'
<1> SUFFICES ASSUME Inv, [Next]_vars PROVE Inv'
  OBVIOUS
<1>1. /\ Shape /\ OneEach /\ AllSound /\ InTurn /\ StoredPast /\ UndoOlder
  BY DEF Inv
<1>2. TxsMove /\ DataMove
  BY <1>1, StepMoves
<1>3. Shape'
  BY <1>1, ShapeStays
<1>4. OneEach' /\ AllSound' /\ InTurn'
  BY <1>1, <1>2, OneEachStays, AllSoundStays, InTurnStays
<1>5. StoredPast' /\ UndoOlder'
  BY <1>1, <1>2, StoredStays, UndoStays
<1>6. HeardCovered' /\ WatchInOrder' /\ WatchTruthful'
  BY <1>2, <1>3, StreamsStay
<1>7. AnswersStand'
  BY <1>2, AnswersStay
<1>8. QED
  BY <1>3, <1>4, <1>5, <1>6, <1>7 DEF Inv

\* Everything the proofs need holds in every state of either layer.
THEOREM AlwaysInv == Spec => []Inv
BY InitInv, StepInv, PTL DEF Spec

\* A client waits for exactly the transactions it has under way: one, or none.
LEMMA Waits ==
  ASSUME Shape, OneEach, NEW c \in Client
  PROVE  Cardinality({i \in DOMAIN txs : txs[i].by = c})
           = IF call[c].pc = "requested" THEN 1 ELSE 0
<1> DEFINE Own == {i \in DOMAIN txs : txs[i].by = c}
<1>1. CASE call[c].pc = "requested"
  <2>1. PICK i \in DOMAIN txs : txs[i].by = c
    BY <1>1 DEF OneEach
  <2>2. Own = {i}
    BY <2>1 DEF OneEach
  <2>3. QED
    BY <1>1, <2>2, FS_Singleton
<1>2. CASE call[c].pc # "requested"
  <2>1. Own = {}
    BY <1>2 DEF OneEach
  <2>2. QED
    BY <1>2, <2>1, FS_EmptySet
<1>3. QED
  BY <1>1, <1>2

\* The state of the service keeps its types, the memory layer never has a transaction,
\* and a fiber of IndexedDBLive waits for exactly the one transaction it requested.
THEOREM TypeCorrect == Spec => []TypeOK
<1>1. Inv => TypeOK
  BY Waits DEF Inv, Shape, TypeOK
<1>2. QED
  BY <1>1, AlwaysInv, PTL

\* No stream of watch goes back, whatever overlaps: the polls of the interval, the writes
\* of other fibers, failing requests and commits; and the listeners of the memory layer
\* hand out no write twice.
THEOREM NeverBack == Spec => []WatchInOrder
<1>1. Inv => WatchInOrder
  BY DEF Inv
<1>2. QED
  BY <1>1, AlwaysInv, PTL

\* No write of MemoryStorageLive is kept from the streams of its key.
THEOREM NothingUntold == Spec => []WatchTruthful
<1>1. Inv => WatchTruthful
  BY DEF Inv
<1>2. QED
  BY <1>1, AlwaysInv, PTL

\* What a fiber was told of its call stays true, however many other calls, failures and
\* aborts there are after it; only an abort after request.onsuccess takes it back.
THEOREM OutcomeStands == Spec => []AnswerTellsOutcome
<1>1. Inv => AnswerTellsOutcome
  <2> SUFFICES ASSUME Inv, NEW c \in Client, call[c].pc = "answered",
                      NEW t, t = call[c].request, NEW a, a = call[c].answer
               PROVE  /\ t.op \in Write /\ a.status # "ok" /\ data[t.key] # None =>
                           data[t.key].version # t.entry.version
                      /\ t.op \in Write /\ a.status = "ok" /\ t.entry.version \notin lost
                           /\ data[t.key] # None => data[t.key].version >= t.entry.version
                      /\ t.op \in Read /\ a.status = "ok" /\ t.floor # None =>
                           a.entry.version >= t.floor.version
    BY DEF AnswerTellsOutcome
  <2>1. t = call[c].request /\ a = call[c].answer
    OBVIOUS
  <2>2. <<t, a>> \in Answers
    BY <2>1 DEF Answers
  <2>3. AnswerStands(t, a)
    BY <2>2 DEF Inv, AnswersStand
  <2>4. t.key \in Key /\ data \in Layers
    <3>1. call \in [Client -> CallType]
      BY DEF Inv, Shape
    <3>2. t \in Request
      BY <2>1, <3>1 DEF CallType
    <3>3. QED
      BY <3>2, RequestFields DEF Layers
  <2>5. QED
    BY <2>1, <2>3, <2>4 DEF AnswerStands, Kept, Gone
<1>2. QED
  BY <1>1, AlwaysInv, PTL

=============================================================================
