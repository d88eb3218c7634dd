-------------------------- MODULE LocalFirstProofs --------------------------
(* Proofs about LocalFirst, for every value of its constants. *)
EXTENDS TLAPS, LocalFirst

-----------------------------------------------------------------------------
(* Laws of VectorClock, for every set of nodes.                             *)

LEMMA EmptyIsClock == Empty \in Clock
BY DEF Empty, Clock

LEMMA IncrementIsClock ==
  ASSUME NEW c \in Clock, NEW n \in Node
  PROVE  Increment(c, n) \in Clock
BY DEF Increment, Clock

LEMMA JoinIsClock ==
  ASSUME NEW a \in Clock, NEW b \in Clock
  PROVE  Join(a, b) \in Clock
BY DEF Join, Clock

LEMMA EmptyLeq ==
  ASSUME NEW c \in Clock
  PROVE  Leq(Empty, c)
BY DEF Leq, Empty, Clock

LEMMA LeqReflexive ==
  ASSUME NEW c \in Clock
  PROVE  Leq(c, c)
BY DEF Leq, Clock

LEMMA LeqTransitive ==
  ASSUME NEW a \in Clock, NEW b \in Clock, NEW c \in Clock, Leq(a, b), Leq(b, c)
  PROVE  Leq(a, c)
BY DEF Leq, Clock

LEMMA LeqAntisymmetric ==
  ASSUME NEW a \in Clock, NEW b \in Clock, Leq(a, b), Leq(b, a)
  PROVE  a = b
<1>1. \A n \in Node : a[n] = b[n]
  BY DEF Leq, Clock
<1>2. QED
  BY <1>1 DEF Clock

\* Incrementing both sides at the same entry keeps the order.
LEMMA IncrementLeq ==
  ASSUME NEW a \in Clock, NEW b \in Clock, NEW n \in Node, Leq(a, b)
  PROVE  Leq(Increment(a, n), Increment(b, n))
BY DEF Leq, Increment, Clock

LEMMA LeqIncrement ==
  ASSUME NEW c \in Clock, NEW n \in Node
  PROVE  Leq(c, Increment(c, n))
BY DEF Leq, Increment, Clock

LEMMA JoinLeq ==
  ASSUME NEW a \in Clock, NEW b \in Clock, NEW c \in Clock, Leq(a, c), Leq(b, c)
  PROVE  Leq(Join(a, b), c)
BY DEF Leq, Join, Clock

\* compare() answers -1 exactly for the causal order.
THEOREM CompareIsBefore ==
  ASSUME NEW a \in Clock, NEW b \in Clock
  PROVE  (Compare(a, b) = -1) <=> Before(a, b)
<1>1. Leq(a, b) /\ Leq(b, a) <=> a = b
  BY LeqAntisymmetric, LeqReflexive
<1>2. (Compare(a, b) = -1) <=> Leq(a, b) /\ ~Leq(b, a)
  BY DEF Compare
<1>3. QED
  BY <1>1, <1>2 DEF Before

\* Swapping the arguments of compare() negates its answer.
THEOREM CompareAntisymmetric ==
  ASSUME NEW a \in Clock, NEW b \in Clock
  PROVE  Compare(b, a) = -Compare(a, b)
BY DEF Compare

\* The answer 0 stands for two different things: the same clock, or two
\* concurrent ones, although compare() documents it as "0 if equal".
THEOREM CompareZero ==
  ASSUME NEW a \in Clock, NEW b \in Clock
  PROVE  (Compare(a, b) = 0) <=> (a = b \/ Concurrent(a, b))
<1>1. Leq(a, b) /\ Leq(b, a) <=> a = b
  BY LeqAntisymmetric, LeqReflexive
<1>2. (Compare(a, b) = 0) <=> (Leq(a, b) /\ Leq(b, a)) \/ (~Leq(a, b) /\ ~Leq(b, a))
  BY DEF Compare
<1>3. QED
  BY <1>1, <1>2 DEF Concurrent

\* "Less" is transitive, so skipping outdated operations never cycles.
THEOREM CompareTransitive ==
  ASSUME NEW a \in Clock, NEW b \in Clock, NEW c \in Clock,
         Compare(a, b) = -1, Compare(b, c) = -1
  PROVE  Compare(a, c) = -1
<1>1. Leq(a, b) /\ ~Leq(b, a) /\ Leq(b, c) /\ ~Leq(c, b)
  BY DEF Compare
<1>2. Leq(a, c)
  BY <1>1, LeqTransitive
<1>3. ~Leq(c, a)
  BY <1>1, LeqTransitive
<1>4. QED
  BY <1>2, <1>3 DEF Compare

\* A clock is strictly less than its increment.
THEOREM IncrementIsGreater ==
  ASSUME NEW c \in Clock, NEW n \in Node
  PROVE  Compare(c, Increment(c, n)) = -1
<1>1. Leq(c, Increment(c, n))
  BY LeqIncrement
<1>2. ~Leq(Increment(c, n), c)
  <2>1. Increment(c, n)[n] = c[n] + 1 /\ c[n] \in Nat
    BY DEF Increment, Clock
  <2>2. QED
    BY <2>1 DEF Leq
<1>3. QED
  BY <1>1, <1>2 DEF Compare

-----------------------------------------------------------------------------
(* What the operators return.                                               *)

LEMMA EmptyVClockType == EmptyVClock \in VClock
BY EmptyIsClock DEF EmptyVClock, VClock

LEMMA NewOpType ==
  ASSUME NEW e \in Element, NEW k \in Key, NEW v \in GSet, NEW r \in Replica
  PROVE  NewOp(e, k, v, r) \in Operation
BY EmptyVClockType DEF NewOp, Operation

LEMMA PlainGSet ==
  ASSUME NEW v \in GSet
  PROVE  Plain(v) \in GSet /\ Plain(v).elements = v.elements
BY DEF Plain, GSet

LEMMA PlainVClock ==
  ASSUME NEW c \in VClock
  PROVE  Plain(c) \in VClock /\ Plain(c).timestamps = c.timestamps
BY DEF Plain, VClock

\* Every medium keeps the elements.
LEMMA StoredType ==
  ASSUME NEW r, NEW v \in GSet
  PROVE  Stored(r, v) \in GSet /\ Stored(r, v).elements = v.elements
BY PlainGSet DEF Stored

\* JSON changes no name and no timestamp of an operation.
LEMMA ParsedType ==
  ASSUME NEW op \in Operation
  PROVE  /\ Parsed(op) \in Operation
         /\ Parsed(op).vectorClock.timestamps = op.vectorClock.timestamps
<1>1. Plain(op.value) \in GSet
  BY PlainGSet DEF Operation
<1>2. /\ Plain(op.vectorClock) \in VClock
      /\ Plain(op.vectorClock).timestamps = op.vectorClock.timestamps
  BY PlainVClock DEF Operation
<1>3. QED
  BY <1>1, <1>2 DEF Parsed, Operation

\* The answer to a pull is the log, as JSON leaves it, or nothing.
LEMMA PulledType ==
  ASSUME log \in Seq(Operation), NEW r
  PROVE  /\ Pulled(r) \in Seq(Operation)
         /\ \A i \in DOMAIN Pulled(r) : i \in DOMAIN log /\ Pulled(r)[i] = Parsed(log[i])
<1>1. \A i \in DOMAIN log : Parsed(log[i]) \in Operation
  BY ParsedType
<1>2. <<>> \in Seq(Operation) /\ DOMAIN <<>> = {}
  OBVIOUS
<1>3. CASE Transport[r] = "websocket"
  <2>1. Pulled(r) = [i \in DOMAIN log |-> Parsed(log[i])]
    BY <1>3 DEF Pulled
  <2>2. QED
    BY <1>1, <2>1
<1>4. CASE Transport[r] # "websocket"
  <2>1. Pulled(r) = <<>>
    BY <1>4 DEF Pulled
  <2>2. QED
    BY <1>2, <2>1
<1>5. QED
  BY <1>3, <1>4

LEMMA ConflictsType ==
  ASSUME log \in Seq(Operation), NEW c \in Conflicts
  PROVE  c \in Conflict
<1>1. PICK i \in DOMAIN log : c = [key |-> log[i].key, serverValue |-> Plain(log[i].value)]
  BY DEF Conflicts
<1>2. log[i] \in Operation
  OBVIOUS
<1>3. Plain(log[i].value) \in GSet /\ log[i].key \in Key
  BY <1>2, PlainGSet DEF Operation
<1>4. QED
  BY <1>1, <1>3 DEF Conflict

LEMMA FaultCounts ==
  ASSUME NEW kind, faults \in Nat, Fault(kind)
  PROVE  faults' \in Nat /\ restarts' = restarts
BY DEF Fault

LEMMA FiberParts ==
  ASSUME NEW f \in Fiber
  PROVE  f[1] \in Replica /\ f[1] \in AutoSync /\ f[2] \in {"auto", "rec"}
BY ConfigAssumption DEF Fiber

LEMMA HeadTail ==
  ASSUME NEW s \in Seq(Operation), s # <<>>
  PROVE  /\ Head(s) \in Operation
         /\ Tail(s) \in Seq(Operation)
         /\ Head(s) = s[1] /\ 1 \in DOMAIN s
         /\ \A i \in DOMAIN Tail(s) : i + 1 \in DOMAIN s /\ Tail(s)[i] = s[i + 1]
OBVIOUS

-----------------------------------------------------------------------------
(* TypeOK is inductive.                                                     *)

LEMMA FiberStates == NewFiber \in FiberState /\ StoppedFiber \in FiberState
<1>1. <<>> \in Seq(Operation)
  OBVIOUS
<1>2. StoppedFiber = [pc |-> "stopped", ops |-> <<>>, resolved |-> None, conflict |-> None]
  BY DEF NewFiber, StoppedFiber
<1>3. QED
  BY <1>1, <1>2 DEF NewFiber, FiberState

LEMMA TypeInit == Init => TypeOK
<1> SUFFICES ASSUME Init PROVE TypeOK
  OBVIOUS
<1> USE DEF Init
<1>1. store \in [Replica -> [Key -> GSet \cup {None}]]
  OBVIOUS
<1>2. clock \in [Replica -> VClock]
  BY EmptyVClockType
<1>3. /\ app \in [App -> AppState]
      /\ \A a \in App : app[a].pc # "idle" => app[a].op # None
  BY DEF Idle, AppState
<1>4. /\ fiber \in [Fiber -> FiberState]
      /\ \A f \in Fiber : fiber[f].pc = "waiting" => fiber[f].resolved # None
  BY FiberStates DEF NewFiber
<1>5. serverClock \in Clock /\ stamps \in Clock
  BY EmptyIsClock
<1>6. log \in Seq(Operation)
  OBVIOUS
<1>7. QED
  BY <1>1, <1>2, <1>3, <1>4, <1>5, <1>6 DEF TypeOK

\* A call that has begun holds an operation of its own.
LEMMA AddReads ==
  ASSUME TypeOK, NEW a \in App, NEW k \in Key, AddRead(a, k) \/ AddReadFails(a, k)
  PROVE  \E current \in GSet :
           /\ AddTo(a, k, current)
           /\ current.elements \in {Elements(store[Host[a]][k]), {}}
<1> DEFINE v == store[Host[a]][k]
<1>1. v \in GSet \cup {None}
  BY HostAssumption DEF TypeOK
<1>2. EmptyGSet \in GSet /\ EmptyGSet.elements = {}
  BY DEF EmptyGSet, GSet
<1>3. CASE AddReadFails(a, k)
  BY <1>2, <1>3 DEF AddReadFails
<1>4. CASE AddRead(a, k) /\ v = None
  <2>1. AddTo(a, k, EmptyGSet)
    BY <1>4 DEF AddRead
  <2>2. QED
    BY <1>2, <2>1
<1>5. CASE AddRead(a, k) /\ v # None
  <2>1. AddTo(a, k, v) /\ v \in GSet /\ v.elements = Elements(v)
    BY <1>1, <1>5 DEF AddRead, Elements
  <2>2. QED
    BY <2>1
<1>6. QED
  BY <1>3, <1>4, <1>5

\* The operation that AddTo puts into app, and what it carries.
LEMMA AddToOp ==
  ASSUME TypeOK, NEW a \in App, NEW k \in Key, NEW current \in GSet, AddTo(a, k, current)
  PROVE  \E op \in Operation :
           /\ op # None
           /\ app' = [app EXCEPT ![a] = [pc |-> "store", calls |-> app[a].calls + 1, op |-> op]]
           /\ op.id = <<a, app[a].calls + 1>> /\ op.key = k /\ op.replicaId = Host[a]
           /\ op.value.elements = current.elements \cup {op.id}
           /\ op.vectorClock = EmptyVClock
<1> DEFINE e == <<a, app[a].calls + 1>>
           w == [current EXCEPT !.elements = @ \cup {e}]
           op == NewOp(e, k, w, Host[a])
<1>1. Host[a] \in Replica /\ app[a].calls \in Nat
  BY HostAssumption DEF TypeOK, AppState
<1>2. e \in Element
  BY <1>1 DEF Element
<1>3. w \in GSet /\ w.elements = current.elements \cup {e}
  BY <1>2 DEF GSet
<1>4. op \in Operation
  BY <1>1, <1>2, <1>3, NewOpType
<1>5. op # None
  BY <1>4, NoneAssumption
<1>6. app' = [app EXCEPT ![a] = [pc |-> "store", calls |-> app[a].calls + 1, op |-> op]]
  BY DEF AddTo
<1>7. op.id = e /\ op.key = k /\ op.replicaId = Host[a] /\ op.value = w
      /\ op.vectorClock = EmptyVClock
  BY DEF NewOp
<1>8. QED
  BY <1>3, <1>4, <1>5, <1>6, <1>7

LEMMA AddType ==
  ASSUME TypeOK, NEW a \in App, AddCall(a) \/ AddStep(a) \/ AddFault(a)
  PROVE  TypeOK'
<1> USE HostAssumption, NodeAssumption DEF TypeOK, AppState, serverVars, ghostVars, envVars
<1>r. Host[a] \in Replica /\ Host[a] \in Node
  OBVIOUS
<1>1. ASSUME NEW k \in Key, AddRead(a, k) \/ AddReadFails(a, k) PROVE TypeOK'
  <2>1. PICK current \in GSet : AddTo(a, k, current)
    BY <1>1, AddReads
  <2>2. faults' \in Nat /\ restarts' \in Nat
    BY <1>1 DEF AddRead, AddReadFails, StorageFault, Fault
  <2>3. PICK op \in Operation :
          /\ op # None
          /\ app' = [app EXCEPT ![a] = [pc |-> "store", calls |-> app[a].calls + 1, op |-> op]]
    BY <2>1, AddToOp
  <2>4. app' \in [App -> AppState] /\ \A b \in App : app'[b].pc # "idle" => app'[b].op # None
    BY <2>3
  <2>5. QED
    BY <2>1, <2>2, <2>4 DEF AddTo
<1>2. ASSUME NEW k \in Key, AddDies(a, k) PROVE TypeOK'
  BY <1>2 DEF AddDies
<1>3. ASSUME AddStore(a) PROVE TypeOK'
  <2>1. app[a].op \in Operation
    BY <1>3 DEF AddStore
  <2>2. Stored(Host[a], app[a].op.value) \in GSet /\ app[a].op.key \in Key
    BY <2>1, StoredType DEF Operation
  <2>3. QED
    BY <1>3, <1>r, <2>2 DEF AddStore
<1>4. ASSUME AddIncrement(a) PROVE TypeOK'
  <2> DEFINE c == [timestamps |-> Increment(clock[Host[a]].timestamps, Host[a]),
                   methods |-> TRUE]
             op == [app[a].op EXCEPT !.vectorClock = c]
  <2>1. c \in VClock /\ stamps' \in Clock
    BY <1>4, <1>r, IncrementIsClock DEF AddIncrement, VClock
  <2>2. app[a].op \in Operation /\ app[a].op # None
    BY <1>4 DEF AddIncrement
  <2>3. op \in Operation /\ op # None
    BY <2>1, <2>2, NoneAssumption DEF Operation
  <2>4. app' = [app EXCEPT ![a].pc = "setclock", ![a].op = op]
    BY <1>4, <2>2 DEF AddIncrement, Operation
  <2> HIDE DEF op, c
  <2>5. app' \in [App -> AppState] /\ \A b \in App : app'[b].pc # "idle" => app'[b].op # None
    BY <2>3, <2>4, ZenonT(60)
  <2>6. QED
    BY <1>4, <2>1, <2>5 DEF AddIncrement
<1>5. ASSUME AddIncrementDies(a) PROVE TypeOK'
  BY <1>5 DEF AddIncrementDies, Idle
<1>6. ASSUME AddSetClock(a) PROVE TypeOK'
  BY <1>6, <1>r, ZenonT(60) DEF AddSetClock, Operation
<1>7. ASSUME AddPush(a) \/ AddPushNowhere(a) \/ AddPushFails(a) \/ AddStoreFails(a)
      PROVE  TypeOK'
  <2>1. /\ app' = [app EXCEPT ![a] = Idle(app[a].calls)]
        /\ UNCHANGED <<store, clock, fiber, stamps, rewound, defects>>
    BY <1>7 DEF AddPush, AddPushNowhere, AddPushFails, AddStoreFails
  <2>2. faults' \in Nat /\ restarts' \in Nat
    BY <1>7 DEF AddPush, AddPushNowhere, AddPushFails, AddStoreFails, NetworkFault,
                StorageFault, Fault
  <2>3. Idle(app[a].calls) \in AppState
    BY DEF Idle
  <2>4. app' \in [App -> AppState] /\ \A b \in App : app'[b].pc # "idle" => app'[b].op # None
    BY <2>1, <2>3 DEF Idle
  <2>5. app[a].op \in Operation
    BY <1>7 DEF AddPush, AddPushNowhere, AddPushFails, AddStoreFails
  <2>6. app[a].op.vectorClock.timestamps \in Clock
    BY <2>5 DEF Operation, VClock
  <2>7. log' \in Seq(Operation) /\ late' \subseteq Operation /\ serverClock' \in Clock
    <3>1. CASE AddPush(a)
      <4>1. Join(serverClock, app[a].op.vectorClock.timestamps) \in Clock
        BY <2>6, JoinIsClock
      <4>2. QED
        BY <2>5, <3>1, <4>1 DEF AddPush, Accepts
    <3>2. CASE ~AddPush(a)
      <4>1. UNCHANGED <<log, serverClock>> /\ late' \in {late, late \cup {app[a].op}}
        BY <1>7, <3>2 DEF AddPushNowhere, AddPushFails, AddStoreFails
      <4>2. QED
        BY <2>5, <4>1
    <3>3. QED
      BY <3>1, <3>2
  <2>8. /\ store' \in [Replica -> [Key -> GSet \cup {None}]] /\ clock' \in [Replica -> VClock]
        /\ fiber' \in [Fiber -> FiberState]
        /\ \A f \in Fiber : fiber'[f].pc = "waiting" => fiber'[f].resolved # None
        /\ stamps' \in Clock /\ rewound' \subseteq Replica /\ defects' \subseteq App \cup Fiber
    BY <2>1
  <2>9. QED
    BY <2>2, <2>4, <2>7, <2>8, Zenon DEF TypeOK
<1>8. QED
  BY <1>1, <1>2, <1>3, <1>4, <1>5, <1>6, <1>7 DEF AddCall, AddStep, AddFault

\* A response puts its parts into the fiber.
LEMMA RespondsType ==
  ASSUME TypeOK, NEW f \in Fiber, NEW ops \in Seq(Operation), NEW state \in VClock \cup {None},
         NEW conflict \in Conflict \cup {None}, Responds(f, ops, state, conflict),
         faults' \in Nat, restarts' \in Nat
  PROVE  TypeOK'
<1> DEFINE new == [pc |-> "apply", ops |-> ops, resolved |-> state, conflict |-> conflict]
<1>1. new \in FiberState /\ new.pc = "apply"
  BY DEF FiberState
<1>2. fiber' = [fiber EXCEPT ![f] = new]
  BY DEF Responds
<1> HIDE DEF new
<1>3. /\ fiber' \in [Fiber -> FiberState]
      /\ \A g \in Fiber : fiber'[g].pc = "waiting" => fiber'[g].resolved # None
  BY <1>1, <1>2 DEF TypeOK
<1>4. QED
  BY <1>3 DEF Responds, TypeOK, serverVars, ghostVars

LEMMA ResolvedType ==
  ASSUME TypeOK, NEW f \in Fiber
  PROVE  Resolved(f) \in VClock
BY FiberParts DEF Resolved, TypeOK, FiberState

LEMMA FiberType ==
  ASSUME TypeOK, NEW f \in Fiber, FiberStep(f) \/ FiberFault(f)
  PROVE  TypeOK'
<1> USE DEF serverVars, ghostVars, envVars
<1>r. f[1] \in Replica /\ fiber[f] \in FiberState /\ clock[f[1]] \in VClock
  BY FiberParts DEF TypeOK
<1>c. clock[f[1]] # None
  BY <1>r, NoneAssumption
\* It is enough to look at f where nothing else changes but storage, clocks and ghosts.
<1>s. ASSUME NEW new \in FiberState, new.pc = "waiting" => new.resolved # None,
             fiber' = [fiber EXCEPT ![f] = new],
             store' \in [Replica -> [Key -> GSet \cup {None}]], clock' \in [Replica -> VClock],
             rewound' \subseteq Replica, defects' \subseteq App \cup Fiber,
             faults' \in Nat, restarts' \in Nat,
             UNCHANGED <<app, log, serverClock, late, stamps>>
      PROVE  TypeOK'
  BY <1>s DEF TypeOK
<1>1. ASSUME Pull(f) PROVE TypeOK'
  <2> DEFINE new == [fiber[f] EXCEPT !.pc = "apply", !.ops = Pulled(f[1])]
  <2>1. Pulled(f[1]) \in Seq(Operation)
    BY PulledType DEF TypeOK
  <2>2. new \in FiberState /\ new.pc = "apply"
    BY <1>r, <2>1 DEF FiberState
  <2>3. fiber' = [fiber EXCEPT ![f] = new]
    BY <1>1, <1>r DEF Pull, TypeOK
  <2> HIDE DEF new
  <2>4. QED
    BY <1>1, <1>s, <2>2, <2>3 DEF Pull, TypeOK
<1>2. ASSUME ApplySkip(f) PROVE TypeOK'
  <2> DEFINE new == [fiber[f] EXCEPT !.ops = Tail(fiber[f].ops)]
  <2>1. Tail(fiber[f].ops) \in Seq(Operation)
    BY <1>2, <1>r, HeadTail DEF ApplySkip, Looks, FiberState
  <2>2. new \in FiberState /\ new.pc = "apply"
    BY <1>2, <1>r, <2>1 DEF FiberState, ApplySkip, Looks
  <2>3. fiber' = [fiber EXCEPT ![f] = new]
    BY <1>2, <1>r DEF ApplySkip, TypeOK
  <2> HIDE DEF new
  <2>4. QED
    BY <1>2, <1>s, <2>2, <2>3 DEF ApplySkip, TypeOK
<1>3. ASSUME ApplyDies(f) \/ PullFails(f) \/ WriteFails(f) PROVE TypeOK'
  <2>1. StoppedFiber \in FiberState /\ StoppedFiber.pc = "stopped"
    BY FiberStates DEF StoppedFiber, NewFiber
  <2>2. faults' \in Nat /\ restarts' \in Nat
    BY <1>3 DEF ApplyDies, PullFails, WriteFails, NetworkFault, StorageFault, Fault, TypeOK
  <2>3. QED
    BY <1>3, <1>s, <2>1, <2>2 DEF ApplyDies, PullFails, WriteFails, TypeOK
<1>4. ASSUME ApplyDone(f) PROVE TypeOK'
  <2> DEFINE new == [fiber[f] EXCEPT !.pc = IF f[2] = "auto" THEN "idle" ELSE "resolve"]
  <2>1. new \in FiberState /\ new.pc # "waiting"
    BY <1>r DEF FiberState
  <2>2. fiber' = [fiber EXCEPT ![f] = new]
    BY <1>4, <1>r DEF ApplyDone, TypeOK
  <2> HIDE DEF new
  <2>3. QED
    BY <1>4, <1>s, <2>1, <2>2 DEF ApplyDone, TypeOK
<1>5. ASSUME RecRequest(f) PROVE TypeOK'
  <2> DEFINE new == [fiber[f] EXCEPT !.pc = "waiting", !.resolved = clock[f[1]]]
  <2>1. new \in FiberState /\ new.resolved # None
    BY <1>r, <1>c DEF FiberState
  <2>2. fiber' = [fiber EXCEPT ![f] = new]
    BY <1>5, <1>r DEF RecRequest, TypeOK
  <2> HIDE DEF new
  <2>3. QED
    BY <1>5, <1>s, <2>1, <2>2 DEF RecRequest, TypeOK
<1>6. ASSUME RecReply(f) PROVE TypeOK'
  <2> DEFINE joined == [timestamps |-> Join(fiber[f].resolved.timestamps, serverClock),
                        methods |-> FALSE]
  <2>1. fiber[f].resolved \in VClock
    BY <1>6, <1>r DEF RecReply, TypeOK, FiberState
  <2>2. joined \in VClock
    BY <2>1, JoinIsClock DEF VClock, TypeOK
  <2>3. PICK ops \in {<<>>, Pulled(f[1])}, state \in {None, joined},
              conflict \in {None} \cup Conflicts : Responds(f, ops, state, conflict)
    BY <1>6 DEF RecReply
  <2> HIDE DEF joined
  <2>4. Pulled(f[1]) \in Seq(Operation) /\ <<>> \in Seq(Operation)
    BY PulledType DEF TypeOK
  <2>5. ops \in Seq(Operation)
    BY <2>4, Zenon
  <2>6. conflict \in Conflict \cup {None}
    BY ConflictsType DEF TypeOK
  <2>7. faults' \in Nat /\ restarts' \in Nat
    BY <1>6 DEF RecReply, TypeOK
  <2>8. QED
    BY <2>2, <2>3, <2>5, <2>6, <2>7, RespondsType
<1>7. ASSUME RecEcho(f) \/ RecFallback(f) PROVE TypeOK'
  <2>1. fiber[f].resolved \in VClock \cup {None} /\ <<>> \in Seq(Operation)
    BY <1>r DEF FiberState
  <2>2. Responds(f, <<>>, fiber[f].resolved, None)
    BY <1>7 DEF RecEcho, RecFallback
  <2>3. faults' \in Nat /\ restarts' \in Nat
    BY <1>7 DEF RecEcho, RecFallback, NetworkFault, Fault, TypeOK
  <2>4. QED
    BY <2>1, <2>2, <2>3, RespondsType
<1>8. ASSUME RecResolve(f) PROVE TypeOK'
  <2> DEFINE new == [fiber[f] EXCEPT !.pc = "conflict", !.resolved = None]
  <2>1. new \in FiberState /\ new.pc = "conflict"
    BY <1>r DEF FiberState
  <2>2. fiber' = [fiber EXCEPT ![f] = new]
    BY <1>8, <1>r DEF RecResolve, TypeOK
  <2> HIDE DEF new
  <2>3. clock' \in [Replica -> VClock] /\ rewound' \subseteq Replica
    BY <1>8, <1>r, ResolvedType DEF RecResolve, TypeOK
  <2>4. QED
    BY <1>8, <1>s, <2>1, <2>2, <2>3 DEF RecResolve, TypeOK
<1>9. ASSUME RecConflict(f) PROVE TypeOK'
  <2>1. TakesServerValue(f) => /\ fiber[f].conflict.key \in Key
                               /\ Stored(f[1], fiber[f].conflict.serverValue) \in GSet
    BY <1>r, StoredType DEF TakesServerValue, FiberState, Conflict
  <2>2. store' \in [Replica -> [Key -> GSet \cup {None}]]
    BY <1>9, <1>r, <2>1 DEF RecConflict, TypeOK
  <2>3. NewFiber \in FiberState /\ NewFiber.pc = "idle"
    BY FiberStates DEF NewFiber
  <2>4. QED
    BY <1>9, <1>s, <2>2, <2>3 DEF RecConflict, TypeOK
<1>10. QED
  BY <1>1, <1>2, <1>3, <1>4, <1>5, <1>6, <1>7, <1>8, <1>9
     DEF FiberStep, ApplyStep, RecStep, FiberFault

LEMMA TypeStep == TypeOK /\ [Next]_vars => TypeOK'
<1> SUFFICES ASSUME TypeOK, [Next]_vars PROVE TypeOK'
  OBVIOUS
<1>1. ASSUME NEW a \in App, AddCall(a) \/ AddStep(a) \/ AddFault(a) PROVE TypeOK'
  BY <1>1, AddType
<1>2. ASSUME NEW f \in Fiber, FiberStep(f) \/ FiberFault(f) PROVE TypeOK'
  BY <1>2, FiberType
<1>3. ASSUME NEW op \in late, Arrive(op) PROVE TypeOK'
  <2>1. op \in Operation /\ op.vectorClock.timestamps \in Clock
    BY DEF TypeOK, Operation, VClock
  <2>2. log' \in Seq(Operation) /\ late' \subseteq Operation /\ serverClock' \in Clock
    BY <1>3, <2>1, JoinIsClock DEF Arrive, Accepts, TypeOK
  <2>3. QED
    BY <1>3, <2>2 DEF Arrive, TypeOK, ghostVars, envVars
<1>4. ASSUME NEW r \in Replica, Restart(r) PROVE TypeOK'
  <2>1. Idle(0).pc = "idle" /\ \A n \in Nat : Idle(n) \in AppState
    BY DEF Idle, AppState
  <2>2. NewFiber \in FiberState /\ NewFiber.pc = "idle"
    BY FiberStates DEF NewFiber
  <2>3. app' \in [App -> AppState] /\ \A a \in App : app'[a].pc # "idle" => app'[a].op # None
    <3>1. \A a \in App : app[a] \in AppState /\ app[a].calls \in Nat
      BY DEF TypeOK, AppState
    <3>2. QED
      BY <1>4, <2>1, <3>1 DEF Restart, TypeOK, Idle
  <2>4. /\ fiber' \in [Fiber -> FiberState]
        /\ \A f \in Fiber : fiber'[f].pc = "waiting" => fiber'[f].resolved # None
    BY <1>4, <2>2 DEF Restart, TypeOK
  <2>5. store' \in [Replica -> [Key -> GSet \cup {None}]] /\ clock' \in [Replica -> VClock]
    BY <1>4, EmptyVClockType DEF Restart, TypeOK
  <2>6. late' \subseteq Operation
    <3>1. \A a \in App : app[a].pc = "push" => app[a].op \in Operation
      BY DEF TypeOK, AppState
    <3>2. late' = late \cup {app[a].op : a \in {b \in App : /\ Host[b] = r /\ app[b].pc = "push"
                                                            /\ Transport[r] = "websocket"}}
      BY <1>4 DEF Restart
    <3>3. QED
      BY <3>1, <3>2 DEF TypeOK
  <2>7. rewound' \subseteq Replica /\ restarts' \in Nat
    BY <1>4 DEF Restart, TypeOK
  <2>8. QED
    BY <1>4, <2>3, <2>4, <2>5, <2>6, <2>7 DEF Restart, TypeOK
<1>5. ASSUME UNCHANGED vars PROVE TypeOK'
  BY <1>5 DEF TypeOK, vars, serverVars, ghostVars, envVars
<1>6. QED
  BY <1>1, <1>2, <1>3, <1>4, <1>5 DEF Next

\* Whatever the replicas, the transport, the storage and the failures, the state
\* keeps its shape: a call under way has its operation, a request its clock.
THEOREM TypeCorrect == Spec => []TypeOK
<1>1. Init => TypeOK
  BY TypeInit
<1>2. TypeOK /\ [Next]_vars => TypeOK'
  BY TypeStep
<1>3. QED
  BY <1>1, <1>2, PTL DEF Spec

-----------------------------------------------------------------------------
(* ClockNeverAhead is inductive together with TypeOK.                       *)

LEMMA OpClocks ==
  ASSUME NEW op \in Operation
  PROVE  op.vectorClock \in VClock /\ op.vectorClock.timestamps \in Clock
BY DEF Operation, VClock

\* Nothing a replica pulls counts an event that was not stamped.
LEMMA PulledCounted ==
  ASSUME TypeOK, ClockNeverAhead, NEW r
  PROVE  \A i \in DOMAIN Pulled(r) : Counted(Pulled(r)[i].vectorClock)
<1> SUFFICES ASSUME NEW i \in DOMAIN Pulled(r) PROVE Counted(Pulled(r)[i].vectorClock)
  OBVIOUS
<1>1. i \in DOMAIN log /\ Pulled(r)[i] = Parsed(log[i])
  BY PulledType DEF TypeOK
<1>2. log[i] \in Operation
  BY <1>1 DEF TypeOK
<1>3. Parsed(log[i]).vectorClock.timestamps = log[i].vectorClock.timestamps
  BY <1>2, ParsedType
<1>4. QED
  BY <1>1, <1>3 DEF Counted, ClockNeverAhead

\* Counting one more increment keeps every clock counted.
LEMMA CountedGrows ==
  ASSUME TypeOK, TypeOK', NEW n \in Node, stamps' = Increment(stamps, n)
  PROVE  \A c \in VClock : Counted(c) => Counted(c)'
<1>1. stamps \in Clock /\ stamps' \in Clock /\ Leq(stamps, stamps')
  BY LeqIncrement DEF TypeOK
<1>2. \A c \in Clock : Leq(c, stamps) => Leq(c, stamps')
  BY <1>1, LeqTransitive
<1>3. QED
  BY <1>2 DEF Counted, VClock

LEMMA CountedInit == Init => ClockNeverAhead
<1> SUFFICES ASSUME Init PROVE ClockNeverAhead
  OBVIOUS
<1>1. Leq(Empty, Empty)
  BY EmptyLeq, EmptyIsClock
<1>2. QED
  BY <1>1 DEF Init, ClockNeverAhead, Counted, EmptyVClock, Idle, NewFiber

\* An operation that the server accepts is one more that is counted.
LEMMA AcceptsCounted ==
  ASSUME TypeOK, ClockNeverAhead, NEW op \in Operation, Counted(op.vectorClock), Accepts(op)
  PROVE  /\ \A i \in DOMAIN log' : Counted(log'[i].vectorClock)
         /\ Leq(serverClock', stamps)
<1>1. \A i \in DOMAIN log' : (i \in DOMAIN log /\ log'[i] = log[i]) \/ log'[i] = op
  BY DEF Accepts, TypeOK
<1>2. serverClock \in Clock /\ stamps \in Clock /\ op.vectorClock.timestamps \in Clock
  BY OpClocks DEF TypeOK
<1>3. Leq(Join(serverClock, op.vectorClock.timestamps), stamps)
  BY <1>2, JoinLeq DEF Counted, ClockNeverAhead
<1>4. QED
  BY <1>1, <1>3 DEF Accepts, ClockNeverAhead

LEMMA AddCounted ==
  ASSUME TypeOK, TypeOK', ClockNeverAhead, NEW a \in App,
         AddCall(a) \/ AddStep(a) \/ AddFault(a)
  PROVE  ClockNeverAhead'
<1> USE DEF ClockNeverAhead, serverVars, ghostVars, envVars
<1>r. /\ Host[a] \in Replica /\ Host[a] \in Node
      /\ app \in [App -> AppState] /\ clock \in [Replica -> VClock]
      /\ stamps \in Clock /\ serverClock \in Clock
  BY HostAssumption, NodeAssumption DEF TypeOK
<1>o. app[a].pc # "idle" =>
        app[a].op \in Operation /\ app[a].op # None /\ Counted(app[a].op.vectorClock)
  BY DEF TypeOK, AppState
<1>1. ASSUME NEW k \in Key, AddRead(a, k) \/ AddReadFails(a, k) PROVE ClockNeverAhead'
  <2>0. PICK current \in GSet : AddTo(a, k, current)
    BY <1>1, AddReads
  <2>1. PICK op \in Operation :
          /\ app' = [app EXCEPT ![a] = [pc |-> "store", calls |-> app[a].calls + 1, op |-> op]]
          /\ op.vectorClock = EmptyVClock
    BY <2>0, AddToOp
  <2>2. Counted(EmptyVClock)
    BY <1>r, EmptyLeq DEF Counted, EmptyVClock
  <2>3. app'[a].op.vectorClock = EmptyVClock /\ \A b \in App : b # a => app'[b] = app[b]
    BY <1>r, <2>1
  <2>4. UNCHANGED <<clock, fiber, log, serverClock, late, stamps>>
    BY <2>0 DEF AddTo
  <2>5. QED
    BY <2>2, <2>3, <2>4 DEF Counted
<1>2. ASSUME AddIncrement(a) PROVE ClockNeverAhead'
  <2> DEFINE c == Increment(clock[Host[a]].timestamps, Host[a])
  <2>1. stamps' = Increment(stamps, Host[a])
    BY <1>2 DEF AddIncrement
  <2>2. \A d \in VClock : Counted(d) => Counted(d)'
    BY <1>r, <2>1, CountedGrows
  <2>3. clock[Host[a]].timestamps \in Clock /\ Leq(clock[Host[a]].timestamps, stamps)
    BY <1>r DEF Counted, VClock
  <2>4. Leq(c, stamps')
    BY <1>r, <2>1, <2>3, IncrementLeq
  <2>5. app[a].op \in Operation
    BY <1>2, <1>o DEF AddIncrement
  <2>6. /\ app'[a].op.vectorClock.timestamps = c
        /\ \A b \in App : b # a => app'[b] = app[b]
    BY <1>2, <1>r, <2>5 DEF AddIncrement, AppState, Operation
  <2>7. (\A b \in App : app[b].op # None => Counted(app[b].op.vectorClock))'
    <3>1. ASSUME NEW b \in App, b # a, app'[b].op # None
          PROVE  Counted(app[b].op.vectorClock)'
      <4>1. app[b].op \in Operation /\ Counted(app[b].op.vectorClock)
        BY <1>r, <2>6, <3>1 DEF AppState
      <4>2. Leq(app[b].op.vectorClock.timestamps, stamps')
        BY <2>2, <4>1, OpClocks DEF Counted
      <4>3. QED
        BY <2>6, <3>1, <4>2 DEF Counted
    <3>2. Counted(app[a].op.vectorClock)'
      BY <2>4, <2>6 DEF Counted
    <3>3. QED
      BY <3>1, <3>2
  <2>8. UNCHANGED <<clock, fiber, log, serverClock, late>>
    BY <1>2 DEF AddIncrement
  <2>9. /\ (\A r \in Replica : Counted(clock[r]))'
        /\ (\A i \in DOMAIN log : Counted(log[i].vectorClock))'
        /\ (\A op \in late : Counted(op.vectorClock))'
    <3>1. /\ \A i \in DOMAIN log : log[i].vectorClock \in VClock
          /\ \A op \in late : op.vectorClock \in VClock
      BY OpClocks DEF TypeOK
    <3>2. QED
      BY <1>r, <2>2, <2>8, <3>1 DEF Counted
  <2>10. (\A f \in Fiber : /\ \A i \in DOMAIN fiber[f].ops : Counted(fiber[f].ops[i].vectorClock)
                           /\ fiber[f].resolved # None => Counted(fiber[f].resolved))'
    <3>1. \A f \in Fiber :
            /\ \A i \in DOMAIN fiber[f].ops : fiber[f].ops[i].vectorClock \in VClock
            /\ fiber[f].resolved # None => fiber[f].resolved \in VClock
      BY OpClocks DEF TypeOK, FiberState
    <3>2. QED
      BY <2>2, <2>8, <3>1 DEF Counted
  <2>11. Leq(serverClock, stamps)'
    <3>1. Leq(stamps, stamps') /\ stamps' \in Clock
      BY <1>r, <2>1, LeqIncrement, IncrementIsClock
    <3>2. QED
      BY <1>r, <2>8, <3>1, LeqTransitive
  <2>12. QED
    BY <2>7, <2>9, <2>10, <2>11
<1>3. ASSUME AddSetClock(a) PROVE ClockNeverAhead'
  <2>1. /\ \A r \in Replica : clock'[r] = clock[r] \/ clock'[r] = app[a].op.vectorClock
        /\ \A b \in App : app'[b].op = app[b].op
        /\ UNCHANGED <<fiber, log, serverClock, late, stamps>>
    BY <1>3, <1>r DEF AddSetClock, AppState
  <2>2. Counted(app[a].op.vectorClock)
    BY <1>3, <1>o DEF AddSetClock
  <2>3. QED
    BY <2>1, <2>2 DEF Counted
<1>4. ASSUME AddPush(a) PROVE ClockNeverAhead'
  <2>1. app[a].op \in Operation /\ Counted(app[a].op.vectorClock)
    BY <1>4, <1>o DEF AddPush
  <2>2. (\A i \in DOMAIN log' : Counted(log'[i].vectorClock)) /\ Leq(serverClock', stamps)
    BY <1>4, <2>1, AcceptsCounted DEF AddPush
  <2>3. \A b \in App : app'[b].op # None => app'[b] = app[b]
    BY <1>4, <1>r DEF AddPush, Idle
  <2>4. UNCHANGED <<clock, fiber, late, stamps>>
    BY <1>4 DEF AddPush
  <2>5. QED
    BY <2>2, <2>3, <2>4 DEF Counted
<1>5. ASSUME AddPushFails(a) PROVE ClockNeverAhead'
  <2>1. \A b \in App : app'[b].op # None => app'[b] = app[b]
    BY <1>5, <1>r DEF AddPushFails, Idle
  <2>2. late' = late \cup {app[a].op} /\ UNCHANGED <<clock, fiber, log, serverClock, stamps>>
    BY <1>5 DEF AddPushFails
  <2>3. Counted(app[a].op.vectorClock)
    BY <1>5, <1>o DEF AddPushFails
  <2>4. QED
    BY <2>1, <2>2, <2>3 DEF Counted
<1>6. ASSUME (\E k \in Key : AddDies(a, k)) \/ AddStore(a) \/ AddIncrementDies(a)
             \/ AddStoreFails(a) \/ AddPushNowhere(a)
      PROVE  ClockNeverAhead'
  <2>1. \A b \in App : app'[b].op # None => app'[b].op = app[b].op
    BY <1>6, <1>r DEF AddDies, AddStore, AddIncrementDies, AddStoreFails,
                      AddPushNowhere, Idle, AppState
  <2>2. UNCHANGED <<clock, fiber, log, serverClock, late, stamps>>
    BY <1>6 DEF AddDies, AddStore, AddIncrementDies, AddStoreFails, AddPushNowhere
  <2>3. QED
    BY <2>1, <2>2 DEF Counted
<1>7. QED
  BY <1>1, <1>2, <1>3, <1>4, <1>5, <1>6 DEF AddCall, AddStep, AddFault

LEMMA FiberCounted ==
  ASSUME TypeOK, TypeOK', ClockNeverAhead, NEW f \in Fiber,
         FiberStep(f) \/ FiberFault(f)
  PROVE  ClockNeverAhead'
<1> USE DEF serverVars, ghostVars, envVars
<1>r. /\ f[1] \in Replica /\ fiber \in [Fiber -> FiberState]
      /\ clock \in [Replica -> VClock] /\ stamps \in Clock /\ serverClock \in Clock
  BY FiberParts DEF TypeOK
<1>u. UNCHANGED <<app, log, serverClock, late, stamps>>
  BY DEF FiberStep, FiberFault, ApplyStep, RecStep, Pull, ApplySkip, ApplyDies,
         ApplyDone, RecRequest, RecReply, RecEcho, RecResolve, RecConflict, PullFails,
         WriteFails, RecFallback, Responds
\* It is enough to look at the clock of f's replica and at f itself.
<1>s. ASSUME \A r \in Replica : Counted(clock'[r]),
             \A g \in Fiber : g # f => fiber'[g] = fiber[g],
             \A i \in DOMAIN fiber'[f].ops : Counted(fiber'[f].ops[i].vectorClock),
             fiber'[f].resolved # None => Counted(fiber'[f].resolved)
      PROVE  ClockNeverAhead'
  <2>1. \A g \in Fiber : /\ \A i \in DOMAIN fiber'[g].ops : Counted(fiber'[g].ops[i].vectorClock)
                         /\ fiber'[g].resolved # None => Counted(fiber'[g].resolved)
    BY <1>s DEF ClockNeverAhead
  <2>2. QED
    BY <1>s, <1>u, <2>1 DEF ClockNeverAhead, Counted
<1>1. ASSUME Pull(f) PROVE ClockNeverAhead'
  <2>1. /\ UNCHANGED clock
        /\ fiber' = [fiber EXCEPT ![f].pc = "apply", ![f].ops = Pulled(f[1])]
    BY <1>1 DEF Pull
  <2>2. \A i \in DOMAIN Pulled(f[1]) : Counted(Pulled(f[1])[i].vectorClock)
    BY PulledCounted
  <2>3. QED
    BY <1>r, <1>s, <2>1, <2>2 DEF ClockNeverAhead, FiberState
<1>2. ASSUME ApplySkip(f) PROVE ClockNeverAhead'
  <2>1. UNCHANGED clock /\ fiber' = [fiber EXCEPT ![f].ops = Tail(fiber[f].ops)]
    BY <1>2 DEF ApplySkip
  <2>2. /\ fiber[f].ops \in Seq(Operation) /\ fiber[f].ops # <<>>
        /\ \A i \in DOMAIN fiber[f].ops : Counted(fiber[f].ops[i].vectorClock)
    BY <1>2, <1>r DEF ApplySkip, Looks, ClockNeverAhead, FiberState
  <2>3. \A i \in DOMAIN Tail(fiber[f].ops) : Counted(Tail(fiber[f].ops)[i].vectorClock)
    BY <2>2, HeadTail
  <2>4. fiber'[f].ops = Tail(fiber[f].ops) /\ fiber'[f].resolved = fiber[f].resolved
        /\ \A g \in Fiber : g # f => fiber'[g] = fiber[g]
    BY <1>r, <2>1 DEF FiberState
  <2>5. QED
    BY <1>s, <2>1, <2>3, <2>4 DEF ClockNeverAhead
<1>3. ASSUME ApplyDies(f) \/ PullFails(f) \/ WriteFails(f) \/ RecConflict(f)
      PROVE  ClockNeverAhead'
  <2>1. /\ UNCHANGED clock
        /\ \A g \in Fiber : g # f => fiber'[g] = fiber[g]
        /\ fiber'[f].ops = <<>> /\ fiber'[f].resolved = None
    BY <1>3, <1>r DEF ApplyDies, PullFails, WriteFails, RecConflict, StoppedFiber, NewFiber
  <2>2. QED
    BY <1>s, <2>1 DEF ClockNeverAhead
<1>4. ASSUME ApplyDone(f) PROVE ClockNeverAhead'
  <2>1. /\ UNCHANGED clock
        /\ \A g \in Fiber : g # f => fiber'[g] = fiber[g]
        /\ fiber'[f].ops = fiber[f].ops /\ fiber'[f].resolved = fiber[f].resolved
    BY <1>4, <1>r DEF ApplyDone, FiberState
  <2>2. QED
    BY <1>s, <2>1 DEF ClockNeverAhead
<1>5. ASSUME RecRequest(f) PROVE ClockNeverAhead'
  <2>1. /\ UNCHANGED clock
        /\ \A g \in Fiber : g # f => fiber'[g] = fiber[g]
        /\ fiber'[f].ops = fiber[f].ops /\ fiber'[f].resolved = clock[f[1]]
    BY <1>5, <1>r DEF RecRequest, FiberState
  <2>2. QED
    BY <1>r, <1>s, <2>1 DEF ClockNeverAhead
<1>6. ASSUME RecReply(f) PROVE ClockNeverAhead'
  <2> DEFINE joined == [timestamps |-> Join(fiber[f].resolved.timestamps, serverClock),
                        methods |-> FALSE]
  <2>1. fiber[f].resolved \in VClock /\ Counted(fiber[f].resolved)
    BY <1>6, <1>r DEF RecReply, TypeOK, FiberState, ClockNeverAhead
  <2>2. Counted(joined) /\ joined # None
    <3>1. joined \in VClock
      BY <1>r, <2>1, JoinIsClock DEF VClock
    <3>2. QED
      BY <1>r, <2>1, <3>1, JoinLeq, NoneAssumption DEF VClock, Counted, ClockNeverAhead
  <2>3. PICK ops \in {<<>>, Pulled(f[1])}, state \in {None, joined},
             conflict \in {None} \cup Conflicts : Responds(f, ops, state, conflict)
    BY <1>6 DEF RecReply
  <2> HIDE DEF joined
  <2>4. \A i \in DOMAIN ops : Counted(ops[i].vectorClock)
    BY PulledCounted
  <2>5. UNCHANGED clock
    BY <1>6 DEF RecReply, Responds
  <2>6. /\ fiber'[f].ops = ops /\ fiber'[f].resolved = state
        /\ \A g \in Fiber : g # f => fiber'[g] = fiber[g]
    BY <1>r, <2>3 DEF Responds
  <2>7. QED
    BY <1>s, <2>2, <2>4, <2>5, <2>6 DEF ClockNeverAhead
<1>7. ASSUME RecEcho(f) \/ RecFallback(f) PROVE ClockNeverAhead'
  <2>1. Responds(f, <<>>, fiber[f].resolved, None)
    BY <1>7 DEF RecEcho, RecFallback
  <2>2. /\ fiber'[f].ops = <<>> /\ fiber'[f].resolved = fiber[f].resolved
        /\ UNCHANGED clock
        /\ \A g \in Fiber : g # f => fiber'[g] = fiber[g]
    BY <1>r, <2>1 DEF Responds
  <2>3. QED
    BY <1>s, <2>2 DEF ClockNeverAhead
<1>8. ASSUME RecResolve(f) PROVE ClockNeverAhead'
  <2>1. Counted(Resolved(f))
    BY <1>r DEF Resolved, ClockNeverAhead
  <2>2. \A r \in Replica : Counted(clock'[r])
    BY <1>8, <1>r, <2>1 DEF RecResolve, ClockNeverAhead
  <2>3. /\ \A g \in Fiber : g # f => fiber'[g] = fiber[g]
        /\ fiber'[f].ops = fiber[f].ops /\ fiber'[f].resolved = None
    BY <1>8, <1>r DEF RecResolve, FiberState
  <2>4. QED
    BY <1>s, <2>2, <2>3 DEF ClockNeverAhead
<1>9. QED
  BY <1>1, <1>2, <1>3, <1>4, <1>5, <1>6, <1>7, <1>8
     DEF FiberStep, ApplyStep, RecStep, FiberFault

LEMMA CountedStep == TypeOK /\ TypeOK' /\ ClockNeverAhead /\ [Next]_vars => ClockNeverAhead'
<1> SUFFICES ASSUME TypeOK, TypeOK', ClockNeverAhead, [Next]_vars PROVE ClockNeverAhead'
  OBVIOUS
<1>1. ASSUME NEW a \in App, AddCall(a) \/ AddStep(a) \/ AddFault(a) PROVE ClockNeverAhead'
  BY <1>1, AddCounted
<1>2. ASSUME NEW f \in Fiber, FiberStep(f) \/ FiberFault(f) PROVE ClockNeverAhead'
  BY <1>2, FiberCounted
<1>3. ASSUME NEW op \in late, Arrive(op) PROVE ClockNeverAhead'
  <2>1. op \in Operation /\ Counted(op.vectorClock) /\ Accepts(op)
    BY <1>3 DEF TypeOK, ClockNeverAhead, Arrive
  <2>2. (\A i \in DOMAIN log' : Counted(log'[i].vectorClock)) /\ Leq(serverClock', stamps)
    BY <2>1, AcceptsCounted
  <2>3. late' \subseteq late /\ UNCHANGED <<clock, app, fiber, stamps>>
    BY <1>3 DEF Arrive, ghostVars
  <2>4. QED
    BY <2>2, <2>3 DEF ClockNeverAhead, Counted
<1>4. ASSUME NEW r \in Replica, Restart(r) PROVE ClockNeverAhead'
  <2>1. \A s \in Replica : Counted(clock'[s])
    <3>1. Counted(EmptyVClock)
      BY EmptyLeq DEF Counted, EmptyVClock, TypeOK
    <3>2. QED
      BY <1>4, <3>1 DEF Restart, TypeOK, ClockNeverAhead
  <2>2. \A a \in App : app'[a].op # None => app'[a].op = app[a].op
    BY <1>4 DEF Restart, Idle
  <2>3. \A f \in Fiber : \/ fiber'[f] = fiber[f]
                         \/ fiber'[f].ops = <<>> /\ fiber'[f].resolved = None
    BY <1>4 DEF Restart, NewFiber
  <2>4. \A op \in late' : op \in late \/ \E a \in App : op = app[a].op /\ app[a].pc = "push"
    BY <1>4 DEF Restart
  <2>5. \A op \in late' : Counted(op.vectorClock)
    BY <2>4 DEF TypeOK, ClockNeverAhead
  <2>6. UNCHANGED <<log, serverClock, stamps>>
    BY <1>4 DEF Restart
  <2>7. QED
    BY <2>1, <2>2, <2>3, <2>5, <2>6 DEF ClockNeverAhead, Counted
<1>5. ASSUME UNCHANGED vars PROVE ClockNeverAhead'
  BY <1>5 DEF vars, serverVars, ghostVars, ClockNeverAhead, Counted
<1>6. QED
  BY <1>1, <1>2, <1>3, <1>4, <1>5 DEF Next

\* No clock kept by a replica, carried by an operation, held by the server or
\* snapshotted by a reconciliation ever counts a write that was not made, with
\* any number of writers, failures and restarts.
THEOREM NeverAhead == Spec => []ClockNeverAhead
<1>1. Init => TypeOK /\ ClockNeverAhead
  BY TypeInit, CountedInit
<1>2. TypeOK /\ ClockNeverAhead /\ [Next]_vars => (TypeOK /\ ClockNeverAhead)'
  BY TypeStep, CountedStep
<1>3. QED
  BY <1>1, <1>2, PTL DEF Spec

=============================================================================
