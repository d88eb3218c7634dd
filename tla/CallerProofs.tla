---------------------------- MODULE CallerProofs ----------------------------
(***************************************************************************)
(* What LocalFirst promises to the callers of add.  It implements           *)
(* WriteBehind with any number of callers on a replica; with one call at a  *)
(* time on each, stamps are unique and a push tells all the replica shows.  *)
(***************************************************************************)
EXTENDS LocalFirstProofs

Calling(a) == app[a].pc # "idle"

\* An operation is named after the call that makes it, and a call that is under way
\* has nothing on its way yet.
Named ==
  /\ \A a \in App : Calling(a) => app[a].op.id = <<a, app[a].calls>>
  /\ \A op \in late : /\ op.id[2] <= app[op.id[1]].calls
                      /\ \A a \in App : Calling(a) => op.id # app[a].op.id

\* No two operations that may still arrive are of one call.
LateOnce == \A x, y \in late : x.id = y.id => x = y

\* The values and the keys that the server holds.
Reported(c) == \E i \in DOMAIN log : c.key = log[i].key /\ c.serverValue.elements = log[i].value.elements

ConflictsAreLogged == \A f \in Fiber : fiber[f].conflict # None => Reported(fiber[f].conflict)

BehindInv == TypeOK /\ Named /\ LateOnce /\ ConflictsAreLogged

-----------------------------------------------------------------------------
(* BehindInv is inductive.                                                  *)

LEMMA LateOps ==
  ASSUME TypeOK, NEW op \in late
  PROVE  op \in Operation /\ op.id[1] \in App /\ op.id[2] \in Nat /\ op.id = <<op.id[1], op.id[2]>>
BY DEF TypeOK, Operation, Element

LEMMA CallOps ==
  ASSUME TypeOK, NEW a \in App, Calling(a)
  PROVE  app[a].op \in Operation
BY DEF TypeOK, AppState, Calling

\* Changing two fields of a call is replacing the call.
LEMMA TwoFields ==
  ASSUME TypeOK, NEW a \in App, NEW pc, NEW op,
         app' = [app EXCEPT ![a].pc = pc, ![a].op = op]
  PROVE  app' = [app EXCEPT ![a] = [app[a] EXCEPT !.pc = pc, !.op = op]]
<1>1. app \in [App -> AppState]
  BY DEF TypeOK
<1>2. app'[a] = [app[a] EXCEPT !.pc = pc, !.op = op]
  BY <1>1
<1>3. QED
  BY <1>1, <1>2

LEMMA BehindInit == Init => BehindInv
<1> SUFFICES ASSUME Init PROVE BehindInv
  OBVIOUS
<1>1. TypeOK
  BY TypeInit
<1>2. Named /\ LateOnce /\ ConflictsAreLogged
  BY DEF Init, Idle, NewFiber, Named, LateOnce, ConflictsAreLogged, Calling
<1>3. QED
  BY <1>1, <1>2 DEF BehindInv

\* The steps of a call: what the call of a has become, and what is late.
LEMMA NamedStep ==
  ASSUME BehindInv, TypeOK', NEW a \in App, NEW new, app' = [app EXCEPT ![a] = new],
         \/ /\ new.pc # "idle" /\ new.op.id = <<a, new.calls>> /\ late' = late
            /\ \/ new.calls = app[a].calls + 1
               \/ Calling(a) /\ new.calls = app[a].calls
         \/ new.pc = "idle" /\ new.calls >= app[a].calls /\ late' = late
         \/ /\ new.pc = "idle" /\ new.calls = app[a].calls
            /\ Calling(a) /\ late' = late \cup {app[a].op}
  PROVE  Named' /\ LateOnce'
<1>1. /\ app'[a] = new /\ \A b \in App : b # a => app'[b] = app[b]
      /\ \A b \in App : app[b].calls \in Nat
      /\ new.calls \in Nat /\ new.calls >= app[a].calls
  BY DEF BehindInv, TypeOK, AppState
<1>2. ASSUME NEW b \in App, Calling(b)' PROVE app'[b].op.id = <<b, app'[b].calls>>
  BY <1>1, <1>2 DEF BehindInv, Named, Calling
<1>3. \A op \in late' : op \in late \/ (Calling(a) /\ new.pc = "idle" /\ op = app[a].op)
  OBVIOUS
<1>4. ASSUME NEW op \in late'
      PROVE  /\ op.id[2] <= app'[op.id[1]].calls
             /\ \A b \in App : Calling(b)' => op.id # app'[b].op.id
  <2>1. CASE op \in late
    <3>1. op.id[1] \in App /\ op.id[2] \in Nat /\ op.id[2] <= app[op.id[1]].calls
      BY <2>1, LateOps DEF BehindInv, Named
    <3>2. op.id[2] <= app'[op.id[1]].calls
      BY <1>1, <3>1
    <3>3. ASSUME NEW b \in App, Calling(b)' PROVE op.id # app'[b].op.id
      <4>1. CASE Calling(b) /\ app'[b].calls = app[b].calls
        <5>1. op.id # app[b].op.id /\ app[b].op.id = <<b, app[b].calls>>
          BY <2>1, <4>1 DEF BehindInv, Named
        <5>2. QED
          BY <1>2, <3>3, <4>1, <5>1
      <4>2. CASE app'[b].calls = app[b].calls + 1
        BY <1>1, <1>2, <3>1, <3>3, <4>2
      <4>3. QED
        BY <1>1, <3>3, <4>1, <4>2 DEF Calling
    <3>4. QED
      BY <3>2, <3>3
  <2>2. CASE Calling(a) /\ new.pc = "idle" /\ op = app[a].op
    <3>1. op.id = <<a, app[a].calls>>
      BY <2>2 DEF BehindInv, Named
    <3>2. \A b \in App : Calling(b)' => b # a /\ app'[b].op.id = <<b, app'[b].calls>>
      BY <1>1, <1>2, <2>2 DEF Calling
    <3>3. QED
      BY <1>1, <3>1, <3>2
  <2>3. QED
    BY <1>3, <2>1, <2>2
<1>5. LateOnce'
  <2>1. Calling(a) => \A op \in late : op.id # app[a].op.id
    BY DEF BehindInv, Named
  <2>2. QED
    BY <1>3, <2>1 DEF BehindInv, LateOnce
<1>6. QED
  BY <1>2, <1>4, <1>5 DEF Named

\* A longer log still holds what has been reported.
LEMMA ReportedStays ==
  ASSUME TypeOK, NEW c, Reported(c), log' = log \/ \E op \in Operation : log' = Append(log, op)
  PROVE  Reported(c)'
<1>1. \A i \in DOMAIN log : i \in DOMAIN log' /\ log'[i] = log[i]
  BY DEF TypeOK
<1>2. QED
  BY <1>1 DEF Reported

LEMMA CallInv ==
  ASSUME BehindInv, TypeOK', NEW a \in App, AddCall(a) \/ AddStep(a) \/ AddFault(a)
  PROVE  BehindInv'
<1> USE DEF serverVars, ghostVars, envVars
<1>t. TypeOK /\ app \in [App -> AppState] /\ app[a].calls \in Nat
  BY DEF BehindInv, TypeOK, AppState
<1>1. Named' /\ LateOnce'
  <2>1. ASSUME NEW k \in Key, AddRead(a, k) \/ AddReadFails(a, k) PROVE Named' /\ LateOnce'
    <3>1. PICK current \in GSet : AddTo(a, k, current)
      BY <1>t, <2>1, AddReads
    <3>2. PICK op \in Operation :
            /\ app' = [app EXCEPT ![a] = [pc |-> "store", calls |-> app[a].calls + 1, op |-> op]]
            /\ op.id = <<a, app[a].calls + 1>>
      BY <1>t, <3>1, AddToOp
    <3>3. late' = late
      BY <3>1 DEF AddTo
    <3> DEFINE new == [pc |-> "store", calls |-> app[a].calls + 1, op |-> op]
    <3>4. new.pc # "idle" /\ new.op.id = <<a, new.calls>> /\ new.calls = app[a].calls + 1
      BY <3>2
    <3>5. app' = [app EXCEPT ![a] = new]
      BY <3>2
    <3> HIDE DEF new
    <3>6. QED
      BY <3>3, <3>4, <3>5, NamedStep
  <2>2. ASSUME NEW k \in Key, AddDies(a, k) PROVE Named' /\ LateOnce'
    <3> DEFINE new == [app[a] EXCEPT !.calls = app[a].calls + 1]
    <3>1. app' = [app EXCEPT ![a] = new] /\ late' = late
      BY <1>t, <2>2 DEF AddDies
    <3>2. new.pc = "idle" /\ new.calls >= app[a].calls
      BY <1>t, <2>2 DEF AddDies, AppState
    <3> HIDE DEF new
    <3>3. QED
      BY <3>1, <3>2, NamedStep
  <2>3. ASSUME NEW new, new.pc # "idle", new.op.id = app[a].op.id, new.calls = app[a].calls,
               app' = [app EXCEPT ![a] = new], Calling(a), late' = late
        PROVE  Named' /\ LateOnce'
    <3>1. new.op.id = <<a, new.calls>>
      BY <2>3 DEF BehindInv, Named
    <3>2. QED
      BY <2>3, <3>1, NamedStep
  <2>4. ASSUME NEW pc \in {"increment", "push"}, app' = [app EXCEPT ![a].pc = pc],
               Calling(a), late' = late
        PROVE  Named' /\ LateOnce'
    <3> DEFINE new == [app[a] EXCEPT !.pc = pc]
    <3>1. app' = [app EXCEPT ![a] = new]
      BY <1>t, <2>4
    <3>2. new.pc # "idle" /\ new.op = app[a].op /\ new.calls = app[a].calls
      BY <1>t, <2>4 DEF AppState
    <3> HIDE DEF new
    <3>3. QED
      BY <2>3, <2>4, <3>1, <3>2
  <2>5. ASSUME AddIncrement(a) PROVE Named' /\ LateOnce'
    <3> DEFINE c == [timestamps |-> Increment(clock[Host[a]].timestamps, Host[a]),
                     methods |-> TRUE]
               op == [app[a].op EXCEPT !.vectorClock = c]
               new == [app[a] EXCEPT !.pc = "setclock", !.op = op]
    <3>1. Calling(a) /\ late' = late
      BY <2>5 DEF AddIncrement, Calling
    <3>2. app[a].op \in Operation
      BY <1>t, <3>1, CallOps
    <3>3. app' = [app EXCEPT ![a].pc = "setclock", ![a].op = op]
      BY <2>5, <3>2 DEF AddIncrement, Operation
    <3>4. op.id = app[a].op.id
      BY <3>2 DEF Operation
    <3> HIDE DEF op
    <3>5. app' = [app EXCEPT ![a] = new]
      BY <1>t, <3>3, TwoFields
    <3>6. new.pc # "idle" /\ new.op = op /\ new.calls = app[a].calls
      BY <1>t DEF AppState
    <3> HIDE DEF new
    <3>7. QED
      BY <2>3, <3>1, <3>4, <3>5, <3>6
  <2>6. ASSUME AddStore(a) \/ AddSetClock(a) PROVE Named' /\ LateOnce'
    BY <2>4, <2>6 DEF AddStore, AddSetClock, Calling
  <2>7. ASSUME AddIncrementDies(a) \/ AddPush(a) \/ AddPushNowhere(a)
               \/ AddStoreFails(a) \/ AddPushFails(a)
        PROVE  Named' /\ LateOnce'
    <3>1. /\ app' = [app EXCEPT ![a] = Idle(app[a].calls)] /\ Calling(a)
          /\ late' \in {late, late \cup {app[a].op}}
      BY <2>7 DEF AddIncrementDies, AddPush, AddPushNowhere, AddStoreFails, AddPushFails, Calling
    <3>2. Idle(app[a].calls).pc = "idle" /\ Idle(app[a].calls).calls = app[a].calls
      BY DEF Idle
    <3> DEFINE new == Idle(app[a].calls)
    <3>3. app' = [app EXCEPT ![a] = new] /\ new.pc = "idle" /\ new.calls = app[a].calls
      BY <3>1, <3>2
    <3> HIDE DEF new
    <3>4. CASE late' = late
      <4>1. new.calls >= app[a].calls
        BY <1>t, <3>3
      <4>2. QED
        BY <3>3, <3>4, <4>1, NamedStep
    <3>5. CASE late' = late \cup {app[a].op}
      BY <3>1, <3>3, <3>5, NamedStep
    <3>6. QED
      BY <3>1, <3>4, <3>5
  <2>8. QED
    BY <2>1, <2>2, <2>5, <2>6, <2>7 DEF AddCall, AddStep, AddFault
<1>2. fiber' = fiber /\ (log' = log \/ \E op \in Operation : log' = Append(log, op))
  <2>1. CASE AddPush(a)
    BY <1>t, <2>1, CallOps DEF AddPush, Accepts, Calling
  <2>2. CASE ~AddPush(a)
    BY <2>2 DEF AddCall, AddStep, AddFault, AddRead, AddReadFails, AddTo, AddDies, AddStore,
                AddIncrement, AddIncrementDies, AddSetClock, AddPushNowhere, AddStoreFails,
                AddPushFails
  <2>3. QED
    BY <2>1, <2>2
<1>3. ConflictsAreLogged'
  BY <1>t, <1>2, ReportedStays DEF BehindInv, ConflictsAreLogged
<1>4. QED
  BY <1>1, <1>3 DEF BehindInv

\* A conflict of a response is about an operation the server holds.
LEMMA ConflictsReported ==
  ASSUME TypeOK, NEW c \in Conflicts
  PROVE  Reported(c)
<1>1. PICK i \in DOMAIN log : c = [key |-> log[i].key, serverValue |-> Plain(log[i].value)]
  BY DEF Conflicts
<1>2. Plain(log[i].value).elements = log[i].value.elements
  <2>1. log[i] \in Operation
    BY DEF TypeOK
  <2>2. QED
    BY <2>1, PlainGSet DEF Operation
<1>3. QED
  BY <1>1, <1>2 DEF Reported

LEMMA FiberInv ==
  ASSUME BehindInv, TypeOK', NEW f \in Fiber, FiberStep(f) \/ FiberFault(f)
  PROVE  BehindInv'
<1> USE DEF serverVars, ghostVars, envVars
<1>t. TypeOK /\ fiber \in [Fiber -> FiberState]
  BY DEF BehindInv, TypeOK
<1>u. UNCHANGED <<app, log, late>>
  BY DEF FiberStep, FiberFault, ApplyStep, RecStep, Pull, ApplySkip, ApplyDies,
         ApplyDone, RecRequest, RecReply, RecEcho, RecResolve, RecConflict, PullFails,
         WriteFails, RecFallback, Responds
<1>1. /\ \A g \in Fiber : g # f => fiber'[g] = fiber[g]
      /\ fiber'[f].conflict # None =>
           fiber'[f].conflict = fiber[f].conflict \/ fiber'[f].conflict \in Conflicts
  <2>1. ASSUME Pull(f) \/ ApplySkip(f) \/ ApplyDone(f) \/ RecRequest(f) \/ RecResolve(f)
        PROVE  /\ \A g \in Fiber : g # f => fiber'[g] = fiber[g]
               /\ fiber'[f].conflict = fiber[f].conflict
    BY <1>t, <2>1 DEF Pull, ApplySkip, ApplyDone, RecRequest, RecResolve, FiberState
  <2>2. ASSUME ApplyDies(f) \/ PullFails(f) \/ WriteFails(f) \/ RecConflict(f)
        PROVE  /\ \A g \in Fiber : g # f => fiber'[g] = fiber[g]
               /\ fiber'[f].conflict = None
    BY <1>t, <2>2 DEF ApplyDies, PullFails, WriteFails, RecConflict, StoppedFiber, NewFiber
  <2>3. ASSUME RecReply(f) \/ RecEcho(f) \/ RecFallback(f)
        PROVE  /\ \A g \in Fiber : g # f => fiber'[g] = fiber[g]
               /\ fiber'[f].conflict \in {None} \cup Conflicts
    <3>1. PICK ops, state, conflict : /\ Responds(f, ops, state, conflict)
                                      /\ conflict \in {None} \cup Conflicts
      <4>1. CASE RecReply(f)
        BY <4>1, Zenon DEF RecReply
      <4>2. CASE RecEcho(f) \/ RecFallback(f)
        <5>1. Responds(f, <<>>, fiber[f].resolved, None)
          BY <4>2 DEF RecEcho, RecFallback
        <5>2. QED
          BY <5>1
      <4>3. QED
        BY <2>3, <4>1, <4>2
    <3>2. QED
      BY <1>t, <3>1 DEF Responds
  <2>4. QED
    BY <2>1, <2>2, <2>3 DEF FiberStep, ApplyStep, RecStep, FiberFault
<1>2. \A c : Reported(c)' <=> Reported(c)
  BY <1>u DEF Reported
<1>3. ConflictsAreLogged'
  BY <1>t, <1>1, <1>2, ConflictsReported DEF BehindInv, ConflictsAreLogged
<1>4. Named' /\ LateOnce'
  BY <1>u DEF BehindInv, Named, LateOnce, Calling
<1>5. QED
  BY <1>3, <1>4 DEF BehindInv

LEMMA ArriveInv ==
  ASSUME BehindInv, TypeOK', NEW op \in late, Arrive(op)
  PROVE  BehindInv'
<1>1. late' \subseteq late /\ UNCHANGED <<app, fiber>>
  BY DEF Arrive
<1>2. op \in Operation /\ log' = Append(log, op)
  BY LateOps DEF Arrive, Accepts, BehindInv
<1>3. ConflictsAreLogged'
  BY <1>1, <1>2, ReportedStays DEF BehindInv, ConflictsAreLogged
<1>4. Named' /\ LateOnce'
  BY <1>1 DEF BehindInv, Named, LateOnce, Calling
<1>5. QED
  BY <1>3, <1>4 DEF BehindInv

LEMMA RestartInv ==
  ASSUME BehindInv, TypeOK', NEW r \in Replica, Restart(r)
  PROVE  BehindInv'
<1>1. \A a \in App : /\ app'[a].calls = app[a].calls
                     /\ Calling(a)' => Calling(a) /\ Host[a] # r /\ app'[a] = app[a]
  BY DEF Restart, Idle, Calling
<1>2. \A op \in late' : \/ op \in late
                        \/ \E a \in App : op = app[a].op /\ Calling(a) /\ Host[a] = r
  BY DEF Restart, Calling
<1>3. \A a \in App : Calling(a) => app[a].op.id = <<a, app[a].calls>> /\ app[a].calls \in Nat
  BY DEF BehindInv, Named, TypeOK, AppState
<1>4. ASSUME NEW op \in late'
      PROVE  /\ op.id[2] <= app'[op.id[1]].calls
             /\ \A a \in App : Calling(a)' => op.id # app'[a].op.id
  <2>1. CASE op \in late
    BY <1>1, <2>1, LateOps DEF BehindInv, Named
  <2>2. ASSUME NEW a \in App, op = app[a].op, Calling(a), Host[a] = r
        PROVE  /\ op.id[2] <= app'[op.id[1]].calls
               /\ \A b \in App : Calling(b)' => op.id # app'[b].op.id
    BY <1>1, <1>3, <2>2
  <2>3. QED
    BY <1>2, <2>1, <2>2
<1>5. Named'
  BY <1>1, <1>3, <1>4 DEF Named
<1>6. LateOnce'
  BY <1>2, <1>3 DEF BehindInv, LateOnce, Named
<1>7. ConflictsAreLogged'
  <2>1. log' = log /\ \A f \in Fiber : fiber'[f].conflict # None => fiber'[f] = fiber[f]
    BY DEF Restart, NewFiber
  <2>2. QED
    BY <2>1 DEF BehindInv, ConflictsAreLogged, Reported
<1>8. QED
  BY <1>5, <1>6, <1>7 DEF BehindInv

LEMMA BehindStep == BehindInv /\ [Next]_vars => BehindInv'
<1> SUFFICES ASSUME BehindInv, [Next]_vars PROVE BehindInv'
  OBVIOUS
<1>1. TypeOK'
  BY TypeStep DEF BehindInv
<1>2. CASE UNCHANGED vars
  BY <1>1, <1>2 DEF BehindInv, Named, LateOnce, ConflictsAreLogged, Reported, Calling,
                    vars, serverVars
<1>3. QED
  BY <1>1, <1>2, CallInv, FiberInv, ArriveInv, RestartInv DEF Next

-----------------------------------------------------------------------------
(* The mapping: what WriteBehind sees of a state of LocalFirst.              *)

Calls == [a \in App |-> app[a].calls]

Drafts == [a \in App |-> Draft(app[a])]

Views == [r \in Replica |-> [k \in Key |-> Elements(store[r][k])]]

LateWrites == {Write(op) : op \in late}

Log == [i \in DOMAIN log |-> Write(log[i])]

LEMMA CallMaps ==
  ASSUME TypeOK, NEW a \in App, NEW new, app' = [app EXCEPT ![a] = new]
  PROVE  /\ Calls' = [Calls EXCEPT ![a] = new.calls]
         /\ Drafts' = [Drafts EXCEPT ![a] = Draft(new)]
<1>1. app \in [App -> AppState]
  BY DEF TypeOK
<1>2. QED
  BY <1>1 DEF Calls, Drafts

\* A call that keeps its number and its write changes no more than its progress.
LEMMA CallGoesOn ==
  ASSUME TypeOK, NEW a \in App, NEW new, app' = [app EXCEPT ![a] = new],
         new.calls = app[a].calls
  PROVE  Calls' = Calls /\ (Draft(new) = Draft(app[a]) => Drafts' = Drafts)
<1>1. app \in [App -> AppState]
  BY DEF TypeOK
<1>2. QED
  BY <1>1, CallMaps DEF Calls, Drafts

LEMMA DraftOf ==
  ASSUME NEW call
  PROVE  /\ call.pc = "idle" => Draft(call) = [pc |-> "free", write |-> None]
         /\ call.pc = "store" => Draft(call) = [pc |-> "begun", write |-> Write(call.op)]
         /\ call.pc \in {"increment", "setclock", "push"} =>
              Draft(call) = [pc |-> "kept", write |-> Write(call.op)]
BY DEF Draft

LEMMA StoreMaps ==
  ASSUME TypeOK, NEW r \in Replica, NEW k \in Key, NEW v \in GSet,
         store' = [store EXCEPT ![r][k] = v]
  PROVE  Views' = [Views EXCEPT ![r][k] = v.elements]
<1>1. store \in [Replica -> [Key -> GSet \cup {None}]]
  BY DEF TypeOK
<1>2. Elements(v) = v.elements
  BY NoneAssumption DEF Elements
<1>3. ASSUME NEW q \in Replica, NEW j \in Key
      PROVE  Elements(store[q][j])' = IF q = r /\ j = k THEN v.elements ELSE Elements(store[q][j])
  BY <1>1, <1>2
<1>4. Views' = [q \in Replica |-> [j \in Key |-> IF q = r /\ j = k THEN v.elements
                                                ELSE Elements(store[q][j])]]
  BY <1>3, Zenon DEF Views
<1>5. QED
  BY <1>4 DEF Views

LEMMA LogMaps ==
  ASSUME TypeOK, NEW op, log' = Append(log, op)
  PROVE  Log' = Append(Log, Write(op))
<1>1. log \in Seq(Operation) /\ DOMAIN log = 1 .. Len(log) /\ Len(log) \in Nat
  BY DEF TypeOK
<1>2. DOMAIN log' = 1 .. Len(log) + 1 /\ log'[Len(log) + 1] = op
      /\ \A i \in 1 .. Len(log) : log'[i] = log[i]
  BY <1>1
<1>3. DOMAIN Log = 1 .. Len(log) /\ Len(Log) = Len(log)
  BY <1>1 DEF Log
<1>4. Log' = [i \in 1 .. Len(log) + 1 |-> IF i = Len(log) + 1 THEN Write(op) ELSE Write(log[i])]
  BY <1>1, <1>2 DEF Log
<1> DEFINE W == {Write(log[i]) : i \in DOMAIN log} \cup {Write(op)}
<1>5. Log \in Seq(W) /\ Write(op) \in W
  BY <1>1 DEF Log
<1> HIDE DEF W
<1>6. /\ DOMAIN Append(Log, Write(op)) = 1 .. Len(log) + 1
      /\ Append(Log, Write(op))[Len(log) + 1] = Write(op)
      /\ \A i \in 1 .. Len(log) : Append(Log, Write(op))[i] = Log[i]
      /\ Append(Log, Write(op)) \in Seq(W)
  BY <1>1, <1>3, <1>5
<1>7. \A i \in 1 .. Len(log) : Log[i] = Write(log[i])
  BY <1>1 DEF Log
<1>8. PICK s \in Seq(W) : s = Append(Log, Write(op))
  BY <1>6
<1>9. s = [i \in 1 .. Len(log) + 1 |-> IF i = Len(log) + 1 THEN Write(op) ELSE Write(log[i])]
  <2>1. s = [i \in DOMAIN s |-> s[i]]
    OBVIOUS
  <2>2. DOMAIN s = 1 .. Len(log) + 1
    BY <1>6, <1>8
  <2>3. \A i \in 1 .. Len(log) + 1 : s[i] = IF i = Len(log) + 1 THEN Write(op) ELSE Write(log[i])
    BY <1>1, <1>6, <1>7, <1>8
  <2>4. QED
    BY <2>1, <2>2, <2>3, Zenon
<1>10. QED
  BY <1>4, <1>8, <1>9

\* No two late writes have the same image.
LEMMA LateMaps ==
  ASSUME BehindInv, NEW op \in late
  PROVE  /\ Write(op) \in LateWrites
         /\ {Write(x) : x \in late \ {op}} = LateWrites \ {Write(op)}
<1>1. \A x \in late : Write(x) = Write(op) => x = op
  BY DEF BehindInv, LateOnce, Write
<1>2. QED
  BY <1>1 DEF LateWrites

-----------------------------------------------------------------------------
(* Every step of LocalFirst is a step of WriteBehind, or changes nothing there. *)

Same == UNCHANGED <<Calls, Drafts, Views, LateWrites, Log>>

LEMMA SameIsStutter == Same => UNCHANGED Behind!vars
BY DEF Same, Behind!vars, Calls, Drafts, Views, LateWrites, Log

LEMMA CallRefines ==
  ASSUME BehindInv, NEW a \in App, AddCall(a) \/ AddStep(a) \/ AddFault(a)
  PROVE  Behind!Call(a) \/ Same
<1> USE DEF serverVars, ghostVars, envVars
<1>t. /\ TypeOK /\ app \in [App -> AppState] /\ Host[a] \in Replica
      /\ Calls[a] = app[a].calls /\ Drafts[a] = Draft(app[a]) /\ app[a] \in AppState
  BY HostAssumption DEF BehindInv, TypeOK, Calls, Drafts
<1>m. Behind!Call(a) <=> \/ \E k \in Key : \E read \in {Views[Host[a]][k], {}} :
                              Behind!Begin(a, k, read)
                         \/ Behind!Refuse(a) \/ Behind!Keep(a)
                         \/ Behind!Publish(a) \/ Behind!GiveUp(a)
  BY DEF Behind!Call, Views
<1>1. ASSUME NEW k \in Key, AddRead(a, k) \/ AddReadFails(a, k) PROVE Behind!Call(a)
  <2>1. PICK current \in GSet : /\ AddTo(a, k, current)
                                /\ current.elements \in {Elements(store[Host[a]][k]), {}}
    BY <1>t, <1>1, AddReads
  <2>2. PICK op \in Operation :
          /\ app' = [app EXCEPT ![a] = [pc |-> "store", calls |-> app[a].calls + 1, op |-> op]]
          /\ op.id = <<a, app[a].calls + 1>> /\ op.key = k
          /\ op.value.elements = current.elements \cup {op.id}
    BY <1>t, <2>1, AddToOp
  <2> DEFINE new == [pc |-> "store", calls |-> app[a].calls + 1, op |-> op]
             e == <<a, Calls[a] + 1>>
             w == [id |-> e, key |-> k, elements |-> current.elements \cup {e}]
  <2>3. Draft(new) = [pc |-> "begun", write |-> w]
    BY <1>t, <2>2 DEF Draft, Write
  <2>4. app' = [app EXCEPT ![a] = new] /\ new.calls = Calls[a] + 1
    BY <1>t, <2>2
  <2> HIDE DEF new
  <2>5. /\ Calls' = [Calls EXCEPT ![a] = Calls[a] + 1]
        /\ Drafts' = [Drafts EXCEPT ![a] = [pc |-> "begun", write |-> w]]
    <3>1. Calls' = [Calls EXCEPT ![a] = new.calls] /\ Drafts' = [Drafts EXCEPT ![a] = Draft(new)]
      BY <1>t, <2>4, CallMaps, Zenon
    <3>2. QED
      BY <2>3, <2>4, <3>1
  <2>6. current.elements \in {Views[Host[a]][k], {}}
    BY <1>t, <2>1 DEF Views
  <2>7. Drafts[a].pc = "free"
    BY <1>t, <2>1 DEF AddTo, Draft
  <2>8. UNCHANGED <<Views, LateWrites, Log>>
    BY <2>1 DEF AddTo, Views, LateWrites, Log
  <2>9. Behind!Begin(a, k, current.elements)
    BY <2>5, <2>7, <2>8 DEF Behind!Begin, Calls, Drafts, Views, LateWrites, Log
  <2>10. QED
    BY <1>m, <2>6, <2>9
<1>2. ASSUME NEW k \in Key, AddDies(a, k) PROVE Behind!Call(a)
  <2> DEFINE new == [app[a] EXCEPT !.calls = app[a].calls + 1]
  <2>1. app' = [app EXCEPT ![a] = new]
    BY <1>t, <1>2 DEF AddDies
  <2>2. new.calls = Calls[a] + 1 /\ new.pc = "idle" /\ app[a].pc = "idle"
    BY <1>t, <1>2 DEF AddDies, AppState
  <2> HIDE DEF new
  <2>3. Draft(new) = Drafts[a] /\ Drafts[a].pc = "free"
    BY <1>t, <2>2, DraftOf
  <2>4. Calls' = [Calls EXCEPT ![a] = Calls[a] + 1] /\ Drafts' = [Drafts EXCEPT ![a] = Drafts[a]]
    <3>1. Calls' = [Calls EXCEPT ![a] = new.calls] /\ Drafts' = [Drafts EXCEPT ![a] = Draft(new)]
      BY <1>t, <2>1, CallMaps, Zenon
    <3>2. QED
      BY <2>2, <2>3, <3>1
  <2>5. [Drafts EXCEPT ![a] = Drafts[a]] = Drafts
    BY DEF Drafts
  <2>6. UNCHANGED <<Drafts, Views, LateWrites, Log>>
    BY <1>2, <2>4, <2>5 DEF AddDies, Views, LateWrites, Log
  <2>7. Behind!Refuse(a)
    BY <2>3, <2>4, <2>6 DEF Behind!Refuse, Calls, Drafts, Views, LateWrites, Log
  <2>8. QED
    BY <1>m, <2>7
<1>3. ASSUME AddStore(a) PROVE Behind!Call(a)
  <2> DEFINE op == app[a].op
             new == [app[a] EXCEPT !.pc = "increment"]
  <2>1. op \in Operation /\ op.key \in Key /\ op.value \in GSet
    BY <1>t, <1>3, CallOps DEF AddStore, Calling, Operation
  <2>2. app' = [app EXCEPT ![a] = new]
    BY <1>t, <1>3 DEF AddStore
  <2>3. new.calls = app[a].calls /\ new.pc = "increment" /\ new.op = op
    BY <1>t DEF AppState
  <2> HIDE DEF new
  <2>4. Drafts[a] = [pc |-> "begun", write |-> Write(op)]
        /\ Draft(new) = [pc |-> "kept", write |-> Write(op)]
    BY <1>t, <1>3, <2>3, DraftOf DEF AddStore
  <2>5. Calls' = Calls /\ Drafts' = [Drafts EXCEPT ![a] = [pc |-> "kept", write |-> Write(op)]]
    <3>1. Calls' = Calls /\ Drafts' = [Drafts EXCEPT ![a] = Draft(new)]
      BY <1>t, <2>2, <2>3, CallMaps, CallGoesOn, Zenon
    <3>2. QED
      BY <2>4, <3>1
  <2>6. Stored(Host[a], op.value) \in GSet /\ Stored(Host[a], op.value).elements = op.value.elements
    BY <2>1, StoredType
  <2>7. store' = [store EXCEPT ![Host[a]][op.key] = Stored(Host[a], op.value)]
    BY <1>3 DEF AddStore
  <2>8. Views' = [Views EXCEPT ![Host[a]][op.key] = op.value.elements]
    BY <1>t, <2>1, <2>6, <2>7, StoreMaps
  <2>9. Write(op).key = op.key /\ Write(op).elements = op.value.elements
    BY DEF Write
  <2>10. UNCHANGED <<LateWrites, Log>>
    BY <1>3 DEF AddStore, LateWrites, Log
  <2> HIDE DEF op
  <2>11. Drafts' = [Drafts EXCEPT ![a].pc = "kept"]
    <3>1. [Drafts[a] EXCEPT !.pc = "kept"] = [pc |-> "kept", write |-> Write(op)]
      BY <2>4
    <3>2. [Drafts EXCEPT ![a].pc = "kept"] = [Drafts EXCEPT ![a] = [Drafts[a] EXCEPT !.pc = "kept"]]
      BY DEF Drafts
    <3>3. QED
      BY <2>5, <3>1, <3>2
  <2>12. Behind!Keep(a)
    <3>1. Drafts[a].pc = "begun" /\ Drafts[a].write = Write(op)
      BY <2>4
    <3>2. Views' = [Views EXCEPT ![Host[a]][Drafts[a].write.key] = Drafts[a].write.elements]
      BY <2>8, <2>9, <3>1
    <3>3. QED
      BY <2>5, <2>10, <2>11, <3>1, <3>2
         DEF Behind!Keep, Calls, Drafts, Views, LateWrites, Log
  <2>13. QED
    BY <1>m, <2>12
<1>4. ASSUME AddIncrement(a) \/ AddSetClock(a) PROVE Same
  <2> DEFINE c == [timestamps |-> Increment(clock[Host[a]].timestamps, Host[a]),
                   methods |-> TRUE]
             op == IF AddIncrement(a) THEN [app[a].op EXCEPT !.vectorClock = c] ELSE app[a].op
             pc == IF AddIncrement(a) THEN "setclock" ELSE "push"
             new == [app[a] EXCEPT !.pc = pc, !.op = op]
  <2>1. app[a].op \in Operation /\ app[a].pc \in {"increment", "setclock"}
    BY <1>t, <1>4, CallOps DEF AddIncrement, AddSetClock, Calling
  <2>2. app' = [app EXCEPT ![a].pc = pc, ![a].op = op]
    <3>1. CASE AddIncrement(a)
      BY <2>1, <3>1 DEF AddIncrement, Operation
    <3>2. CASE ~AddIncrement(a)
      BY <1>t, <1>4, <3>2 DEF AddSetClock, AppState
    <3>3. QED
      BY <3>1, <3>2
  <2>3. pc \in {"setclock", "push"} /\ Write(op) = Write(app[a].op)
    BY <2>1 DEF Operation, Write
  <2> HIDE DEF op, pc
  <2>4. app' = [app EXCEPT ![a] = new]
    BY <1>t, <2>2, TwoFields
  <2>5. new.calls = app[a].calls /\ new.pc = pc /\ new.op = op
    BY <1>t DEF AppState
  <2> HIDE DEF new
  <2>6. Draft(new) = Draft(app[a])
    BY <2>1, <2>3, <2>5, DraftOf
  <2>7. UNCHANGED <<Calls, Drafts>>
    BY <1>t, <2>4, <2>5, <2>6, CallGoesOn
  <2>8. UNCHANGED <<Views, LateWrites, Log>>
    BY <1>4 DEF AddIncrement, AddSetClock, Views, LateWrites, Log
  <2>9. QED
    BY <2>7, <2>8 DEF Same
<1>5. ASSUME AddPush(a) \/ AddPushNowhere(a) \/ AddIncrementDies(a)
             \/ AddStoreFails(a) \/ AddPushFails(a)
      PROVE  Behind!Call(a)
  <2> DEFINE op == app[a].op
             new == Idle(app[a].calls)
  <2>1. app' = [app EXCEPT ![a] = new] /\ app[a].pc \in {"store", "increment", "push"}
    BY <1>5 DEF AddPush, AddPushNowhere, AddIncrementDies, AddStoreFails, AddPushFails
  <2>2. new.calls = app[a].calls /\ new.pc = "idle"
    BY DEF Idle
  <2> HIDE DEF new
  <2>3. /\ Draft(new) = [pc |-> "free", write |-> None]
        /\ Drafts[a].pc \in {"begun", "kept"} /\ Drafts[a].write = Write(op)
        /\ app[a].pc # "store" => Drafts[a].pc = "kept"
    BY <1>t, <2>1, <2>2, DraftOf
  <2>4. Calls' = Calls /\ Drafts' = [Drafts EXCEPT ![a] = [pc |-> "free", write |-> None]]
    <3>1. Calls' = Calls /\ Drafts' = [Drafts EXCEPT ![a] = Draft(new)]
      BY <1>t, <2>1, <2>2, CallMaps, CallGoesOn, Zenon
    <3>2. QED
      BY <2>3, <3>1
  <2>5. Views' = Views
    BY <1>5 DEF AddPush, AddPushNowhere, AddIncrementDies, AddStoreFails, AddPushFails, Views
  <2>6. CASE AddPush(a)
    <3>1. log' = Append(log, op) /\ late' = late /\ app[a].pc = "push"
      BY <2>6 DEF AddPush, Accepts
    <3>2. Log' = Append(Log, Drafts[a].write) /\ LateWrites' = LateWrites
      BY <1>t, <2>3, <3>1, LogMaps DEF LateWrites
    <3>3. Drafts[a].pc = "kept"
      BY <2>3, <3>1
    <3>4. Behind!Publish(a)
      BY <2>4, <2>5, <3>2, <3>3
         DEF Behind!Publish, Behind!Free, Calls, Drafts, Views, LateWrites, Log
    <3>5. QED
      BY <1>m, <3>4
  <2>7. CASE ~AddPush(a)
    <3>1. Log' = Log
      BY <1>5, <2>7 DEF AddPushNowhere, AddIncrementDies, AddStoreFails, AddPushFails, Log
    <3>2. \/ LateWrites' = LateWrites
          \/ Drafts[a].pc = "kept" /\ LateWrites' = LateWrites \cup {Drafts[a].write}
      <4>1. CASE AddPushFails(a)
        <5>1. late' = late \cup {op} /\ app[a].pc = "push"
          BY <4>1 DEF AddPushFails
        <5>2. LateWrites' = LateWrites \cup {Write(op)}
          BY <5>1 DEF LateWrites
        <5>3. QED
          BY <2>3, <5>1, <5>2
      <4>2. CASE ~AddPushFails(a)
        BY <1>5, <2>7, <4>2 DEF AddPushNowhere, AddIncrementDies, AddStoreFails, LateWrites
      <4>3. QED
        BY <4>1, <4>2
    <3>3. Drafts[a].pc # "free"
      BY <2>3
    <3>4. Behind!GiveUp(a)
      BY <2>4, <2>5, <3>1, <3>2, <3>3
         DEF Behind!GiveUp, Behind!Free, Calls, Drafts, Views, LateWrites, Log
    <3>5. QED
      BY <1>m, <3>4
  <2>8. QED
    BY <2>6, <2>7
<1>6. QED
  BY <1>1, <1>2, <1>3, <1>4, <1>5 DEF AddCall, AddStep, AddFault

LEMMA FiberRefines ==
  ASSUME BehindInv, NEW f \in Fiber, FiberStep(f) \/ FiberFault(f)
  PROVE  (\E i \in DOMAIN Log : Behind!Adopt(f[1], i)) \/ Same
<1> USE DEF serverVars, ghostVars, envVars
<1>t. TypeOK /\ f[1] \in Replica /\ fiber[f] \in FiberState
  BY FiberParts DEF BehindInv, TypeOK
<1>u. UNCHANGED <<app, log, late>>
  BY DEF FiberStep, FiberFault, ApplyStep, RecStep, Pull, ApplySkip, ApplyDies,
         ApplyDone, RecRequest, RecReply, RecEcho, RecResolve, RecConflict, PullFails,
         WriteFails, RecFallback, Responds
<1>1. UNCHANGED <<Calls, Drafts, LateWrites, Log>>
  BY <1>u DEF Calls, Drafts, LateWrites, Log
<1>2. CASE RecConflict(f) /\ TakesServerValue(f)
  <2> DEFINE c == fiber[f].conflict
  <2>1. c \in Conflict /\ c # None
    BY <1>t, <1>2 DEF TakesServerValue, FiberState
  <2>2. PICK i \in DOMAIN log : c.key = log[i].key
                                /\ c.serverValue.elements = log[i].value.elements
    BY <2>1 DEF BehindInv, ConflictsAreLogged, Reported
  <2>3. store' = [store EXCEPT ![f[1]][c.key] = Stored(f[1], c.serverValue)]
    BY <1>2 DEF RecConflict
  <2>4. /\ c.key \in Key /\ Stored(f[1], c.serverValue) \in GSet
        /\ Stored(f[1], c.serverValue).elements = c.serverValue.elements
    BY <2>1, StoredType DEF Conflict
  <2> HIDE DEF c
  <2>5. Views' = [Views EXCEPT ![f[1]][c.key] = c.serverValue.elements]
    <3>1. PICK v \in GSet : v = Stored(f[1], c.serverValue)
      BY <2>4
    <3>2. Views' = [Views EXCEPT ![f[1]][c.key] = v.elements]
      BY <1>t, <2>3, <2>4, <3>1, StoreMaps
    <3>3. QED
      BY <2>4, <3>1, <3>2
  <2>6. i \in DOMAIN Log /\ Log[i].key = c.key /\ Log[i].elements = c.serverValue.elements
    BY <2>2 DEF Log, Write
  <2>7. Behind!Adopt(f[1], i)
    BY <1>1, <2>5, <2>6 DEF Behind!Adopt, Calls, Drafts, Views, LateWrites, Log
  <2>8. QED
    BY <2>6, <2>7
<1>3. CASE ~(RecConflict(f) /\ TakesServerValue(f))
  <2>1. store' = store
    BY <1>3 DEF FiberStep, FiberFault, ApplyStep, RecStep, Pull, ApplySkip, ApplyDies,
         ApplyDone, RecRequest, RecReply, RecEcho, RecResolve, RecConflict, PullFails,
         WriteFails, RecFallback, Responds
  <2>2. QED
    BY <1>1, <2>1 DEF Same, Views
<1>4. QED
  BY <1>2, <1>3

LEMMA ArriveRefines ==
  ASSUME BehindInv, NEW op \in late, Arrive(op)
  PROVE  \E w \in LateWrites : Behind!Arrive(w)
<1>1. log' = Append(log, op) /\ late' = late \ {op} /\ UNCHANGED <<app, store>>
  BY DEF Arrive, Accepts
<1>2. Log' = Append(Log, Write(op))
  BY <1>1, LogMaps DEF BehindInv
<1>3. Write(op) \in LateWrites /\ LateWrites' = LateWrites \ {Write(op)}
  BY <1>1, LateMaps DEF LateWrites
<1>4. UNCHANGED <<Calls, Drafts, Views>>
  BY <1>1 DEF Calls, Drafts, Views
<1>5. Behind!Arrive(Write(op))
  BY <1>2, <1>3, <1>4 DEF Behind!Arrive, Calls, Drafts, Views, LateWrites, Log
<1>6. QED
  BY <1>3, <1>5

LEMMA RestartRefines ==
  ASSUME BehindInv, NEW r \in Replica, Restart(r)
  PROVE  \E sent \in SUBSET App : Behind!Restart(r, sent)
<1> DEFINE sent == {a \in App : Host[a] = r /\ app[a].pc = "push" /\ Transport[r] = "websocket"}
<1>t. TypeOK /\ app \in [App -> AppState] /\ store \in [Replica -> [Key -> GSet \cup {None}]]
  BY DEF BehindInv, TypeOK
<1>1. /\ app' = [a \in App |-> IF Host[a] = r THEN Idle(app[a].calls) ELSE app[a]]
      /\ late' = late \cup {app[a].op : a \in sent}
      /\ store' = [store EXCEPT ![r] = IF Medium[r] = "memory" THEN [k \in Key |-> None]
                                       ELSE store[r]]
      /\ log' = log
  BY DEF Restart
<1>2. Calls' = Calls /\ Log' = Log
  <2>1. \A a \in App : app'[a].calls = app[a].calls
    BY <1>1 DEF Idle
  <2>2. QED
    BY <1>1, <2>1 DEF Calls, Log
<1>3. Drafts' = [a \in App |-> IF Host[a] = r THEN [pc |-> "free", write |-> None] ELSE Drafts[a]]
  <2>1. \A a \in App : Draft(app[a])' = IF Host[a] = r THEN [pc |-> "free", write |-> None]
                                        ELSE Drafts[a]
    BY <1>1 DEF Draft, Idle, Drafts
  <2>2. QED
    BY <2>1 DEF Drafts
<1>4. \A a \in sent : a \in App /\ Host[a] = r /\ Drafts[a].pc = "kept"
                      /\ Drafts[a].write = Write(app[a].op)
  BY DEF Drafts, Draft
<1>5. LateWrites' = LateWrites \cup {Drafts[a].write : a \in sent}
  BY <1>1, <1>4 DEF LateWrites
<1>6. Views' \in {Views, [Views EXCEPT ![r] = [k \in Key |-> {}]]}
  <2>1. CASE Medium[r] = "memory"
    <3>1. Elements(None) = {}
      BY DEF Elements
    <3>2. \A q \in Replica, k \in Key :
            Elements(store[q][k])' = IF q = r THEN {} ELSE Elements(store[q][k])
      BY <1>t, <1>1, <2>1, <3>1
    <3>3. QED
      BY <3>2 DEF Views
  <2>2. CASE Medium[r] # "memory"
    <3>1. store' = store
      BY <1>t, <1>1, <2>2
    <3>2. QED
      BY <3>1 DEF Views
  <2>3. QED
    BY <2>1, <2>2
<1>7. sent \in SUBSET App /\ sent \subseteq {a \in App : Host[a] = r /\ Drafts[a].pc = "kept"}
  BY <1>4
<1> HIDE DEF sent
<1>8. Behind!Restart(r, sent)
  BY <1>2, <1>3, <1>5, <1>6, <1>7
     DEF Behind!Restart, Behind!Free, Calls, Drafts, Views, LateWrites, Log
<1>9. QED
  BY <1>7, <1>8

LEMMA InitRefines == Init => Behind!Init
<1> SUFFICES ASSUME Init PROVE Behind!Init
  OBVIOUS
<1>1. Calls = [a \in App |-> 0] /\ Drafts = [a \in App |-> [pc |-> "free", write |-> None]]
  BY DEF Init, Calls, Drafts, Draft, Idle
<1>2. Views = [r \in Replica |-> [k \in Key |-> {}]]
  <2>1. \A r \in Replica, k \in Key : Elements(store[r][k]) = {}
    BY DEF Init, Elements
  <2>2. QED
    BY <2>1 DEF Views
<1>3. LateWrites = {} /\ Log = <<>>
  BY DEF Init, LateWrites, Log
<1>4. QED
  BY <1>1, <1>2, <1>3 DEF Behind!Init, Behind!Free, Calls, Drafts, Views, LateWrites, Log

LEMMA StepRefines == BehindInv /\ [Next]_vars => [Behind!Next]_Behind!vars
<1> SUFFICES ASSUME BehindInv, [Next]_vars PROVE Behind!Next \/ UNCHANGED Behind!vars
  OBVIOUS
<1>m. Behind!Next <=> \/ \E a \in App : Behind!Call(a)
                      \/ \E w \in LateWrites : Behind!Arrive(w)
                      \/ \E r \in Replica : \/ \E i \in DOMAIN Log : Behind!Adopt(r, i)
                                            \/ \E sent \in SUBSET App : Behind!Restart(r, sent)
  BY DEF Behind!Next, LateWrites, Log
<1>1. ASSUME NEW a \in App, AddCall(a) \/ AddStep(a) \/ AddFault(a)
      PROVE  Behind!Next \/ UNCHANGED Behind!vars
  BY <1>m, <1>1, CallRefines, SameIsStutter
<1>2. ASSUME NEW f \in Fiber, FiberStep(f) \/ FiberFault(f)
      PROVE  Behind!Next \/ UNCHANGED Behind!vars
  BY <1>m, <1>2, FiberRefines, FiberParts, SameIsStutter
<1>3. ASSUME NEW op \in late, Arrive(op) PROVE Behind!Next
  BY <1>m, <1>3, ArriveRefines
<1>4. ASSUME NEW r \in Replica, Restart(r) PROVE Behind!Next
  BY <1>m, <1>4, RestartRefines
<1>5. CASE UNCHANGED vars
  BY <1>5, SameIsStutter DEF vars, serverVars, Same, Calls, Drafts, Views, LateWrites, Log
<1>6. QED
  BY <1>1, <1>2, <1>3, <1>4, <1>5 DEF Next

\* However many callers share a replica, whatever fails and however the fibers and the
\* late answers interleave, a collection changes only by a call of its own replica, by a
\* value the server holds or by a restart, and no call publishes anything it has not
\* stored, or publishes twice.
THEOREM ImplementsWriteBehind == Spec => WritesBehind
<1>1. Init => BehindInv /\ Behind!Init
  BY BehindInit, InitRefines
<1>2. BehindInv /\ [Next]_vars => BehindInv' /\ [Behind!Next]_Behind!vars
  BY BehindStep, StepRefines
<1>3. QED
  BY <1>1, <1>2, PTL DEF Spec, WritesBehind, Behind!Spec

-----------------------------------------------------------------------------
(***************************************************************************)
(* One call of add at a time on a replica: different stamps, and pushes     *)
(* that make good for lost ones, with any number of replicas, both          *)
(* background fibers and any failures.                                      *)
(***************************************************************************)

OneCaller == \A a, b \in App : Host[a] = Host[b] => a = b

-----------------------------------------------------------------------------
(* The invariant behind UniqueStamps.                                       *)

\* The count of its own events that an operation carries.
Own(op) == op.vectorClock.timestamps[op.replicaId]

\* The clock c of r counts no event of anybody else.
OnlyOwn(c, r) == \A s \in Replica : s # r => c.timestamps[s] = 0

Stamped(op, r) ==
  op.replicaId = r /\ op.vectorClock.methods /\ OnlyOwn(op.vectorClock, r) /\ Own(op) >= 1

\* A caller on its way from increment to push.
Stamping(a) == app[a].pc \in {"setclock", "push"}

\* A fiber that carries a clock which the next call could increment.
Typed(f) == fiber[f].resolved # None /\ fiber[f].resolved.methods

\* What a replica learns of the others it learns from JSON, and a parsed clock can no
\* longer be incremented: so the clocks that operations carry count one replica only.
CountsOwn ==
  /\ \A r \in Replica : clock[r].methods => OnlyOwn(clock[r], r)
  /\ \A a \in App : Calling(a) => app[a].op.replicaId = Host[a]
  /\ \A a \in App : Stamping(a) => Stamped(app[a].op, Host[a])
  /\ \A i \in DOMAIN log : Stamped(log[i], log[i].replicaId)
  /\ \A op \in late : Stamped(op, op.replicaId)
  /\ \A f \in Fiber : Typed(f) => OnlyOwn(fiber[f].resolved, f[1])

\* Only a reconciliation carries a clock.
PullsCarryNothing ==
  \A f \in Fiber : f[2] = "auto" =>
    fiber[f].resolved = None /\ fiber[f].pc \in {"idle", "apply", "stopped"}

\* The clock of r is up to date, unless a caller is about to set it.
UpToDate(r) ==
  clock[r].methods =>
    clock[r].timestamps[r] = stamps[r] \/ \E a \in App : Host[a] = r /\ app[a].pc = "setclock"

\* The operation under way on r carries the last count.
Latest(r) == \A a \in App : Host[a] = r /\ Stamping(a) => Own(app[a].op) = stamps[r]

\* What a reconciliation of r writes back does not undo the loss of the methods, and
\* is not newer than what r has.
WritesBackOld(r) ==
  \A f \in Fiber : f[1] = r /\ Typed(f) =>
    clock[r].methods /\ fiber[f].resolved.timestamps[r] <= clock[r].timestamps[r]

\* All the operations of r that have been or may be published.
NoStampTwice(r) ==
  /\ \A i, j \in DOMAIN log :
       i # j /\ log[i].replicaId = r /\ log[j].replicaId = r => Own(log[i]) # Own(log[j])
  /\ \A i \in DOMAIN log, x \in late :
       log[i].replicaId = r /\ x.replicaId = r => Own(log[i]) # Own(x)
  /\ \A x, y \in late : x # y /\ x.replicaId = r /\ y.replicaId = r => Own(x) # Own(y)
  /\ \A a \in App : Host[a] = r /\ Stamping(a) =>
       /\ \A i \in DOMAIN log : log[i].replicaId = r => Own(log[i]) < stamps[r]
       /\ \A x \in late : x.replicaId = r => Own(x) < stamps[r]

Fresh(r) == UpToDate(r) /\ Latest(r) /\ WritesBackOld(r) /\ NoStampTwice(r)

StampInv ==
  /\ TypeOK /\ ClockNeverAhead
  /\ CountsOwn /\ PullsCarryNothing
  /\ \A r \in Replica : r \notin rewound => Fresh(r)

-----------------------------------------------------------------------------
(* StampInv is inductive.                                                   *)

LEMMA ClockParts ==
  ASSUME NEW c \in VClock, NEW r \in Replica
  PROVE  c.timestamps \in Clock /\ c.timestamps[r] \in Nat /\ c.methods \in BOOLEAN
BY NodeAssumption DEF VClock, Clock

LEMMA OwnCounted ==
  ASSUME TypeOK, NEW op \in Operation, Counted(op.vectorClock)
  PROVE  Own(op) \in Nat /\ Own(op) <= stamps[op.replicaId] /\ op.replicaId \in Replica
<1>1. op.vectorClock \in VClock /\ op.replicaId \in Replica /\ op.replicaId \in Node
  BY NodeAssumption DEF Operation
<1>2. QED
  BY <1>1, ClockParts DEF Own, Counted, Leq

LEMMA StampInit == Init => StampInv
<1> SUFFICES ASSUME Init PROVE StampInv
  OBVIOUS
<1>1. TypeOK /\ ClockNeverAhead
  BY TypeInit, CountedInit
<1>2. \A r \in Replica : OnlyOwn(EmptyVClock, r) /\ EmptyVClock.timestamps[r] = 0
  BY NodeAssumption DEF OnlyOwn, EmptyVClock, Empty
<1>3. CountsOwn /\ PullsCarryNothing
  BY <1>2 DEF Init, CountsOwn, PullsCarryNothing, Idle, NewFiber, Calling, Stamping, Typed
<1>4. ASSUME NEW r \in Replica PROVE Fresh(r)
  <2>1. UpToDate(r)
    BY NodeAssumption DEF Init, UpToDate, EmptyVClock, Empty
  <2>2. Latest(r) /\ WritesBackOld(r) /\ NoStampTwice(r)
    BY DEF Init, Latest, WritesBackOld, NoStampTwice, Idle, NewFiber, Stamping, Typed
  <2>3. QED
    BY <2>1, <2>2 DEF Fresh
<1>5. QED
  BY <1>1, <1>3, <1>4 DEF StampInv

\* What Fresh(r) depends on.
LEMMA FreshFrame ==
  ASSUME NEW r \in Replica, Fresh(r), clock'[r] = clock[r], stamps'[r] = stamps[r],
         \A a \in App : Host[a] = r =>
           /\ Stamping(a)' => Stamping(a) /\ app'[a] = app[a]
           /\ app[a].pc = "setclock" => app'[a] = app[a],
         \A f \in Fiber : f[1] = r /\ Typed(f)' =>
           Typed(f) /\ fiber'[f].resolved = fiber[f].resolved,
         \A i \in DOMAIN log' : log'[i].replicaId = r => i \in DOMAIN log /\ log'[i] = log[i],
         \A x \in late' : x.replicaId = r => x \in late
  PROVE  Fresh(r)'
<1>1. UpToDate(r)'
  BY DEF Fresh, UpToDate
<1>2. Latest(r)'
  BY DEF Fresh, Latest, Own
<1>3. WritesBackOld(r)'
  BY DEF Fresh, WritesBackOld
<1>4. NoStampTwice(r)'
  BY DEF Fresh, NoStampTwice, Own
<1>5. QED
  BY <1>1, <1>2, <1>3, <1>4 DEF Fresh

LEMMA StampingOp ==
  ASSUME StampInv, NEW a \in App, Stamping(a)
  PROVE  /\ app[a].op \in Operation /\ Stamped(app[a].op, Host[a])
         /\ app[a].op.replicaId = Host[a] /\ Own(app[a].op) \in Nat
<1>1. app[a].op \in Operation /\ Stamped(app[a].op, Host[a])
  BY DEF StampInv, TypeOK, AppState, Stamping, CountsOwn
<1>2. Own(app[a].op) \in Nat
  BY <1>1, NodeAssumption DEF Own, Operation, VClock, Clock
<1>3. QED
  BY <1>1, <1>2 DEF Stamped

LEMMA Logged ==
  ASSUME TypeOK, NEW op \in Operation, log' = Append(log, op)
  PROVE  /\ \A i \in DOMAIN log : i \in DOMAIN log' /\ log'[i] = log[i]
         /\ \E n \in DOMAIN log' :
              /\ log'[n] = op
              /\ \A i \in DOMAIN log' : i = n \/ (i \in DOMAIN log /\ log'[i] = log[i])
<1>1. log \in Seq(Operation)
  BY DEF TypeOK
<1>2. DOMAIN log' = 1 .. Len(log) + 1 /\ log'[Len(log) + 1] = op /\ Len(log) \in Nat
      /\ DOMAIN log = 1 .. Len(log) /\ \A i \in 1 .. Len(log) : log'[i] = log[i]
  BY <1>1
<1>3. QED
  BY <1>2

\* The call of a, on a replica r, seen from r and from the other replicas.
LEMMA CallCountsOwn ==
  ASSUME StampInv, TypeOK', NEW a \in App, AddCall(a) \/ AddStep(a) \/ AddFault(a)
  PROVE  CountsOwn'
<1> USE DEF serverVars, ghostVars, envVars
<1>t. /\ TypeOK /\ CountsOwn /\ app \in [App -> AppState] /\ clock \in [Replica -> VClock]
      /\ Host[a] \in Replica /\ app[a] \in AppState
  BY HostAssumption DEF StampInv, TypeOK
\* It is enough to look at what the step changes.
<1>s. ASSUME \A r \in Replica : clock'[r].methods => OnlyOwn(clock'[r], r),
             \A b \in App : b # a => app'[b] = app[b],
             Calling(a)' => app'[a].op.replicaId = Host[a],
             Stamping(a)' => Stamped(app'[a].op, Host[a]),
             \A i \in DOMAIN log' : Stamped(log'[i], log'[i].replicaId),
             \A op \in late' : Stamped(op, op.replicaId),
             fiber' = fiber
      PROVE  CountsOwn'
  <2>1. \A b \in App : /\ Calling(b)' => app'[b].op.replicaId = Host[b]
                       /\ Stamping(b)' => Stamped(app'[b].op, Host[b])
    BY <1>s, <1>t DEF CountsOwn, Calling, Stamping
  <2>2. \A f \in Fiber : Typed(f)' => OnlyOwn(fiber'[f].resolved, f[1])
    BY <1>s, <1>t DEF CountsOwn, Typed
  <2>3. QED
    BY <1>s, <2>1, <2>2 DEF CountsOwn, Stamped, OnlyOwn, Own
<1>o. ASSUME clock' = clock, log' = log, late' = late, fiber' = fiber,
             \A b \in App : b # a => app'[b] = app[b],
             Calling(a)' => app'[a].op.replicaId = Host[a],
             Stamping(a)' => Stamped(app'[a].op, Host[a])
      PROVE  CountsOwn'
  BY <1>o, <1>s, <1>t DEF CountsOwn
<1>1. ASSUME NEW k \in Key, AddRead(a, k) \/ AddReadFails(a, k) PROVE CountsOwn'
  <2>1. PICK current \in GSet : AddTo(a, k, current)
    BY <1>t, <1>1, AddReads
  <2>2. PICK op \in Operation :
          /\ app' = [app EXCEPT ![a] = [pc |-> "store", calls |-> app[a].calls + 1, op |-> op]]
          /\ op.replicaId = Host[a]
    BY <1>t, <2>1, AddToOp
  <2>3. /\ \A b \in App : b # a => app'[b] = app[b]
        /\ app'[a].op.replicaId = Host[a] /\ ~Stamping(a)'
    BY <1>t, <2>2 DEF Stamping
  <2>4. UNCHANGED <<clock, log, late, fiber>>
    BY <2>1 DEF AddTo
  <2>5. QED
    BY <1>o, <2>3, <2>4
<1>2. ASSUME (\E k \in Key : AddDies(a, k)) \/ AddStore(a) \/ AddIncrementDies(a)
             \/ AddStoreFails(a) \/ AddPushNowhere(a)
      PROVE  CountsOwn'
  <2>1. UNCHANGED <<clock, log, late, fiber>>
    BY <1>2 DEF AddDies, AddStore, AddIncrementDies, AddStoreFails, AddPushNowhere
  <2>2. /\ \A b \in App : b # a => app'[b] = app[b]
        /\ ~Stamping(a)' /\ (Calling(a)' => Calling(a) /\ app'[a].op = app[a].op)
    BY <1>2, <1>t DEF AddDies, AddStore, AddIncrementDies, AddStoreFails, AddPushNowhere,
                      Idle, AppState, Stamping, Calling
  <2>3. QED
    BY <1>o, <1>t, <2>1, <2>2 DEF CountsOwn
<1>3. ASSUME AddIncrement(a) PROVE CountsOwn'
  <2> DEFINE r == Host[a]
             c == [timestamps |-> Increment(clock[r].timestamps, r), methods |-> TRUE]
  <2>1. app[a].op \in Operation /\ app[a].op.replicaId = r
    BY <1>3, <1>t, CallOps DEF AddIncrement, Calling, CountsOwn
  <2>2. /\ app'[a].op.vectorClock = c /\ app'[a].op.replicaId = r
        /\ \A b \in App : b # a => app'[b] = app[b]
    BY <1>3, <1>t, <2>1 DEF AddIncrement, AppState, Operation
  <2>3. clock[r].timestamps \in [Replica -> Nat] /\ OnlyOwn(clock[r], r)
    BY <1>3, <1>t, NodeAssumption DEF AddIncrement, CountsOwn, VClock, Clock
  <2>4. c.timestamps[r] >= 1 /\ \A s \in Replica : s # r => c.timestamps[s] = 0
    BY <1>t, <2>3 DEF Increment, OnlyOwn
  <2>5. Stamped(app'[a].op, r)
    BY <2>2, <2>4 DEF Stamped, OnlyOwn, Own
  <2>6. UNCHANGED <<clock, log, late, fiber>>
    BY <1>3 DEF AddIncrement
  <2>7. QED
    BY <1>o, <2>2, <2>5, <2>6
<1>4. ASSUME AddSetClock(a) PROVE CountsOwn'
  <2>1. Stamping(a) /\ Stamped(app[a].op, Host[a])
    BY <1>4, <1>t DEF AddSetClock, Stamping, CountsOwn
  <2>2. \A r \in Replica : clock'[r] = clock[r]
                           \/ (r = Host[a] /\ clock'[r] = app[a].op.vectorClock)
    BY <1>4, <1>t DEF AddSetClock
  <2>3. \A b \in App : app'[b].op = app[b].op /\ (b # a => app'[b] = app[b])
    BY <1>4, <1>t DEF AddSetClock, AppState
  <2>4. UNCHANGED <<log, late, fiber>>
    BY <1>4 DEF AddSetClock
  <2>5. \A r \in Replica : clock'[r].methods => OnlyOwn(clock'[r], r)
    BY <1>t, <2>1, <2>2 DEF CountsOwn, Stamped
  <2>6. QED
    BY <1>s, <1>t, <2>1, <2>3, <2>4, <2>5 DEF CountsOwn, Stamped
<1>5. ASSUME AddPush(a) \/ AddPushFails(a) PROVE CountsOwn'
  <2> DEFINE op == app[a].op
  <2>1. Stamping(a) /\ UNCHANGED <<clock, fiber>>
    BY <1>5 DEF AddPush, AddPushFails, Stamping
  <2>2. op \in Operation /\ Stamped(op, op.replicaId)
    BY <2>1, StampingOp DEF Stamped
  <2>3. (\A b \in App : b # a => app'[b] = app[b]) /\ ~Stamping(a)' /\ ~Calling(a)'
    BY <1>5, <1>t DEF AddPush, AddPushFails, Idle, Stamping, Calling
  <2>4. \A i \in DOMAIN log' : log'[i] = op \/ (i \in DOMAIN log /\ log'[i] = log[i])
    BY <1>5, <1>t, <2>2, Logged DEF AddPush, AddPushFails, Accepts
  <2>5. \A x \in late' : x = op \/ x \in late
    BY <1>5 DEF AddPush, AddPushFails
  <2> HIDE DEF op
  <2>6. /\ \A i \in DOMAIN log' : Stamped(log'[i], log'[i].replicaId)
        /\ \A x \in late' : Stamped(x, x.replicaId)
    BY <1>t, <2>2, <2>4, <2>5 DEF CountsOwn
  <2>7. QED
    BY <1>s, <1>t, <2>1, <2>3, <2>6 DEF CountsOwn
<1>6. QED
  BY <1>1, <1>2, <1>3, <1>4, <1>5 DEF AddCall, AddStep, AddFault

\* What a call does to its own replica, on which nobody else calls.
LEMMA CallFresh ==
  ASSUME StampInv, TypeOK', OneCaller, NEW a \in App,
         AddCall(a) \/ AddStep(a) \/ AddFault(a), Host[a] \notin rewound
  PROVE  Fresh(Host[a])'
<1> USE DEF serverVars, ghostVars, envVars
<1> DEFINE r == Host[a]
           op == app[a].op
<1>t. /\ TypeOK /\ ClockNeverAhead /\ app \in [App -> AppState] /\ clock \in [Replica -> VClock]
      /\ r \in Replica /\ app[a] \in AppState /\ stamps \in Clock /\ r \in Node
      /\ stamps[r] \in Nat
  BY HostAssumption, NodeAssumption DEF StampInv, TypeOK, Clock
<1>f. UpToDate(r) /\ Latest(r) /\ WritesBackOld(r) /\ NoStampTwice(r) /\ Fresh(r)
  BY <1>t DEF StampInv, Fresh
<1>h. \A b \in App : Host[b] = r => b = a
  BY DEF OneCaller
<1>1. ASSUME UNCHANGED <<clock, log, late, fiber, stamps>>, ~Stamping(a)', app[a].pc # "setclock"
      PROVE  Fresh(r)'
  BY <1>1, <1>f, <1>h, <1>t, FreshFrame DEF Typed
<1>2. ASSUME NEW k \in Key, AddRead(a, k) \/ AddReadFails(a, k) PROVE Fresh(r)'
  <2>1. PICK current \in GSet : AddTo(a, k, current)
    BY <1>t, <1>2, AddReads
  <2>2. UNCHANGED <<clock, log, late, fiber, stamps>> /\ ~Stamping(a)' /\ app[a].pc # "setclock"
    BY <1>t, <2>1 DEF AddTo, Stamping
  <2>3. QED
    BY <1>1, <2>2
<1>3. ASSUME (\E k \in Key : AddDies(a, k)) \/ AddStore(a) \/ AddIncrementDies(a)
             \/ AddStoreFails(a) \/ AddPushNowhere(a)
      PROVE  Fresh(r)'
  <2>1. UNCHANGED <<clock, log, late, fiber, stamps>> /\ ~Stamping(a)' /\ app[a].pc # "setclock"
    BY <1>3, <1>t DEF AddDies, AddStore, AddIncrementDies, AddStoreFails, AddPushNowhere,
                      Idle, AppState, Stamping
  <2>2. QED
    BY <1>1, <2>1
<1>4. ASSUME AddIncrement(a) PROVE Fresh(r)'
  <2> DEFINE c == [timestamps |-> Increment(clock[r].timestamps, r), methods |-> TRUE]
  <2>1. op \in Operation /\ op.replicaId = r
    BY <1>4, <1>t, CallOps DEF AddIncrement, Calling, StampInv, CountsOwn
  <2>2. /\ app'[a].pc = "setclock" /\ app'[a].op.vectorClock = c /\ app'[a].op.replicaId = r
        /\ UNCHANGED <<clock, log, late, fiber>> /\ stamps' = Increment(stamps, r)
    BY <1>4, <1>t, <2>1 DEF AddIncrement, AppState, Operation
  <2>3. clock[r].timestamps[r] = stamps[r]
    BY <1>4, <1>f, <1>h DEF AddIncrement, UpToDate
  <2>4. stamps'[r] = stamps[r] + 1 /\ c.timestamps[r] = stamps[r] + 1
    BY <1>t, <2>2, <2>3 DEF Increment, Clock, VClock
  <2>5. UpToDate(r)'
    BY <2>2 DEF UpToDate
  <2>6. Latest(r)'
    BY <1>h, <2>2, <2>4 DEF Latest, Own
  <2>7. WritesBackOld(r)'
    BY <1>f, <2>2 DEF WritesBackOld, Typed
  <2>8. NoStampTwice(r)'
    <3>1. /\ \A i \in DOMAIN log : log[i].replicaId = r => Own(log[i]) < stamps[r] + 1
          /\ \A x \in late : x.replicaId = r => Own(x) < stamps[r] + 1
      <4>1. /\ \A i \in DOMAIN log : log[i] \in Operation /\ Counted(log[i].vectorClock)
            /\ \A x \in late : x \in Operation /\ Counted(x.vectorClock)
        BY <1>t DEF TypeOK, ClockNeverAhead
      <4>2. ASSUME NEW x \in Operation, Counted(x.vectorClock), x.replicaId = r
            PROVE  Own(x) < stamps[r] + 1
        BY <1>t, <4>2, OwnCounted
      <4>3. QED
        BY <4>1, <4>2
    <3>2. QED
      BY <1>f, <2>2, <2>4, <3>1 DEF NoStampTwice, Own
  <2>9. QED
    BY <2>5, <2>6, <2>7, <2>8 DEF Fresh
<1>5. ASSUME AddSetClock(a) PROVE Fresh(r)'
  <2>1. /\ Stamping(a) /\ Stamped(op, r) /\ op.replicaId = r /\ Own(op) = stamps[r]
    BY <1>5, <1>f, StampingOp DEF AddSetClock, Stamping, Latest
  <2>2. /\ clock'[r] = op.vectorClock /\ app'[a].op = op
        /\ UNCHANGED <<log, late, fiber, stamps>>
    BY <1>5, <1>t DEF AddSetClock, AppState
  <2>3. clock'[r].methods /\ clock'[r].timestamps[r] = stamps[r]
    BY <2>1, <2>2 DEF Stamped, Own
  <2>4. UpToDate(r)'
    BY <2>2, <2>3 DEF UpToDate
  <2>5. Latest(r)'
    BY <1>h, <2>1, <2>2 DEF Latest, Own
  <2>6. WritesBackOld(r)'
    <3>1. \A f \in Fiber : f[1] = r /\ Typed(f) => fiber[f].resolved.timestamps[r] <= stamps[r]
      BY <1>t DEF ClockNeverAhead, Counted, Leq, Typed
    <3>2. QED
      BY <2>2, <2>3, <3>1 DEF WritesBackOld, Typed
  <2>7. NoStampTwice(r)'
    BY <1>f, <1>h, <2>1, <2>2 DEF NoStampTwice, Own
  <2>8. QED
    BY <2>4, <2>5, <2>6, <2>7 DEF Fresh
<1>6. ASSUME AddPush(a) \/ AddPushFails(a) PROVE Fresh(r)'
  <2>1. /\ Stamping(a) /\ app[a].pc = "push" /\ UNCHANGED <<clock, fiber, stamps>>
    BY <1>6 DEF AddPush, AddPushFails, Stamping
  <2>2. op \in Operation /\ op.replicaId = r /\ Own(op) = stamps[r]
    BY <1>f, <2>1, StampingOp DEF Latest
  <2>3. ~Stamping(a)' /\ app'[a].pc # "setclock"
    BY <1>6, <1>t DEF AddPush, AddPushFails, Idle, Stamping
  <2>4. UpToDate(r)' /\ Latest(r)' /\ WritesBackOld(r)'
    BY <1>f, <1>h, <2>1, <2>3 DEF UpToDate, Latest, WritesBackOld, Typed
  <2>5. /\ \A i \in DOMAIN log : log[i].replicaId = r => Own(log[i]) < Own(op)
        /\ \A x \in late : x.replicaId = r => Own(x) < Own(op)
    BY <1>f, <2>1, <2>2 DEF NoStampTwice
  <2>n. /\ Own(op) \in Nat
        /\ \A i \in DOMAIN log : log[i].replicaId = r => Own(log[i]) \in Nat
        /\ \A x \in late : x.replicaId = r => Own(x) \in Nat
    <3>1. /\ \A i \in DOMAIN log : log[i] \in Operation /\ Counted(log[i].vectorClock)
          /\ \A x \in late : x \in Operation /\ Counted(x.vectorClock)
      BY <1>t DEF TypeOK, ClockNeverAhead
    <3>2. QED
      BY <1>t, <2>2, <3>1, OwnCounted
  <2>6. NoStampTwice(r)'
    <3>1. \A b \in App : Host[b] = r => ~Stamping(b)'
      BY <1>h, <2>3
    <3>2. CASE AddPush(a)
      <4>1. late' = late /\ log' = Append(log, op)
        BY <3>2 DEF AddPush, Accepts
      <4>2. PICK n \in DOMAIN log' :
              /\ log'[n] = op
              /\ \A i \in DOMAIN log' : i = n \/ (i \in DOMAIN log /\ log'[i] = log[i])
        BY <1>t, <2>2, <4>1, Logged
      <4> HIDE DEF op, r
      <4>3. QED
        BY <1>f, <2>5, <2>n, <3>1, <4>1, <4>2 DEF NoStampTwice, Own
    <3>3. CASE AddPushFails(a)
      <4>1. late' = late \cup {op} /\ log' = log
        BY <3>3 DEF AddPushFails
      <4> HIDE DEF op, r
      <4>2. QED
        BY <1>f, <2>5, <2>n, <3>1, <4>1 DEF NoStampTwice, Own
    <3>4. QED
      BY <1>6, <3>2, <3>3
  <2>7. QED
    BY <2>4, <2>6 DEF Fresh
<1>7. QED
  BY <1>2, <1>3, <1>4, <1>5, <1>6 DEF AddCall, AddStep, AddFault

LEMMA CallStampInv ==
  ASSUME StampInv, OneCaller, TypeOK', ClockNeverAhead', NEW a \in App,
         AddCall(a) \/ AddStep(a) \/ AddFault(a)
  PROVE  StampInv'
<1> USE DEF serverVars, ghostVars, envVars
<1>t. /\ TypeOK /\ app \in [App -> AppState] /\ clock \in [Replica -> VClock]
      /\ Host[a] \in Replica /\ Host[a] \in Node /\ stamps \in Clock
  BY HostAssumption, NodeAssumption DEF StampInv, TypeOK
<1>1. fiber' = fiber /\ rewound' = rewound /\ \A b \in App : b # a => app'[b] = app[b]
  BY <1>t DEF AddCall, AddStep, AddFault, AddRead, AddReadFails, AddTo, AddDies, AddStore,
              AddIncrement, AddIncrementDies, AddSetClock, AddPush, AddPushNowhere,
              AddStoreFails, AddPushFails
<1>2. \A r \in Replica : r # Host[a] => clock'[r] = clock[r] /\ stamps'[r] = stamps[r]
  <2>1. /\ clock' = clock \/ clock' = [clock EXCEPT ![Host[a]] = app[a].op.vectorClock]
        /\ stamps' = stamps \/ stamps' = Increment(stamps, Host[a])
    BY DEF AddCall, AddStep, AddFault, AddRead, AddReadFails, AddTo, AddDies, AddStore,
           AddIncrement, AddIncrementDies, AddSetClock, AddPush, AddPushNowhere,
           AddStoreFails, AddPushFails
  <2>2. QED
    BY <1>t, <2>1, NodeAssumption DEF Increment, Clock
<1>3. /\ \A i \in DOMAIN log' : (i \in DOMAIN log /\ log'[i] = log[i]) \/ log'[i].replicaId = Host[a]
      /\ \A x \in late' : x \in late \/ x.replicaId = Host[a]
  <2>1. CASE AddPush(a) \/ AddPushFails(a)
    <3>1. app[a].op \in Operation /\ app[a].op.replicaId = Host[a]
      BY <2>1, StampingOp DEF AddPush, AddPushFails, Stamping
    <3>2. \A i \in DOMAIN log' : log'[i] = app[a].op \/ (i \in DOMAIN log /\ log'[i] = log[i])
      BY <1>t, <2>1, <3>1, Logged DEF AddPush, AddPushFails, Accepts
    <3>3. \A x \in late' : x = app[a].op \/ x \in late
      BY <2>1 DEF AddPush, AddPushFails
    <3>4. QED
      BY <3>1, <3>2, <3>3
  <2>2. CASE ~(AddPush(a) \/ AddPushFails(a))
    BY <2>2 DEF AddCall, AddStep, AddFault, AddRead, AddReadFails, AddTo, AddDies, AddStore,
              AddIncrement, AddIncrementDies, AddSetClock, AddPushNowhere, AddStoreFails
  <2>3. QED
    BY <2>1, <2>2
<1>4. ASSUME NEW r \in Replica, r \notin rewound, r # Host[a] PROVE Fresh(r)'
  <2>1. Fresh(r)
    BY <1>4 DEF StampInv
  <2>2. \A b \in App : Host[b] = r => app'[b] = app[b]
    BY <1>1, <1>4
  <2>3. QED
    BY <1>1, <1>2, <1>3, <1>4, <2>1, <2>2, FreshFrame DEF Stamping, Typed
<1>5. \A r \in Replica : r \notin rewound' => Fresh(r)'
  BY <1>1, <1>4, CallFresh
<1>6. PullsCarryNothing'
  BY <1>1 DEF StampInv, PullsCarryNothing
<1>7. QED
  BY <1>5, <1>6, CallCountsOwn DEF StampInv

\* What a fiber does to the clock it carries and to the clock of its replica.
LEMMA FiberStampInv ==
  ASSUME StampInv, TypeOK', ClockNeverAhead', NEW f \in Fiber, FiberStep(f) \/ FiberFault(f)
  PROVE  StampInv'
<1> USE DEF serverVars, ghostVars, envVars
<1> DEFINE r == f[1]
<1>t. /\ TypeOK /\ CountsOwn /\ PullsCarryNothing
      /\ clock \in [Replica -> VClock] /\ fiber \in [Fiber -> FiberState]
      /\ r \in Replica /\ f[2] \in {"auto", "rec"}
  BY FiberParts DEF StampInv, TypeOK
<1>u. UNCHANGED <<app, log, late, stamps>>
  BY DEF FiberStep, FiberFault, ApplyStep, RecStep, Pull, ApplySkip, ApplyDies,
         ApplyDone, RecRequest, RecReply, RecEcho, RecResolve, RecConflict, PullFails,
         WriteFails, RecFallback, Responds
<1>g. \A g \in Fiber : g # f => fiber'[g] = fiber[g]
  BY <1>t DEF FiberStep, FiberFault, ApplyStep, RecStep, Pull, ApplySkip, ApplyDies,
         ApplyDone, RecRequest, RecReply, RecEcho, RecResolve, RecConflict, PullFails,
         WriteFails, RecFallback, Responds
\* The only parts of the invariant that a fiber can disturb.
<1>s. ASSUME \A q \in Replica : clock'[q].methods => OnlyOwn(clock'[q], q),
             Typed(f)' => OnlyOwn(fiber'[f].resolved, r),
             f[2] = "auto" =>
               fiber'[f].resolved = None /\ fiber'[f].pc \in {"idle", "apply", "stopped"},
             \A q \in Replica : q \notin rewound' => Fresh(q)'
      PROVE  StampInv'
  <2>1. CountsOwn'
    BY <1>s, <1>g, <1>t, <1>u DEF CountsOwn, Typed, Stamped, OnlyOwn, Own, Calling, Stamping
  <2>2. PullsCarryNothing'
    BY <1>s, <1>g, <1>t DEF PullsCarryNothing
  <2>3. QED
    BY <1>s, <2>1, <2>2 DEF StampInv
\* A fiber that carries what it has carried, or nothing that can be incremented.
<1>k. ASSUME clock' = clock, rewound' = rewound,
             Typed(f)' => Typed(f) /\ fiber'[f].resolved = fiber[f].resolved,
             f[2] = "auto" =>
               fiber'[f].resolved = None /\ fiber'[f].pc \in {"idle", "apply", "stopped"}
      PROVE  StampInv'
  <2>1. \A g \in Fiber : Typed(g)' => Typed(g) /\ fiber'[g].resolved = fiber[g].resolved
    BY <1>g, <1>k DEF Typed
  <2>2. ASSUME NEW q \in Replica, q \notin rewound PROVE Fresh(q)'
    <3>1. Fresh(q)
      BY <2>2 DEF StampInv
    <3>2. QED
      BY <1>k, <1>u, <2>1, <3>1, FreshFrame DEF Stamping
  <2>3. QED
    BY <1>k, <1>s, <1>t, <2>1, <2>2 DEF CountsOwn
<1>1. ASSUME Pull(f) \/ ApplySkip(f) \/ ApplyDone(f) PROVE StampInv'
  <2>1. /\ clock' = clock /\ rewound' = rewound /\ fiber'[f].resolved = fiber[f].resolved
        /\ fiber'[f].pc \in {"idle", "apply", "resolve"}
        /\ f[2] = "auto" => fiber'[f].pc \in {"idle", "apply"}
    BY <1>1, <1>t DEF Pull, ApplySkip, ApplyDone, Looks, FiberState
  <2>2. QED
    BY <1>k, <1>t, <2>1 DEF Typed, PullsCarryNothing
<1>2. ASSUME ApplyDies(f) \/ PullFails(f) \/ WriteFails(f) \/ RecConflict(f) PROVE StampInv'
  <2>1. /\ clock' = clock /\ rewound' = rewound /\ fiber'[f].resolved = None
        /\ fiber'[f].pc \in {"idle", "stopped"}
    BY <1>2, <1>t DEF ApplyDies, PullFails, WriteFails, RecConflict, StoppedFiber, NewFiber
  <2>2. QED
    BY <1>k, <2>1 DEF Typed
<1>3. ASSUME RecReply(f) \/ RecEcho(f) \/ RecFallback(f) PROVE StampInv'
  <2>1. fiber[f].pc = "waiting"
    BY <1>3 DEF RecReply, RecEcho, RecFallback
  <2>2. f[2] # "auto"
    BY <1>t, <2>1 DEF PullsCarryNothing
  <2>3. PICK ops, state, conflict :
          /\ Responds(f, ops, state, conflict)
          /\ state = fiber[f].resolved \/ state = None \/ ~state.methods
    <3>1. CASE RecReply(f)
      BY <3>1 DEF RecReply
    <3>2. CASE RecEcho(f) \/ RecFallback(f)
      <4>1. Responds(f, <<>>, fiber[f].resolved, None)
        BY <3>2 DEF RecEcho, RecFallback
      <4>2. QED
        BY <4>1
    <3>3. QED
      BY <1>3, <3>1, <3>2
  <2>4. clock' = clock /\ rewound' = rewound /\ fiber'[f].resolved = state
    BY <1>t, <2>3 DEF Responds
  <2>5. QED
    BY <1>k, <2>2, <2>3, <2>4 DEF Typed
<1>4. ASSUME RecRequest(f) PROVE StampInv'
  <2>1. /\ clock' = clock /\ rewound' = rewound /\ fiber'[f].resolved = clock[r]
        /\ f[2] # "auto"
    BY <1>4, <1>t DEF RecRequest, FiberState
  <2>2. Typed(f)' => OnlyOwn(fiber'[f].resolved, r)
    BY <1>t, <2>1 DEF Typed, CountsOwn
  <2>3. ASSUME NEW q \in Replica, q \notin rewound PROVE Fresh(q)'
    <3>1. UpToDate(q) /\ Latest(q) /\ WritesBackOld(q) /\ NoStampTwice(q)
      BY <2>3 DEF StampInv, Fresh
    <3>2. UpToDate(q)' /\ Latest(q)' /\ NoStampTwice(q)'
      BY <1>u, <2>1, <3>1 DEF UpToDate, Latest, NoStampTwice, Own, Stamping
    <3>3. clock[q].timestamps[q] \in Nat
      BY <1>t, ClockParts
    <3>4. WritesBackOld(q)'
      <4>1. ASSUME NEW g \in Fiber, g[1] = q, Typed(g)'
            PROVE  clock[q].methods /\ fiber'[g].resolved.timestamps[q] <= clock[q].timestamps[q]
        <5>1. CASE g = f
          BY <2>1, <3>3, <4>1, <5>1 DEF Typed
        <5>2. CASE g # f
          BY <1>g, <3>1, <4>1, <5>2 DEF Typed, WritesBackOld
        <5>3. QED
          BY <5>1, <5>2
      <4>2. QED
        BY <2>1, <4>1 DEF WritesBackOld
    <3>5. QED
      BY <3>2, <3>4 DEF Fresh
  <2>4. QED
    BY <1>s, <1>t, <2>1, <2>2, <2>3 DEF CountsOwn
<1>5. ASSUME RecResolve(f) PROVE StampInv'
  <2> DEFINE c == Resolved(f)
  <2>1. /\ clock' = [clock EXCEPT ![r] = c] /\ fiber'[f].resolved = None /\ ~Typed(f)'
        /\ fiber[f].pc = "resolve"
        /\ rewound' = IF Rewinds(f) THEN rewound \cup {r} ELSE rewound
    BY <1>5, <1>t DEF RecResolve, FiberState, Typed
  <2>2. f[2] = "rec"
    BY <1>t, <2>1 DEF PullsCarryNothing
  <2>3. \A g \in Fiber : g # f /\ g[1] = r => ~Typed(g)'
    <3>1. ASSUME NEW g \in Fiber, g # f, g[1] = r PROVE g[2] = "auto"
      BY <2>2, <3>1 DEF Fiber
    <3>2. QED
      BY <1>g, <1>t, <3>1 DEF PullsCarryNothing, Typed
  <2>4. c.methods => OnlyOwn(c, r)
    BY <1>t DEF Resolved, CountsOwn, Typed
  <2>5. ASSUME NEW q \in Replica, q \notin rewound' PROVE Fresh(q)'
    <3>1. q \notin rewound /\ Fresh(q) /\ (q = r => ~Rewinds(f))
      BY <2>1, <2>5 DEF StampInv
    <3>2. CASE q # r
      <4>1. clock'[q] = clock[q] /\ \A g \in Fiber : g[1] = q => fiber'[g] = fiber[g]
        BY <1>g, <2>1, <3>2
      <4>2. QED
        BY <1>u, <3>1, <4>1, FreshFrame DEF Stamping, Typed
    <3>3. CASE q = r
      <4>1. UpToDate(r) /\ Latest(r) /\ WritesBackOld(r) /\ NoStampTwice(r)
        BY <3>1, <3>3 DEF Fresh
      <4>2. clock'[r] = c
        BY <1>t, <2>1
      <4>3. WritesBackOld(r)'
        BY <2>1, <2>3 DEF WritesBackOld
      <4>4. Latest(r)' /\ NoStampTwice(r)'
        BY <1>u, <4>1 DEF Latest, NoStampTwice, Own, Stamping
      <4>5. c.methods => clock[r].methods /\ c.timestamps[r] = clock[r].timestamps[r]
        <5>1. CASE fiber[f].resolved = None
          BY <5>1 DEF Resolved
        <5>2. CASE fiber[f].resolved # None
          <6>1. c = fiber[f].resolved
            BY <5>2 DEF Resolved
          <6>2. c \in VClock
            BY <1>t, ResolvedType
          <6> HIDE DEF c
          <6>3. c.timestamps[r] \in Nat /\ clock[r].timestamps[r] \in Nat
            BY <1>t, <6>2, ClockParts
          <6>4. c.methods => clock[r].methods /\ c.timestamps[r] <= clock[r].timestamps[r]
            BY <4>1, <5>2, <6>1 DEF WritesBackOld, Typed
          <6>5. c.methods => ~(c.timestamps[r] < clock[r].timestamps[r])
            BY <3>1, <3>3 DEF Rewinds, c
          <6>6. QED
            BY <6>3, <6>4, <6>5
        <5>3. QED
          BY <5>1, <5>2
      <4>6. UpToDate(r)'
        BY <1>u, <4>1, <4>2, <4>5 DEF UpToDate
      <4>7. QED
        BY <3>3, <4>3, <4>4, <4>6 DEF Fresh
    <3>4. QED
      BY <3>2, <3>3
  <2>6. \A q \in Replica : clock'[q].methods => OnlyOwn(clock'[q], q)
    BY <1>t, <2>1, <2>4 DEF CountsOwn
  <2>7. QED
    BY <1>s, <2>1, <2>2, <2>5, <2>6
<1>6. QED
  BY <1>1, <1>2, <1>3, <1>4, <1>5 DEF FiberStep, ApplyStep, RecStep, FiberFault

LEMMA ArriveStampInv ==
  ASSUME StampInv, TypeOK', ClockNeverAhead', NEW op \in late, Arrive(op)
  PROVE  StampInv'
<1>t. TypeOK /\ ClockNeverAhead /\ CountsOwn /\ op \in Operation
  BY LateOps DEF StampInv
<1>1. /\ log' = Append(log, op) /\ late' = late \ {op}
      /\ UNCHANGED <<clock, app, fiber, stamps, rewound>>
  BY DEF Arrive, Accepts, ghostVars
<1>2. PICK n \in DOMAIN log' :
        /\ log'[n] = op
        /\ \A i \in DOMAIN log' : i = n \/ (i \in DOMAIN log /\ log'[i] = log[i])
  BY <1>1, <1>t, Logged
<1>3. CountsOwn'
  <2>1. Stamped(op, op.replicaId)
    BY <1>t DEF CountsOwn
  <2>2. QED
    BY <1>1, <1>2, <1>t, <2>1 DEF CountsOwn, Stamped, OnlyOwn, Own, Calling, Stamping, Typed
<1>4. PullsCarryNothing'
  BY <1>1 DEF StampInv, PullsCarryNothing
<1>5. ASSUME NEW r \in Replica, r \notin rewound' PROVE Fresh(r)'
  <2>1. UpToDate(r) /\ Latest(r) /\ WritesBackOld(r) /\ NoStampTwice(r)
    BY <1>1, <1>5 DEF StampInv, Fresh
  <2>2. UpToDate(r)' /\ Latest(r)' /\ WritesBackOld(r)'
    BY <1>1, <2>1 DEF UpToDate, Latest, WritesBackOld, Own, Stamping, Typed
  <2>3. NoStampTwice(r)'
    BY <1>1, <1>2, <2>1 DEF NoStampTwice, Own, Stamping
  <2>4. QED
    BY <2>2, <2>3 DEF Fresh
<1>6. QED
  BY <1>3, <1>4, <1>5 DEF StampInv

LEMMA RestartStampInv ==
  ASSUME StampInv, TypeOK', ClockNeverAhead', NEW p \in Replica, Restart(p)
  PROVE  StampInv'
<1>t. /\ TypeOK /\ CountsOwn /\ PullsCarryNothing /\ clock \in [Replica -> VClock]
  BY DEF StampInv, TypeOK
<1>1. /\ UNCHANGED <<log, stamps>> /\ rewound' = rewound \cup {p}
      /\ clock' = [clock EXCEPT ![p] = EmptyVClock]
      /\ \A a \in App : app'[a] = IF Host[a] = p THEN Idle(app[a].calls) ELSE app[a]
      /\ \A f \in Fiber : fiber'[f] = IF f[1] = p THEN NewFiber ELSE fiber[f]
  BY DEF Restart
<1>2. \A x \in late' :
        x \in late \/ \E a \in App : x = app[a].op /\ Stamping(a) /\ Host[a] = p
  BY DEF Restart, Stamping
<1>3. \A x \in late' : Stamped(x, x.replicaId) /\ (x \in late \/ x.replicaId = p)
  BY <1>2, <1>t DEF CountsOwn, Stamped
<1>4. CountsOwn'
  <2>1. \A r \in Replica : clock'[r].methods => OnlyOwn(clock'[r], r)
    <3>1. \A r \in Replica : OnlyOwn(EmptyVClock, r)
      BY NodeAssumption DEF OnlyOwn, EmptyVClock, Empty
    <3>2. QED
      BY <1>1, <1>t, <3>1 DEF CountsOwn
  <2>2. \A a \in App : (Calling(a)' \/ Stamping(a)') => app'[a] = app[a]
    <3>1. ASSUME NEW a \in App, Host[a] = p PROVE ~(Calling(a)') /\ ~(Stamping(a)')
      <4>1. app'[a] = Idle(app[a].calls)
        BY <1>1, <3>1
      <4>2. app'[a].pc = "idle"
        BY <4>1 DEF Idle
      <4>3. QED
        BY <4>2 DEF Calling, Stamping
    <3>2. \A a \in App : Host[a] # p => app'[a] = app[a]
      BY <1>1
    <3>3. QED
      BY <3>1, <3>2, Zenon
  <2>3. \A f \in Fiber : Typed(f)' => Typed(f) /\ fiber'[f] = fiber[f]
    BY <1>1 DEF NewFiber, Typed
  <2>4. QED
    BY <1>1, <1>3, <1>t, <2>1, <2>2, <2>3
       DEF CountsOwn, Stamped, OnlyOwn, Own, Calling, Stamping, Typed
<1>5. PullsCarryNothing'
  BY <1>1, <1>t DEF PullsCarryNothing, NewFiber
<1>6. ASSUME NEW r \in Replica, r \notin rewound' PROVE Fresh(r)'
  <2>1. r # p /\ Fresh(r)
    BY <1>1, <1>6 DEF StampInv
  <2>2. /\ clock'[r] = clock[r] /\ stamps'[r] = stamps[r]
        /\ \A a \in App : Host[a] = r => app'[a] = app[a]
        /\ \A f \in Fiber : f[1] = r => fiber'[f] = fiber[f]
        /\ \A x \in late' : x.replicaId = r => x \in late
    BY <1>1, <1>3, <1>t, <2>1
  <2>3. QED
    BY <1>1, <2>1, <2>2, FreshFrame DEF Stamping, Typed
<1>7. QED
  BY <1>4, <1>5, <1>6 DEF StampInv

LEMMA StampStep ==
  ASSUME OneCaller, StampInv, [Next]_vars
  PROVE  StampInv'
<1>1. TypeOK' /\ ClockNeverAhead'
  BY TypeStep, CountedStep DEF StampInv
<1>2. CASE UNCHANGED vars
  <2>1. \A r \in Replica : Fresh(r) => Fresh(r)'
    BY <1>2 DEF vars, serverVars, ghostVars, Fresh, UpToDate, Latest, WritesBackOld,
                NoStampTwice, Own, Stamping, Typed
  <2>2. CountsOwn' /\ PullsCarryNothing'
    BY <1>2 DEF vars, serverVars, ghostVars, StampInv, CountsOwn, PullsCarryNothing, Stamped,
                OnlyOwn, Own, Calling, Stamping, Typed
  <2>3. QED
    BY <1>1, <1>2, <2>1, <2>2 DEF StampInv, vars, ghostVars
<1>3. QED
  BY <1>1, <1>2, CallStampInv, FiberStampInv, ArriveStampInv, RestartStampInv DEF Next

LEMMA StampsDiffer == StampInv => UniqueStamps
<1> SUFFICES ASSUME StampInv, NEW i \in DOMAIN log, NEW j \in DOMAIN log, i # j,
                    log[i].vectorClock.timestamps = log[j].vectorClock.timestamps
             PROVE  log[i].replicaId = log[j].replicaId /\ log[i].replicaId \in rewound
  BY DEF UniqueStamps
<1>1. /\ log[i].replicaId \in Replica /\ log[j].replicaId \in Replica
      /\ Stamped(log[i], log[i].replicaId) /\ Stamped(log[j], log[j].replicaId)
  <2>1. log[i] \in Operation /\ log[j] \in Operation
    BY DEF StampInv, TypeOK
  <2>2. QED
    BY <2>1 DEF StampInv, Operation, CountsOwn
<1>2. log[i].replicaId = log[j].replicaId
  BY <1>1 DEF Stamped, OnlyOwn, Own
<1>3. log[i].replicaId \notin rewound => Own(log[i]) # Own(log[j])
  BY <1>1, <1>2 DEF StampInv, Fresh, NoStampTwice
<1>4. QED
  BY <1>2, <1>3 DEF Own

\* Where one call of add runs at a time on every replica, two operations at the server
\* carry the same clock only if they come from one replica whose count has gone back.
THEOREM StampsAreUnique ==
  ASSUME OneCaller
  PROVE  Spec => []UniqueStamps
<1>1. Init => StampInv
  BY StampInit
<1>2. StampInv /\ [Next]_vars => StampInv'
  BY StampStep
<1>3. StampInv => UniqueStamps
  BY StampsDiffer
<1>4. QED
  BY <1>1, <1>2, <1>3, PTL DEF Spec

-----------------------------------------------------------------------------
(* PushTellsAll.                                                            *)

\* A caller whose write is on its replica.
Writing(a) == app[a].pc \in {"increment", "setclock", "push"}

\* While a call is on its way to the server, its replica shows nothing more than the call
\* carries and the server has been told.
ShowsTold(a) ==
  \A k \in Key : Writing(a) /\ app[a].op.key = k =>
    Elements(store[Host[a]][k]) \subseteq app[a].op.value.elements \cup Told(k)

ToldInv == BehindInv /\ \A a \in App : ShowsTold(a)

\* The server forgets nothing.
LEMMA ToldGrows ==
  ASSUME TypeOK, NEW k, log' = log \/ \E op \in Operation : log' = Append(log, op)
  PROVE  Told(k) \subseteq Told(k)'
<1>1. \A i \in DOMAIN log : i \in DOMAIN log' /\ log'[i] = log[i]
  BY Logged
<1>2. QED
  BY <1>1 DEF Told

LEMMA ToldNew ==
  ASSUME TypeOK, NEW op \in Operation, log' = Append(log, op)
  PROVE  op.value.elements \subseteq Told(op.key)'
<1>1. \E n \in DOMAIN log' : log'[n] = op
  BY Logged
<1>2. QED
  BY <1>1 DEF Told

LEMMA ToldInit == Init => ToldInv
BY BehindInit DEF ToldInv, Init, Idle, ShowsTold, Writing

\* Nothing that ShowsTold(a) depends on has changed, but the server may know more.
LEMMA ToldFrame ==
  ASSUME ToldInv, NEW a \in App, store'[Host[a]] = store[Host[a]],
         Writing(a)' => Writing(a) /\ app'[a].op.key = app[a].op.key
                        /\ app'[a].op.value = app[a].op.value,
         log' = log \/ \E op \in Operation : log' = Append(log, op)
  PROVE  ShowsTold(a)'
<1>1. \A k \in Key : Told(k) \subseteq Told(k)'
  BY ToldGrows DEF ToldInv, BehindInv
<1>2. QED
  BY <1>1 DEF ToldInv, ShowsTold

LEMMA ToldCall ==
  ASSUME ToldInv, OneCaller, NEW a \in App, AddCall(a) \/ AddStep(a) \/ AddFault(a)
  PROVE  \A b \in App : ShowsTold(b)'
<1> USE DEF serverVars, ghostVars, envVars
<1>t. /\ TypeOK /\ app \in [App -> AppState] /\ Host[a] \in Replica
      /\ store \in [Replica -> [Key -> GSet \cup {None}]]
  BY HostAssumption DEF ToldInv, BehindInv, TypeOK
<1>1. log' = log \/ \E op \in Operation : log' = Append(log, op)
  <2>1. CASE AddPush(a)
    BY <1>t, <2>1, CallOps DEF AddPush, Accepts, Calling
  <2>2. CASE ~AddPush(a)
    BY <2>2 DEF AddCall, AddStep, AddFault, AddRead, AddReadFails, AddTo, AddDies, AddStore,
                AddIncrement, AddIncrementDies, AddSetClock, AddPushNowhere, AddStoreFails,
                AddPushFails
  <2>3. QED
    BY <2>1, <2>2
<1>2. CASE AddStore(a)
  <2> DEFINE op == app[a].op
  <2>1. /\ op \in Operation /\ op.key \in Key /\ op.value \in GSet
        /\ store' = [store EXCEPT ![Host[a]][op.key] = Stored(Host[a], op.value)]
        /\ app' = [app EXCEPT ![a].pc = "increment"]
    BY <1>t, <1>2, CallOps DEF AddStore, Calling, Operation
  <2>2. /\ Elements(Stored(Host[a], op.value)) = op.value.elements
    BY <2>1, StoredType, NoneAssumption DEF Elements
  <2>3. app'[a].op = op /\ store'[Host[a]][op.key] = Stored(Host[a], op.value)
    BY <1>t, <2>1 DEF AppState
  <2>4. ShowsTold(a)'
    BY <2>2, <2>3 DEF ShowsTold
  <2>5. ASSUME NEW b \in App, b # a PROVE ShowsTold(b)'
    <3>1. Host[b] # Host[a] /\ app'[b] = app[b] /\ store'[Host[b]] = store[Host[b]]
      BY <1>t, <2>1, <2>5, HostAssumption DEF OneCaller
    <3>2. QED
      BY <1>1, <3>1, ToldFrame DEF Writing
  <2>6. QED
    BY <2>4, <2>5
<1>3. CASE ~AddStore(a)
  <2>1. store' = store
    BY <1>3 DEF AddCall, AddStep, AddFault, AddRead, AddReadFails, AddTo, AddDies,
                AddIncrement, AddIncrementDies, AddSetClock, AddPush, AddPushNowhere,
                AddStoreFails, AddPushFails
  <2>2. \A b \in App : Writing(b)' => Writing(b) /\ app'[b].op.key = app[b].op.key
                                      /\ app'[b].op.value = app[b].op.value
    <3>1. \A b \in App : b # a => app'[b] = app[b]
      BY <1>3, <1>t DEF AddCall, AddStep, AddFault, AddRead, AddReadFails, AddTo, AddDies,
                AddIncrement, AddIncrementDies, AddSetClock, AddPush, AddPushNowhere,
                AddStoreFails, AddPushFails
    <3>2. CASE AddIncrement(a)
      <4>1. app[a].op \in Operation /\ Writing(a)
        BY <1>t, <3>2, CallOps DEF AddIncrement, Calling, Writing
      <4>2. app'[a].op.key = app[a].op.key /\ app'[a].op.value = app[a].op.value
        BY <1>t, <3>2, <4>1 DEF AddIncrement, AppState, Operation
      <4>3. QED
        BY <3>1, <4>1, <4>2 DEF Writing
    <3>3. CASE AddSetClock(a)
      <4>1. Writing(a) /\ app'[a].op = app[a].op
        BY <1>t, <3>3 DEF AddSetClock, Writing, AppState
      <4>2. QED
        BY <3>1, <4>1 DEF Writing
    <3>4. CASE ~(AddIncrement(a) \/ AddSetClock(a))
      <4>1. app'[a].pc \in {"idle", "store"}
        <5>1. CASE \E k \in Key : AddRead(a, k) \/ AddReadFails(a, k)
          BY <1>t, <5>1 DEF AddRead, AddReadFails, AddTo
        <5>2. CASE \E k \in Key : AddDies(a, k)
          BY <1>t, <5>2 DEF AddDies, AppState
        <5>3. CASE AddIncrementDies(a) \/ AddPush(a) \/ AddPushNowhere(a)
                   \/ AddStoreFails(a) \/ AddPushFails(a)
          <6>1. app' = [app EXCEPT ![a] = Idle(app[a].calls)]
            BY <5>3 DEF AddIncrementDies, AddPush, AddPushNowhere, AddStoreFails, AddPushFails
          <6>2. QED
            BY <1>t, <6>1 DEF Idle
        <5>4. QED
          BY <1>3, <3>4, <5>1, <5>2, <5>3 DEF AddCall, AddStep, AddFault
      <4>2. ~(Writing(a)')
        BY <4>1 DEF Writing
      <4>3. QED
        BY <3>1, <4>2 DEF Writing
    <3>5. QED
      BY <3>2, <3>3, <3>4
  <2>3. QED
    BY <1>1, <2>1, <2>2, ToldFrame
<1>4. QED
  BY <1>2, <1>3

LEMMA ToldFiber ==
  ASSUME ToldInv, NEW f \in Fiber, FiberStep(f) \/ FiberFault(f)
  PROVE  \A b \in App : ShowsTold(b)'
<1> USE DEF serverVars, ghostVars, envVars
<1>t. /\ TypeOK /\ f[1] \in Replica /\ fiber[f] \in FiberState
      /\ store \in [Replica -> [Key -> GSet \cup {None}]]
  BY FiberParts DEF ToldInv, BehindInv, TypeOK
<1>1. UNCHANGED <<app, log>>
  BY DEF FiberStep, FiberFault, ApplyStep, RecStep, Pull, ApplySkip, ApplyDies,
         ApplyDone, RecRequest, RecReply, RecEcho, RecResolve, RecConflict, PullFails,
         WriteFails, RecFallback, Responds
<1>2. CASE RecConflict(f) /\ TakesServerValue(f)
  <2> DEFINE c == fiber[f].conflict
             v == Stored(f[1], c.serverValue)
  <2>1. c \in Conflict /\ c # None
    BY <1>t, <1>2 DEF TakesServerValue, FiberState
  <2>2. Reported(c)
    BY <2>1 DEF ToldInv, BehindInv, ConflictsAreLogged
  <2>3. c.serverValue.elements \subseteq Told(c.key)
    BY <2>2 DEF Reported, Told
  <2>4. Elements(v) = c.serverValue.elements /\ c.key \in Key
    BY <2>1, StoredType, NoneAssumption DEF Elements, Conflict
  <2>5. store' = [store EXCEPT ![f[1]][c.key] = v]
    BY <1>2 DEF RecConflict
  <2> HIDE DEF c, v
  <2>6. ASSUME NEW b \in App, NEW k \in Key, Writing(b), app[b].op.key = k
        PROVE  Elements(store'[Host[b]][k]) \subseteq app[b].op.value.elements \cup Told(k)
    <3>1. Elements(store[Host[b]][k]) \subseteq app[b].op.value.elements \cup Told(k)
      BY <2>6 DEF ToldInv, ShowsTold
    <3>2. store'[Host[b]][k] = IF Host[b] = f[1] /\ k = c.key THEN v ELSE store[Host[b]][k]
      BY <1>t, <2>4, <2>5, HostAssumption
    <3>3. QED
      BY <2>3, <2>4, <3>1, <3>2
  <2>7. \A k \in Key : Told(k)' = Told(k)
    BY <1>1 DEF Told
  <2>8. QED
    BY <1>1, <2>6, <2>7 DEF ShowsTold, Writing
<1>3. CASE ~(RecConflict(f) /\ TakesServerValue(f))
  <2>1. store' = store
    BY <1>3 DEF FiberStep, FiberFault, ApplyStep, RecStep, Pull, ApplySkip, ApplyDies,
         ApplyDone, RecRequest, RecReply, RecEcho, RecResolve, RecConflict, PullFails,
         WriteFails, RecFallback, Responds
  <2>2. QED
    BY <1>1, <2>1, ToldFrame DEF Writing
<1>4. QED
  BY <1>2, <1>3

LEMMA ToldStep ==
  ASSUME OneCaller, ToldInv, [Next]_vars
  PROVE  ToldInv'
<1>1. BehindInv'
  BY BehindStep DEF ToldInv
<1>2. ASSUME NEW op \in late, Arrive(op), NEW b \in App PROVE ShowsTold(b)'
  <2>1. op \in Operation
    BY LateOps DEF ToldInv, BehindInv
  <2>2. log' = Append(log, op) /\ UNCHANGED <<store, app>>
    BY <1>2 DEF Arrive, Accepts
  <2>3. QED
    BY <2>1, <2>2, ToldFrame DEF Writing
<1>3. ASSUME NEW r \in Replica, Restart(r), NEW b \in App PROVE ShowsTold(b)'
  <2>1. store \in [Replica -> [Key -> GSet \cup {None}]] /\ Host[b] \in Replica
    BY HostAssumption DEF ToldInv, BehindInv, TypeOK
  <2>2. CASE Host[b] = r
    <3>1. ~Writing(b)'
      BY <1>3, <2>2 DEF Restart, Idle, Writing
    <3>2. QED
      BY <3>1 DEF ShowsTold
  <2>3. CASE Host[b] # r
    <3>1. store'[Host[b]] = store[Host[b]] /\ app'[b] = app[b] /\ log' = log
      BY <1>3, <2>1, <2>3 DEF Restart
    <3>2. QED
      BY <3>1, ToldFrame DEF Writing
  <2>4. QED
    BY <2>2, <2>3
<1>4. ASSUME UNCHANGED vars, NEW b \in App PROVE ShowsTold(b)'
  BY <1>4, ToldFrame DEF vars, serverVars, Writing
<1>5. QED
  BY <1>1, <1>2, <1>3, <1>4, ToldCall, ToldFiber DEF ToldInv, Next

LEMMA PushTells ==
  ASSUME ToldInv, NEW a \in App, NEW k \in Key, AddPush(a), app[a].op.key = k
  PROVE  Elements(store[Host[a]][k]) \subseteq Told(k)'
<1>1. /\ TypeOK /\ app[a].op \in Operation /\ Writing(a)
      /\ log' = Append(log, app[a].op)
  BY CallOps DEF ToldInv, BehindInv, AddPush, Accepts, Calling, Writing
<1>2. Elements(store[Host[a]][k]) \subseteq app[a].op.value.elements \cup Told(k)
  BY <1>1 DEF ToldInv, ShowsTold
<1>3. Told(k) \subseteq Told(k)' /\ app[a].op.value.elements \subseteq Told(k)'
  BY <1>1, ToldGrows, ToldNew
<1>4. QED
  BY <1>2, <1>3

\* Where one call of add runs at a time on every replica, a push that reaches the server
\* tells it of everything the replica shows of the collection.
THEOREM PushesTellAll ==
  ASSUME OneCaller
  PROVE  Spec => PushTellsAll
<1>1. Init => ToldInv
  BY ToldInit
<1>2. ToldInv /\ [Next]_vars => ToldInv'
  BY ToldStep
<1>3. ToldInv => [\A a \in App, k \in Key :
          AddPush(a) /\ app[a].op.key = k => Elements(store[Host[a]][k]) \subseteq Told(k)']_vars
  BY PushTells
<1>4. QED
  BY <1>1, <1>2, <1>3, PTL DEF Spec, PushTellsAll

=============================================================================
