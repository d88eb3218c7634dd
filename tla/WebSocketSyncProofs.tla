------------------------ MODULE WebSocketSyncProofs ------------------------
(* Proofs about WebSocketSync, for any number of sockets, calls and attempts. *)
EXTENDS TLAPS, WebSocketSync

-----------------------------------------------------------------------------
(* The inductive invariant: a pending timer still has an attempt to use.    *)

LinkOK ==
  /\ socket \in [Socket -> {"unused", "connecting", "open", "closing", "closed"}]
  /\ ws \in Socket \cup {None} /\ (ws # None => socket[ws] # "unused")
  /\ attempts \in Nat /\ reconnects \in Nat /\ again \in BOOLEAN

ChainInv ==
  /\ LinkOK
  /\ OneChain
  /\ ~again => (reconnects > 0 => attempts < MaxAttempts)
  /\ StatusTruthful

LEMMA ChainInit == Init => ChainInv
<1> SUFFICES ASSUME Init PROVE ChainInv
  OBVIOUS
<1> USE SocketAssumption, AttemptsAssumption
<1>1. LinkOK
  BY DEF Init, LinkOK
<1>2. Live = {First}
  BY DEF Init, Live
<1>3. OneChain
  BY <1>2 DEF Init, OneChain
<1>4. StatusTruthful
  BY NoneAssumption DEF Init, StatusTruthful
<1>5. QED
  BY <1>1, <1>3, <1>4 DEF Init, ChainInv

\* Everything but the connection's own events leaves the chain alone.
LEMMA CallKeepsChain ==
  ASSUME ChainInv, NEW c \in Call, Begin(c) \/ CallStep(c)
  PROVE  ChainInv'
<1>1. UNCHANGED link
  BY DEF Begin, CallStep, Refuse, Check, SendThrows, Send, Timeout
<1>2. status' \in {status, "syncing"}
  BY DEF Begin, CallStep, Refuse, Check, SendThrows, Send, Timeout
<1>3. QED
  BY <1>1, <1>2 DEF link, ChainInv, LinkOK, OneChain, Live, StatusTruthful

LEMMA EventKeepsChain ==
  ASSUME ChainInv, NEW s \in Socket, Event(s)
  PROVE  ChainInv'
<1> USE AttemptsAssumption DEF ChainInv, LinkOK, OneChain, Live, StatusTruthful
<1>1. CASE Opens(s)
  BY <1>1 DEF Opens
<1>2. CASE Closes(s)
  <2>1. ~again => s \in Live /\ reconnects = 0
    BY <1>2 DEF Closes
  <2>2. ~again => Live' = {}
    BY <1>2, <2>1 DEF Closes
  <2> QED
    BY <1>2, <2>1, <2>2 DEF Closes, Schedules
<1>3. CASE Reconnect(s)
  <2>1. ~again => reconnects = 1 /\ Live = {} /\ attempts < MaxAttempts
    BY <1>3 DEF Reconnect
  <2>2. ~again => Live' = {s} /\ reconnects' = 0 /\ attempts' = attempts + 1
    BY <1>3, <2>1 DEF Reconnect, Connecting
  <2> QED
    BY <1>3, <2>1, <2>2 DEF Reconnect, Connecting
<1>4. CASE Connect(s)
  <2>1. again' = TRUE /\ LinkOK'
    BY <1>4 DEF Connect, Connecting
  <2> QED
    BY <2>1
<1>5. CASE Deliver(s)
  BY <1>5 DEF Deliver, link
<1>6. CASE DeliverThrows(s) \/ Serve(s)
  BY <1>6 DEF DeliverThrows, Serve, link
<1>7. QED
  BY <1>1, <1>2, <1>3, <1>4, <1>5, <1>6 DEF Event

LEMMA DisconnectKeepsChain == ChainInv /\ Disconnect => ChainInv'
<1> SUFFICES ASSUME ChainInv, Disconnect PROVE ChainInv'
  OBVIOUS
<1>1. LinkOK'
  BY DEF Disconnect, ChainInv, LinkOK
<1>2. ASSUME NEW s \in Socket
      PROVE  /\ s \in Live' <=> s \in Live
             /\ socket[s] \in {"open", "closing"} => socket'[s] \in {"open", "closing"}
             /\ socket'[s] = "open" => socket[s] = "open"
  BY DEF Disconnect, ChainInv, LinkOK, Live
<1>3. Live' = Live
  BY <1>2 DEF Live
<1>4. UNCHANGED <<attempts, reconnects, again, status>>
  BY DEF Disconnect
<1>5. OneChain'
  BY <1>3, <1>4 DEF ChainInv, OneChain
<1>6. StatusTruthful'
  BY <1>2, <1>4 DEF ChainInv, StatusTruthful
<1>7. QED
  BY <1>1, <1>4, <1>5, <1>6 DEF ChainInv

LEMMA ChainStep == ChainInv /\ [Next]_vars => ChainInv'
<1>1. UNCHANGED vars /\ ChainInv => ChainInv'
  BY DEF vars, link, ChainInv, LinkOK, OneChain, Live, StatusTruthful
<1>2. QED
  BY <1>1, CallKeepsChain, EventKeepsChain, DisconnectKeepsChain DEF Next

\* Until connect is called again, the connection is never tried twice at a
\* time, and it is only given up when every attempt has failed.
THEOREM ReconnectsInOneChain ==
  Spec => []OneChain
<1>1. ChainInv => OneChain
  BY DEF ChainInv
<1>2. QED
  BY <1>1, ChainInit, ChainStep, PTL DEF Spec

\* Until connect is called again, what the status stream last said about the
\* connection is so.
THEOREM StatusIsTruthful ==
  Spec => []StatusTruthful
<1>1. ChainInv => StatusTruthful
  BY DEF ChainInv
<1>2. QED
  BY <1>1, ChainInit, ChainStep, PTL DEF Spec

-----------------------------------------------------------------------------
(* The calls.                                                               *)

Queues == /\ toServer \in [Socket -> Seq(Call)]
          /\ toClient \in [Socket -> Seq(Call)]

LEMMA TypeInit == Init => TypeOK
<1> SUFFICES ASSUME Init PROVE TypeOK
  OBVIOUS
<1>1. <<>> \in Seq(Call)
  OBVIOUS
<1>2. Queues
  BY <1>1 DEF Init, Queues
<1>3. QED
  BY <1>2, SocketAssumption DEF Init, TypeOK, Queues

LEMMA CallType ==
  ASSUME TypeOK, NEW c \in Call, Begin(c) \/ CallStep(c)
  PROVE  TypeOK'
<1>1. CASE Refuse(c) \/ Check(c) \/ SendThrows(c) \/ Timeout(c)
  BY <1>1 DEF Refuse, Check, SendThrows, Timeout, TypeOK, link, net
<1>2. CASE Send(c)
  <2>1. /\ ws \in Socket /\ call[c] = "checked" /\ call' = [call EXCEPT ![c] = "sent"]
        /\ timers' = timers \cup {c} /\ listeners' = listeners \cup {<<c, ws>>}
        /\ UNCHANGED <<link, status, toClient, received>>
        /\ toServer' = IF socket[ws] = "open"
                         THEN [toServer EXCEPT ![ws] = Append(@, c)] ELSE toServer
    BY <1>2 DEF Send, TypeOK
  <2>2. \A d \in Call : call'[d] = IF d = c THEN "sent" ELSE call[d]
    BY <2>1 DEF TypeOK
  <2>3. timers' \subseteq {d \in Call : call'[d] = "sent"}
    BY <2>1, <2>2 DEF TypeOK
  <2>4. listeners' \subseteq {d \in Call : call'[d] \in {"sent", "ok", "error"}} \X Socket
    BY <2>1, <2>2 DEF TypeOK
  <2>5. toServer' \in [Socket -> Seq(Call)]
    BY <2>1 DEF TypeOK
  <2> QED
    BY <2>1, <2>3, <2>4, <2>5 DEF TypeOK, link
<1>3. QED
  BY <1>1, <1>2 DEF Begin, CallStep

\* A listener ends the call it belongs to if the call is not over.
LEMMA EndsCalls ==
  ASSUME TypeOK, NEW taken \in SUBSET Call,
         call' = [c \in Call |-> IF c \in taken /\ call[c] = "sent" THEN "ok" ELSE call[c]],
         timers' = timers \ taken, listeners' \subseteq listeners
  PROVE  /\ call' \in [Call -> {"idle", "checked", "sent", "ok", "error"}]
         /\ timers' \subseteq {c \in Call : call'[c] = "sent"}
         /\ listeners' \subseteq {c \in Call : call'[c] \in {"sent", "ok", "error"}} \X Socket
<1>1. \A c \in Call : /\ call'[c] = IF c \in taken /\ call[c] = "sent" THEN "ok" ELSE call[c]
                      /\ call[c] \in {"idle", "checked", "sent", "ok", "error"}
  BY DEF TypeOK
<1>2. call' \in [Call -> {"idle", "checked", "sent", "ok", "error"}]
  BY <1>1
<1>3. \A c \in timers' : c \in Call /\ call'[c] = "sent"
  BY <1>1 DEF TypeOK
<1>4. {c \in Call : call[c] \in {"sent", "ok", "error"}}
        \subseteq {c \in Call : call'[c] \in {"sent", "ok", "error"}}
  BY <1>1
<1>5. QED
  BY <1>2, <1>3, <1>4 DEF TypeOK

LEMMA EventType ==
  ASSUME TypeOK, NEW s \in Socket, Event(s)
  PROVE  TypeOK'
<1>1. CASE Opens(s) \/ Reconnect(s) \/ Connect(s)
  <2>1. CASE Opens(s)
    BY <2>1 DEF Opens, TypeOK, calls, net
  <2>2. CASE Reconnect(s)
    <3>1. reconnects' \in Nat /\ attempts' \in Nat
      BY <2>2 DEF Reconnect, TypeOK
    <3> QED
      BY <2>2, <3>1 DEF Reconnect, Connecting, TypeOK, calls, net
  <2>3. CASE Connect(s)
    BY <2>3 DEF Connect, Connecting, TypeOK, calls, net
  <2> QED
    BY <1>1, <2>1, <2>2, <2>3
<1>2. CASE Closes(s)
  <2>1. <<>> \in Seq(Call)
    OBVIOUS
  <2>2. Queues'
    BY <1>2, <2>1 DEF Closes, TypeOK, Queues
  <2>3. reconnects' \in Nat
    BY <1>2 DEF Closes, Schedules, TypeOK
  <2> QED
    BY <1>2, <2>2, <2>3 DEF Closes, TypeOK, Queues, calls
<1>3. CASE Deliver(s)
  <2> DEFINE m == Head(toClient[s])
             taken == {c \in Call : <<c, s>> \in listeners /\ Answers(c, m)}
  <2>1. /\ toClient[s] # <<>>
        /\ timers' = timers \ taken
        /\ listeners' = listeners \ {<<c, ws>> : c \in taken}
        /\ call' = [c \in Call |-> IF c \in taken /\ call[c] = "sent" THEN "ok" ELSE call[c]]
        /\ status' \in {status, "online"}
        /\ toClient' = [toClient EXCEPT ![s] = Tail(@)]
        /\ UNCHANGED <<link, toServer, received>>
    BY <1>3 DEF Deliver
  <2>2. taken \in SUBSET Call /\ listeners' \subseteq listeners
    BY <2>1
  <2>3. toClient' \in [Socket -> Seq(Call)]
    BY <2>1 DEF TypeOK
  <2> HIDE DEF taken
  <2>4. /\ call' \in [Call -> {"idle", "checked", "sent", "ok", "error"}]
        /\ timers' \subseteq {c \in Call : call'[c] = "sent"}
        /\ listeners' \subseteq {c \in Call : call'[c] \in {"sent", "ok", "error"}} \X Socket
    BY <2>1, <2>2, EndsCalls
  <2> QED
    BY <2>1, <2>3, <2>4 DEF TypeOK, link
<1>4. CASE DeliverThrows(s)
  <2>1. /\ toClient[s] # <<>> /\ toClient' = [toClient EXCEPT ![s] = Tail(@)]
        /\ timers' \subseteq timers
        /\ UNCHANGED <<link, status, call, listeners, toServer, received>>
    BY <1>4 DEF DeliverThrows
  <2>2. toClient' \in [Socket -> Seq(Call)]
    BY <2>1 DEF TypeOK
  <2> QED
    BY <2>1, <2>2 DEF TypeOK, link
<1>5. CASE Serve(s)
  <2>1. /\ toServer[s] # <<>> /\ Head(toServer[s]) \in Call
        /\ received' = received \cup {Head(toServer[s])}
        /\ toServer' = [toServer EXCEPT ![s] = Tail(@)]
        /\ toClient' = [toClient EXCEPT ![s] = Append(@, Head(toServer[s]))]
        /\ UNCHANGED <<link, status, calls>>
    BY <1>5 DEF Serve, TypeOK
  <2>2. toServer' \in [Socket -> Seq(Call)] /\ toClient' \in [Socket -> Seq(Call)]
    BY <2>1 DEF TypeOK
  <2> QED
    BY <2>1, <2>2 DEF TypeOK, link, calls
<1>6. QED
  BY <1>1, <1>2, <1>3, <1>4, <1>5 DEF Event

LEMMA TypeStep == TypeOK /\ [Next]_vars => TypeOK'
<1> SUFFICES ASSUME TypeOK, [Next]_vars PROVE TypeOK'
  OBVIOUS
<1>1. CASE Disconnect
  BY <1>1 DEF Disconnect, TypeOK, calls, net
<1>2. CASE UNCHANGED vars
  BY <1>2 DEF vars, link, calls, net, TypeOK
<1>3. QED
  BY <1>1, <1>2, CallType, EventType DEF Next

\* However connections, answers and timeouts cross each other, a pending
\* timeout and a listener belong to a call that has sent its request.
THEOREM TypeCorrect == Spec => []TypeOK
<1>1. QED
  BY TypeInit, TypeStep, PTL DEF Spec

-----------------------------------------------------------------------------
(* What comes back was processed.                                           *)

AnswersAreEarned ==
  /\ \A s \in Socket : \A i \in 1 .. Len(toClient[s]) : toClient[s][i] \in received
  /\ AnsweredMeansProcessed

LEMMA EarnedStep == TypeOK /\ AnswersAreEarned /\ [Next]_vars => AnswersAreEarned'
<1> SUFFICES ASSUME TypeOK, AnswersAreEarned, [Next]_vars PROVE AnswersAreEarned'
  OBVIOUS
<1> USE DEF AnswersAreEarned, AnsweredMeansProcessed, Processed
<1>1. ASSUME NEW c \in Call, Begin(c) \/ CallStep(c) PROVE AnswersAreEarned'
  <2>1. UNCHANGED <<toClient, received>>
    BY <1>1 DEF Begin, CallStep, Refuse, Check, SendThrows, Send, Timeout, net
  <2>2. \A d \in Call : call'[d] = "ok" => call[d] = "ok"
    BY <1>1 DEF Begin, CallStep, Refuse, Check, SendThrows, Send, Timeout, TypeOK
  <2> QED
    BY <2>1, <2>2
<1>2. ASSUME NEW s \in Socket, Opens(s) \/ Reconnect(s) \/ Connect(s) PROVE AnswersAreEarned'
  <2>1. UNCHANGED <<toClient, received, call>>
    BY <1>2 DEF Opens, Reconnect, Connect, calls, net
  <2> QED
    BY <2>1
<1>3. ASSUME NEW s \in Socket, Closes(s) PROVE AnswersAreEarned'
  <2>1. /\ UNCHANGED <<received, call>>
        /\ \A t \in Socket : toClient'[t] = IF t = s THEN <<>> ELSE toClient[t]
    BY <1>3 DEF Closes, calls, TypeOK
  <2>2. Len(<<>>) = 0 /\ \A i \in 1 .. 0 : FALSE
    OBVIOUS
  <2> QED
    BY <2>1, <2>2
<1>4. ASSUME NEW s \in Socket, toClient[s] # <<>>, toClient' = [toClient EXCEPT ![s] = Tail(@)],
             UNCHANGED received
      PROVE  \A t \in Socket : \A i \in 1 .. Len(toClient'[t]) : toClient'[t][i] \in received'
  <2>1. toClient[s] \in Seq(Call) /\ \A t \in Socket :
          toClient'[t] = IF t = s THEN Tail(toClient[s]) ELSE toClient[t]
    BY <1>4 DEF TypeOK
  <2>2. \A i \in 1 .. Len(Tail(toClient[s])) : /\ Tail(toClient[s])[i] = toClient[s][i + 1]
                                               /\ i + 1 \in 1 .. Len(toClient[s])
    BY <1>4, <2>1
  <2> QED
    BY <1>4, <2>1, <2>2
<1>5. ASSUME NEW s \in Socket, Deliver(s) PROVE AnswersAreEarned'
  <2>1. /\ toClient[s] # <<>> /\ toClient' = [toClient EXCEPT ![s] = Tail(@)]
        /\ UNCHANGED received
        /\ \A c \in Call : call'[c] = "ok" => call[c] = "ok" \/ Answers(c, Head(toClient[s]))
    BY <1>5 DEF Deliver
  <2>2. Head(toClient[s]) \in received
    <3>1. toClient[s] \in Seq(Call)
      BY DEF TypeOK
    <3>2. 1 \in 1 .. Len(toClient[s]) /\ Head(toClient[s]) = toClient[s][1]
      BY <2>1, <3>1
    <3> QED
      BY <3>2
  <2>3. \A c \in Call : Kind[c] \in {"pull", "reconcile"} /\ Answers(c, Head(toClient[s]))
          => c = Head(toClient[s])
    BY DEF Answers
  <2> QED
    BY <1>4, <2>1, <2>2, <2>3
<1>6. ASSUME NEW s \in Socket, DeliverThrows(s) PROVE AnswersAreEarned'
  <2>1. /\ toClient[s] # <<>> /\ toClient' = [toClient EXCEPT ![s] = Tail(@)]
        /\ UNCHANGED <<received, call>>
    BY <1>6 DEF DeliverThrows
  <2> QED
    BY <1>4, <2>1
<1>7. ASSUME NEW s \in Socket, Serve(s) PROVE AnswersAreEarned'
  <2>1. /\ received' = received \cup {Head(toServer[s])} /\ UNCHANGED call
        /\ toServer[s] # <<>> /\ toServer[s] \in Seq(Call) /\ toClient[s] \in Seq(Call)
        /\ \A t \in Socket : toClient'[t] = IF t = s THEN Append(toClient[s], Head(toServer[s]))
                                                   ELSE toClient[t]
    BY <1>7 DEF Serve, calls, TypeOK
  <2>2. Head(toServer[s]) \in Call
    BY <2>1
  <2>3. \A i \in 1 .. Len(Append(toClient[s], Head(toServer[s]))) :
          Append(toClient[s], Head(toServer[s]))[i] \in received'
    BY <2>1, <2>2
  <2> QED
    BY <2>1, <2>3
<1>8. CASE Disconnect
  BY <1>8 DEF Disconnect, calls, net
<1>9. CASE UNCHANGED vars
  BY <1>9 DEF vars, calls, net
<1>10. QED
  BY <1>1, <1>2, <1>3, <1>5, <1>6, <1>7, <1>8, <1>9 DEF Next, Event

\* A pull or a reconcile that succeeds was processed by the server, whatever
\* the number of sockets and calls whose late answers and abandoned listeners
\* are about.
THEOREM AnswersMeanWork == Spec => []AnsweredMeansProcessed
<1>1. Init => AnswersAreEarned
  BY DEF Init, AnswersAreEarned, AnsweredMeansProcessed, Processed
<1>2. AnswersAreEarned => AnsweredMeansProcessed
  BY DEF AnswersAreEarned
<1>3. QED
  BY <1>1, <1>2, EarnedStep, TypeCorrect, PTL DEF Spec

=============================================================================
