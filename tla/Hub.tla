-------------------------------- MODULE Hub --------------------------------
(***************************************************************************)
(* A hub of src/src/Hub.ts: publishers put messages into one queue, and    *)
(* every subscriber is a stream that takes from that queue, so a message   *)
(* reaches one of them.  The strategy says what happens at a full queue.   *)
(*                                                                         *)
(* The queue is effect's Queue, which is not in the repository: it hands a *)
(* message to the subscriber that has waited longest, suspends the         *)
(* publishers of a full "backpressure" queue in the order they came, and   *)
(* lets them go on as space appears.  Stream.fromQueue takes what there is *)
(* as one chunk, and waits for a single message if there is nothing.       *)
(*                                                                         *)
(* Messages are numbered in the order of the calls that publish them.      *)
(***************************************************************************)
EXTENDS Integers, Sequences, SequencesExt, FiniteSets

CONSTANTS
  Strategy,     \* the strategies to choose from: [tag, capacity]
  Publisher,    \* fibers that publish
  Subscriber,   \* fibers that run a stream of the hub
  Nobody,       \* the caller of unsafePublish, who does not wait
  ChunkSize,    \* the most messages a stream takes at once
  MaxMessages,  \* bound: messages
  MaxBatch,     \* bound: messages of one call
  MaxStops      \* bound: streams ended and publishers interrupted

ASSUME StrategyAssumption ==
  Strategy \subseteq [tag : {"unbounded", "sliding", "dropping", "backpressure"},
                      capacity : Nat \ {0}]
ASSUME CallerAssumption == Nobody \notin Publisher
ASSUME BoundAssumption == {MaxMessages, MaxBatch, MaxStops} \subseteq Nat
ASSUME ChunkAssumption == ChunkSize \in Nat \ {0}

VARIABLES
  strategy,    \* the strategy the hub was made with
  queue,       \* the messages in the queue
  takers,      \* the subscribers that wait for a message, in the order they came
  putters,     \* the messages of suspended publishers, each with its publisher
  publisher,   \* publisher[p]: "idle" or "suspended"
  subscriber,  \* subscriber[s]: the control point of its stream
  chunk,       \* chunk[s]: the messages s has taken and not handled
  handled,     \* handled[s]: the messages s has handled, in order
  published,   \* the number of messages so far
  dropped,     \* ghost: messages the strategy has dropped
  abandoned,   \* ghost: messages in the hands of a fiber that ended
  stops        \* ends and interrupts so far

hubVars == <<strategy, queue, takers, putters>>
ghostVars == <<published, dropped, abandoned, stops>>
vars == <<hubVars, publisher, subscriber, chunk, handled, ghostVars>>

Init ==
  /\ strategy \in Strategy
  /\ queue = <<>> /\ takers = <<>> /\ putters = <<>>
  /\ publisher = [p \in Publisher |-> "idle"]
  /\ subscriber = [s \in Subscriber |-> "off"]
  /\ chunk = [s \in Subscriber |-> <<>>]
  /\ handled = [s \in Subscriber |-> <<>>]
  /\ published = 0
  /\ dropped = {} /\ abandoned = {}
  /\ stops = 0

-----------------------------------------------------------------------------
(* Publishing.                                                              *)

Least(m, n) == IF m <= n THEN m ELSE n

Prefix(s, n) == SubSeq(s, 1, Least(n, Len(s)))
Rest(s, n) == SubSeq(s, n + 1, Len(s))

\* s without its entries from place i to place j.
Without(s, i, j) == Prefix(s, i - 1) \o Rest(s, j)

Payload(puts) == [i \in DOMAIN puts |-> puts[i].message]

\* The messages that wait in the hub, oldest first.
Backlog == queue \o Payload(putters)

\* How many more messages the queue q can hold.
Room(q) == IF strategy.tag = "unbounded" THEN MaxMessages ELSE strategy.capacity - Len(q)

\* Queue.size: the messages that wait, less the subscribers that wait for one.
Size == Len(Backlog) - Len(takers)

\* Mutant of Enters: what does not fit is dropped under every strategy.
EntersIfRoom(ms, p) ==
  /\ queue' = queue \o Prefix(ms, Room(queue))
  /\ dropped' = dropped \cup ToSet(Rest(ms, Room(queue)))
  /\ UNCHANGED <<putters, publisher>>

\* What does not fit replaces the oldest, is dropped, or waits with p.
Enters(ms, p) ==
  LET surplus == Rest(ms, Room(queue))
      all == queue \o ms
  IN CASE surplus = <<>> ->
            /\ queue' = all
            /\ UNCHANGED <<putters, publisher, dropped>>
       [] surplus # <<>> /\ strategy.tag = "sliding" ->
            /\ queue' = Rest(all, Len(all) - strategy.capacity)
            /\ dropped' = dropped \cup ToSet(Prefix(all, Len(all) - strategy.capacity))
            /\ UNCHANGED <<putters, publisher>>
       [] surplus # <<>> /\ strategy.tag = "dropping" ->
            /\ queue' = Prefix(all, strategy.capacity)
            /\ dropped' = dropped \cup ToSet(surplus)
            /\ UNCHANGED <<putters, publisher>>
       [] surplus # <<>> /\ strategy.tag = "backpressure" ->
            /\ queue' = Prefix(all, strategy.capacity)
            /\ putters' = putters \o [i \in DOMAIN surplus |->
                                        [message |-> surplus[i], publisher |-> p]]
            /\ publisher' = [q \in Publisher |-> IF q = p THEN "suspended" ELSE publisher[q]]
            /\ UNCHANGED dropped

\* publish and publishAll: the first messages go to the subscribers that wait,
\* who wait at an empty queue only.
Publish(p, n) ==
  LET ms == [i \in 1..n |-> published + i]
      served == IF queue = <<>> THEN Prefix(takers, n) ELSE <<>>
      Served(s) == \E i \in DOMAIN served : served[i] = s
      Share(s) == ms[CHOOSE i \in DOMAIN served : served[i] = s]
  IN /\ p # Nobody => publisher[p] = "idle"
     /\ published + n <= MaxMessages
     /\ published' = published + n
     /\ takers' = Rest(takers, Len(served))
     /\ chunk' = [s \in Subscriber |-> IF Served(s) THEN <<Share(s)>> ELSE chunk[s]]
     /\ subscriber' = [s \in Subscriber |-> IF Served(s) THEN "running" ELSE subscriber[s]]
     /\ Enters(Rest(ms, Len(served)), p)
     /\ UNCHANGED <<strategy, handled, abandoned, stops>>

\* A suspended publisher is interrupted: what it has not put yet, a run of messages
\* that came with one call, is withdrawn.
Interrupt(p) ==
  LET own == {i \in DOMAIN putters : putters[i].publisher = p}
  IN /\ publisher[p] = "suspended" /\ stops < MaxStops
     /\ stops' = stops + 1
     /\ \E i, j \in own : own = i .. j /\ putters' = Without(putters, i, j)
     /\ abandoned' = abandoned \cup {putters[i].message : i \in own}
     /\ publisher' = [publisher EXCEPT ![p] = "idle"]
     /\ UNCHANGED <<strategy, queue, takers, subscriber, chunk, handled, published, dropped>>

-----------------------------------------------------------------------------
(* Subscribing: hub.subscribe() run by a fiber.                             *)

Subscribe(s) ==
  /\ subscriber[s] = "off"
  /\ subscriber' = [subscriber EXCEPT ![s] = "pulling"]
  /\ UNCHANGED <<hubVars, publisher, chunk, handled, ghostVars>>

\* Mutants of Takes: nobody looks after the suspended publishers; their messages
\* enter at the front; the messages taken stay in the queue.
TakesAndLeaves(s, n) ==
  /\ chunk' = [chunk EXCEPT ![s] = Prefix(queue, n)]
  /\ subscriber' = [subscriber EXCEPT ![s] = "running"]
  /\ queue' = Rest(queue, Least(n, Len(queue)))
  /\ UNCHANGED <<putters, publisher>>

TakesAndOvertakes(s, n) ==
  LET left == Rest(queue, Least(n, Len(queue)))
      entering == Prefix(putters, Room(left))
      staying == Rest(putters, Len(entering))
  IN /\ chunk' = [chunk EXCEPT ![s] = Prefix(queue, n)]
     /\ subscriber' = [subscriber EXCEPT ![s] = "running"]
     /\ queue' = Payload(entering) \o left
     /\ putters' = staying
     /\ publisher' = [p \in Publisher |->
                        IF \E put \in ToSet(staying) : put.publisher = p
                          THEN "suspended" ELSE "idle"]

TakesACopy(s, n) ==
  /\ chunk' = [chunk EXCEPT ![s] = Prefix(queue, n)]
  /\ subscriber' = [subscriber EXCEPT ![s] = "running"]
  /\ UNCHANGED <<queue, putters, publisher>>

\* s takes up to n messages from the queue; suspended publishers fill the room.
Takes(s, n) ==
  LET left == Rest(queue, Least(n, Len(queue)))
      entering == Prefix(putters, Room(left))
      staying == Rest(putters, Len(entering))
  IN /\ chunk' = [chunk EXCEPT ![s] = Prefix(queue, n)]
     /\ subscriber' = [subscriber EXCEPT ![s] = "running"]
     /\ queue' = left \o Payload(entering)
     /\ putters' = staying
     /\ publisher' = [p \in Publisher |->
                        IF \E put \in ToSet(staying) : put.publisher = p
                          THEN "suspended" ELSE "idle"]

\* takeUpTo: all there is, as one chunk; or go on to take.
TakeUpTo(s) ==
  /\ subscriber[s] = "pulling"
  /\ IF queue # <<>>
       THEN Takes(s, ChunkSize)
       ELSE /\ subscriber' = [subscriber EXCEPT ![s] = "taking"]
            /\ UNCHANGED <<queue, putters, publisher, chunk>>
  /\ UNCHANGED <<strategy, takers, handled, ghostVars>>

\* take: one message, or wait for one.  Another fiber may have run since.
Take(s) ==
  /\ subscriber[s] = "taking"
  /\ IF queue # <<>>
       THEN Takes(s, 1) /\ UNCHANGED takers
       ELSE /\ subscriber' = [subscriber EXCEPT ![s] = "waiting"]
            /\ takers' = Append(takers, s)
            /\ UNCHANGED <<queue, putters, publisher, chunk>>
  /\ UNCHANGED <<strategy, handled, ghostVars>>

\* Mutants of Handle: the stream does not pull again; it is not told apart
\* whether the chunk is used up.
HandleAndWait(s) ==
  /\ subscriber[s] = "running"
  /\ handled' = [handled EXCEPT ![s] = Append(@, Head(chunk[s]))]
  /\ chunk' = [chunk EXCEPT ![s] = Tail(@)]
  /\ subscriber' = [subscriber EXCEPT ![s] = IF Len(chunk[s]) = 1 THEN "waiting" ELSE @]
  /\ UNCHANGED <<hubVars, publisher, ghostVars>>

HandleAndPull(s) ==
  /\ subscriber[s] = "running"
  /\ handled' = [handled EXCEPT ![s] = Append(@, Head(chunk[s]))]
  /\ chunk' = [chunk EXCEPT ![s] = Tail(@)]
  /\ subscriber' = [subscriber EXCEPT ![s] = "pulling"]
  /\ UNCHANGED <<hubVars, publisher, ghostVars>>

\* The program handles one message; after the last, the stream pulls again.
Handle(s) ==
  /\ subscriber[s] = "running"
  /\ handled' = [handled EXCEPT ![s] = Append(@, Head(chunk[s]))]
  /\ chunk' = [chunk EXCEPT ![s] = Tail(@)]
  /\ subscriber' = [subscriber EXCEPT ![s] = IF Len(chunk[s]) = 1 THEN "pulling" ELSE @]
  /\ UNCHANGED <<hubVars, publisher, ghostVars>>

\* The stream ends (Stream.take, an interrupt): what it has taken is gone.
Stop(s) ==
  /\ subscriber[s] # "off" /\ stops < MaxStops
  /\ stops' = stops + 1
  /\ subscriber' = [subscriber EXCEPT ![s] = "off"]
  /\ \/ s \notin ToSet(takers) /\ UNCHANGED takers
     \/ \E i \in DOMAIN takers : takers[i] = s /\ takers' = Without(takers, i, i)
  /\ abandoned' = abandoned \cup ToSet(chunk[s])
  /\ chunk' = [chunk EXCEPT ![s] = <<>>]
  /\ UNCHANGED <<strategy, queue, putters, publisher, handled, published, dropped>>

StreamStep(s) == TakeUpTo(s) \/ Take(s) \/ Handle(s)

Next ==
  \/ \E p \in Publisher \cup {Nobody}, n \in 1..MaxBatch : Publish(p, n)
  \/ \E p \in Publisher : Interrupt(p)
  \/ \E s \in Subscriber : Subscribe(s) \/ StreamStep(s) \/ Stop(s)

Spec == Init /\ [][Next]_vars

\* A stream that runs goes on.  Nobody has to publish or to subscribe.
FairSpec == Spec /\ \A s \in Subscriber : WF_vars(StreamStep(s))

-----------------------------------------------------------------------------
(* Properties.                                                              *)

Messages == 1..published

\* The shape of the state.
TypeOK ==
  /\ strategy \in Strategy
  /\ queue \in Seq(Messages)
  /\ takers \in Seq(Subscriber)
  /\ putters \in Seq([message : Messages, publisher : Publisher \cup {Nobody}])
  /\ publisher \in [Publisher -> {"idle", "suspended"}]
  /\ subscriber \in [Subscriber -> {"off", "pulling", "taking", "waiting", "running"}]
  /\ chunk \in [Subscriber -> Seq(Messages)]
  /\ \A s \in Subscriber : chunk[s] # <<>> <=> subscriber[s] = "running"
  /\ handled \in [Subscriber -> Seq(Messages)]
  /\ published \in Nat /\ stops \in Nat
  /\ dropped \subseteq Messages /\ abandoned \subseteq Messages

\* What s has got.
Got(s) == handled[s] \o chunk[s]

\* The places where message m is.
SubscriberPlaces(m) ==
  UNION {{<<s, i>> : i \in {j \in DOMAIN Got(s) : Got(s)[j] = m}} : s \in Subscriber}

Places(m) ==
  {<<"hub", i>> : i \in {j \in DOMAIN Backlog : Backlog[j] = m}}
    \cup SubscriberPlaces(m)
    \cup (IF m \in dropped THEN {<<"dropped", 0>>} ELSE {})
    \cup (IF m \in abandoned THEN {<<"abandoned", 0>>} ELSE {})

\* No message is lost or delivered twice, whatever the publishers and the
\* subscribers do: it waits, or one subscriber has it, or the strategy has
\* dropped it, or the fiber that had it has ended.
OnePlace == \A m \in Messages : Cardinality(Places(m)) = 1

Increasing(q) == \A i, j \in DOMAIN q : i < j => q[i] < q[j]

\* First in, first out, across all subscribers: what waits is in the order of
\* the calls, suspended publishers included; each subscriber gets its messages
\* in that order; and what anybody has got is older than all that waits.
InOrder ==
  /\ Increasing(Backlog)
  /\ \A s \in Subscriber :
       /\ Increasing(Got(s))
       /\ \A i \in DOMAIN Got(s), j \in DOMAIN Backlog : Got(s)[i] < Backlog[j]

\* No wakeup is lost: no subscriber waits while a message is there, and no
\* publisher while there is room.  So the size of a hub tells the backlog if it
\* is positive, and the number of waiting subscribers if it is negative.
NobodyWaitsInVain ==
  /\ takers = <<>> \/ Backlog = <<>>
  /\ putters = <<>> \/ Room(queue) = 0
  /\ \A s \in Subscriber : subscriber[s] = "waiting" <=> s \in ToSet(takers)
  /\ \A p \in Publisher :
       publisher[p] = "suspended" <=> \E put \in ToSet(putters) : put.publisher = p
  /\ Size > 0 <=> Backlog # <<>>

\* A message is dropped by a full hub only: the oldest there is by a sliding
\* one, the newest by a dropping one, and none by the others.
DropsByStrategy ==
  [][\A m \in dropped' \ dropped :
       /\ Len(queue') = strategy.capacity
       /\ \/ strategy.tag = "sliding" /\ \A w \in ToSet(queue') : m < w
          \/ strategy.tag = "dropping" /\ \A w \in ToSet(queue') : w < m]_vars

\* As long as somebody listens, every message leaves the hub and is handled,
\* unless it is dropped or its holder ends; so no publisher stays suspended.
EveryMessageSettles ==
  (\E s \in Subscriber : <>[](subscriber[s] # "off")) =>
    \A m \in 1..MaxMessages :
      []<>(m > published \/ m \in dropped \cup abandoned
                        \/ \E s \in Subscriber : m \in ToSet(handled[s]))

=============================================================================
