----------------------------- MODULE PNCounter -----------------------------
(***************************************************************************)
(* The class PNCounter of src/src/Core.ts, used as a state-based CRDT:     *)
(* replicas update their own copy, hand out snapshots of it, and merge any *)
(* snapshot at any time, so snapshots are lost, repeated and reordered.    *)
(* A Map entry that is absent reads as 0, so the maps are total functions. *)
(***************************************************************************)
EXTENDS Integers, FiniteSets, Functions

CONSTANTS
  Replica,    \* the replica identifiers
  Amount,     \* the values passed as "by"
  MaxUpdates, \* bound: updates of one replica
  MaxSent     \* bound: snapshots

ASSUME ReplicaAssumption == IsFiniteSet(Replica)
ASSUME AmountAssumption == Amount \subseteq Nat
ASSUME BoundAssumption == {MaxUpdates, MaxSent} \subseteq Nat

Counts == [Replica -> Nat]

Counter == [increments : Counts, decrements : Counts]

Zero == [r \in Replica |-> 0]

EmptyCounter == [increments |-> Zero, decrements |-> Zero]

Increment(c, r, by) == [c EXCEPT !.increments[r] = @ + by]

\* Mutant of Decrement: there is one map for both directions.
DecrementInPlace(c, r, by) == [c EXCEPT !.increments[r] = @ - by]

Decrement(c, r, by) == [c EXCEPT !.decrements[r] = @ + by]

Value(c) == SumFunction(c.increments) - SumFunction(c.decrements)

\* Mutants of MaxCounts: merging adds the counts up; it takes the other's.
AddCounts(a, b) == [r \in Replica |-> a[r] + b[r]]

TakeCounts(a, b) == b

\* Entry by entry the larger count.
MaxCounts(a, b) == [r \in Replica |-> IF a[r] >= b[r] THEN a[r] ELSE b[r]]

Merge(c, d) == [increments |-> MaxCounts(c.increments, d.increments),
                decrements |-> MaxCounts(c.decrements, d.decrements)]

-----------------------------------------------------------------------------
VARIABLES
  counter,  \* counter[r]: the counter replica r holds
  seen,     \* ghost: seen[r]: the updates that have reached r
  sent      \* the snapshots handed out, with the updates they contain

vars == <<counter, seen, sent>>

\* The n-th update of a replica adds delta to the counter.
Update == [replica : Replica, n : Nat, delta : Int]

Init ==
  /\ counter = [r \in Replica |-> EmptyCounter]
  /\ seen = [r \in Replica |-> {}]
  /\ sent = {}

Own(r) == {u \in seen[r] : u.replica = r}

NewUpdate(r, delta) == [replica |-> r, n |-> Cardinality(Own(r)) + 1, delta |-> delta]

DoIncrement(r, by) ==
  /\ Cardinality(Own(r)) < MaxUpdates
  /\ counter' = [counter EXCEPT ![r] = Increment(@, r, by)]
  /\ seen' = [seen EXCEPT ![r] = @ \cup {NewUpdate(r, by)}]
  /\ UNCHANGED sent

DoDecrement(r, by) ==
  /\ Cardinality(Own(r)) < MaxUpdates
  /\ counter' = [counter EXCEPT ![r] = Decrement(@, r, by)]
  /\ seen' = [seen EXCEPT ![r] = @ \cup {NewUpdate(r, -by)}]
  /\ UNCHANGED sent

Send(r) ==
  /\ Cardinality(sent) < MaxSent
  /\ sent' = sent \cup {[counter |-> counter[r], seen |-> seen[r]]}
  /\ UNCHANGED <<counter, seen>>

Receive(r, m) ==
  /\ counter' = [counter EXCEPT ![r] = Merge(@, m.counter)]
  /\ seen' = [seen EXCEPT ![r] = @ \cup m.seen]
  /\ UNCHANGED sent

Next ==
  \E r \in Replica :
    \/ \E by \in Amount : DoIncrement(r, by) \/ DoDecrement(r, by)
    \/ Send(r)
    \/ \E m \in sent : Receive(r, m)

Spec == Init /\ [][Next]_vars

-----------------------------------------------------------------------------
(* Properties.                                                              *)

Snapshot == [counter : Counter, seen : SUBSET Update]

\* The shape of the state.
TypeOK ==
  /\ counter \in [Replica -> Counter]
  /\ seen \in [Replica -> SUBSET Update]
  /\ sent \in SUBSET Snapshot

Bounded(c, owners) ==
  \A q \in Replica : /\ c.increments[q] <= owners[q].increments[q]
                     /\ c.decrements[q] <= owners[q].decrements[q]

\* merge takes maxima, which is only right because nobody else ever counts
\* more for a replica than the replica itself: not its peers, and no snapshot
\* however old, repeated or passed on.
OwnerAhead ==
  /\ \A r \in Replica : Bounded(counter[r], counter)
  /\ \A m \in sent : Bounded(m.counter, counter)

\* Every update that reached a replica counts there exactly once, whichever
\* snapshots brought it and in whatever order.
CountedOnce ==
  \A r \in Replica :
    Value(counter[r]) = SumFunction([u \in seen[r] |-> u.delta])

\* Strong eventual consistency: the same updates make the same counter.
SameUpdatesSameState ==
  \A r, s \in Replica : seen[r] = seen[s] => counter[r] = counter[s]

\* No step takes back a count a replica has registered.
NeverForgets ==
  [][\A r, q \in Replica :
       /\ counter[r].increments[q] <= counter'[r].increments[q]
       /\ counter[r].decrements[q] <= counter'[r].decrements[q]]_vars

=============================================================================
