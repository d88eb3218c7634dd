-------------------------- MODULE PNCounterProofs --------------------------
(* Proofs about PNCounter, for every set of replicas and every bound. *)
EXTENDS TLAPS, PNCounter, FiniteSetTheorems

-----------------------------------------------------------------------------
(* merge is the join of a semilattice.                                      *)

LEMMA MaxCountsType ==
  ASSUME NEW a \in Counts, NEW b \in Counts
  PROVE  /\ MaxCounts(a, b) \in Counts
         /\ \A q \in Replica : /\ a[q] <= MaxCounts(a, b)[q]
                               /\ b[q] <= MaxCounts(a, b)[q]
                               /\ MaxCounts(a, b)[q] \in {a[q], b[q]}
BY DEF MaxCounts, Counts

LEMMA MaxCountsLaws ==
  ASSUME NEW a \in Counts, NEW b \in Counts, NEW c \in Counts
  PROVE  /\ MaxCounts(a, b) = MaxCounts(b, a)
         /\ MaxCounts(a, MaxCounts(b, c)) = MaxCounts(MaxCounts(a, b), c)
         /\ MaxCounts(a, a) = a
BY DEF MaxCounts, Counts

LEMMA MergeType ==
  ASSUME NEW c \in Counter, NEW d \in Counter
  PROVE  Merge(c, d) \in Counter
BY MaxCountsType DEF Merge, Counter

\* merge is commutative, associative and idempotent, so neither the order nor
\* the repetition of merges can matter.
THEOREM MergeSemilattice ==
  ASSUME NEW c \in Counter, NEW d \in Counter, NEW e \in Counter
  PROVE  /\ Merge(c, d) = Merge(d, c)
         /\ Merge(c, Merge(d, e)) = Merge(Merge(c, d), e)
         /\ Merge(c, c) = c
<1>1. Merge(c, d) = Merge(d, c)
  BY MaxCountsLaws DEF Merge, Counter
<1>2. Merge(c, Merge(d, e)) = Merge(Merge(c, d), e)
  BY MaxCountsLaws DEF Merge, Counter
<1>3. Merge(c, c) = c
  BY MaxCountsLaws DEF Merge, Counter
<1>4. QED
  BY <1>1, <1>2, <1>3

-----------------------------------------------------------------------------
(* The type invariant; counting updates needs the ghost sets to be finite.  *)

SeenFinite == /\ \A r \in Replica : IsFiniteSet(seen[r])
              /\ \A m \in sent : IsFiniteSet(m.seen)

LEMMA IncrementType ==
  ASSUME NEW c \in Counter, NEW r \in Replica, NEW by \in Amount
  PROVE  Increment(c, r, by) \in Counter /\ Decrement(c, r, by) \in Counter
BY AmountAssumption DEF Increment, Decrement, Counter, Counts

LEMMA NewUpdateType ==
  ASSUME TypeOK, SeenFinite, NEW r \in Replica, NEW delta \in Int
  PROVE  NewUpdate(r, delta) \in Update
<1>1. IsFiniteSet(Own(r))
  BY FS_Subset DEF Own, SeenFinite
<1>2. Cardinality(Own(r)) \in Nat
  BY <1>1, FS_CardinalityType
<1>3. QED
  BY <1>2 DEF NewUpdate, Update

LEMMA TypeInit == Init => TypeOK /\ SeenFinite
BY FS_EmptySet DEF Init, TypeOK, SeenFinite, EmptyCounter, Zero, Counter, Counts

LEMMA TypeStep == TypeOK /\ SeenFinite /\ [Next]_vars => TypeOK' /\ SeenFinite'
<1> SUFFICES ASSUME TypeOK, SeenFinite, [Next]_vars PROVE TypeOK' /\ SeenFinite'
  OBVIOUS
<1>1. ASSUME NEW r \in Replica, NEW by \in Amount, DoIncrement(r, by) \/ DoDecrement(r, by)
      PROVE  TypeOK' /\ SeenFinite'
  <2>1. PICK delta \in Int : seen' = [seen EXCEPT ![r] = @ \cup {NewUpdate(r, delta)}]
    BY <1>1, AmountAssumption DEF DoIncrement, DoDecrement
  <2>2. NewUpdate(r, delta) \in Update
    BY NewUpdateType
  <2>3. IsFiniteSet(seen[r] \cup {NewUpdate(r, delta)})
    BY FS_AddElement DEF SeenFinite
  <2>4. counter' \in [Replica -> Counter]
    BY <1>1, IncrementType DEF DoIncrement, DoDecrement, TypeOK
  <2>5. sent' = sent
    BY <1>1 DEF DoIncrement, DoDecrement
  <2> QED
    BY <2>1, <2>2, <2>3, <2>4, <2>5 DEF TypeOK, SeenFinite
<1>2. ASSUME NEW r \in Replica, Send(r) PROVE TypeOK' /\ SeenFinite'
  BY <1>2 DEF Send, TypeOK, SeenFinite, Snapshot
<1>3. ASSUME NEW r \in Replica, NEW m \in sent, Receive(r, m) PROVE TypeOK' /\ SeenFinite'
  <2>1. m.counter \in Counter /\ m.seen \in SUBSET Update
    BY DEF TypeOK, Snapshot
  <2>2. counter' \in [Replica -> Counter]
    BY <1>3, <2>1, MergeType DEF Receive, TypeOK
  <2>3. IsFiniteSet(seen[r] \cup m.seen)
    BY FS_Union DEF SeenFinite
  <2> QED
    BY <1>3, <2>1, <2>2, <2>3 DEF Receive, TypeOK, SeenFinite
<1>4. ASSUME UNCHANGED vars PROVE TypeOK' /\ SeenFinite'
  BY <1>4 DEF vars, TypeOK, SeenFinite
<1>5. QED
  BY <1>1, <1>2, <1>3, <1>4 DEF Next

\* The state of the counters and of the snapshots keeps its shape.
THEOREM TypeCorrect == Spec => []TypeOK
<1>1. Init => TypeOK /\ SeenFinite
  BY TypeInit
<1>2. TypeOK /\ SeenFinite /\ [Next]_vars => (TypeOK /\ SeenFinite)'
  BY TypeStep
<1>3. QED
  BY <1>1, <1>2, PTL DEF Spec

-----------------------------------------------------------------------------
(* OwnerAhead is inductive over TypeOK.                                     *)

\* An update changes the updater's own entry of its own counter.
LEMMA UpdateEffect ==
  ASSUME TypeOK, NEW p \in Replica, NEW by \in Amount,
         DoIncrement(p, by) \/ DoDecrement(p, by)
  PROVE  /\ \A r \in Replica : r # p => counter'[r] = counter[r]
         /\ \A q \in Replica :
              /\ counter[p].increments[q] <= counter'[p].increments[q]
              /\ counter[p].decrements[q] <= counter'[p].decrements[q]
              /\ q # p => /\ counter'[p].increments[q] = counter[p].increments[q]
                          /\ counter'[p].decrements[q] = counter[p].decrements[q]
<1>1. counter[p] \in Counter /\ by \in Nat
  BY AmountAssumption DEF TypeOK
<1>2. CASE DoIncrement(p, by)
  <2>1. counter' = [counter EXCEPT ![p] = Increment(counter[p], p, by)]
    BY <1>2 DEF DoIncrement
  <2>2. /\ Increment(counter[p], p, by).decrements = counter[p].decrements
        /\ Increment(counter[p], p, by).increments
             = [counter[p].increments EXCEPT ![p] = @ + by]
    BY <1>1 DEF Increment, Counter
  <2> QED
    BY <1>1, <2>1, <2>2 DEF TypeOK, Counter, Counts
<1>3. CASE DoDecrement(p, by)
  <2>1. counter' = [counter EXCEPT ![p] = Decrement(counter[p], p, by)]
    BY <1>3 DEF DoDecrement
  <2>2. /\ Decrement(counter[p], p, by).increments = counter[p].increments
        /\ Decrement(counter[p], p, by).decrements
             = [counter[p].decrements EXCEPT ![p] = @ + by]
    BY <1>1 DEF Decrement, Counter
  <2> QED
    BY <1>1, <2>1, <2>2 DEF TypeOK, Counter, Counts
<1>4. QED
  BY <1>2, <1>3

LEMMA MergeRaises ==
  ASSUME NEW c \in Counter, NEW d \in Counter, NEW q \in Replica
  PROVE  /\ c.increments[q] <= Merge(c, d).increments[q]
         /\ c.decrements[q] <= Merge(c, d).decrements[q]
         /\ Merge(c, d).increments[q] \in {c.increments[q], d.increments[q]}
         /\ Merge(c, d).decrements[q] \in {c.decrements[q], d.decrements[q]}
BY MaxCountsType DEF Merge, Counter

\* The steps only ever raise counts: NeverForgets holds of each of them.
LEMMA StepRaises ==
  ASSUME TypeOK, [Next]_vars, NEW r \in Replica, NEW q \in Replica
  PROVE  /\ counter[r].increments[q] <= counter'[r].increments[q]
         /\ counter[r].decrements[q] <= counter'[r].decrements[q]
<1>0. \A p \in Replica :
        /\ counter[p] \in Counter
        /\ counter[p].increments[q] \in Nat /\ counter[p].decrements[q] \in Nat
  BY DEF TypeOK, Counter, Counts
<1>1. ASSUME NEW p \in Replica, NEW by \in Amount, DoIncrement(p, by) \/ DoDecrement(p, by)
      PROVE  /\ counter[r].increments[q] <= counter'[r].increments[q]
             /\ counter[r].decrements[q] <= counter'[r].decrements[q]
  BY <1>0, <1>1, UpdateEffect
<1>2. ASSUME NEW p \in Replica, Send(p) \/ UNCHANGED vars
      PROVE  /\ counter[r].increments[q] <= counter'[r].increments[q]
             /\ counter[r].decrements[q] <= counter'[r].decrements[q]
  BY <1>0, <1>2 DEF Send, vars
<1>3. ASSUME NEW p \in Replica, NEW m \in sent, Receive(p, m)
      PROVE  /\ counter[r].increments[q] <= counter'[r].increments[q]
             /\ counter[r].decrements[q] <= counter'[r].decrements[q]
  <2>1. m.counter \in Counter
    BY DEF TypeOK, Snapshot
  <2>2. counter'[r] = IF r = p THEN Merge(counter[p], m.counter) ELSE counter[r]
    BY <1>3 DEF Receive, TypeOK
  <2> QED
    BY <1>0, <2>1, <2>2, MergeRaises
<1>4. QED
  BY <1>1, <1>2, <1>3 DEF Next

LEMMA OwnerInit == Init => OwnerAhead
BY DEF Init, OwnerAhead, Bounded, EmptyCounter, Zero

LEMMA OwnerStep == TypeOK /\ TypeOK' /\ OwnerAhead /\ [Next]_vars => OwnerAhead'
<1> SUFFICES ASSUME TypeOK, TypeOK', OwnerAhead, [Next]_vars PROVE OwnerAhead'
  OBVIOUS
\* What was bounded by the owners stays bounded, for the owners only count up.
<1>1. ASSUME NEW c \in Counter, Bounded(c, counter) PROVE Bounded(c, counter')
  <2> SUFFICES ASSUME NEW q \in Replica
               PROVE  /\ c.increments[q] <= counter'[q].increments[q]
                      /\ c.decrements[q] <= counter'[q].decrements[q]
    BY DEF Bounded
  <2>1. /\ counter[q].increments[q] <= counter'[q].increments[q]
        /\ counter[q].decrements[q] <= counter'[q].decrements[q]
    BY StepRaises
  <2> QED
    BY <1>1, <2>1 DEF Bounded, TypeOK, Counter, Counts
<1>2. \A m \in sent : m.counter \in Counter /\ Bounded(m.counter, counter')
  BY <1>1 DEF OwnerAhead, TypeOK, Snapshot
<1>3. \A r \in Replica : counter[r] \in Counter /\ Bounded(counter[r], counter')
  BY <1>1 DEF OwnerAhead, TypeOK
<1>4. ASSUME NEW p \in Replica, NEW by \in Amount, DoIncrement(p, by) \/ DoDecrement(p, by)
      PROVE  OwnerAhead'
  <2>1. \A r \in Replica : r # p => counter'[r] = counter[r]
    BY <1>4, UpdateEffect
  <2>2. Bounded(counter'[p], counter')
    <3> SUFFICES ASSUME NEW q \in Replica
                 PROVE  /\ counter'[p].increments[q] <= counter'[q].increments[q]
                        /\ counter'[p].decrements[q] <= counter'[q].decrements[q]
      BY DEF Bounded
    <3>1. CASE q = p
      BY <3>1 DEF TypeOK, Counter, Counts
    <3>2. CASE q # p
      BY <1>3, <1>4, <3>2, UpdateEffect DEF Bounded
    <3>3. QED
      BY <3>1, <3>2
  <2>3. sent' = sent
    BY <1>4 DEF DoIncrement, DoDecrement
  <2> QED
    BY <1>2, <1>3, <2>1, <2>2, <2>3 DEF OwnerAhead
<1>5. ASSUME NEW p \in Replica, Send(p) PROVE OwnerAhead'
  BY <1>2, <1>3, <1>5 DEF Send, OwnerAhead
<1>6. ASSUME NEW p \in Replica, NEW m \in sent, Receive(p, m) PROVE OwnerAhead'
  <2>1. \A r \in Replica : r # p => counter'[r] = counter[r]
    BY <1>6 DEF Receive, TypeOK
  <2>2. Bounded(Merge(counter[p], m.counter), counter')
    BY <1>2, <1>3, MergeRaises DEF Bounded
  <2>3. counter'[p] = Merge(counter[p], m.counter) /\ sent' = sent
    BY <1>6 DEF Receive, TypeOK
  <2> QED
    BY <1>2, <1>3, <2>1, <2>2, <2>3 DEF OwnerAhead
<1>7. ASSUME UNCHANGED vars PROVE OwnerAhead'
  BY <1>7 DEF vars, OwnerAhead
<1>8. QED
  BY <1>4, <1>5, <1>6, <1>7 DEF Next

\* No copy and no snapshot counts more for a replica than that replica does.
THEOREM OwnerAlwaysAhead == Spec => []OwnerAhead
<1>1. Init => TypeOK /\ SeenFinite /\ OwnerAhead
  BY TypeInit, OwnerInit
<1>2. TypeOK /\ SeenFinite /\ OwnerAhead /\ [Next]_vars
        => (TypeOK /\ SeenFinite /\ OwnerAhead)'
  BY TypeStep, OwnerStep
<1>3. QED
  BY <1>1, <1>2, PTL DEF Spec

\* No step takes back a count a replica has registered.
THEOREM CountsNeverForgotten == Spec => NeverForgets
<1>1. TypeOK /\ [Next]_vars =>
        [\A r, q \in Replica :
           /\ counter[r].increments[q] <= counter'[r].increments[q]
           /\ counter[r].decrements[q] <= counter'[r].decrements[q]]_vars
  BY StepRaises
<1>2. QED
  BY <1>1, TypeCorrect, PTL DEF Spec, NeverForgets
-----------------------------------------------------------------------------
(* Strong eventual consistency.  What a copy knows of one replica is always *)
(* a stage of the history of that replica: a later stage has more updates   *)
(* and higher counts.                                                       *)

CopyOf(r) == [counter |-> counter[r], seen |-> seen[r]]

Copies == {CopyOf(r) : r \in Replica} \cup sent

\* The updates of q that have reached the copy x.
Of(x, q) == {u \in x.seen : u.replica = q}

Lower(x, y, q) == /\ x.counter.increments[q] <= y.counter.increments[q]
                  /\ x.counter.decrements[q] <= y.counter.decrements[q]

\* The copies C know stages of one history of each replica.
OneHistory(C) ==
  \A x, y \in C, q \in Replica :
    /\ Of(x, q) \subseteq Of(y, q) \/ Of(y, q) \subseteq Of(x, q)
    /\ Of(x, q) \subseteq Of(y, q) => Lower(x, y, q)

SamePart(x, y, q) == /\ Of(x, q) = Of(y, q)
                     /\ x.counter.increments[q] = y.counter.increments[q]
                     /\ x.counter.decrements[q] = y.counter.decrements[q]

OwnersKnow == \A x \in Copies, q \in Replica : Of(x, q) \subseteq Own(q)

Numbered == \A q \in Replica : \A u \in Own(q) : u.n <= Cardinality(Own(q))

HistoryInv == OneHistory(Copies) /\ OwnersKnow /\ Numbered

LEMMA CopyTypes ==
  ASSUME TypeOK
  PROVE  /\ Copies \subseteq Snapshot
         /\ \A x \in Snapshot, q \in Replica :
              x.counter.increments[q] \in Nat /\ x.counter.decrements[q] \in Nat
         /\ \A r \in Replica : CopyOf(r) \in Copies /\ Of(CopyOf(r), r) = Own(r)
BY DEF TypeOK, Copies, CopyOf, Snapshot, Counter, Counts, Of, Own

\* Copies put together from stages of a history know stages of it.
LEMMA StagesStay ==
  ASSUME NEW C, NEW D, OneHistory(C),
         \A x \in D, q \in Replica : \E y \in C : SamePart(x, y, q)
  PROVE  OneHistory(D)
BY DEF OneHistory, SamePart, Lower

\* One more stage t of the history of p, above all that were known.
LEMMA StageAdded ==
  ASSUME NEW C, C \subseteq Snapshot, NEW D, OneHistory(C),
         NEW p \in Replica, NEW t \in Snapshot,
         \A q \in Replica : q # p => \E y \in C : SamePart(t, y, q),
         \A y \in C : /\ Of(y, p) \subseteq Of(t, p) /\ ~(Of(t, p) \subseteq Of(y, p))
                      /\ Lower(y, t, p),
         \A x \in D : x = t \/ x \in C
  PROVE  OneHistory(D)
<1> SUFFICES ASSUME NEW x \in D, NEW y \in D, NEW q \in Replica
             PROVE  /\ Of(x, q) \subseteq Of(y, q) \/ Of(y, q) \subseteq Of(x, q)
                    /\ Of(x, q) \subseteq Of(y, q) => Lower(x, y, q)
  BY DEF OneHistory
<1>1. t.counter.increments[q] \in Nat /\ t.counter.decrements[q] \in Nat
  BY DEF Snapshot, Counter, Counts
<1>2. CASE q = p
  BY <1>1, <1>2 DEF OneHistory, Lower
<1>3. CASE q # p
  <2>1. \A z \in D : \E w \in C : SamePart(z, w, q)
    BY <1>3 DEF SamePart
  <2>2. PICK v \in C, w \in C : SamePart(x, v, q) /\ SamePart(y, w, q)
    BY <2>1
  <2> QED
    BY <2>2 DEF OneHistory, SamePart, Lower
<1>4. QED
  BY <1>2, <1>3

\* A merge knows of each replica what the copy with more of its updates knew.
LEMMA MergedStages ==
  ASSUME TypeOK, OneHistory(Copies), NEW x \in Copies, NEW y \in Copies, NEW q \in Replica
  PROVE  LET z == [counter |-> Merge(x.counter, y.counter), seen |-> x.seen \cup y.seen]
         IN SamePart(z, x, q) \/ SamePart(z, y, q)
<1> DEFINE z == [counter |-> Merge(x.counter, y.counter), seen |-> x.seen \cup y.seen]
<1>1. /\ x.counter \in Counter /\ y.counter \in Counter
      /\ x.counter.increments[q] \in Nat /\ x.counter.decrements[q] \in Nat
      /\ y.counter.increments[q] \in Nat /\ y.counter.decrements[q] \in Nat
  BY CopyTypes DEF Snapshot
<1>2. Of(z, q) = Of(x, q) \cup Of(y, q)
  BY DEF Of
<1>3. /\ z.counter.increments[q] = IF x.counter.increments[q] >= y.counter.increments[q]
                                     THEN x.counter.increments[q] ELSE y.counter.increments[q]
      /\ z.counter.decrements[q] = IF x.counter.decrements[q] >= y.counter.decrements[q]
                                     THEN x.counter.decrements[q] ELSE y.counter.decrements[q]
  BY DEF Merge, MaxCounts
<1>4. \/ Of(x, q) \subseteq Of(y, q) /\ Lower(x, y, q)
      \/ Of(y, q) \subseteq Of(x, q) /\ Lower(y, x, q)
  BY DEF OneHistory
<1> HIDE DEF z
<1>5. ASSUME Of(x, q) \subseteq Of(y, q) /\ Lower(x, y, q) PROVE SamePart(z, y, q)
  <2>1. Of(z, q) = Of(y, q)
    BY <1>2, <1>5
  <2>2. /\ z.counter.increments[q] = y.counter.increments[q]
        /\ z.counter.decrements[q] = y.counter.decrements[q]
    BY <1>1, <1>3, <1>5 DEF Lower
  <2> QED
    BY <2>1, <2>2 DEF SamePart
<1>6. ASSUME Of(y, q) \subseteq Of(x, q) /\ Lower(y, x, q) PROVE SamePart(z, x, q)
  <2>1. Of(z, q) = Of(x, q)
    BY <1>2, <1>6
  <2>2. /\ z.counter.increments[q] = x.counter.increments[q]
        /\ z.counter.decrements[q] = x.counter.decrements[q]
    BY <1>1, <1>3, <1>6 DEF Lower
  <2> QED
    BY <2>1, <2>2 DEF SamePart
<1>7. SamePart(z, x, q) \/ SamePart(z, y, q)
  BY <1>4, <1>5, <1>6
<1>8. QED
  BY <1>7 DEF z

LEMMA HistoryInit == Init => HistoryInv
<1> SUFFICES ASSUME Init PROVE HistoryInv
  OBVIOUS
<1>1. \A x \in Copies : x.counter = EmptyCounter /\ x.seen = {}
  BY DEF Init, Copies, CopyOf
<1>2. \A x \in Copies, q \in Replica : /\ Of(x, q) = {}
                                       /\ x.counter.increments[q] = 0
                                       /\ x.counter.decrements[q] = 0
  BY <1>1 DEF Of, EmptyCounter, Zero
<1>3. OneHistory(Copies) /\ OwnersKnow
  BY <1>2 DEF OneHistory, OwnersKnow, Lower
<1>4. Numbered
  BY DEF Init, Numbered, Own
<1>5. QED
  BY <1>3, <1>4 DEF HistoryInv

\* An update is a new stage of its replica's own history.
LEMMA UpdateStages ==
  ASSUME TypeOK, TypeOK', SeenFinite, HistoryInv, NEW p \in Replica, NEW by \in Amount,
         DoIncrement(p, by) \/ DoDecrement(p, by)
  PROVE  HistoryInv'
<1>1. PICK delta \in Int : seen' = [seen EXCEPT ![p] = @ \cup {NewUpdate(p, delta)}]
  BY AmountAssumption DEF DoIncrement, DoDecrement
<1> DEFINE u == NewUpdate(p, delta)
<1>2. u.replica = p /\ u.n = Cardinality(Own(p)) + 1
  BY DEF NewUpdate
<1>3. IsFiniteSet(Own(p)) /\ Cardinality(Own(p)) \in Nat
  BY FS_Subset, FS_CardinalityType DEF Own, SeenFinite
<1> HIDE DEF u
<1>4. u \notin Own(p)
  BY <1>2, <1>3 DEF HistoryInv, Numbered, Own, TypeOK, Update
<1>5. seen' \in [Replica -> SUBSET Update] /\ sent' = sent
      /\ \A r \in Replica : seen'[r] = IF r = p THEN seen[p] \cup {u} ELSE seen[r]
  BY <1>1 DEF DoIncrement, DoDecrement, TypeOK, u
<1>6. \A q \in Replica : Own(q)' = IF q = p THEN Own(p) \cup {u} ELSE Own(q)
  BY <1>2, <1>5 DEF Own
<1>7. Cardinality(Own(p) \cup {u}) = Cardinality(Own(p)) + 1
  BY <1>3, <1>4, FS_AddElement
<1>8. Numbered'
  <2> SUFFICES ASSUME NEW q \in Replica, NEW v \in Own(q)' PROVE v.n <= Cardinality(Own(q)')
    BY DEF Numbered
  <2>1. CASE q # p
    BY <1>6, <2>1 DEF HistoryInv, Numbered
  <2>2. CASE q = p
    <3>1. v \in Own(p) => v.n \in Nat /\ v.n <= Cardinality(Own(p))
      BY DEF HistoryInv, Numbered, Own, TypeOK, Update
    <3> QED
      BY <1>2, <1>3, <1>6, <1>7, <2>2, <3>1
  <2> QED
    BY <2>1, <2>2
<1>9. \A r \in Replica : r # p => CopyOf(r)' = CopyOf(r)
  BY <1>5, UpdateEffect DEF CopyOf
<1>10. CopyOf(p)' \in Snapshot /\ Copies \subseteq Snapshot /\ CopyOf(p) \in Copies
  BY CopyTypes DEF CopyOf, TypeOK, Snapshot
<1>11. \A x \in Copies' : x = CopyOf(p)' \/ x \in Copies
  BY <1>5, <1>9 DEF Copies
<1>12. \A q \in Replica : q # p => SamePart(CopyOf(p)', CopyOf(p), q)
  BY <1>2, <1>5, UpdateEffect DEF SamePart, Of, CopyOf
<1>13. Of(CopyOf(p)', p) = Own(p) \cup {u}
  BY <1>2, <1>5 DEF Of, CopyOf, Own
<1>14. \A y \in Copies : /\ Of(y, p) \subseteq Of(CopyOf(p)', p)
                         /\ ~(Of(CopyOf(p)', p) \subseteq Of(y, p))
                         /\ Lower(y, CopyOf(p)', p)
  <2> SUFFICES ASSUME NEW y \in Copies
               PROVE  /\ Of(y, p) \subseteq Own(p)
                      /\ Lower(y, CopyOf(p)', p)
    BY <1>4, <1>13
  <2>1. Of(y, p) \subseteq Own(p)
    BY DEF HistoryInv, OwnersKnow
  <2>2. Lower(y, CopyOf(p), p)
    BY <1>10, <2>1, CopyTypes DEF HistoryInv, OneHistory
  <2>3. Lower(CopyOf(p), CopyOf(p)', p)
    BY UpdateEffect DEF Lower, CopyOf
  <2>4. /\ y.counter.increments[p] \in Nat /\ y.counter.decrements[p] \in Nat
        /\ CopyOf(p).counter.increments[p] \in Nat /\ CopyOf(p).counter.decrements[p] \in Nat
        /\ CopyOf(p)'.counter.increments[p] \in Nat /\ CopyOf(p)'.counter.decrements[p] \in Nat
    BY <1>10, CopyTypes DEF Snapshot, Counter, Counts
  <2> QED
    BY <2>1, <2>2, <2>3, <2>4 DEF Lower
<1>15. OneHistory(Copies')
  BY <1>10, <1>11, <1>12, <1>14, StageAdded DEF HistoryInv
<1>16. OwnersKnow'
  <2> SUFFICES ASSUME NEW x \in Copies', NEW q \in Replica PROVE Of(x, q) \subseteq Own(q)'
    BY DEF OwnersKnow, Of
  <2>1. CASE x \in Copies
    BY <1>6, <2>1 DEF HistoryInv, OwnersKnow
  <2>2. CASE x = CopyOf(p)'
    <3>1. q # p => Of(x, q) = Of(CopyOf(p), q) /\ Of(x, q) \subseteq Own(q)
      BY <1>10, <1>12, <2>2 DEF SamePart, HistoryInv, OwnersKnow
    <3>2. q = p => Of(x, q) = Own(p) \cup {u}
      BY <1>13, <2>2
    <3> QED
      BY <1>6, <3>1, <3>2
  <2> QED
    BY <1>11, <2>1, <2>2
<1>17. QED
  BY <1>8, <1>15, <1>16 DEF HistoryInv, OneHistory, Of, Lower

\* A receipt puts the parts of a copy together from the parts of two.
LEMMA ReceiptParts ==
  ASSUME TypeOK, HistoryInv, NEW p \in Replica, NEW m \in sent, Receive(p, m)
  PROVE  \A x \in Copies', q \in Replica : \E y \in Copies : SamePart(x, y, q)
<1>1. /\ counter' = [counter EXCEPT ![p] = Merge(@, m.counter)]
      /\ seen' = [seen EXCEPT ![p] = @ \cup m.seen] /\ sent' = sent
  BY DEF Receive
<1>2. /\ \A r \in Replica : r # p => CopyOf(r)' = CopyOf(r)
      /\ CopyOf(p)' = [counter |-> Merge(CopyOf(p).counter, m.counter),
                       seen |-> CopyOf(p).seen \cup m.seen]
  BY <1>1 DEF CopyOf, TypeOK
<1>3. m \in Copies /\ CopyOf(p) \in Copies
  BY DEF Copies
<1>4. \A q \in Replica : SamePart(CopyOf(p)', CopyOf(p), q) \/ SamePart(CopyOf(p)', m, q)
  BY <1>2, <1>3, MergedStages DEF HistoryInv
<1>5. \A x \in Copies' : x = CopyOf(p)' \/ x \in Copies
  BY <1>1, <1>2 DEF Copies
<1>6. QED
  BY <1>3, <1>4, <1>5 DEF SamePart

LEMMA HistoryStep ==
  TypeOK /\ TypeOK' /\ SeenFinite /\ HistoryInv /\ [Next]_vars => HistoryInv'
<1> SUFFICES ASSUME TypeOK, TypeOK', SeenFinite, HistoryInv, [Next]_vars PROVE HistoryInv'
  OBVIOUS
<1>1. ASSUME NEW p \in Replica, Send(p) PROVE HistoryInv'
  <2>1. Copies' \subseteq Copies /\ \A q \in Replica : Own(q)' = Own(q)
    BY <1>1 DEF Send, Copies, CopyOf, Own
  <2>2. OneHistory(Copies')
    BY <2>1 DEF HistoryInv, OneHistory
  <2> QED
    BY <2>1, <2>2 DEF HistoryInv, OwnersKnow, Numbered, OneHistory, Of, Lower
<1>2. ASSUME NEW p \in Replica, NEW m \in sent, Receive(p, m) PROVE HistoryInv'
  <2>1. /\ counter' = [counter EXCEPT ![p] = Merge(@, m.counter)]
        /\ seen' = [seen EXCEPT ![p] = @ \cup m.seen] /\ sent' = sent
    BY <1>2 DEF Receive
  <2>2. m \in Copies
    BY DEF Copies
  <2>3. \A x \in Copies', q \in Replica : \E y \in Copies : SamePart(x, y, q)
    BY <1>2, ReceiptParts
  <2>4. OneHistory(Copies')
    BY <2>3, StagesStay DEF HistoryInv
  <2>5. \A q \in Replica : Own(q)' = Own(q)
    <3>1. ASSUME NEW q \in Replica PROVE Of(m, q) \subseteq Own(q)
      BY <2>2 DEF HistoryInv, OwnersKnow
    <3> QED
      BY <2>1, <3>1 DEF Own, Of, TypeOK
  <2>6. \A x \in Copies', q \in Replica : Of(x, q) \subseteq Own(q)
    BY <2>3 DEF SamePart, HistoryInv, OwnersKnow
  <2> QED
    BY <2>4, <2>5, <2>6 DEF HistoryInv, OwnersKnow, Numbered, OneHistory, Of, Lower
<1>3. ASSUME UNCHANGED vars PROVE HistoryInv'
  <2>1. Copies' = Copies /\ \A q \in Replica : Own(q)' = Own(q)
    BY <1>3 DEF vars, Copies, CopyOf, Own
  <2> QED
    BY <2>1 DEF HistoryInv, OwnersKnow, Numbered, OneHistory, Of, Lower
<1>4. QED
  BY <1>1, <1>2, <1>3, UpdateStages DEF Next

\* Replicas that the same updates have reached hold the same counter, whatever
\* snapshots brought them.
THEOREM SameUpdatesConverge == Spec => []SameUpdatesSameState
<1>1. Init => TypeOK /\ SeenFinite /\ HistoryInv
  BY TypeInit, HistoryInit
<1>2. TypeOK /\ SeenFinite /\ HistoryInv /\ [Next]_vars => (TypeOK /\ SeenFinite /\ HistoryInv)'
  BY TypeStep, HistoryStep
<1>3. TypeOK /\ HistoryInv => SameUpdatesSameState
  <2> SUFFICES ASSUME TypeOK, HistoryInv, NEW r \in Replica, NEW s \in Replica, seen[r] = seen[s]
               PROVE  counter[r] = counter[s]
    BY DEF SameUpdatesSameState
  <2>1. \A q \in Replica : Of(CopyOf(r), q) = Of(CopyOf(s), q)
    BY DEF Of, CopyOf
  <2>2. \A q \in Replica : Lower(CopyOf(r), CopyOf(s), q) /\ Lower(CopyOf(s), CopyOf(r), q)
    BY <2>1, CopyTypes DEF HistoryInv, OneHistory
  <2>3. counter[r] \in Counter /\ counter[s] \in Counter
    BY DEF TypeOK
  <2>4. \A q \in Replica : /\ counter[r].increments[q] = counter[s].increments[q]
                           /\ counter[r].decrements[q] = counter[s].decrements[q]
    BY <2>2, <2>3 DEF Lower, CopyOf, Counter, Counts
  <2> QED
    BY <2>3, <2>4 DEF Counter, Counts
<1>4. QED
  BY <1>1, <1>2, <1>3, PTL DEF Spec

-----------------------------------------------------------------------------
(* SumFunction takes its elements out of a finite set one by one, in an     *)
(* order of its own.  A fact about all finite sets is shown by looking at a *)
(* smallest set without it.                                                 *)

Any(s) == CHOOSE x \in s : TRUE

\* g computes the sums of f over the subsets of U, taking out one element after the other.
Sums(g, f, U) ==
  g = [s \in SUBSET U |-> IF s = {} THEN 0 ELSE f[Any(s)] + g[s \ {Any(s)}]]

Total(f, U) == (CHOOSE g : Sums(g, f, U))[U]

LEMMA SumIsTotal == \A f, U : SumFunctionOnSet(f, U) = Total(f, U)
BY DEF SumFunctionOnSet, FoldFunctionOnSet, MapThenFoldSet, Total, Sums, Any

\* A smallest set among finite ones.
LEMMA SmallestSet ==
  ASSUME NEW S, NEW T, T \subseteq FiniteSubsetsOf(S), T # {}
  PROVE  \E U \in T : \A V \in T : V \subseteq U => V = U
<1>1. PICK U \in T : \A V \in T : ~ (<<V, U>> \in StrictSubsetOrdering(S))
  BY FS_StrictSubsetOrderingWellFounded, WFMin
<1>2. QED
  BY <1>1 DEF StrictSubsetOrdering, FiniteSubsetsOf

LEMMA SumsAt ==
  ASSUME NEW f, NEW U, NEW g, Sums(g, f, U), NEW s \in SUBSET U
  PROVE  g[s] = IF s = {} THEN 0 ELSE f[Any(s)] + g[s \ {Any(s)}]
BY DEF Sums

LEMMA AnyIn == \A s : s # {} => Any(s) \in s
BY DEF Any

\* Whatever else there is, the sum over s depends on the values of s only.
LEMMA SumsAgree ==
  ASSUME NEW f, NEW U, NEW g, Sums(g, f, U), NEW h, NEW V, NEW k, Sums(k, h, V),
         NEW s, IsFiniteSet(s), s \subseteq U, s \subseteq V, \A x \in s : f[x] = h[x]
  PROVE  g[s] = k[s]
<1> DEFINE T == {t \in SUBSET s : g[t] # k[t]}
<1> SUFFICES ASSUME T # {} PROVE FALSE
  OBVIOUS
<1>1. T \subseteq FiniteSubsetsOf(s)
  BY FS_Subset DEF FiniteSubsetsOf
<1> HIDE DEF T
<1>2. PICK t \in T : \A r \in T : r \subseteq t => r = t
  BY <1>1, SmallestSet
<1>3. t \in SUBSET s /\ t \in SUBSET U /\ t \in SUBSET V /\ g[t] # k[t]
  BY DEF T
<1>4. CASE t = {}
  BY <1>3, <1>4, SumsAt
<1>5. CASE t # {}
  <2>1. Any(t) \in t
    BY <1>5, AnyIn
  <2>2. g[t] = f[Any(t)] + g[t \ {Any(t)}] /\ k[t] = h[Any(t)] + k[t \ {Any(t)}]
    BY <1>3, <1>5, SumsAt
  <2>3. t \ {Any(t)} \notin T /\ t \ {Any(t)} \in SUBSET s
    BY <1>2, <1>3, <2>1
  <2>4. g[t \ {Any(t)}] = k[t \ {Any(t)}]
    BY <2>3 DEF T
  <2>5. QED
    BY <1>3, <2>1, <2>2, <2>4
<1>6. QED
  BY <1>4, <1>5

LEMMA SumsExist ==
  ASSUME NEW f, NEW S, IsFiniteSet(S)
  PROVE  \E g : Sums(g, f, S)
<1> DEFINE T == {U \in SUBSET S : ~ \E g : Sums(g, f, U)}
<1> SUFFICES ASSUME T # {} PROVE FALSE
  OBVIOUS
<1>1. T \subseteq FiniteSubsetsOf(S)
  BY FS_Subset DEF FiniteSubsetsOf
<1> HIDE DEF T
<1>2. PICK U \in T : \A V \in T : V \subseteq U => V = U
  BY <1>1, SmallestSet
<1>3. U \in SUBSET S /\ IsFiniteSet(U) /\ ~ \E g : Sums(g, f, U)
  BY FS_Subset DEF T
<1>4. \A V \in SUBSET U : V # U => \E g : Sums(g, f, V)
  BY <1>2, <1>3 DEF T
<1> DEFINE G == [V \in SUBSET U |-> CHOOSE g : Sums(g, f, V)]
           g0 == [s \in SUBSET U |-> IF s = {} THEN 0
                                     ELSE f[Any(s)] + G[s \ {Any(s)}][s \ {Any(s)}]]
<1>5. \A V \in SUBSET U : V # U => Sums(G[V], f, V)
  BY <1>4
<1> HIDE DEF G
<1>7. ASSUME NEW V \in SUBSET U, V # U PROVE g0[V] = G[V][V]
  <2>1. Sums(G[V], f, V)
    BY <1>5, <1>7
  <2>2. CASE V = {}
    BY <2>1, <2>2, SumsAt
  <2>3. CASE V # {}
    <3>1. Any(V) \in V
      BY <2>3, AnyIn
    <3>2. PICK W : W = V \ {Any(V)}
      OBVIOUS
    <3>3. W \in SUBSET V /\ W \in SUBSET U /\ W # U /\ IsFiniteSet(W)
      BY <1>3, <3>1, <3>2, FS_Subset
    <3>4. Sums(G[W], f, W)
      BY <1>5, <3>3
    <3>5. G[V][V] = f[Any(V)] + G[V][W]
      BY <2>1, <2>3, <3>2, SumsAt
    <3>6. G[V][W] = G[W][W]
      BY <2>1, <3>3, <3>4, SumsAgree
    <3>7. g0[V] = f[Any(V)] + G[W][W]
      BY <2>3, <3>2
    <3>8. QED
      BY <3>5, <3>6, <3>7
  <2>4. QED
    BY <2>2, <2>3
<1>8. \A s \in SUBSET U : s # {} => g0[s] = f[Any(s)] + g0[s \ {Any(s)}]
  <2> SUFFICES ASSUME NEW s \in SUBSET U, s # {} PROVE g0[s] = f[Any(s)] + g0[s \ {Any(s)}]
    OBVIOUS
  <2>1. Any(s) \in s /\ s \ {Any(s)} \in SUBSET U /\ s \ {Any(s)} # U
    BY AnyIn
  <2>2. g0[s \ {Any(s)}] = G[s \ {Any(s)}][s \ {Any(s)}]
    BY <1>7, <2>1
  <2>3. QED
    BY <2>2
<1>9. g0[{}] = 0
  OBVIOUS
<1>10. g0 = [s \in SUBSET U |-> g0[s]]
  OBVIOUS
<1> HIDE DEF g0
<1>11. g0 = [s \in SUBSET U |-> IF s = {} THEN 0 ELSE f[Any(s)] + g0[s \ {Any(s)}]]
  BY <1>8, <1>9, <1>10
<1>12. Sums(g0, f, U)
  BY <1>11 DEF Sums
<1>13. QED
  BY <1>3, <1>12

LEMMA TotalSums ==
  ASSUME NEW f, NEW U, IsFiniteSet(U)
  PROVE  \E g : Sums(g, f, U) /\ SumFunctionOnSet(f, U) = g[U]
<1>1. Sums(CHOOSE g : Sums(g, f, U), f, U)
  BY SumsExist
<1>2. QED
  BY <1>1, SumIsTotal DEF Total

LEMMA SumAgrees ==
  ASSUME NEW U, IsFiniteSet(U), NEW f, NEW h, \A x \in U : f[x] = h[x]
  PROVE  SumFunctionOnSet(f, U) = SumFunctionOnSet(h, U)
<1>1. PICK g : Sums(g, f, U) /\ SumFunctionOnSet(f, U) = g[U]
  BY TotalSums
<1>2. PICK k : Sums(k, h, U) /\ SumFunctionOnSet(h, U) = k[U]
  BY TotalSums
<1>3. g[U] = k[U]
  BY <1>1, <1>2, SumsAgree
<1>4. QED
  BY <1>1, <1>2, <1>3

LEMMA SumEmpty == \A f : SumFunctionOnSet(f, {}) = 0
<1> SUFFICES ASSUME NEW f PROVE SumFunctionOnSet(f, {}) = 0
  OBVIOUS
<1>1. PICK g : Sums(g, f, {}) /\ SumFunctionOnSet(f, {}) = g[{}]
  BY TotalSums, FS_EmptySet
<1>2. QED
  BY <1>1, SumsAt

LEMMA SumStep ==
  ASSUME NEW f, NEW U, IsFiniteSet(U), U # {}
  PROVE  SumFunctionOnSet(f, U) = f[Any(U)] + SumFunctionOnSet(f, U \ {Any(U)})
<1> DEFINE V == U \ {Any(U)}
<1>1. IsFiniteSet(V) /\ V \subseteq U
  BY FS_Subset
<1>2. PICK g : Sums(g, f, U) /\ SumFunctionOnSet(f, U) = g[U]
  BY TotalSums
<1>3. PICK k : Sums(k, f, V) /\ SumFunctionOnSet(f, V) = k[V]
  BY <1>1, TotalSums
<1>4. g[V] = k[V]
  BY <1>1, <1>2, <1>3, SumsAgree
<1>5. g[U] = f[Any(U)] + g[V]
  BY <1>2, SumsAt
<1>6. QED
  BY <1>2, <1>3, <1>4, <1>5

\* A sum of integers is an integer.
LEMMA SumType ==
  ASSUME NEW f, NEW S, IsFiniteSet(S), \A x \in S : f[x] \in Int
  PROVE  SumFunctionOnSet(f, S) \in Int
<1> DEFINE T == {U \in SUBSET S : SumFunctionOnSet(f, U) \notin Int}
<1> SUFFICES ASSUME T # {} PROVE FALSE
  OBVIOUS
<1>1. T \subseteq FiniteSubsetsOf(S)
  BY FS_Subset DEF FiniteSubsetsOf
<1> HIDE DEF T
<1>2. PICK U \in T : \A V \in T : V \subseteq U => V = U
  BY <1>1, SmallestSet
<1>3. U \in SUBSET S /\ IsFiniteSet(U) /\ SumFunctionOnSet(f, U) \notin Int
  BY FS_Subset DEF T
<1>4. U # {}
  BY <1>3, SumEmpty
<1>5. Any(U) \in U /\ U \ {Any(U)} \in SUBSET S /\ U \ {Any(U)} \notin T
  BY <1>2, <1>3, <1>4, AnyIn
<1>6. SumFunctionOnSet(f, U \ {Any(U)}) \in Int /\ f[Any(U)] \in Int
  BY <1>3, <1>5 DEF T
<1>7. QED
  BY <1>3, <1>4, <1>6, SumStep

\* Any element may be taken out first: the sum does not depend on the order.
LEMMA SumRemove ==
  ASSUME NEW f, NEW S, IsFiniteSet(S), \A x \in S : f[x] \in Int, NEW x \in S
  PROVE  SumFunctionOnSet(f, S) = f[x] + SumFunctionOnSet(f, S \ {x})
<1> DEFINE Sum(U) == SumFunctionOnSet(f, U)
           T == {U \in SUBSET S : \E y \in U : Sum(U) # f[y] + Sum(U \ {y})}
<1> SUFFICES ASSUME T # {} PROVE FALSE
  OBVIOUS
<1>1. T \subseteq FiniteSubsetsOf(S)
  BY FS_Subset DEF FiniteSubsetsOf
<1>2. \A U \in SUBSET S : IsFiniteSet(U) /\ Sum(U) \in Int
  BY FS_Subset, SumType
<1>3. \A U \in SUBSET S : U # {} => Any(U) \in U /\ Sum(U) = f[Any(U)] + Sum(U \ {Any(U)})
  BY <1>2, SumStep, AnyIn
<1> HIDE DEF T, Sum
<1>4. PICK U \in T : \A V \in T : V \subseteq U => V = U
  BY <1>1, SmallestSet
<1>5. U \in SUBSET S /\ \E y \in U : Sum(U) # f[y] + Sum(U \ {y})
  BY DEF T
<1>6. PICK y \in U : Sum(U) # f[y] + Sum(U \ {y})
  BY <1>5
<1>7. PICK z : z = Any(U)
  OBVIOUS
<1>8. z \in U /\ Sum(U) = f[z] + Sum(U \ {z})
  BY <1>3, <1>5, <1>6, <1>7
<1>9. y # z /\ f[y] \in Int /\ f[z] \in Int
  BY <1>5, <1>6, <1>8
<1>10. ASSUME NEW a \in U, NEW b \in U, a # b
       PROVE  Sum(U \ {a}) = f[b] + Sum((U \ {a}) \ {b})
  <2>1. U \ {a} \in SUBSET S /\ U \ {a} \notin T /\ b \in U \ {a}
    BY <1>4, <1>5, <1>10
  <2>2. QED
    BY <2>1 DEF T
<1>11. PICK W : W = (U \ {y}) \ {z} /\ W = (U \ {z}) \ {y}
  OBVIOUS
<1>12. Sum(W) \in Int
  BY <1>2, <1>5, <1>11
<1>13. Sum(U \ {y}) = f[z] + Sum(W) /\ Sum(U \ {z}) = f[y] + Sum(W)
  BY <1>6, <1>8, <1>9, <1>10, <1>11
<1>14. Sum(U) = f[y] + Sum(U \ {y})
  BY <1>8, <1>9, <1>12, <1>13
<1>15. QED
  BY <1>6, <1>14

\* The sums over disjoint sets add up.
LEMMA SumUnion ==
  ASSUME NEW f, NEW A, IsFiniteSet(A), NEW B, IsFiniteSet(B), A \cap B = {},
         \A x \in A \cup B : f[x] \in Int
  PROVE  SumFunctionOnSet(f, A \cup B) = SumFunctionOnSet(f, A) + SumFunctionOnSet(f, B)
<1> DEFINE Sum(U) == SumFunctionOnSet(f, U)
           T == {U \in SUBSET B : Sum(A \cup U) # Sum(A) + Sum(U)}
<1> SUFFICES ASSUME T # {} PROVE FALSE
  OBVIOUS
<1>1. T \subseteq FiniteSubsetsOf(B)
  BY FS_Subset DEF FiniteSubsetsOf
<1>2. \A U \in SUBSET B : /\ IsFiniteSet(U) /\ IsFiniteSet(A \cup U)
                          /\ Sum(U) \in Int /\ Sum(A \cup U) \in Int
  BY FS_Subset, FS_Union, SumType
<1>3. Sum(A) \in Int /\ Sum({}) = 0
  BY SumType, SumEmpty
<1>4. ASSUME NEW U \in SUBSET B, NEW x \in U
      PROVE  /\ Sum(U) = f[x] + Sum(U \ {x})
             /\ Sum(A \cup U) = f[x] + Sum(A \cup (U \ {x}))
  <2>1. PICK W : W = A \cup U
    OBVIOUS
  <2>2. W \ {x} = A \cup (U \ {x}) /\ x \in W /\ (\A y \in W : f[y] \in Int) /\ \A y \in U : f[y] \in Int
    BY <2>1
  <2>3. IsFiniteSet(W) /\ IsFiniteSet(U)
    BY <1>2, <2>1
  <2> HIDE DEF T
  <2>4. SumFunctionOnSet(f, W) = f[x] + SumFunctionOnSet(f, W \ {x})
    BY <2>2, <2>3, SumRemove
  <2>5. SumFunctionOnSet(f, U) = f[x] + SumFunctionOnSet(f, U \ {x})
    BY <2>2, <2>3, SumRemove
  <2>6. QED
    BY <2>1, <2>2, <2>4, <2>5
<1> HIDE DEF T, Sum
<1>5. PICK U \in T : \A V \in T : V \subseteq U => V = U
  BY <1>1, SmallestSet
<1>6. U \in SUBSET B /\ Sum(A \cup U) # Sum(A) + Sum(U)
  BY DEF T
<1>7. CASE U = {}
  <2>1. A \cup U = A
    BY <1>7
  <2>2. Sum(A \cup U) = Sum(A) /\ Sum(U) = 0
    BY <1>3, <1>7, <2>1
  <2>3. QED
    BY <1>3, <1>6, <2>2
<1>8. ASSUME NEW x \in U PROVE FALSE
  <2>1. PICK V : V = U \ {x}
    OBVIOUS
  <2>2. V \in SUBSET B /\ V \notin T /\ f[x] \in Int
    BY <1>5, <1>6, <2>1
  <2>3. Sum(A \cup V) = Sum(A) + Sum(V) /\ Sum(V) \in Int
    BY <1>2, <2>2 DEF T
  <2>4. Sum(U) = f[x] + Sum(V) /\ Sum(A \cup U) = f[x] + Sum(A \cup V)
    BY <1>4, <1>6, <2>1
  <2>5. QED
    BY <1>3, <1>6, <2>2, <2>3, <2>4
<1>9. QED
  BY <1>7, <1>8

-----------------------------------------------------------------------------
(* Every update counts once.  What a copy counts for a replica is the sum   *)
(* of the updates of that replica that have reached it.                     *)

Deltas == [u \in Update |-> u.delta]

StageSums ==
  \A x \in Copies, q \in Replica :
    SumFunctionOnSet(Deltas, Of(x, q)) = x.counter.increments[q] - x.counter.decrements[q]

LEMMA SumsInit == Init => StageSums
<1> SUFFICES ASSUME Init, NEW x \in Copies, NEW q \in Replica
             PROVE  SumFunctionOnSet(Deltas, Of(x, q))
                      = x.counter.increments[q] - x.counter.decrements[q]
  BY DEF StageSums
<1>1. x.counter = EmptyCounter /\ x.seen = {}
  BY DEF Init, Copies, CopyOf
<1>2. Of(x, q) = {} /\ x.counter.increments[q] = 0 /\ x.counter.decrements[q] = 0
  BY <1>1 DEF Of, EmptyCounter, Zero
<1>3. QED
  BY <1>2, SumEmpty

\* Parts that were right stay right wherever they are put.
LEMMA SumsStay ==
  ASSUME StageSums, \A x \in Copies', q \in Replica : \E y \in Copies : SamePart(x, y, q)
  PROVE  StageSums'
BY DEF StageSums, SamePart, Of

LEMMA OwnDelta ==
  ASSUME TypeOK, NEW p \in Replica, NEW by \in Amount, DoIncrement(p, by) \/ DoDecrement(p, by)
  PROVE  \E delta \in Int :
           /\ seen' = [seen EXCEPT ![p] = @ \cup {NewUpdate(p, delta)}] /\ sent' = sent
           /\ counter'[p].increments[p] - counter'[p].decrements[p]
                = delta + (counter[p].increments[p] - counter[p].decrements[p])
<1>1. counter[p] \in Counter /\ by \in Nat /\ -by \in Int
      /\ counter[p].increments[p] \in Nat /\ counter[p].decrements[p] \in Nat
  BY AmountAssumption DEF TypeOK, Counter, Counts
<1>2. CASE DoIncrement(p, by)
  <2>1. counter' = [counter EXCEPT ![p] = Increment(counter[p], p, by)]
    BY <1>2 DEF DoIncrement
  <2>2. /\ counter'[p].decrements[p] = counter[p].decrements[p]
        /\ counter'[p].increments[p] = counter[p].increments[p] + by
    BY <1>1, <2>1 DEF Increment, Counter, Counts, TypeOK
  <2>3. /\ seen' = [seen EXCEPT ![p] = @ \cup {NewUpdate(p, by)}] /\ sent' = sent
        /\ counter'[p].increments[p] - counter'[p].decrements[p]
             = by + (counter[p].increments[p] - counter[p].decrements[p])
    BY <1>1, <1>2, <2>2 DEF DoIncrement
  <2>4. by \in Int
    BY <1>1
  <2>5. QED
    BY <2>3, <2>4
<1>3. CASE DoDecrement(p, by)
  <2>1. counter' = [counter EXCEPT ![p] = Decrement(counter[p], p, by)]
    BY <1>3 DEF DoDecrement
  <2>2. /\ counter'[p].increments[p] = counter[p].increments[p]
        /\ counter'[p].decrements[p] = counter[p].decrements[p] + by
    BY <1>1, <2>1 DEF Decrement, Counter, Counts, TypeOK
  <2>3. /\ seen' = [seen EXCEPT ![p] = @ \cup {NewUpdate(p, -by)}] /\ sent' = sent
        /\ counter'[p].increments[p] - counter'[p].decrements[p]
             = -by + (counter[p].increments[p] - counter[p].decrements[p])
    BY <1>1, <1>3, <2>2 DEF DoDecrement
  <2>4. QED
    BY <1>1, <2>3
<1>4. QED
  BY <1>2, <1>3

LEMMA UpdateSums ==
  ASSUME TypeOK, SeenFinite, HistoryInv, StageSums, NEW p \in Replica, NEW by \in Amount,
         DoIncrement(p, by) \/ DoDecrement(p, by)
  PROVE  StageSums'
<1>1. PICK delta \in Int :
        /\ seen' = [seen EXCEPT ![p] = @ \cup {NewUpdate(p, delta)}] /\ sent' = sent
        /\ counter'[p].increments[p] - counter'[p].decrements[p]
             = delta + (counter[p].increments[p] - counter[p].decrements[p])
  BY OwnDelta
<1>2. PICK u : u = NewUpdate(p, delta)
  OBVIOUS
<1>3. u \in Update /\ u.replica = p /\ u.delta = delta /\ u.n = Cardinality(Own(p)) + 1
  BY <1>2, NewUpdateType DEF NewUpdate
<1>4. IsFiniteSet(Own(p)) /\ Cardinality(Own(p)) \in Nat /\ Own(p) \subseteq Update
  BY FS_Subset, FS_CardinalityType DEF Own, SeenFinite, TypeOK
<1>5. u \notin Own(p)
  BY <1>3, <1>4 DEF HistoryInv, Numbered, Own
<1>6. /\ \A r \in Replica : r # p => CopyOf(r)' = CopyOf(r)
      /\ CopyOf(p)'.seen = CopyOf(p).seen \cup {u}
  BY <1>1, <1>2, UpdateEffect DEF CopyOf, TypeOK
<1>7. \A x \in Copies' : x = CopyOf(p)' \/ x \in Copies
  BY <1>1, <1>6 DEF Copies
<1>8. ASSUME NEW q \in Replica, q # p PROVE SamePart(CopyOf(p)', CopyOf(p), q)
  BY <1>3, <1>6, <1>8, UpdateEffect DEF SamePart, Of, CopyOf
<1>9. SumFunctionOnSet(Deltas, Of(CopyOf(p)', p))
        = CopyOf(p)'.counter.increments[p] - CopyOf(p)'.counter.decrements[p]
  <2>1. PICK W : W = Own(p) \cup {u}
    OBVIOUS
  <2>2. Of(CopyOf(p)', p) = W /\ W \ {u} = Own(p) /\ u \in W
    BY <1>3, <1>5, <1>6, <2>1 DEF Of, Own, CopyOf
  <2>3. IsFiniteSet(W) /\ \A v \in W : Deltas[v] \in Int
    BY <1>3, <1>4, <2>1, FS_AddElement DEF Deltas, Update
  <2>4. SumFunctionOnSet(Deltas, W) = Deltas[u] + SumFunctionOnSet(Deltas, W \ {u})
    BY <2>2, <2>3, SumRemove
  <2>5. Deltas[u] = delta
    BY <1>3 DEF Deltas
  <2>6. CopyOf(p) \in Copies /\ Of(CopyOf(p), p) = Own(p)
    BY CopyTypes
  <2>7. SumFunctionOnSet(Deltas, Own(p)) = counter[p].increments[p] - counter[p].decrements[p]
    BY <2>6 DEF StageSums, CopyOf
  <2>8. QED
    BY <1>1, <2>2, <2>4, <2>5, <2>7 DEF CopyOf
<1>10. ASSUME NEW x \in Copies', NEW q \in Replica
       PROVE  SumFunctionOnSet(Deltas, Of(x, q)) = x.counter.increments[q] - x.counter.decrements[q]
  <2>1. CASE x \in Copies
    BY <2>1 DEF StageSums
  <2>2. CASE x = CopyOf(p)' /\ q = p
    BY <1>9, <2>2
  <2>3. CASE x = CopyOf(p)' /\ q # p
    <3>1. CopyOf(p) \in Copies
      BY CopyTypes
    <3>2. QED
      BY <1>8, <2>3, <3>1 DEF StageSums, SamePart
  <2>4. QED
    BY <1>7, <2>1, <2>2, <2>3
<1>11. QED
  BY <1>10 DEF StageSums, Of

LEMMA SumsStep ==
  TypeOK /\ SeenFinite /\ HistoryInv /\ StageSums /\ [Next]_vars => StageSums'
<1> SUFFICES ASSUME TypeOK, SeenFinite, HistoryInv, StageSums, [Next]_vars PROVE StageSums'
  OBVIOUS
<1>1. ASSUME NEW p \in Replica, Send(p) PROVE StageSums'
  <2>1. Copies' \subseteq Copies
    BY <1>1 DEF Send, Copies, CopyOf
  <2>2. QED
    BY <2>1, SumsStay DEF SamePart
<1>2. CASE UNCHANGED vars
  <2>1. Copies' \subseteq Copies
    BY <1>2 DEF vars, Copies, CopyOf
  <2>2. QED
    BY <2>1, SumsStay DEF SamePart
<1>3. ASSUME NEW p \in Replica, NEW m \in sent, Receive(p, m) PROVE StageSums'
  BY <1>3, ReceiptParts, SumsStay
<1>4. QED
  BY <1>1, <1>2, <1>3, UpdateSums DEF Next

\* The updates of the replicas Q sum up to what they have counted.
LEMMA PartsSum ==
  ASSUME TypeOK, SeenFinite, StageSums, NEW r \in Replica
  PROVE  SumFunctionOnSet(Deltas, seen[r])
           = SumFunctionOnSet(counter[r].increments, Replica)
               - SumFunctionOnSet(counter[r].decrements, Replica)
<1> DEFINE By(Q) == {u \in seen[r] : u.replica \in Q}
           D(Q) == SumFunctionOnSet(Deltas, By(Q))
           I(Q) == SumFunctionOnSet(counter[r].increments, Q)
           J(Q) == SumFunctionOnSet(counter[r].decrements, Q)
           T == {Q \in SUBSET Replica : D(Q) # I(Q) - J(Q)}
<1>1. /\ \A q \in Replica : counter[r].increments[q] \in Int /\ counter[r].decrements[q] \in Int
      /\ seen[r] \subseteq Update /\ IsFiniteSet(seen[r])
      /\ \A u \in Update : Deltas[u] \in Int
  BY DEF TypeOK, SeenFinite, Counter, Counts, Deltas, Update
<1>2. ASSUME NEW Q \in SUBSET Replica
      PROVE  /\ IsFiniteSet(Q) /\ IsFiniteSet(By(Q)) /\ By(Q) \subseteq Update
             /\ D(Q) \in Int /\ I(Q) \in Int /\ J(Q) \in Int
  <2>1. IsFiniteSet(Q) /\ IsFiniteSet(By(Q)) /\ By(Q) \subseteq Update
    BY <1>1, FS_Subset, ReplicaAssumption
  <2>2. I(Q) \in Int /\ J(Q) \in Int
    BY <1>1, <2>1, SumType
  <2>3. D(Q) \in Int
    BY <1>1, <2>1, SumType
  <2>4. QED
    BY <2>1, <2>2, <2>3
<1>3. ASSUME NEW Q \in SUBSET Replica, NEW q \in Q
      PROVE  /\ I(Q) = counter[r].increments[q] + I(Q \ {q})
             /\ J(Q) = counter[r].decrements[q] + J(Q \ {q})
             /\ D(Q) = D(Q \ {q}) + (counter[r].increments[q] - counter[r].decrements[q])
  <2>1. IsFiniteSet(Q) /\ Q \subseteq Replica
    BY <1>2
  <2>2. I(Q) = counter[r].increments[q] + I(Q \ {q})
    BY <1>1, <2>1, SumRemove
  <2>3. J(Q) = counter[r].decrements[q] + J(Q \ {q})
    BY <1>1, <2>1, SumRemove
  <2>4. PICK A : A = By(Q \ {q})
    OBVIOUS
  <2>5. PICK B : B = Of(CopyOf(r), q)
    OBVIOUS
  <2>6. By(Q) = A \cup B /\ A \cap B = {} /\ B = By({q})
    BY <2>4, <2>5 DEF Of, CopyOf
  <2>7. IsFiniteSet(A) /\ IsFiniteSet(B) /\ \A u \in A \cup B : Deltas[u] \in Int
    <3>1. Q \ {q} \in SUBSET Replica /\ {q} \in SUBSET Replica
      OBVIOUS
    <3>2. IsFiniteSet(A) /\ A \subseteq Update /\ IsFiniteSet(B) /\ B \subseteq Update
      BY <1>2, <2>4, <2>6, <3>1
    <3>3. QED
      BY <1>1, <3>2
  <2> HIDE DEF T
  <2>8. SumFunctionOnSet(Deltas, A \cup B) = SumFunctionOnSet(Deltas, A) + SumFunctionOnSet(Deltas, B)
    BY <2>6, <2>7, SumUnion
  <2>9. SumFunctionOnSet(Deltas, B) = counter[r].increments[q] - counter[r].decrements[q]
    <3>1. CopyOf(r) \in Copies /\ CopyOf(r).counter = counter[r]
      BY CopyTypes DEF CopyOf
    <3>2. QED
      BY <2>5, <3>1 DEF StageSums
  <2>10. QED
    BY <2>2, <2>3, <2>4, <2>6, <2>8, <2>9
<1>4. D({}) = 0 /\ I({}) = 0 /\ J({}) = 0
  <2>1. By({}) = {}
    OBVIOUS
  <2>2. QED
    BY <2>1, SumEmpty
<1>5. D(Replica) = I(Replica) - J(Replica)
  <2> SUFFICES ASSUME T # {} PROVE FALSE
    OBVIOUS
  <2>1. T \subseteq FiniteSubsetsOf(Replica)
    BY <1>2 DEF FiniteSubsetsOf
  <2> HIDE DEF T, D, I, J
  <2>2. PICK Q \in T : \A V \in T : V \subseteq Q => V = Q
    BY <2>1, SmallestSet
  <2>3. Q \in SUBSET Replica /\ D(Q) # I(Q) - J(Q)
    BY DEF T
  <2>4. CASE Q = {}
    BY <1>4, <2>3, <2>4
  <2>5. ASSUME NEW q \in Q PROVE FALSE
    <3>1. PICK V : V = Q \ {q}
      OBVIOUS
    <3>2. V \in SUBSET Replica /\ V \notin T
      BY <2>2, <2>3, <3>1
    <3>3. D(V) = I(V) - J(V) /\ I(V) \in Int /\ J(V) \in Int
      BY <1>2, <3>2 DEF T
    <3>4. /\ I(Q) = counter[r].increments[q] + I(V)
          /\ J(Q) = counter[r].decrements[q] + J(V)
          /\ D(Q) = D(V) + (counter[r].increments[q] - counter[r].decrements[q])
      BY <1>3, <2>3, <3>1
    <3>5. counter[r].increments[q] \in Int /\ counter[r].decrements[q] \in Int
      BY <1>1, <2>3
    <3>6. QED
      BY <2>3, <3>3, <3>4, <3>5
  <2>6. QED
    BY <2>4, <2>5
<1>6. By(Replica) = seen[r]
  BY <1>1 DEF Update
<1>7. QED
  BY <1>5, <1>6

\* Every update that reached a replica counts there exactly once, whichever snapshots
\* brought it, however often and in whatever order.
THEOREM EachCountedOnce == Spec => []CountedOnce
<1>1. Init => TypeOK /\ SeenFinite /\ HistoryInv /\ StageSums
  BY TypeInit, HistoryInit, SumsInit
<1>2. TypeOK /\ SeenFinite /\ HistoryInv /\ StageSums /\ [Next]_vars
        => (TypeOK /\ SeenFinite /\ HistoryInv /\ StageSums)'
  BY TypeStep, HistoryStep, SumsStep
<1>3. TypeOK /\ SeenFinite /\ StageSums => CountedOnce
  <2> SUFFICES ASSUME TypeOK, SeenFinite, StageSums, NEW r \in Replica
               PROVE  Value(counter[r]) = SumFunction([u \in seen[r] |-> u.delta])
    BY DEF CountedOnce
  <2> DEFINE h == [u \in seen[r] |-> u.delta]
  <2>1. seen[r] \subseteq Update /\ IsFiniteSet(seen[r]) /\ counter[r] \in Counter
    BY DEF TypeOK, SeenFinite
  <2>2. \A u \in seen[r] : Deltas[u] = h[u]
    BY <2>1 DEF Deltas
  <2>3. DOMAIN h = seen[r]
    OBVIOUS
  <2> HIDE DEF h
  <2>4. SumFunctionOnSet(Deltas, seen[r]) = SumFunctionOnSet(h, seen[r])
    BY <2>1, <2>2, SumAgrees
  <2>5. SumFunction(h) = SumFunctionOnSet(h, seen[r])
    BY <2>3 DEF SumFunction
  <2>6. DOMAIN counter[r].increments = Replica /\ DOMAIN counter[r].decrements = Replica
    BY <2>1 DEF Counter, Counts
  <2>7. Value(counter[r]) = SumFunctionOnSet(counter[r].increments, Replica)
                              - SumFunctionOnSet(counter[r].decrements, Replica)
    BY <2>6 DEF Value, SumFunction
  <2>8. Value(counter[r]) = SumFunction(h)
    BY <2>4, <2>5, <2>7, PartsSum
  <2>9. QED
    BY <2>8 DEF h
<1>4. QED
  BY <1>1, <1>2, <1>3, PTL DEF Spec

=============================================================================
