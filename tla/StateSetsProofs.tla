-------------------------- MODULE StateSetsProofs --------------------------
(* Proofs about StateSets and the classes it shares. *)
EXTENDS TLAPS, StateSets

-----------------------------------------------------------------------------
(* Each operation of a class returns an object of the class.                *)

Typed == now \in Nat /\ class \in Class

LEMMA EmptyType ==
  ASSUME Typed
  PROVE  Empty(class) \in Object
BY ClassAssumption DEF Typed, Empty, Object, GS!Empty, TP!Empty, LW!Empty, OS!Empty,
   TS!Empty, OM!Empty, LW!Nothing, OS!Nothing, TS!Nothing

LEMMA AddedType ==
  ASSUME Typed, NEW x \in Object, NEW r \in Replica, NEW id \in Id
  PROVE  Added(x, r, id) \in Object
<1> DEFINE value == <<r, now>>
           element == [value |-> value, timestamp |-> now, replicaId |-> r]
<1>1. value \in Replica \X Nat /\ element \in Element
  BY DEF Typed, Element
<1>2. CASE class = "GSet"
  BY <1>2 DEF Added, Object, GS!Add
<1>3. CASE class = "TwoPhaseSet"
  BY <1>3 DEF Added, Object, TP!Add
<1>4. CASE class = "OrderedSet"
  <2>1. x \in [elements : [Id -> Element \cup {None}], tombstones : SUBSET Id]
    BY <1>4 DEF Object
  <2>2. OS!Add(x, id, element) \in [elements : [Id -> Element \cup {None}], tombstones : SUBSET Id]
    BY <1>1, <2>1 DEF OS!Add
  <2>3. QED
    BY <1>4, <2>2 DEF Added, Object
<1>5. CASE class = "TombstoneSet"
  <2>1. x \in [elements : [Id -> Element \cup {None}], tombstones : [Id -> Tombstone \cup {None}]]
    BY <1>5 DEF Object
  <2>2. TS!Add(x, id, element) \in [elements : [Id -> Element \cup {None}], tombstones : [Id -> Tombstone \cup {None}]]
    BY <1>1, <2>1 DEF TS!Add
  <2>3. QED
    BY <1>5, <2>2 DEF Added, Object
<1>6. CASE class = "ORMap"
  <2>1. OM!Entry(value, now, None) \in MapEntry
    BY <1>1 DEF Typed, OM!Entry, MapEntry
  <2>2. OM!Put(x, id, value, now) \in [Id -> MapEntry \cup {None}]
    BY <1>6, <2>1 DEF Object, OM!Put
  <2>3. QED
    BY <1>6, <2>2 DEF Added, Object
<1>7. CASE class = "LWWRegister"
  <2>1. LW!Set(x, id, element) \in [Id -> Element \cup {None}]
    BY <1>1, <1>7 DEF Object, LW!Set
  <2>2. QED
    BY <1>7, <2>1 DEF Added, Object
<1>8. QED
  BY <1>2, <1>3, <1>4, <1>5, <1>6, <1>7, ClassAssumption DEF Typed

LEMMA RemovedType ==
  ASSUME Typed, class \notin {"GSet", "LWWRegister"}, NEW x \in Object, NEW r \in Replica, NEW id \in Id
  PROVE  Removed(x, r, id) \in Object
<1> DEFINE tombstone == [timestamp |-> now, replicaId |-> r]
<1>1. tombstone \in Tombstone
  BY DEF Typed, Tombstone
<1>2. CASE class = "TwoPhaseSet"
  BY <1>2 DEF Removed, Object, TP!Remove
<1>3. CASE class = "OrderedSet"
  BY <1>3 DEF Removed, Object, OS!Remove
<1>4. CASE class = "TombstoneSet"
  <2>1. x \in [elements : [Id -> Element \cup {None}], tombstones : [Id -> Tombstone \cup {None}]]
    BY <1>4 DEF Object
  <2>2. TS!Remove(x, id, tombstone) \in [elements : [Id -> Element \cup {None}], tombstones : [Id -> Tombstone \cup {None}]]
    BY <1>1, <2>1 DEF TS!Remove
  <2>3. QED
    BY <1>4, <2>2 DEF Removed, Object
<1>5. CASE class = "ORMap"
  <2>1. x \in [Id -> MapEntry \cup {None}]
    BY <1>5 DEF Object
  <2>2. CASE OM!IsVisible(x, id)
    <3>1. x[id] \in MapEntry
      BY <2>1, <2>2 DEF OM!IsVisible
    <3>2. [x[id] EXCEPT !.removed = now] \in MapEntry
      BY <3>1 DEF MapEntry, Typed
    <3>3. OM!Remove(x, id, now) = [x EXCEPT ![id] = [x[id] EXCEPT !.removed = now]]
      BY <2>1, <2>2 DEF OM!Remove
    <3>4. QED
      BY <1>5, <2>1, <3>2, <3>3 DEF Removed, Object
  <2>3. QED
    BY <1>5, <2>2 DEF Removed, OM!Remove
<1>6. QED
  BY <1>2, <1>3, <1>4, <1>5, ClassAssumption DEF Typed

LEMMA MergedType ==
  ASSUME Typed, NEW x \in Object, NEW y \in Object
  PROVE  Merged(x, y) \in Object
<1>1. CASE class = "GSet"
  BY <1>1 DEF Merged, Object, GS!Merge
<1>2. CASE class = "TwoPhaseSet"
  BY <1>2 DEF Merged, Object, TP!Merge
<1>3. CASE class = "OrderedSet"
  <2>1. OS!MergeMaps(x.elements, y.elements) \in [Id -> Element \cup {None}]
    BY <1>3 DEF Object, OS!MergeMaps, OS!LaterOf
  <2>2. QED
    BY <1>3, <2>1 DEF Merged, Object, OS!Merge
<1>4. CASE class = "TombstoneSet"
  <2>1. TS!MergeMaps(x.elements, y.elements) \in [Id -> Element \cup {None}]
    BY <1>4 DEF Object, TS!MergeMaps, TS!LaterOf
  <2>2. TS!MergeMaps(x.tombstones, y.tombstones) \in [Id -> Tombstone \cup {None}]
    BY <1>4 DEF Object, TS!MergeMaps, TS!LaterOf
  <2>3. TS!Merge(x, y) \in [elements : [Id -> Element \cup {None}], tombstones : [Id -> Tombstone \cup {None}]]
    BY <2>1, <2>2 DEF TS!Merge
  <2>4. QED
    BY <1>4, <2>3 DEF Merged, Object
<1>5. CASE class = "ORMap"
  BY <1>5 DEF Merged, Object, OM!Merge
<1>6. CASE class = "LWWRegister"
  BY <1>6 DEF Merged, Object, LW!Merge
<1>7. QED
  BY <1>1, <1>2, <1>3, <1>4, <1>5, <1>6, ClassAssumption DEF Typed

\* An object of a class stays one as time goes on.
LEMMA ObjectStays ==
  ASSUME Typed, Tick
  PROVE  Object \subseteq Object' /\ Update \subseteq Update'
<1>1. now' = now + 1 /\ class' = class /\ now \in Nat
  BY DEF Tick, Typed
<1>2. 0..now \subseteq 0..now'
  BY <1>1
<1>3. Element \subseteq Element' /\ Tombstone \subseteq Tombstone' /\ Update \subseteq Update'
  BY <1>2 DEF Element, Tombstone, Update
<1>4. MapEntry \subseteq MapEntry'
  BY <1>1, <1>2 DEF MapEntry
<1>5. QED
  BY <1>1, <1>3, <1>4, ClassAssumption DEF Object, Typed

-----------------------------------------------------------------------------
(* Type correctness.                                                        *)

LEMMA TypeInit == Init => TypeOK
BY EmptyType DEF Init, TypeOK, Typed, Update

LEMMA TypeChange ==
  ASSUME TypeOK, NEW r \in Replica, NEW id \in Id, NEW op \in {"add", "remove"},
         NEW updated \in Object, Change(r, op, id, updated)
  PROVE  TypeOK'
<1>1. UNCHANGED <<class, now>> /\ Object' = Object /\ Update' = Update
  BY DEF Change, Object, Element, Tombstone, MapEntry, Update
<1>2. [op |-> op, id |-> id, timestamp |-> now, replicaId |-> r] \in Update
  BY DEF TypeOK, Update
<1>3. QED
  BY <1>1, <1>2 DEF Change, TypeOK

LEMMA TypeStep == TypeOK /\ [Next]_vars => TypeOK'
<1> SUFFICES ASSUME TypeOK, [Next]_vars
             PROVE  TypeOK'
  OBVIOUS
<1>0. Typed
  BY DEF TypeOK, Typed
<1>1. CASE Tick
  BY <1>0, <1>1, ObjectStays DEF Tick, TypeOK
<1>2. ASSUME NEW r \in Replica, NEW id \in Id, Add(r, id)
      PROVE  TypeOK'
  <2>1. Added(copy[r], r, id) \in Object
    BY <1>0, AddedType DEF TypeOK
  <2>2. QED
    BY <1>2, <2>1, TypeChange DEF Add
<1>3. ASSUME NEW r \in Replica, NEW id \in Id, Remove(r, id)
      PROVE  TypeOK'
  <2>1. Removed(copy[r], r, id) \in Object
    BY <1>0, <1>3, RemovedType DEF TypeOK, Remove
  <2>2. QED
    BY <1>3, <2>1, TypeChange DEF Remove
<1>4. ASSUME UNCHANGED <<class, now>>
      PROVE  Object' = Object /\ Update' = Update
  BY <1>4 DEF Object, Element, Tombstone, MapEntry, Update
<1>5. ASSUME NEW r \in Replica, Send(r)
      PROVE  TypeOK'
  BY <1>4, <1>5 DEF Send, TypeOK
<1>6. ASSUME NEW r \in Replica, NEW m \in sent, Receive(r, m)
      PROVE  TypeOK'
  <2>1. Merged(copy[r], m.copy) \in Object
    BY <1>0, MergedType DEF TypeOK
  <2>2. QED
    BY <1>4, <1>6, <2>1 DEF Receive, TypeOK
<1>7. CASE UNCHANGED vars
  BY <1>4, <1>7 DEF vars, TypeOK
<1>8. QED
  BY <1>1, <1>2, <1>3, <1>5, <1>6, <1>7 DEF Next

\* Objects keep the shape of their class, for any replicas, ids and bounds,
\* and at whatever times updates come.
THEOREM TypeCorrect ==
  Spec => []TypeOK
BY TypeInit, TypeStep, PTL DEF Spec

-----------------------------------------------------------------------------
(***************************************************************************)
(* Strong eventual consistency of the set and map classes: an object        *)
(* reflects the updates that have reached it, every operation preserves     *)
(* that, and what is read follows from it.                                  *)
(***************************************************************************)

-----------------------------------------------------------------------------
(* What an object tells of the updates S it reflects.                       *)

Adds(S, id) == {u \in S : u.op = "add" /\ u.id = id}

Removals(S, id) == {u \in S : u.op = "remove" /\ u.id = id}

AddOf(id, e) ==
  [op |-> "add", id |-> id, timestamp |-> e.timestamp, replicaId |-> e.replicaId]

\* The entry e comes from an add of S.
IsAdd(e, S, id) == AddOf(id, e) \in S /\ e.value = <<e.replicaId, e.timestamp>>

GSReflects(x, S) == \A id \in Id : /\ id \in x <=> Adds(S, id) # {}
                                   /\ Removals(S, id) = {}

TPReflects(x, S) == \A id \in Id : /\ id \in x.additions <=> Adds(S, id) # {}
                                   /\ id \in x.removals <=> Removals(S, id) # {}

OSReflectsAt(e, tombstones, S, id) ==
  /\ id \in tombstones <=> Removals(S, id) # {}
  /\ e = None => Adds(S, id) = {}
  /\ e # None => IsAdd(e, S, id) /\ \A v \in Adds(S, id) : NotLater(v, e)

OSReflects(x, S) ==
  \A id \in Id : OSReflectsAt(x.elements[id], x.tombstones, S, id)

\* A register is an element that nobody removes.
LWReflects(x, S) == \A id \in Id : OSReflectsAt(x[id], {}, S, id)

\* An add or a removal without an entry has been outlived by the other entry.
TSReflectsAt(e, t, S, id) ==
  /\ e = None => \A v \in Adds(S, id) : t # None /\ v.timestamp <= t.timestamp
  /\ t = None => \A d \in Removals(S, id) : e # None /\ d.timestamp < e.timestamp
  /\ e # None =>
       /\ IsAdd(e, S, id)
       /\ \A v \in Adds(S, id) : \/ NotLater(v, e)
                                 \/ t # None /\ v.timestamp <= t.timestamp
  /\ t # None =>
       /\ \E d \in Removals(S, id) : d.timestamp = t.timestamp
       /\ \A d \in Removals(S, id) : d.timestamp <= t.timestamp

TSReflects(x, S) ==
  \A id \in Id : TSReflectsAt(x.elements[id], x.tombstones[id], S, id)

OMReflectsAt(e, S, id) ==
  /\ e = None => Adds(S, id) = {} /\ Removals(S, id) = {}
  /\ e # None =>
       /\ \A u \in Adds(S, id) \cup Removals(S, id) : u.timestamp <= OM!Latest(e)
       /\ e.removed = None =>
            \E v \in Adds(S, id) : v.timestamp = e.added /\ e.value = <<v.replicaId, v.timestamp>>
       /\ e.removed # None => \E d \in Removals(S, id) : d.timestamp = e.removed

OMReflects(x, S) == \A id \in Id : OMReflectsAt(x[id], S, id)

Reflects(x, S) ==
  /\ class = "GSet" => GSReflects(x, S)
  /\ class = "TwoPhaseSet" => TPReflects(x, S)
  /\ class = "LWWRegister" => LWReflects(x, S)
  /\ class = "OrderedSet" => OSReflects(x, S)
  /\ class = "TombstoneSet" => TSReflects(x, S)
  /\ class = "ORMap" => OMReflects(x, S)

\* No two updates of a key fall in one millisecond.
OneAtATime(S) ==
  \A u, v \in S : u.id = v.id /\ u.timestamp = v.timestamp => u = v

ReflectInv ==
  /\ TypeOK
  /\ \A r \in Replica : Reflects(copy[r], seen[r])
  /\ \A m \in sent : Reflects(m.copy, m.seen) /\ m.seen \subseteq Made
  /\ class = "ORMap" => OneAtATime(Made)

-----------------------------------------------------------------------------
(* Sets of updates.                                                         *)

AnyUpdate == [op : {"add", "remove"}, id : Id, timestamp : Nat, replicaId : Replica]

AnyElement == [value : Replica \X Nat, timestamp : Nat, replicaId : Replica]

AnyTombstone == [timestamp : Nat, replicaId : Replica]

AnyEntry == [value : Replica \X Nat, added : Nat, removed : Nat \cup {None}]

LEMMA UpdatesOf ==
  ASSUME NEW S \in SUBSET AnyUpdate, NEW id
  PROVE  /\ \A v \in Adds(S, id) \cup Removals(S, id) :
              /\ v \in S /\ v.id = id
              /\ v.timestamp \in Nat /\ v.replicaId \in Replica
         /\ \A v \in Adds(S, id) : v.op = "add"
         /\ \A d \in Removals(S, id) : d.op = "remove"
BY DEF Adds, Removals, AnyUpdate

LEMMA UnionOfUpdates ==
  ASSUME NEW S, NEW T, NEW id
  PROVE  /\ Adds(S \cup T, id) = Adds(S, id) \cup Adds(T, id)
         /\ Removals(S \cup T, id) = Removals(S, id) \cup Removals(T, id)
         /\ Adds(S \cup T, id) = {} <=> Adds(S, id) = {} /\ Adds(T, id) = {}
         /\ Removals(S \cup T, id) = {} <=> Removals(S, id) = {} /\ Removals(T, id) = {}
<1>1. /\ Adds(S \cup T, id) = Adds(S, id) \cup Adds(T, id)
      /\ Removals(S \cup T, id) = Removals(S, id) \cup Removals(T, id)
  BY DEF Adds, Removals
<1>2. \A A, B : A \cup B = {} <=> A = {} /\ B = {}
  OBVIOUS
<1>3. QED
  BY <1>1, <1>2

\* One more update is an add or a removal of its own id and of no other.
LEMMA OneMore ==
  ASSUME NEW S, NEW u, NEW id
  PROVE  /\ u.id # id => /\ Adds(S \cup {u}, id) = Adds(S, id)
                         /\ Removals(S \cup {u}, id) = Removals(S, id)
         /\ u.id = id /\ u.op = "add" => /\ Adds(S \cup {u}, id) = Adds(S, id) \cup {u}
                                         /\ Removals(S \cup {u}, id) = Removals(S, id)
         /\ u.id = id /\ u.op = "remove" => /\ Adds(S \cup {u}, id) = Adds(S, id)
                                            /\ Removals(S \cup {u}, id) = Removals(S, id) \cup {u}
BY DEF Adds, Removals

LEMMA NotLaterTransitive ==
  ASSUME NEW u, NEW v, NEW w,
         u.timestamp \in Nat, v.timestamp \in Nat, w.timestamp \in Nat,
         u.replicaId \in Replica, v.replicaId \in Replica, w.replicaId \in Replica,
         NotLater(u, v), NotLater(v, w)
  PROVE  NotLater(u, w)
BY RankAssumption DEF NotLater

-----------------------------------------------------------------------------
(* Merging reflects the updates of both.                                    *)

\* LaterOf returns one of the two entries, and neither is later.
LEMMA LaterOfIsLast ==
  ASSUME NEW m, NEW o,
         m # None => m.timestamp \in Nat /\ m.replicaId \in Replica,
         o # None => o.timestamp \in Nat /\ o.replicaId \in Replica
  PROVE  LET e == OS!LaterOf(m, o)
         IN /\ e \in {m, o}
            /\ e = None => m = None /\ o = None
            /\ m # None => e # None /\ NotLater(m, e) /\ m.timestamp <= e.timestamp
            /\ o # None => e # None /\ NotLater(o, e) /\ o.timestamp <= e.timestamp
BY RankAssumption DEF OS!LaterOf, OS!Later, NotLater

LEMMA GSMergeReflects ==
  ASSUME NEW x, NEW y, NEW S, NEW T, GSReflects(x, S), GSReflects(y, T)
  PROVE  GSReflects(GS!Merge(x, y), S \cup T)
<1> SUFFICES ASSUME NEW id \in Id
             PROVE  /\ id \in x \cup y <=> Adds(S \cup T, id) # {}
                    /\ Removals(S \cup T, id) = {}
  BY DEF GSReflects, GS!Merge
<1>1. /\ id \in x <=> Adds(S, id) # {}
      /\ id \in y <=> Adds(T, id) # {}
      /\ Removals(S, id) = {} /\ Removals(T, id) = {}
  BY DEF GSReflects
<1>2. QED
  BY <1>1, UnionOfUpdates

LEMMA TPMergeReflects ==
  ASSUME NEW x, NEW y, NEW S, NEW T, TPReflects(x, S), TPReflects(y, T)
  PROVE  TPReflects(TP!Merge(x, y), S \cup T)
<1> SUFFICES ASSUME NEW id \in Id
             PROVE  /\ id \in x.additions \cup y.additions <=> Adds(S \cup T, id) # {}
                    /\ id \in x.removals \cup y.removals <=> Removals(S \cup T, id) # {}
  BY DEF TPReflects, TP!Merge
<1>1. /\ id \in x.additions <=> Adds(S, id) # {}
      /\ id \in x.removals <=> Removals(S, id) # {}
      /\ id \in y.additions <=> Adds(T, id) # {}
      /\ id \in y.removals <=> Removals(T, id) # {}
  BY DEF TPReflects
<1>2. QED
  BY <1>1, UnionOfUpdates

LEMMA OSMergeReflectsAt ==
  ASSUME NEW id, NEW S \in SUBSET AnyUpdate, NEW T \in SUBSET AnyUpdate,
         NEW m \in AnyElement \cup {None}, NEW o \in AnyElement \cup {None},
         NEW p, NEW q,
         OSReflectsAt(m, p, S, id), OSReflectsAt(o, q, T, id)
  PROVE  OSReflectsAt(OS!LaterOf(m, o), p \cup q, S \cup T, id)
<1>0. /\ Adds(S \cup T, id) = Adds(S, id) \cup Adds(T, id)
      /\ Removals(S \cup T, id) = Removals(S, id) \cup Removals(T, id)
  BY UnionOfUpdates
<1> DEFINE e == OS!LaterOf(m, o)
<1>1. /\ m # None => m.timestamp \in Nat /\ m.replicaId \in Replica
      /\ o # None => o.timestamp \in Nat /\ o.replicaId \in Replica
  BY DEF AnyElement
<1>2. /\ e \in {m, o}
      /\ e = None => m = None /\ o = None
      /\ m # None => e # None /\ NotLater(m, e)
      /\ o # None => e # None /\ NotLater(o, e)
  BY <1>1, LaterOfIsLast
<1> HIDE DEF e
<1>3. id \in p \cup q <=> Removals(S \cup T, id) # {}
  BY <1>0 DEF OSReflectsAt
<1>4. ASSUME e = None
      PROVE  Adds(S \cup T, id) = {}
  BY <1>2, <1>4, <1>0 DEF OSReflectsAt
<1>5. ASSUME e # None
      PROVE  IsAdd(e, S \cup T, id)
  BY <1>2, <1>5 DEF OSReflectsAt, IsAdd
<1>6. ASSUME e # None, NEW v \in Adds(S \cup T, id)
      PROVE  NotLater(v, e)
  <2>1. v.timestamp \in Nat /\ v.replicaId \in Replica
    BY DEF Adds, Removals, AnyUpdate
  <2>2. e.timestamp \in Nat /\ e.replicaId \in Replica
    BY <1>1, <1>2, <1>6
  <2>3. CASE v \in Adds(S, id)
    <3>1. m # None /\ NotLater(v, m)
      BY <2>3 DEF OSReflectsAt
    <3>2. QED
      BY <1>1, <1>2, <2>1, <2>2, <3>1, NotLaterTransitive
  <2>4. CASE v \in Adds(T, id)
    <3>1. o # None /\ NotLater(v, o)
      BY <2>4 DEF OSReflectsAt
    <3>2. QED
      BY <1>1, <1>2, <2>1, <2>2, <3>1, NotLaterTransitive
  <2>5. QED
    BY <2>3, <2>4, <1>0
<1>7. QED
  BY <1>3, <1>4, <1>5, <1>6 DEF OSReflectsAt, e

\* A register that is as late as another is the same: merge keeps the later of them.
LEMMA LWMergeReflectsAt ==
  ASSUME NEW id, NEW S \in SUBSET AnyUpdate, NEW T \in SUBSET AnyUpdate,
         NEW m \in AnyElement \cup {None}, NEW o \in AnyElement \cup {None},
         OSReflectsAt(m, {}, S, id), OSReflectsAt(o, {}, T, id)
  PROVE  OSReflectsAt(IF o # None /\ (m # None => ~LW!Later(m, o)) THEN o ELSE m,
                      {}, S \cup T, id)
<1> DEFINE e == IF o # None /\ (m # None => ~LW!Later(m, o)) THEN o ELSE m
<1>1. OSReflectsAt(OS!LaterOf(m, o), {} \cup {}, S \cup T, id)
  BY OSMergeReflectsAt
<1>2. ASSUME m # None, o # None, ~LW!Later(m, o), ~OS!Later(o, m)
      PROVE  m = o
  <2>1. /\ m \in AnyElement /\ o \in AnyElement
        /\ m.value = <<m.replicaId, m.timestamp>> /\ o.value = <<o.replicaId, o.timestamp>>
    BY <1>2 DEF OSReflectsAt, IsAdd
  <2>2. m.timestamp = o.timestamp /\ m.replicaId = o.replicaId
    BY <1>2, <2>1, RankAssumption DEF LW!Later, OS!Later, AnyElement
  <2>3. QED
    BY <2>1, <2>2 DEF AnyElement
<1>3. m # None /\ o # None => (LW!Later(m, o) => ~OS!Later(o, m))
  BY RankAssumption DEF LW!Later, OS!Later, AnyElement
<1>4. e = OS!LaterOf(m, o)
  BY <1>2, <1>3 DEF OS!LaterOf
<1> HIDE DEF e
<1>5. OSReflectsAt(e, {}, S \cup T, id)
  BY <1>1, <1>4
<1>6. QED
  BY <1>5 DEF e

\* Of an element and a tombstone, merge keeps the later one, and both if they
\* are equally late.
LEMMA TSMergeReflectsAt ==
  ASSUME NEW id, NEW S \in SUBSET AnyUpdate, NEW T \in SUBSET AnyUpdate,
         NEW m \in AnyElement \cup {None}, NEW o \in AnyElement \cup {None},
         NEW p \in AnyTombstone \cup {None}, NEW q \in AnyTombstone \cup {None},
         TSReflectsAt(m, p, S, id), TSReflectsAt(o, q, T, id)
  PROVE  LET e == OS!LaterOf(m, o)
             t == OS!LaterOf(p, q)
         IN TSReflectsAt(
              IF e # None /\ t # None /\ t.timestamp > e.timestamp THEN None ELSE e,
              IF t # None /\ e # None /\ e.timestamp > t.timestamp THEN None ELSE t,
              S \cup T, id)
<1>0. /\ Adds(S \cup T, id) = Adds(S, id) \cup Adds(T, id)
      /\ Removals(S \cup T, id) = Removals(S, id) \cup Removals(T, id)
  BY UnionOfUpdates
<1> DEFINE e == OS!LaterOf(m, o)
           t == OS!LaterOf(p, q)
           left == IF e # None /\ t # None /\ t.timestamp > e.timestamp THEN None ELSE e
           tomb == IF t # None /\ e # None /\ e.timestamp > t.timestamp THEN None ELSE t
<1>1. /\ m # None => m.timestamp \in Nat /\ m.replicaId \in Replica
      /\ o # None => o.timestamp \in Nat /\ o.replicaId \in Replica
      /\ p # None => p.timestamp \in Nat /\ p.replicaId \in Replica
      /\ q # None => q.timestamp \in Nat /\ q.replicaId \in Replica
  BY DEF AnyElement, AnyTombstone
<1>2. /\ e \in {m, o}
      /\ e = None => m = None /\ o = None
      /\ m # None => e # None /\ NotLater(m, e) /\ m.timestamp <= e.timestamp
      /\ o # None => e # None /\ NotLater(o, e) /\ o.timestamp <= e.timestamp
  BY <1>1, LaterOfIsLast
<1>3. /\ t \in {p, q}
      /\ t = None => p = None /\ q = None
      /\ p # None => t # None /\ p.timestamp <= t.timestamp
      /\ q # None => t # None /\ q.timestamp <= t.timestamp
  BY <1>1, LaterOfIsLast
<1> HIDE DEF e, t
<1>4. /\ e # None => e.timestamp \in Nat /\ e.replicaId \in Replica
      /\ t # None => t.timestamp \in Nat
  BY <1>1, <1>2, <1>3
\* What each add and each removal of either side says of the later entries.
<1>5. ASSUME NEW v \in Adds(S \cup T, id)
      PROVE  /\ v.timestamp \in Nat
             /\ \/ e # None /\ NotLater(v, e) /\ v.timestamp <= e.timestamp
                \/ t # None /\ v.timestamp <= t.timestamp
  <2>1. v.timestamp \in Nat /\ v.replicaId \in Replica
    BY DEF Adds, Removals, AnyUpdate
  <2>2. CASE v \in Adds(S, id)
    <3>1. \/ m # None /\ NotLater(v, m)
          \/ p # None /\ v.timestamp <= p.timestamp
      BY <2>2 DEF TSReflectsAt
    <3>2. CASE p # None /\ v.timestamp <= p.timestamp
      BY <1>1, <1>3, <1>4, <2>1, <3>2
    <3>3. CASE m # None /\ NotLater(v, m)
      <4>1. e # None /\ NotLater(v, e)
        BY <1>1, <1>2, <1>4, <2>1, <3>3, NotLaterTransitive
      <4>2. QED
        BY <1>4, <2>1, <4>1 DEF NotLater
    <3>4. QED
      BY <3>1, <3>2, <3>3
  <2>3. CASE v \in Adds(T, id)
    <3>1. \/ o # None /\ NotLater(v, o)
          \/ q # None /\ v.timestamp <= q.timestamp
      BY <2>3 DEF TSReflectsAt
    <3>2. CASE q # None /\ v.timestamp <= q.timestamp
      BY <1>1, <1>3, <1>4, <2>1, <3>2
    <3>3. CASE o # None /\ NotLater(v, o)
      <4>1. e # None /\ NotLater(v, e)
        BY <1>1, <1>2, <1>4, <2>1, <3>3, NotLaterTransitive
      <4>2. QED
        BY <1>4, <2>1, <4>1 DEF NotLater
    <3>4. QED
      BY <3>1, <3>2, <3>3
  <2>4. QED
    BY <2>1, <2>2, <2>3, <1>0
<1>6. ASSUME NEW d \in Removals(S \cup T, id)
      PROVE  /\ d.timestamp \in Nat
             /\ \/ e # None /\ d.timestamp < e.timestamp
                \/ t # None /\ d.timestamp <= t.timestamp
  <2>1. d.timestamp \in Nat
    BY DEF Adds, Removals, AnyUpdate
  <2>2. CASE d \in Removals(S, id)
    <3>1. \/ m # None /\ d.timestamp < m.timestamp
          \/ p # None /\ d.timestamp <= p.timestamp
      BY <2>2 DEF TSReflectsAt
    <3>2. QED
      BY <1>1, <1>2, <1>3, <1>4, <2>1, <3>1
  <2>3. CASE d \in Removals(T, id)
    <3>1. \/ o # None /\ d.timestamp < o.timestamp
          \/ q # None /\ d.timestamp <= q.timestamp
      BY <2>3 DEF TSReflectsAt
    <3>2. QED
      BY <1>1, <1>2, <1>3, <1>4, <2>1, <3>1
  <2>4. QED
    BY <2>1, <2>2, <2>3, <1>0
<1>7. left = None => \A v \in Adds(S \cup T, id) : tomb # None /\ v.timestamp <= tomb.timestamp
  BY <1>4, <1>5
<1>8. tomb = None => \A d \in Removals(S \cup T, id) : left # None /\ d.timestamp < left.timestamp
  BY <1>4, <1>6
<1>9. ASSUME left # None
      PROVE  /\ IsAdd(left, S \cup T, id)
             /\ \A v \in Adds(S \cup T, id) : \/ NotLater(v, left)
                                              \/ tomb # None /\ v.timestamp <= tomb.timestamp
  <2>1. left = e
    BY <1>9
  <2>2. IsAdd(e, S \cup T, id)
    BY <1>2, <1>9, <2>1 DEF TSReflectsAt, IsAdd
  <2>3. ASSUME NEW v \in Adds(S \cup T, id)
        PROVE  NotLater(v, e) \/ (tomb # None /\ v.timestamp <= tomb.timestamp)
    BY <1>4, <1>5, <2>3 DEF NotLater
  <2>4. QED
    BY <2>1, <2>2, <2>3
<1>10. ASSUME tomb # None
       PROVE  /\ \E d \in Removals(S \cup T, id) : d.timestamp = tomb.timestamp
              /\ \A d \in Removals(S \cup T, id) : d.timestamp <= tomb.timestamp
  <2>1. tomb = t
    BY <1>10
  <2>2. \E d \in Removals(S \cup T, id) : d.timestamp = t.timestamp
    BY <1>3, <1>10, <2>1, <1>0 DEF TSReflectsAt
  <2>3. ASSUME NEW d \in Removals(S \cup T, id)
        PROVE  d.timestamp <= t.timestamp
    <3>1. e # None => e.timestamp <= t.timestamp
      BY <1>4, <1>10
    <3>2. /\ d.timestamp \in Nat
          /\ \/ e # None /\ d.timestamp < e.timestamp
             \/ t # None /\ d.timestamp <= t.timestamp
      BY <1>6
    <3>3. QED
      BY <1>4, <1>10, <2>1, <3>1, <3>2
  <2>4. QED
    BY <2>1, <2>2, <2>3
<1> HIDE DEF left, tomb
<1>11. TSReflectsAt(left, tomb, S \cup T, id)
  BY <1>7, <1>8, <1>9, <1>10 DEF TSReflectsAt
<1>12. QED
  BY <1>11 DEF left, tomb, e, t

LEMMA OMMergeReflectsAt ==
  ASSUME NEW id, NEW S \in SUBSET AnyUpdate, NEW T \in SUBSET AnyUpdate,
         NEW m \in AnyEntry \cup {None}, NEW o \in AnyEntry \cup {None},
         OMReflectsAt(m, S, id), OMReflectsAt(o, T, id)
  PROVE  OMReflectsAt(IF o # None /\ (m # None => OM!Latest(o) > OM!Latest(m)) THEN o ELSE m,
                      S \cup T, id)
<1>0. /\ Adds(S \cup T, id) = Adds(S, id) \cup Adds(T, id)
      /\ Removals(S \cup T, id) = Removals(S, id) \cup Removals(T, id)
  BY UnionOfUpdates
<1> DEFINE e == IF o # None /\ (m # None => OM!Latest(o) > OM!Latest(m)) THEN o ELSE m
<1>1. /\ m # None => OM!Latest(m) \in Nat
      /\ o # None => OM!Latest(o) \in Nat
  BY DEF AnyEntry, OM!Latest
<1>2. e = None => m = None /\ o = None
  OBVIOUS
<1>3. /\ m # None => OM!Latest(m) <= OM!Latest(e)
      /\ o # None => OM!Latest(o) <= OM!Latest(e)
      /\ e # None => OM!Latest(e) \in Nat
  BY <1>1
<1>4. e \in {m, o}
  OBVIOUS
<1> HIDE DEF e
<1>5. e = None => Adds(S \cup T, id) = {} /\ Removals(S \cup T, id) = {}
  BY <1>2, <1>0 DEF OMReflectsAt
<1>6. ASSUME e # None, NEW u \in Adds(S \cup T, id) \cup Removals(S \cup T, id)
      PROVE  u.timestamp <= OM!Latest(e)
  <2>1. u.timestamp \in Nat
    BY DEF Adds, Removals, AnyUpdate
  <2>2. \/ m # None /\ u.timestamp <= OM!Latest(m)
        \/ o # None /\ u.timestamp <= OM!Latest(o)
    BY <1>0 DEF OMReflectsAt
  <2>3. QED
    BY <1>1, <1>3, <1>6, <2>1, <2>2
<1>7. e # None /\ e.removed = None =>
        \E v \in Adds(S \cup T, id) : v.timestamp = e.added /\ e.value = <<v.replicaId, v.timestamp>>
  BY <1>4, <1>0 DEF OMReflectsAt
<1>8. e # None /\ e.removed # None => \E d \in Removals(S \cup T, id) : d.timestamp = e.removed
  BY <1>4, <1>0 DEF OMReflectsAt
<1>9. OMReflectsAt(e, S \cup T, id)
  BY <1>5, <1>6, <1>7, <1>8 DEF OMReflectsAt
<1>10. QED
  BY <1>9 DEF e

LEMMA ObjectsAreTyped ==
  ASSUME Typed
  PROVE  /\ Update \subseteq AnyUpdate
         /\ Element \subseteq AnyElement
         /\ Tombstone \subseteq AnyTombstone
         /\ MapEntry \subseteq AnyEntry
BY DEF Typed, Update, Element, Tombstone, MapEntry, AnyUpdate, AnyElement, AnyTombstone, AnyEntry

LEMMA MergedReflects ==
  ASSUME Typed, NEW x \in Object, NEW y \in Object,
         NEW S \in SUBSET AnyUpdate, NEW T \in SUBSET AnyUpdate,
         Reflects(x, S), Reflects(y, T)
  PROVE  Reflects(Merged(x, y), S \cup T)
<1>1. CASE class = "GSet"
  BY <1>1, GSMergeReflects DEF Reflects, Merged
<1>2. CASE class = "TwoPhaseSet"
  BY <1>2, TPMergeReflects DEF Reflects, Merged
<1>3. CASE class = "OrderedSet"
  <2>1. /\ x \in [elements : [Id -> Element \cup {None}], tombstones : SUBSET Id]
        /\ y \in [elements : [Id -> Element \cup {None}], tombstones : SUBSET Id]
    BY <1>3 DEF Object
  <2>2. ASSUME NEW id \in Id
        PROVE  OSReflectsAt(OS!LaterOf(x.elements[id], y.elements[id]),
                            x.tombstones \cup y.tombstones, S \cup T, id)
    <3>1. x.elements[id] \in AnyElement \cup {None} /\ y.elements[id] \in AnyElement \cup {None}
      BY <2>1, ObjectsAreTyped
    <3>2. /\ OSReflectsAt(x.elements[id], x.tombstones, S, id)
          /\ OSReflectsAt(y.elements[id], y.tombstones, T, id)
      BY <1>3 DEF Reflects, OSReflects
    <3>3. QED
      BY <3>1, <3>2, OSMergeReflectsAt
  <2>3. OSReflects(OS!Merge(x, y), S \cup T)
    <3> SUFFICES ASSUME NEW id \in Id
                 PROVE  OSReflectsAt(OS!Merge(x, y).elements[id],
                                     OS!Merge(x, y).tombstones, S \cup T, id)
      BY DEF OSReflects
    <3>1. /\ OS!Merge(x, y).elements[id] = OS!LaterOf(x.elements[id], y.elements[id])
          /\ OS!Merge(x, y).tombstones = x.tombstones \cup y.tombstones
      BY <2>1 DEF OS!Merge, OS!MergeMaps
    <3>2. QED
      BY <2>2, <3>1
  <2>4. QED
    BY <1>3, <2>3 DEF Reflects, Merged
<1>4. CASE class = "TombstoneSet"
  <2>1. /\ x \in [elements : [Id -> Element \cup {None}], tombstones : [Id -> Tombstone \cup {None}]]
        /\ y \in [elements : [Id -> Element \cup {None}], tombstones : [Id -> Tombstone \cup {None}]]
    BY <1>4 DEF Object
  <2>2. ASSUME NEW id \in Id
        PROVE  TSReflectsAt(TS!Merge(x, y).elements[id], TS!Merge(x, y).tombstones[id],
                            S \cup T, id)
    <3> DEFINE e == OS!LaterOf(x.elements[id], y.elements[id])
               t == OS!LaterOf(x.tombstones[id], y.tombstones[id])
    <3>1. /\ x.elements[id] \in AnyElement \cup {None} /\ y.elements[id] \in AnyElement \cup {None}
          /\ x.tombstones[id] \in AnyTombstone \cup {None}
          /\ y.tombstones[id] \in AnyTombstone \cup {None}
      BY <2>1, ObjectsAreTyped
    <3>2. /\ TSReflectsAt(x.elements[id], x.tombstones[id], S, id)
          /\ TSReflectsAt(y.elements[id], y.tombstones[id], T, id)
      BY <1>4 DEF Reflects, TSReflects
    <3>3. TSReflectsAt(
            IF e # None /\ t # None /\ t.timestamp > e.timestamp THEN None ELSE e,
            IF t # None /\ e # None /\ e.timestamp > t.timestamp THEN None ELSE t,
            S \cup T, id)
      BY <3>1, <3>2, TSMergeReflectsAt
    <3>4. /\ TS!Merge(x, y).elements[id] =
               IF e # None /\ t # None /\ t.timestamp > e.timestamp THEN None ELSE e
          /\ TS!Merge(x, y).tombstones[id] =
               IF t # None /\ e # None /\ e.timestamp > t.timestamp THEN None ELSE t
      BY DEF TS!Merge, TS!MergeMaps, TS!LaterOf, TS!Later, TS!After, OS!LaterOf, OS!Later
    <3>5. QED
      BY <3>3, <3>4
  <2>3. QED
    BY <1>4, <2>2 DEF Reflects, Merged, TSReflects
<1>5. CASE class = "ORMap"
  <2>1. x \in [Id -> MapEntry \cup {None}] /\ y \in [Id -> MapEntry \cup {None}]
    BY <1>5 DEF Object
  <2>2. ASSUME NEW id \in Id
        PROVE  OMReflectsAt(OM!Merge(x, y)[id], S \cup T, id)
    <3>1. x[id] \in AnyEntry \cup {None} /\ y[id] \in AnyEntry \cup {None}
      BY <2>1, ObjectsAreTyped
    <3>2. OMReflectsAt(x[id], S, id) /\ OMReflectsAt(y[id], T, id)
      BY <1>5 DEF Reflects, OMReflects
    <3>3. OM!Merge(x, y)[id] =
            IF y[id] # None /\ (x[id] # None => OM!Latest(y[id]) > OM!Latest(x[id]))
              THEN y[id] ELSE x[id]
      BY DEF OM!Merge
    <3>4. QED
      BY <3>1, <3>2, <3>3, OMMergeReflectsAt
  <2>3. QED
    BY <1>5, <2>2 DEF Reflects, Merged, OMReflects
<1>6. CASE class = "LWWRegister"
  <2>1. x \in [Id -> Element \cup {None}] /\ y \in [Id -> Element \cup {None}]
    BY <1>6 DEF Object
  <2>2. ASSUME NEW id \in Id
        PROVE  OSReflectsAt(LW!Merge(x, y)[id], {}, S \cup T, id)
    <3>1. x[id] \in AnyElement \cup {None} /\ y[id] \in AnyElement \cup {None}
      BY <2>1, ObjectsAreTyped
    <3>2. OSReflectsAt(x[id], {}, S, id) /\ OSReflectsAt(y[id], {}, T, id)
      BY <1>6 DEF Reflects, LWReflects
    <3>3. LW!Merge(x, y)[id] =
            IF y[id] # None /\ (x[id] # None => ~LW!Later(x[id], y[id]))
              THEN y[id] ELSE x[id]
      BY DEF LW!Merge
    <3>4. QED
      BY <3>1, <3>2, <3>3, LWMergeReflectsAt
  <2>3. QED
    BY <1>6, <2>2 DEF Reflects, Merged, LWReflects
<1>7. QED
  BY <1>1, <1>2, <1>3, <1>4, <1>5, <1>6, ClassAssumption DEF Typed

-----------------------------------------------------------------------------
(* An add or a removal reflects one update more.                            *)

LEMMA EmptyReflects ==
  ASSUME Typed
  PROVE  Reflects(Empty(class), {})
<1>1. \A id : Adds({}, id) = {} /\ Removals({}, id) = {}
  BY DEF Adds, Removals
<1>2. QED
  BY <1>1, ClassAssumption
  DEF Typed, Reflects, Empty, GSReflects, TPReflects, OSReflects, OSReflectsAt, LWReflects,
      TSReflects, TSReflectsAt, OMReflects, OMReflectsAt, GS!Empty, TP!Empty, LW!Empty,
      OS!Empty, TS!Empty, OM!Empty, LW!Nothing, OS!Nothing, TS!Nothing

\* Nobody has seen an update of the future.
LEMMA SeenSoFar ==
  ASSUME TypeOK, NEW r \in Replica
  PROVE  /\ seen[r] \in SUBSET AnyUpdate
         /\ seen[r] \subseteq Made
         /\ \A v \in seen[r] : v.timestamp \in Nat /\ v.timestamp <= now
         /\ now \in Nat
BY DEF TypeOK, Update, AnyUpdate, Made

LEMMA AddedReflects ==
  ASSUME TypeOK, Settled, NEW r \in Replica, NEW id \in Id, Add(r, id),
         Reflects(copy[r], seen[r])
  PROVE  LET u == [op |-> "add", id |-> id, timestamp |-> now, replicaId |-> r]
         IN Reflects(Added(copy[r], r, id), seen[r] \cup {u})
<1> DEFINE x == copy[r]
           S == seen[r]
           u == [op |-> "add", id |-> id, timestamp |-> now, replicaId |-> r]
           value == <<r, now>>
           element == [value |-> value, timestamp |-> now, replicaId |-> r]
<1>0. /\ x \in Object /\ class \in Class
      /\ Added(x, r, id) # x /\ TellsApart(r, id, "add")
  BY DEF TypeOK, Add, Change
<1>1. /\ now \in Nat
      /\ \A v \in S : v.timestamp \in Nat /\ v.timestamp <= now
  BY SeenSoFar
<1>2. /\ Adds(S \cup {u}, id) = Adds(S, id) \cup {u}
      /\ Removals(S \cup {u}, id) = Removals(S, id)
      /\ \A i \in Id \ {id} : /\ Adds(S \cup {u}, i) = Adds(S, i)
                              /\ Removals(S \cup {u}, i) = Removals(S, i)
  BY DEF Adds, Removals
<1>3. ASSUME class \in {"LWWRegister", "OrderedSet", "TombstoneSet"}, NEW v \in S, v.id = id
      PROVE  v.timestamp < now
  <2>1. v \in Made
    BY <1>3, SeenSoFar
  <2>2. CASE v.timestamp = now
    <3>1. "add" = "remove" \/ v \notin seen[r]
      BY <1>0, <1>3, <2>1, <2>2 DEF TellsApart
    <3>2. QED
      BY <1>3, <3>1
  <2>3. QED
    BY <1>1, <1>3, <2>2
<1>4. AddOf(id, element) = u
  BY DEF AddOf
<1>5. NotLater(u, element)
  BY <1>1, RankAssumption DEF NotLater
<1> HIDE DEF x, S, u
<1>6. CASE class = "GSet"
  <2>1. GSReflects(x, S)
    BY <1>6 DEF Reflects, x, S
  <2>2. GSReflects(x \cup {id}, S \cup {u})
    BY <1>2, <2>1 DEF GSReflects
  <2>3. QED
    BY <1>6, <2>2 DEF Reflects, Added, GS!Add, x, S, u
<1>7. CASE class = "TwoPhaseSet"
  <2>1. TPReflects(x, S)
    BY <1>7 DEF Reflects, x, S
  <2>2. x \in [additions : SUBSET Id, removals : SUBSET Id]
    BY <1>0, <1>7 DEF Object
  <2>3. TPReflects([x EXCEPT !.additions = @ \cup {id}], S \cup {u})
    BY <1>2, <2>1, <2>2 DEF TPReflects
  <2>4. Added(x, r, id) = [x EXCEPT !.additions = @ \cup {id}]
    BY <1>0, <1>7 DEF Added, TP!Add
  <2>5. QED
    BY <1>7, <2>3, <2>4 DEF Reflects, x, S, u
<1>8. CASE class = "OrderedSet"
  <2>1. OSReflects(x, S)
    BY <1>8 DEF Reflects, x, S
  <2>2. x \in [elements : [Id -> Element \cup {None}], tombstones : SUBSET Id]
    BY <1>0, <1>8 DEF Object
  <2> DEFINE y == [x EXCEPT !.elements[id] = element]
  <2>3. /\ y.elements = [x.elements EXCEPT ![id] = element]
        /\ y.tombstones = x.tombstones
    BY <2>2
  <2>4. Added(x, r, id) = y
    BY <1>0, <1>8 DEF Added, OS!Add
  <2> HIDE DEF y
  <2>5. OSReflectsAt(y.elements[id], y.tombstones, S \cup {u}, id)
    <3>1. OSReflectsAt(x.elements[id], x.tombstones, S, id)
      BY <2>1 DEF OSReflects
    <3>2. y.elements[id] = element
      BY <2>2, <2>3
    <3>3. IsAdd(element, S \cup {u}, id)
      BY <1>4 DEF IsAdd
    <3>4. ASSUME NEW v \in Adds(S \cup {u}, id)
          PROVE  NotLater(v, element)
      <4>1. CASE v = u
        BY <1>5, <4>1
      <4>2. CASE v \in Adds(S, id)
        BY <1>3, <1>8, <4>2 DEF Adds, NotLater
      <4>3. QED
        BY <1>2, <4>1, <4>2
    <3>5. element # None
      BY <1>1, NoneAssumption
    <3>6. QED
      BY <1>2, <2>3, <3>1, <3>2, <3>3, <3>4, <3>5 DEF OSReflectsAt
  <2>6. ASSUME NEW i \in Id \ {id}
        PROVE  OSReflectsAt(y.elements[i], y.tombstones, S \cup {u}, i)
    <3>1. OSReflectsAt(x.elements[i], x.tombstones, S, i)
      BY <2>1 DEF OSReflects
    <3>2. y.elements[i] = x.elements[i]
      BY <2>2, <2>3
    <3>3. AddOf(i, x.elements[i]) \in S => AddOf(i, x.elements[i]) \in S \cup {u}
      OBVIOUS
    <3>4. QED
      BY <1>2, <2>3, <3>1, <3>2, <3>3 DEF OSReflectsAt, IsAdd
  <2>7. OSReflects(y, S \cup {u})
    BY <2>5, <2>6 DEF OSReflects
  <2>8. QED
    BY <1>8, <2>4, <2>7 DEF Reflects, x, S, u
<1>9. CASE class = "TombstoneSet"
  <2>1. TSReflects(x, S)
    BY <1>9 DEF Reflects, x, S
  <2>2. x \in [elements : [Id -> Element \cup {None}], tombstones : [Id -> Tombstone \cup {None}]]
    BY <1>0, <1>9 DEF Object
  <2> DEFINE y == [x EXCEPT !.elements[id] = element]
  <2>3. /\ y.elements = [x.elements EXCEPT ![id] = element]
        /\ y.tombstones = x.tombstones
    BY <2>2
  <2>4. Added(x, r, id) = y
    BY <1>0, <1>9 DEF Added, TS!Add
  <2> HIDE DEF y
  <2>5. TSReflectsAt(y.elements[id], y.tombstones[id], S \cup {u}, id)
    <3> DEFINE t == x.tombstones[id]
    <3>1. TSReflectsAt(x.elements[id], t, S, id)
      BY <2>1 DEF TSReflects
    <3>2. y.elements[id] = element /\ y.tombstones[id] = t
      BY <2>2, <2>3
    <3>3. IsAdd(element, S \cup {u}, id)
      BY <1>4 DEF IsAdd
    <3>4. ASSUME NEW v \in Adds(S \cup {u}, id)
          PROVE  NotLater(v, element)
      <4>1. CASE v = u
        BY <1>5, <4>1
      <4>2. CASE v \in Adds(S, id)
        BY <1>3, <1>9, <4>2 DEF Adds, NotLater
      <4>3. QED
        BY <1>2, <4>1, <4>2
    <3>5. \A d \in Removals(S, id) : d.timestamp < element.timestamp
      BY <1>3, <1>9 DEF Removals
    <3>6. element # None
      BY <1>1, NoneAssumption
    <3> HIDE DEF t, element
    <3>7. TSReflectsAt(element, t, S \cup {u}, id)
      BY <1>2, <3>1, <3>3, <3>4, <3>5, <3>6 DEF TSReflectsAt
    <3>8. QED
      BY <3>2, <3>7
  <2>6. ASSUME NEW i \in Id \ {id}
        PROVE  TSReflectsAt(y.elements[i], y.tombstones[i], S \cup {u}, i)
    <3>1. TSReflectsAt(x.elements[i], x.tombstones[i], S, i)
      BY <2>1 DEF TSReflects
    <3>2. y.elements[i] = x.elements[i] /\ y.tombstones[i] = x.tombstones[i]
      BY <2>2, <2>3
    <3>3. IsAdd(x.elements[i], S, i) => IsAdd(x.elements[i], S \cup {u}, i)
      BY DEF IsAdd
    <3>4. QED
      BY <1>2, <3>1, <3>2, <3>3 DEF TSReflectsAt
  <2>7. TSReflects(y, S \cup {u})
    BY <2>5, <2>6 DEF TSReflects
  <2>8. QED
    BY <1>9, <2>4, <2>7 DEF Reflects, x, S, u
<1>10. CASE class = "ORMap"
  <2>1. OMReflects(x, S)
    BY <1>10 DEF Reflects, x, S
  <2>2. x \in [Id -> MapEntry \cup {None}]
    BY <1>0, <1>10 DEF Object
  <2> DEFINE entry == OM!Entry(value, now, None)
             y == [x EXCEPT ![id] = entry]
  <2>3. Added(x, r, id) = y
    BY <1>10 DEF Added, OM!Put
  <2>4. OMReflectsAt(y[id], S \cup {u}, id)
    <3>1. y[id] = entry
      BY <2>2
    <3>2. /\ entry.removed = None /\ entry.added = now /\ entry.value = <<r, now>>
          /\ OM!Latest(entry) = now
      BY DEF OM!Entry, OM!Latest
    <3>3. entry # None
      BY <1>1, NoneAssumption DEF OM!Entry
    <3>4. \A v \in Adds(S \cup {u}, id) \cup Removals(S \cup {u}, id) : v.timestamp <= now
      BY <1>1, <1>2 DEF Adds, Removals, u
    <3>5. u \in Adds(S \cup {u}, id) /\ u.timestamp = now /\ u.replicaId = r
      BY <1>2 DEF u
    <3> HIDE DEF entry
    <3>6. QED
      BY <3>1, <3>2, <3>3, <3>4, <3>5 DEF OMReflectsAt
  <2>5. ASSUME NEW i \in Id \ {id}
        PROVE  OMReflectsAt(y[i], S \cup {u}, i)
    <3>1. OMReflectsAt(x[i], S, i)
      BY <2>1 DEF OMReflects
    <3>2. y[i] = x[i]
      BY <2>2
    <3>3. QED
      BY <1>2, <3>1, <3>2 DEF OMReflectsAt
  <2>6. OMReflects(y, S \cup {u})
    BY <2>4, <2>5 DEF OMReflects
  <2>7. QED
    BY <1>10, <2>3, <2>6 DEF Reflects, x, S, u
<1>11. CASE class = "LWWRegister"
  <2>1. LWReflects(x, S)
    BY <1>11 DEF Reflects, x, S
  <2>2. x \in [Id -> Element \cup {None}]
    BY <1>0, <1>11 DEF Object
  <2> DEFINE y == [x EXCEPT ![id] = element]
  <2>3. Added(x, r, id) = y
    BY <1>11 DEF Added, LW!Set
  <2>4. OSReflectsAt(y[id], {}, S \cup {u}, id)
    <3>1. OSReflectsAt(x[id], {}, S, id)
      BY <2>1 DEF LWReflects
    <3>2. y[id] = element
      BY <2>2
    <3>3. IsAdd(element, S \cup {u}, id)
      BY <1>4 DEF IsAdd
    <3>4. ASSUME NEW v \in Adds(S \cup {u}, id)
          PROVE  NotLater(v, element)
      <4>1. CASE v = u
        BY <1>5, <4>1
      <4>2. CASE v \in Adds(S, id)
        BY <1>3, <1>11, <4>2 DEF Adds, NotLater
      <4>3. QED
        BY <1>2, <4>1, <4>2
    <3>5. element # None
      BY <1>1, NoneAssumption
    <3> HIDE DEF y, element
    <3>6. QED
      BY <1>2, <3>1, <3>2, <3>3, <3>4, <3>5 DEF OSReflectsAt
  <2>5. ASSUME NEW i \in Id \ {id}
        PROVE  OSReflectsAt(y[i], {}, S \cup {u}, i)
    <3>1. OSReflectsAt(x[i], {}, S, i)
      BY <2>1 DEF LWReflects
    <3>2. y[i] = x[i]
      BY <2>2
    <3>3. AddOf(i, x[i]) \in S => AddOf(i, x[i]) \in S \cup {u}
      OBVIOUS
    <3> HIDE DEF y
    <3>4. QED
      BY <1>2, <3>1, <3>2, <3>3 DEF OSReflectsAt, IsAdd
  <2> HIDE DEF y
  <2>6. LWReflects(y, S \cup {u})
    BY <2>4, <2>5 DEF LWReflects
  <2>7. QED
    BY <1>11, <2>3, <2>6 DEF Reflects, x, S, u
<1>12. QED
  BY <1>0, <1>6, <1>7, <1>8, <1>9, <1>10, <1>11, ClassAssumption DEF x, S, u

\* A removal needs nothing of the times: it is no earlier than what was seen.
LEMMA RemovedReflects ==
  ASSUME TypeOK, NEW r \in Replica, NEW id \in Id, Remove(r, id),
         Reflects(copy[r], seen[r])
  PROVE  LET u == [op |-> "remove", id |-> id, timestamp |-> now, replicaId |-> r]
         IN Reflects(Removed(copy[r], r, id), seen[r] \cup {u})
<1> DEFINE x == copy[r]
           S == seen[r]
           u == [op |-> "remove", id |-> id, timestamp |-> now, replicaId |-> r]
           tombstone == [timestamp |-> now, replicaId |-> r]
<1>0. /\ x \in Object /\ class \in Class /\ class \notin {"GSet", "LWWRegister"}
      /\ Removed(x, r, id) # x
  BY DEF TypeOK, Remove, Change
<1>1. /\ now \in Nat
      /\ \A v \in S : v.timestamp \in Nat /\ v.timestamp <= now
  BY SeenSoFar
<1>2. /\ Removals(S \cup {u}, id) = Removals(S, id) \cup {u}
      /\ Adds(S \cup {u}, id) = Adds(S, id)
      /\ \A i \in Id \ {id} : /\ Adds(S \cup {u}, i) = Adds(S, i)
                              /\ Removals(S \cup {u}, i) = Removals(S, i)
  BY DEF Adds, Removals
<1>3. u.timestamp = now
  OBVIOUS
<1> HIDE DEF x, S, u
<1>4. CASE class = "TwoPhaseSet"
  <2>1. TPReflects(x, S)
    BY <1>4 DEF Reflects, x, S
  <2>2. x \in [additions : SUBSET Id, removals : SUBSET Id]
    BY <1>0, <1>4 DEF Object
  <2>3. TPReflects([x EXCEPT !.removals = @ \cup {id}], S \cup {u})
    BY <1>2, <2>1, <2>2 DEF TPReflects
  <2>4. QED
    BY <1>4, <2>3 DEF Reflects, Removed, TP!Remove, x, S, u
<1>5. CASE class = "OrderedSet"
  <2>1. OSReflects(x, S)
    BY <1>5 DEF Reflects, x, S
  <2>2. x \in [elements : [Id -> Element \cup {None}], tombstones : SUBSET Id]
    BY <1>0, <1>5 DEF Object
  <2> DEFINE y == [x EXCEPT !.tombstones = @ \cup {id}]
  <2>3. y.elements = x.elements /\ y.tombstones = x.tombstones \cup {id}
    BY <2>2
  <2> HIDE DEF y
  <2>4. ASSUME NEW i \in Id
        PROVE  OSReflectsAt(y.elements[i], y.tombstones, S \cup {u}, i)
    <3>1. OSReflectsAt(x.elements[i], x.tombstones, S, i)
      BY <2>1 DEF OSReflects
    <3>2. IsAdd(x.elements[i], S, i) => IsAdd(x.elements[i], S \cup {u}, i)
      BY DEF IsAdd
    <3>3. Adds(S \cup {u}, i) = Adds(S, i)
      BY <1>2
    <3>4. i \in y.tombstones <=> Removals(S \cup {u}, i) # {}
      BY <1>2, <2>3, <3>1 DEF OSReflectsAt
    <3>5. QED
      BY <2>3, <3>1, <3>2, <3>3, <3>4 DEF OSReflectsAt
  <2>5. OSReflects(y, S \cup {u})
    BY <2>4 DEF OSReflects
  <2>6. QED
    BY <1>5, <2>5 DEF Reflects, Removed, OS!Remove, x, S, u, y
<1>6. CASE class = "TombstoneSet"
  <2>1. TSReflects(x, S)
    BY <1>6 DEF Reflects, x, S
  <2>2. x \in [elements : [Id -> Element \cup {None}], tombstones : [Id -> Tombstone \cup {None}]]
    BY <1>0, <1>6 DEF Object
  <2> DEFINE y == [elements |-> [x.elements EXCEPT ![id] = None],
                   tombstones |-> [x.tombstones EXCEPT ![id] = tombstone]]
  <2>3. Removed(x, r, id) = y
    BY <1>0, <1>6 DEF Removed, TS!Remove
  <2>4. TSReflectsAt(y.elements[id], y.tombstones[id], S \cup {u}, id)
    <3>1. y.elements[id] = None /\ y.tombstones[id] = tombstone
      BY <2>2
    <3>2. tombstone # None /\ tombstone.timestamp = now
      BY <1>1, NoneAssumption
    <3>3. \A v \in Adds(S \cup {u}, id) : v.timestamp <= now
      BY <1>1, <1>2 DEF Adds
    <3>4. /\ u \in Removals(S \cup {u}, id)
          /\ \A d \in Removals(S \cup {u}, id) : d.timestamp <= now
      BY <1>1, <1>2, <1>3 DEF Removals
    <3> HIDE DEF tombstone
    <3>5. TSReflectsAt(None, tombstone, S \cup {u}, id)
      BY <1>3, <3>2, <3>3, <3>4 DEF TSReflectsAt
    <3>6. QED
      BY <3>1, <3>5
  <2>5. ASSUME NEW i \in Id \ {id}
        PROVE  TSReflectsAt(y.elements[i], y.tombstones[i], S \cup {u}, i)
    <3>1. TSReflectsAt(x.elements[i], x.tombstones[i], S, i)
      BY <2>1 DEF TSReflects
    <3>2. y.elements[i] = x.elements[i] /\ y.tombstones[i] = x.tombstones[i]
      BY <2>2
    <3>3. IsAdd(x.elements[i], S, i) => IsAdd(x.elements[i], S \cup {u}, i)
      BY DEF IsAdd
    <3>4. QED
      BY <1>2, <3>1, <3>2, <3>3 DEF TSReflectsAt
  <2> HIDE DEF y
  <2>6. TSReflects(y, S \cup {u})
    BY <2>4, <2>5 DEF TSReflects
  <2>7. QED
    BY <1>6, <2>3, <2>6 DEF Reflects, x, S, u
<1>7. CASE class = "ORMap"
  <2>1. OMReflects(x, S)
    BY <1>7 DEF Reflects, x, S
  <2>2. x \in [Id -> MapEntry \cup {None}]
    BY <1>0, <1>7 DEF Object
  <2>3. OM!IsVisible(x, id)
    BY <1>0, <1>7 DEF Removed, OM!Remove
  <2>4. x[id] \in MapEntry
    BY <2>2, <2>3 DEF OM!IsVisible
  <2> DEFINE entry == [x[id] EXCEPT !.removed = now]
             y == [x EXCEPT ![id] = entry]
  <2>5. Removed(x, r, id) = y
    BY <1>7, <2>2, <2>3 DEF Removed, OM!Remove
  <2>6. OMReflectsAt(y[id], S \cup {u}, id)
    <3>1. y[id] = entry
      BY <2>2
    <3>2. now # None
      BY <1>1, NoneAssumption
    <3>3. entry.removed = now /\ entry \in AnyEntry
      BY <1>1, <2>4 DEF MapEntry, AnyEntry
    <3>4. OM!Latest(entry) = now /\ entry # None
      BY <3>2, <3>3, NoneAssumption DEF OM!Latest, AnyEntry
    <3>5. \A v \in Adds(S \cup {u}, id) \cup Removals(S \cup {u}, id) : v.timestamp <= now
      BY <1>1, <1>2, <1>3 DEF Adds, Removals
    <3>6. u \in Removals(S \cup {u}, id)
      BY <1>2
    <3> HIDE DEF entry
    <3>7. QED
      BY <1>3, <3>1, <3>2, <3>3, <3>4, <3>5, <3>6 DEF OMReflectsAt
  <2>7. ASSUME NEW i \in Id \ {id}
        PROVE  OMReflectsAt(y[i], S \cup {u}, i)
    <3>1. OMReflectsAt(x[i], S, i)
      BY <2>1 DEF OMReflects
    <3>2. y[i] = x[i]
      BY <2>2
    <3>3. QED
      BY <1>2, <3>1, <3>2 DEF OMReflectsAt
  <2> HIDE DEF y
  <2>8. OMReflects(y, S \cup {u})
    BY <2>6, <2>7 DEF OMReflects
  <2>9. QED
    BY <1>7, <2>5, <2>8 DEF Reflects, x, S, u
<1>8. QED
  BY <1>0, <1>4, <1>5, <1>6, <1>7, ClassAssumption DEF x, S, u

-----------------------------------------------------------------------------
(* What is read follows from what is reflected.                             *)

\* The updates left are adds of the id; their value tells them apart.
LEMMA LeftIs ==
  ASSUME NEW S, NEW id
  PROVE  Left(S, id) =
           {u \in Adds(S, id) :
              /\ class \in {"LWWRegister", "OrderedSet", "TombstoneSet", "ORMap"} =>
                   \A v \in Adds(S, id) : NotLater(v, u)
              /\ \A d \in Removals(S, id) :
                   class \in {"TombstoneSet", "ORMap"} /\ d.timestamp < u.timestamp}
BY DEF Left, Adds, Removals

LEMMA LastIsUnique ==
  ASSUME NEW S \in SUBSET AnyUpdate, NEW id, NEW u \in Adds(S, id), NEW v \in Adds(S, id),
         NotLater(u, v), NotLater(v, u)
  PROVE  u = v
<1>1. /\ u \in AnyUpdate /\ v \in AnyUpdate
      /\ u.op = v.op /\ u.id = v.id
  BY DEF Adds
<1>2. u.timestamp = v.timestamp /\ u.replicaId = v.replicaId
  BY <1>1, RankAssumption DEF NotLater, AnyUpdate
<1>3. QED
  BY <1>1, <1>2 DEF AnyUpdate

\* One update is left, and it is read.
LEMMA OneLeft ==
  ASSUME NEW x, NEW S, NEW id, NEW u,
         class \in {"LWWRegister", "OrderedSet", "TombstoneSet", "ORMap"},
         Left(S, id) = {u}, Get(x, id) = <<u.replicaId, u.timestamp>>,
         u.replicaId \in Replica, u.timestamp \in Nat
  PROVE  {Get(x, id)} \ {None} = {Value(w) : w \in Left(S, id)}
<1>1. Get(x, id) # None
  BY NoneAssumption
<1>2. Value(u) = Get(x, id)
  BY DEF Value
<1>3. QED
  BY <1>1, <1>2

\* None is left, and nothing is read.
LEMMA NoneLeft ==
  ASSUME NEW x, NEW S, NEW id, Left(S, id) = {}, Get(x, id) = None
  PROVE  {Get(x, id)} \ {None} = {Value(w) : w \in Left(S, id)}
OBVIOUS

LEMMA GSReads ==
  ASSUME class = "GSet", NEW x, NEW S, NEW id \in Id, GSReflects(x, S)
  PROVE  {Get(x, id)} \ {None} = {Value(w) : w \in Left(S, id)}
<1>1. (id \in x <=> Adds(S, id) # {}) /\ Removals(S, id) = {}
  BY DEF GSReflects
<1>2. Left(S, id) = Adds(S, id)
  BY <1>1, LeftIs
<1>3. \A w \in Left(S, id) : Value(w) = id
  BY <1>2 DEF Value, Adds
<1>4. Get(x, id) = IF id \in x THEN id ELSE None
  BY DEF Get, GS!Get
<1>5. QED
  BY <1>1, <1>2, <1>3, <1>4, NoneAssumption

LEMMA TPReads ==
  ASSUME class = "TwoPhaseSet", NEW x, NEW S, NEW id \in Id, TPReflects(x, S)
  PROVE  {Get(x, id)} \ {None} = {Value(w) : w \in Left(S, id)}
<1>1. /\ id \in x.additions <=> Adds(S, id) # {}
      /\ id \in x.removals <=> Removals(S, id) # {}
  BY DEF TPReflects
<1>2. Left(S, id) = IF Removals(S, id) = {} THEN Adds(S, id) ELSE {}
  BY LeftIs
<1>3. \A w \in Left(S, id) : Value(w) = id
  BY <1>2 DEF Value, Adds
<1>4. Get(x, id) = IF id \in x.additions \ x.removals THEN id ELSE None
  BY DEF Get, TP!Get
<1>5. QED
  BY <1>1, <1>2, <1>3, <1>4, NoneAssumption

LEMMA OSReads ==
  ASSUME class = "OrderedSet", NEW S \in SUBSET AnyUpdate, NEW id \in Id,
         NEW x \in [elements : [Id -> AnyElement \cup {None}], tombstones : SUBSET Id],
         OSReflects(x, S)
  PROVE  {Get(x, id)} \ {None} = {Value(w) : w \in Left(S, id)}
<1> DEFINE e == x.elements[id]
           u == AddOf(id, e)
<1>1. OSReflectsAt(e, x.tombstones, S, id)
  BY DEF OSReflects
<1>2. e \in AnyElement \cup {None}
  OBVIOUS
<1>3. Get(x, id) = IF e = None \/ id \in x.tombstones THEN None ELSE e.value
  BY DEF Get, OS!Get
<1> HIDE DEF e
<1>4. CASE id \in x.tombstones
  <2>1. Left(S, id) = {}
    BY <1>1, <1>4, LeftIs DEF OSReflectsAt
  <2>2. QED
    BY <1>3, <1>4, <2>1, NoneLeft
<1>5. CASE e = None
  <2>1. Left(S, id) = {}
    BY <1>1, <1>5, LeftIs DEF OSReflectsAt
  <2>2. QED
    BY <1>3, <1>5, <2>1, NoneLeft
<1>6. CASE e # None /\ id \notin x.tombstones
  <2>1. /\ u \in Adds(S, id)
        /\ u.timestamp = e.timestamp /\ u.replicaId = e.replicaId
        /\ e.value = <<u.replicaId, u.timestamp>>
    BY <1>1, <1>6 DEF OSReflectsAt, IsAdd, Adds, AddOf
  <2>2. \A v \in Adds(S, id) : NotLater(v, u)
    BY <1>1, <1>6, <2>1 DEF OSReflectsAt, NotLater
  <2>3. Removals(S, id) = {}
    BY <1>1, <1>6 DEF OSReflectsAt
  <2> HIDE DEF u
  <2>4. \A w \in Left(S, id) : w = u
    BY <2>1, <2>2, LeftIs, LastIsUnique
  <2>5. u \in Left(S, id)
    BY <2>1, <2>2, <2>3, LeftIs
  <2>6. u.replicaId \in Replica /\ u.timestamp \in Nat
    BY <1>2, <1>6, <2>1 DEF AnyElement
  <2>7. Left(S, id) = {u}
    BY <2>4, <2>5
  <2>8. QED
    BY <1>3, <1>6, <2>1, <2>6, <2>7, OneLeft
<1>7. QED
  BY <1>4, <1>5, <1>6

LEMMA LWReads ==
  ASSUME class = "LWWRegister", NEW S \in SUBSET AnyUpdate, NEW id \in Id,
         NEW x \in [Id -> AnyElement \cup {None}], LWReflects(x, S)
  PROVE  {Get(x, id)} \ {None} = {Value(w) : w \in Left(S, id)}
<1> DEFINE e == x[id]
           u == AddOf(id, e)
<1>1. OSReflectsAt(e, {}, S, id)
  BY DEF LWReflects
<1>2. e \in AnyElement \cup {None}
  OBVIOUS
<1>3. Get(x, id) = IF e = None THEN None ELSE e.value
  BY DEF Get, LW!Get
<1> HIDE DEF e
<1>4. CASE e = None
  <2>1. Left(S, id) = {}
    BY <1>1, <1>4, LeftIs DEF OSReflectsAt
  <2>2. QED
    BY <1>3, <1>4, <2>1, NoneLeft
<1>5. CASE e # None
  <2>1. /\ u \in Adds(S, id)
        /\ u.timestamp = e.timestamp /\ u.replicaId = e.replicaId
        /\ e.value = <<u.replicaId, u.timestamp>>
    BY <1>1, <1>5 DEF OSReflectsAt, IsAdd, Adds, AddOf
  <2>2. \A v \in Adds(S, id) : NotLater(v, u)
    BY <1>1, <1>5, <2>1 DEF OSReflectsAt, NotLater
  <2>3. Removals(S, id) = {}
    BY <1>1 DEF OSReflectsAt
  <2> HIDE DEF u
  <2>4. \A w \in Left(S, id) : w = u
    BY <2>1, <2>2, LeftIs, LastIsUnique
  <2>5. u \in Left(S, id)
    BY <2>1, <2>2, <2>3, LeftIs
  <2>6. u.replicaId \in Replica /\ u.timestamp \in Nat
    BY <1>2, <1>5, <2>1 DEF AnyElement
  <2>7. Left(S, id) = {u}
    BY <2>4, <2>5
  <2>8. QED
    BY <1>3, <1>5, <2>1, <2>6, <2>7, OneLeft
<1>6. QED
  BY <1>4, <1>5

LEMMA TSReads ==
  ASSUME class = "TombstoneSet", NEW S \in SUBSET AnyUpdate, NEW id \in Id,
         NEW x \in [elements : [Id -> AnyElement \cup {None}],
                    tombstones : [Id -> AnyTombstone \cup {None}]],
         TSReflects(x, S)
  PROVE  {Get(x, id)} \ {None} = {Value(w) : w \in Left(S, id)}
<1> DEFINE e == x.elements[id]
           t == x.tombstones[id]
           u == AddOf(id, e)
<1>1. TSReflectsAt(e, t, S, id)
  BY DEF TSReflects
<1>2. /\ e # None => e.timestamp \in Nat /\ e.replicaId \in Replica
      /\ t # None => t.timestamp \in Nat
  BY DEF AnyElement, AnyTombstone
<1>3. Get(x, id) =
        IF e # None /\ (t # None => e.timestamp > t.timestamp) THEN e.value ELSE None
  BY DEF Get, TS!Get, TS!Has, TS!After
<1> HIDE DEF e, t
<1>4. \A v \in Adds(S, id) : v.timestamp \in Nat /\ v.replicaId \in Replica
  BY UpdatesOf
<1>5. \A w \in Left(S, id) :
        /\ w \in Adds(S, id)
        /\ \A v \in Adds(S, id) : NotLater(v, w)
        /\ \A d \in Removals(S, id) : d.timestamp < w.timestamp
  BY LeftIs
<1>6. CASE e # None /\ (t # None => e.timestamp > t.timestamp)
  <2>1. /\ u \in Adds(S, id)
        /\ u.timestamp = e.timestamp /\ u.replicaId = e.replicaId
        /\ e.value = <<u.replicaId, u.timestamp>>
    BY <1>1, <1>6 DEF TSReflectsAt, IsAdd, Adds, AddOf
  <2>2. ASSUME NEW v \in Adds(S, id)
        PROVE  NotLater(v, u)
    <3>1. NotLater(v, e) \/ (t # None /\ v.timestamp <= t.timestamp)
      BY <1>1, <1>6 DEF TSReflectsAt
    <3>2. QED
      BY <1>2, <1>4, <1>6, <2>1, <3>1 DEF NotLater
  <2>3. ASSUME NEW d \in Removals(S, id)
        PROVE  d.timestamp < u.timestamp
    <3>1. \/ t = None /\ d.timestamp < e.timestamp
          \/ t # None /\ d.timestamp <= t.timestamp
      BY <1>1 DEF TSReflectsAt
    <3>2. d.timestamp \in Nat
      BY DEF Removals, AnyUpdate
    <3>3. QED
      BY <1>2, <1>6, <2>1, <3>1, <3>2
  <2> HIDE DEF u
  <2>4. u \in Left(S, id)
    BY <2>1, <2>2, <2>3, LeftIs
  <2>5. \A w \in Left(S, id) : w = u
    BY <1>5, <2>1, <2>2, LastIsUnique
  <2>6. Left(S, id) = {u}
    BY <2>4, <2>5
  <2>7. QED
    BY <1>2, <1>3, <1>6, <2>1, <2>6, OneLeft
<1>7. CASE ~(e # None /\ (t # None => e.timestamp > t.timestamp))
  <2>1. ASSUME NEW w \in Left(S, id)
        PROVE  FALSE
    <3>1. t # None /\ w.timestamp <= t.timestamp
      <4>1. w \in Adds(S, id) /\ w.timestamp \in Nat
        BY <1>4, <1>5
      <4>2. CASE e = None
        BY <1>1, <4>1, <4>2 DEF TSReflectsAt
      <4>3. CASE e # None
        <5>1. t # None /\ e.timestamp <= t.timestamp
          BY <1>2, <1>7, <4>3
        <5>2. NotLater(w, e) \/ w.timestamp <= t.timestamp
          BY <1>1, <4>1, <4>3 DEF TSReflectsAt
        <5>3. QED
          BY <1>2, <4>1, <4>3, <5>1, <5>2 DEF NotLater
      <4>4. QED
        BY <4>2, <4>3
    <3>2. PICK d \in Removals(S, id) : d.timestamp = t.timestamp
      BY <1>1, <3>1 DEF TSReflectsAt
    <3>3. d.timestamp < w.timestamp /\ w.timestamp \in Nat
      BY <1>4, <1>5
    <3>4. QED
      BY <1>2, <3>1, <3>2, <3>3
  <2>2. QED
    BY <1>3, <1>7, <2>1, NoneLeft
<1>8. QED
  BY <1>6, <1>7

LEMMA OMReads ==
  ASSUME class = "ORMap", NEW S \in SUBSET AnyUpdate, NEW id \in Id, OneAtATime(S),
         NEW x \in [Id -> AnyEntry \cup {None}], OMReflects(x, S)
  PROVE  {Get(x, id)} \ {None} = {Value(w) : w \in Left(S, id)}
<1> DEFINE e == x[id]
<1>1. OMReflectsAt(e, S, id)
  BY DEF OMReflects
<1>2. e # None => e.added \in Nat /\ (e.removed # None => e.removed \in Nat)
  BY DEF AnyEntry
<1>3. Get(x, id) = IF e # None /\ e.removed = None THEN e.value ELSE None
  BY DEF Get, OM!Get, OM!IsVisible
<1> HIDE DEF e
<1>4. CASE e = None
  <2>1. Left(S, id) = {}
    BY <1>1, <1>4, LeftIs DEF OMReflectsAt
  <2>2. QED
    BY <1>3, <1>4, <2>1, NoneLeft
<1>5. CASE e # None /\ e.removed # None
  <2>1. PICK d \in Removals(S, id) : d.timestamp = e.removed
    BY <1>1, <1>5 DEF OMReflectsAt
  <2>2. \A w \in Adds(S, id) : w.timestamp \in Nat /\ w.timestamp <= d.timestamp
    BY <1>1, <1>5, <2>1, UpdatesOf DEF OMReflectsAt, OM!Latest
  <2>3. Left(S, id) = {}
    BY <1>2, <1>5, <2>1, <2>2, LeftIs
  <2>4. QED
    BY <1>3, <1>5, <2>3, NoneLeft
<1>6. CASE e # None /\ e.removed = None
  <2>1. PICK u \in Adds(S, id) : u.timestamp = e.added /\ e.value = <<u.replicaId, u.timestamp>>
    BY <1>1, <1>6 DEF OMReflectsAt
  <2>2. u.timestamp \in Nat /\ u.replicaId \in Replica /\ u \in S /\ u.id = id /\ u.op = "add"
    BY <2>1, UpdatesOf
  <2>3. ASSUME NEW v \in Adds(S, id) \cup Removals(S, id), v # u
        PROVE  v.timestamp \in Nat /\ v.timestamp < u.timestamp
    <3>1. v \in S /\ v.id = id /\ v.timestamp \in Nat
      BY DEF Adds, Removals, AnyUpdate
    <3>2. v.timestamp <= u.timestamp
      BY <1>1, <1>6, <2>1 DEF OMReflectsAt, OM!Latest
    <3>3. v.timestamp # u.timestamp
      BY <2>2, <2>3, <3>1 DEF OneAtATime
    <3>4. QED
      BY <2>2, <3>1, <3>2, <3>3
  <2>4. \A v \in Adds(S, id) : NotLater(v, u)
    BY <2>2, <2>3, RankAssumption DEF NotLater
  <2>5. \A d \in Removals(S, id) : d.timestamp < u.timestamp
    BY <2>2, <2>3 DEF Removals
  <2>6. u \in Left(S, id)
    BY <2>1, <2>4, <2>5, LeftIs
  <2>7. \A w \in Left(S, id) : w = u
    BY <2>1, <2>4, LeftIs, LastIsUnique
  <2>8. Left(S, id) = {u}
    BY <2>6, <2>7
  <2>9. QED
    BY <1>3, <1>6, <2>1, <2>2, <2>8, OneLeft
<1>7. QED
  BY <1>4, <1>5, <1>6

LEMMA ReadsFollow == ReflectInv => ReadsWhatIsLeft
<1> SUFFICES ASSUME ReflectInv, NEW r \in Replica, NEW id \in Id
             PROVE  {Get(copy[r], id)} \ {None} = {Value(w) : w \in Left(seen[r], id)}
  BY DEF ReadsWhatIsLeft
<1>1. /\ Typed /\ copy[r] \in Object /\ Reflects(copy[r], seen[r])
      /\ seen[r] \in SUBSET AnyUpdate
      /\ class = "ORMap" => OneAtATime(seen[r])
  BY SeenSoFar DEF ReflectInv, TypeOK, Typed, OneAtATime
<1>2. CASE class = "GSet"
  BY <1>1, <1>2, GSReads DEF Reflects
<1>3. CASE class = "TwoPhaseSet"
  BY <1>1, <1>3, TPReads DEF Reflects
<1>4. CASE class = "OrderedSet"
  <2>1. copy[r] \in [elements : [Id -> AnyElement \cup {None}], tombstones : SUBSET Id]
    BY <1>1, <1>4, ObjectsAreTyped DEF Object
  <2>2. QED
    BY <1>1, <1>4, <2>1, OSReads DEF Reflects
<1>5. CASE class = "TombstoneSet"
  <2>1. copy[r] \in [elements : [Id -> AnyElement \cup {None}],
                     tombstones : [Id -> AnyTombstone \cup {None}]]
    BY <1>1, <1>5, ObjectsAreTyped DEF Object
  <2>2. QED
    BY <1>1, <1>5, <2>1, TSReads DEF Reflects
<1>6. CASE class = "ORMap"
  <2>1. copy[r] \in [Id -> AnyEntry \cup {None}]
    BY <1>1, <1>6, ObjectsAreTyped DEF Object
  <2>2. QED
    BY <1>1, <1>6, <2>1, OMReads DEF Reflects
<1>7. CASE class = "LWWRegister"
  <2>1. copy[r] \in [Id -> AnyElement \cup {None}]
    BY <1>1, <1>7, ObjectsAreTyped DEF Object
  <2>2. QED
    BY <1>1, <1>7, <2>1, LWReads DEF Reflects
<1>8. QED
  BY <1>1, <1>2, <1>3, <1>4, <1>5, <1>6, <1>7, ClassAssumption DEF Typed

-----------------------------------------------------------------------------
(* Every step preserves it.                                                 *)

LEMMA ReflectInit == Init => ReflectInv
<1> SUFFICES ASSUME Init
             PROVE  ReflectInv
  OBVIOUS
<1>1. TypeOK /\ Typed
  BY TypeInit DEF TypeOK, Typed
<1>2. \A r \in Replica : Reflects(copy[r], seen[r])
  BY <1>1, EmptyReflects DEF Init
<1>3. Made = {}
  BY DEF Init, Made
<1>4. QED
  BY <1>1, <1>2, <1>3 DEF Init, ReflectInv, OneAtATime

LEMMA ReflectUpdate ==
  ASSUME ReflectInv, TypeOK', NEW r \in Replica, NEW id \in Id, NEW op \in {"add", "remove"},
         NEW updated, Change(r, op, id, updated), Settled,
         LET u == [op |-> op, id |-> id, timestamp |-> now, replicaId |-> r]
         IN Reflects(updated, seen[r] \cup {u})
  PROVE  ReflectInv'
<1> DEFINE u == [op |-> op, id |-> id, timestamp |-> now, replicaId |-> r]
<1>1. /\ copy' = [copy EXCEPT ![r] = updated]
      /\ seen' = [seen EXCEPT ![r] = seen[r] \cup {u}]
      /\ class' = class /\ now' = now /\ sent' = sent
      /\ TellsApart(r, id, op)
  BY DEF Change
<1>2. copy \in [Replica -> Object] /\ seen \in [Replica -> SUBSET Update]
  BY DEF ReflectInv, TypeOK
<1> HIDE DEF u
<1>3. Made' = Made \cup {u}
  BY <1>1, <1>2 DEF Made
<1>4. \A s \in Replica : Reflects(copy'[s], seen'[s])
  BY <1>1, <1>2 DEF ReflectInv, u
<1>5. class = "ORMap" => OneAtATime(Made \cup {u})
  <2> SUFFICES ASSUME class = "ORMap", NEW v \in Made \cup {u}, NEW w \in Made \cup {u},
                      v.id = w.id, v.timestamp = w.timestamp
               PROVE  v = w
    BY DEF OneAtATime
  <2>1. u.id = id /\ u.timestamp = now
    BY DEF u
  <2>2. \A z \in Made : ~(z.id = id /\ z.timestamp = now)
    BY <1>1 DEF TellsApart
  <2>3. OneAtATime(Made)
    BY DEF ReflectInv
  <2>4. QED
    BY <2>1, <2>2, <2>3 DEF OneAtATime
<1>6. QED
  BY <1>1, <1>3, <1>4, <1>5 DEF ReflectInv, Reflects

LEMMA ReflectReceive ==
  ASSUME ReflectInv, TypeOK', NEW r \in Replica, NEW m \in sent, Receive(r, m)
  PROVE  ReflectInv'
<1>1. /\ copy' = [copy EXCEPT ![r] = Merged(copy[r], m.copy)]
      /\ seen' = [seen EXCEPT ![r] = seen[r] \cup m.seen]
      /\ class' = class /\ now' = now /\ sent' = sent
  BY DEF Receive
<1>2. /\ Typed
      /\ copy \in [Replica -> Object] /\ seen \in [Replica -> SUBSET Update]
      /\ m.copy \in Object /\ m.seen \in SUBSET Update
      /\ m.seen \subseteq Made
      /\ Reflects(copy[r], seen[r]) /\ Reflects(m.copy, m.seen)
  BY DEF ReflectInv, TypeOK, Typed
<1>3. Made' = Made
  BY <1>1, <1>2 DEF Made
<1>4. Reflects(Merged(copy[r], m.copy), seen[r] \cup m.seen)
  BY <1>2, ObjectsAreTyped, MergedReflects
<1>5. \A s \in Replica : Reflects(copy'[s], seen'[s])
  BY <1>1, <1>2, <1>4 DEF ReflectInv
<1>6. QED
  BY <1>1, <1>3, <1>5 DEF ReflectInv, Reflects

LEMMA ReflectSend ==
  ASSUME ReflectInv, TypeOK', NEW r \in Replica, Send(r)
  PROVE  ReflectInv'
<1>1. /\ UNCHANGED <<class, now, copy, seen>>
      /\ sent' = sent \cup {[copy |-> copy[r], seen |-> seen[r]]}
  BY DEF Send
<1>2. Made' = Made
  BY <1>1 DEF Made
<1>3. Reflects(copy[r], seen[r]) /\ seen[r] \subseteq Made
  BY SeenSoFar DEF ReflectInv
<1>4. \A m \in sent' : Reflects(m.copy, m.seen) /\ m.seen \subseteq Made
  BY <1>1, <1>3 DEF ReflectInv
<1>5. QED
  BY <1>1, <1>2, <1>4 DEF ReflectInv, Reflects

LEMMA ReflectStep ==
  ASSUME Settled, ReflectInv, [Next]_vars
  PROVE  ReflectInv'
<1>1. TypeOK /\ TypeOK'
  BY TypeStep DEF ReflectInv
<1>2. ASSUME UNCHANGED <<class, copy, seen, sent>>
      PROVE  ReflectInv'
  <2>1. Made' = Made
    BY <1>2 DEF Made
  <2>2. QED
    BY <1>1, <1>2, <2>1 DEF ReflectInv, Reflects
<1>3. ASSUME NEW r \in Replica, NEW id \in Id, Add(r, id)
      PROVE  ReflectInv'
  <2>1. Reflects(copy[r], seen[r])
    BY DEF ReflectInv
  <2>2. QED
    BY <1>1, <1>3, <2>1, AddedReflects, ReflectUpdate DEF Add
<1>4. ASSUME NEW r \in Replica, NEW id \in Id, Remove(r, id)
      PROVE  ReflectInv'
  <2>1. Reflects(copy[r], seen[r])
    BY DEF ReflectInv
  <2>2. QED
    BY <1>1, <1>4, <2>1, RemovedReflects, ReflectUpdate DEF Remove
<1>5. ASSUME NEW r \in Replica, Send(r)
      PROVE  ReflectInv'
  BY <1>1, <1>5, ReflectSend
<1>6. ASSUME NEW r \in Replica, NEW m \in sent, Receive(r, m)
      PROVE  ReflectInv'
  BY <1>1, <1>6, ReflectReceive
<1>7. CASE Tick
  BY <1>2, <1>7 DEF Tick
<1>8. CASE UNCHANGED vars
  BY <1>2, <1>8 DEF vars
<1>9. QED
  BY <1>3, <1>4, <1>5, <1>6, <1>7, <1>8 DEF Next

\* If updates come at the times a class is made for, what a replica reads is
\* what the updates that have reached it leave: for each class, any replicas,
\* ids and bounds, and snapshots that are late, repeated, relayed or lost.
THEOREM Converges ==
  ASSUME Settled
  PROVE  Spec => []ReadsWhatIsLeft
<1>1. ReflectInv /\ [Next]_vars => ReflectInv'
  BY ReflectStep
<1>2. QED
  BY ReflectInit, ReadsFollow, <1>1, PTL DEF Spec

=============================================================================
