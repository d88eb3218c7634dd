----------------------------- MODULE StateSets -----------------------------
(***************************************************************************)
(* The set, map and register classes of src/src/Core.ts used as state-based *)
(* CRDTs: replicas add to and remove from their own copy at the time their  *)
(* Date.now() tells, hand out snapshots of it, and merge any snapshot at   *)
(* any time.  Which class it is, is chosen at the start.                   *)
(***************************************************************************)
EXTENDS Integers, FiniteSets

CONSTANTS
  Class,       \* the classes to choose from
  Id,          \* the elements, ids or keys
  Replica,     \* the replica identifiers
  Rank,        \* Rank[r]: the position of r in the order of strings
  None,        \* an absent entry or value
  Settled,     \* TRUE: updates come at the times the class is made for
  MaxTime,     \* bound: milliseconds
  MaxUpdates,  \* bound: updates
  MaxSent      \* bound: snapshots

ASSUME ClassAssumption ==
  Class \subseteq {"GSet", "TwoPhaseSet", "LWWRegister", "OrderedSet", "TombstoneSet", "ORMap"}
ASSUME RankAssumption == /\ Rank \in [Replica -> Nat]
                         /\ \A r, s \in Replica : Rank[r] = Rank[s] => r = s
ASSUME SettledAssumption == Settled \in BOOLEAN
ASSUME BoundAssumption == {MaxTime, MaxUpdates, MaxSent} \subseteq Nat

ASSUME NoneAssumption ==
  /\ None \notin Id \cup Nat \cup (Replica \X Nat)
  /\ None \notin [timestamp : Nat, replicaId : Replica]
  /\ None \notin [value : Replica \X Nat, timestamp : Nat, replicaId : Replica]
  /\ None \notin [value : Replica \X Nat, added : Nat, removed : Nat \cup {None}]

GS == INSTANCE GSet
TP == INSTANCE TwoPhaseSet
LW == INSTANCE LWWRegister
OS == INSTANCE OrderedSet
TS == INSTANCE TombstoneSet
OM == INSTANCE ORMap

VARIABLES
  class,  \* the class of the shared object
  now,    \* the time
  copy,   \* copy[r]: the object replica r holds
  seen,   \* ghost: seen[r]: the updates that have reached r
  sent    \* the snapshots handed out, with the updates that have reached them

vars == <<class, now, copy, seen, sent>>

-----------------------------------------------------------------------------
(* The operations of the class.                                             *)

Empty(c) ==
  CASE c = "GSet" -> GS!Empty
    [] c = "TwoPhaseSet" -> TP!Empty
    [] c = "LWWRegister" -> LW!Empty
    [] c = "OrderedSet" -> OS!Empty
    [] c = "TombstoneSet" -> TS!Empty
    [] c = "ORMap" -> OM!Empty

\* A value is told apart by who wrote it when.
Added(x, r, id) ==
  LET value == <<r, now>>
      element == [value |-> value, timestamp |-> now, replicaId |-> r]
  IN CASE class = "GSet" -> GS!Add(x, id)
       [] class = "TwoPhaseSet" -> TP!Add(x, id)
       [] class = "LWWRegister" -> LW!Set(x, id, element)
       [] class = "OrderedSet" -> OS!Add(x, id, element)
       [] class = "TombstoneSet" -> TS!Add(x, id, element)
       [] class = "ORMap" -> OM!Put(x, id, value, now)

Removed(x, r, id) ==
  CASE class = "TwoPhaseSet" -> TP!Remove(x, id)
    [] class = "OrderedSet" -> OS!Remove(x, id)
    [] class = "TombstoneSet" -> TS!Remove(x, id, [timestamp |-> now, replicaId |-> r])
    [] class = "ORMap" -> OM!Remove(x, id, now)

Merged(x, y) ==
  CASE class = "GSet" -> GS!Merge(x, y)
    [] class = "TwoPhaseSet" -> TP!Merge(x, y)
    [] class = "LWWRegister" -> LW!Merge(x, y)
    [] class = "OrderedSet" -> OS!Merge(x, y)
    [] class = "TombstoneSet" -> TS!Merge(x, y)
    [] class = "ORMap" -> OM!Merge(x, y)

\* The value under id, or None if id is not there.
Get(x, id) ==
  CASE class = "GSet" -> GS!Get(x, id)
    [] class = "TwoPhaseSet" -> TP!Get(x, id)
    [] class = "LWWRegister" -> LW!Get(x, id)
    [] class = "OrderedSet" -> OS!Get(x, id)
    [] class = "TombstoneSet" -> TS!Get(x, id)
    [] class = "ORMap" -> OM!Get(x, id)

-----------------------------------------------------------------------------
Init ==
  /\ class \in Class
  /\ now = 0
  /\ copy = [r \in Replica |-> Empty(class)]
  /\ seen = [r \in Replica |-> {}]
  /\ sent = {}

Made == UNION {seen[r] : r \in Replica}

\* The times the classes are made for.  Two values that one replica writes in
\* one millisecond are not told apart, nor is a value of another replica in the
\* millisecond it is replaced; an ORMap tells no two updates of a key apart
\* that fall in one millisecond.
TellsApart(r, id, op) ==
  \A u \in Made :
    u.id = id /\ u.timestamp = now =>
      CASE class \in {"GSet", "TwoPhaseSet"} -> TRUE
        [] class \in {"LWWRegister", "OrderedSet", "TombstoneSet"} -> op = "remove" \/ u \notin seen[r]
        [] class = "ORMap" -> FALSE

\* A call that returns "this" is no update.
Change(r, op, id, updated) ==
  /\ Cardinality(Made) < MaxUpdates
  /\ Settled => TellsApart(r, id, op)
  /\ updated # copy[r]
  /\ copy' = [copy EXCEPT ![r] = updated]
  /\ seen' = [seen EXCEPT ![r] =
                @ \cup {[op |-> op, id |-> id, timestamp |-> now, replicaId |-> r]}]
  /\ UNCHANGED <<class, now, sent>>

Add(r, id) == Change(r, "add", id, Added(copy[r], r, id))

\* A GSet and an LWWRegister have no remove.
Remove(r, id) ==
  class \notin {"GSet", "LWWRegister"} /\ Change(r, "remove", id, Removed(copy[r], r, id))

Tick ==
  /\ now < MaxTime
  /\ now' = now + 1
  /\ UNCHANGED <<class, copy, seen, sent>>

Send(r) ==
  /\ Cardinality(sent) < MaxSent
  /\ sent' = sent \cup {[copy |-> copy[r], seen |-> seen[r]]}
  /\ UNCHANGED <<class, now, copy, seen>>

Receive(r, m) ==
  /\ copy' = [copy EXCEPT ![r] = Merged(@, m.copy)]
  /\ seen' = [seen EXCEPT ![r] = @ \cup m.seen]
  /\ UNCHANGED <<class, now, sent>>

Next ==
  \/ Tick
  \/ \E r \in Replica :
       \/ \E id \in Id : Add(r, id) \/ Remove(r, id)
       \/ Send(r)
       \/ \E m \in sent : Receive(r, m)

Spec == Init /\ [][Next]_vars

-----------------------------------------------------------------------------
(* Properties.                                                              *)

Element == [value : Replica \X Nat, timestamp : 0..now, replicaId : Replica]

Tombstone == [timestamp : 0..now, replicaId : Replica]

MapEntry == {e \in [value : Replica \X Nat, added : 0..now, removed : 0..now \cup {None}] :
               e.removed # None => e.added <= e.removed}

Object ==
  CASE class = "GSet" -> SUBSET Id
    [] class = "TwoPhaseSet" -> [additions : SUBSET Id, removals : SUBSET Id]
    [] class = "LWWRegister" -> [Id -> Element \cup {None}]
    [] class = "OrderedSet" -> [elements : [Id -> Element \cup {None}], tombstones : SUBSET Id]
    [] class = "TombstoneSet" -> [elements : [Id -> Element \cup {None}],
                                  tombstones : [Id -> Tombstone \cup {None}]]
    [] class = "ORMap" -> [Id -> MapEntry \cup {None}]

Update == [op : {"add", "remove"}, id : Id, timestamp : 0..now, replicaId : Replica]

\* The shape of the state: every object is one of its class, nothing is of the
\* future, and no entry of a map was removed before it was added.
TypeOK ==
  /\ class \in Class
  /\ now \in Nat
  /\ copy \in [Replica -> Object]
  /\ seen \in [Replica -> SUBSET Update]
  /\ \A m \in sent : m.copy \in Object /\ m.seen \in SUBSET Update

NotLater(v, u) == \/ v.timestamp < u.timestamp
                  \/ v.timestamp = u.timestamp /\ Rank[v.replicaId] <= Rank[u.replicaId]

\* What the updates S, in whatever order they came, leave of the adds of id:
\* the last of those with a value, unless a removal undoes it.  A removal
\* undoes every add in a TwoPhaseSet and an OrderedSet, and every add that is
\* not later than it in a TombstoneSet and an ORMap.
Left(S, id) ==
  {u \in S :
     /\ u.op = "add" /\ u.id = id
     /\ class \in {"LWWRegister", "OrderedSet", "TombstoneSet", "ORMap"} =>
          \A v \in S : v.op = "add" /\ v.id = id => NotLater(v, u)
     /\ \A d \in S : d.op = "remove" /\ d.id = id =>
          class \in {"TombstoneSet", "ORMap"} /\ d.timestamp < u.timestamp}

Value(u) ==
  IF class \in {"GSet", "TwoPhaseSet"} THEN u.id ELSE <<u.replicaId, u.timestamp>>

\* Strong eventual consistency: what a replica reads depends on the updates
\* that have reached it and on nothing else, neither on the order of the
\* snapshots nor on what merges have purged in between.
ReadsWhatIsLeft ==
  \A r \in Replica, id \in Id :
    {Get(copy[r], id)} \ {None} = {Value(u) : u \in Left(seen[r], id)}

=============================================================================
