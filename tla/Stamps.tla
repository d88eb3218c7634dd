------------------------------- MODULE Stamps -------------------------------
(* What OrderedSet and TombstoneSet of src/src/Core.ts store for an id: a   *)
(* timestamp and a replicaId, and for an element its value.                 *)
EXTENDS Integers

CONSTANTS
  Id,       \* the ids of the elements
  Replica,  \* the replica identifiers
  Rank,     \* Rank[r]: the position of r in the order of strings
  None      \* an absent entry (JavaScript's undefined)

\* x was made later than y; the replicaId decides between equal timestamps.
Later(x, y) == \/ x.timestamp > y.timestamp
               \/ x.timestamp = y.timestamp /\ Rank[x.replicaId] > Rank[y.replicaId]

\* merge keeps its own entry unless the other set has a later one.
LaterOf(mine, other) ==
  IF other # None /\ (mine # None => Later(other, mine)) THEN other ELSE mine

MergeMaps(m, n) == [id \in Id |-> LaterOf(m[id], n[id])]

Nothing == [id \in Id |-> None]

=============================================================================
