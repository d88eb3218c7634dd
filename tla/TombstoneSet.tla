---------------------------- MODULE TombstoneSet ----------------------------
(* The class TombstoneSet of src/src/Core.ts as a value: a tombstone has a  *)
(* time of its own, and an id may come back later.                          *)
EXTENDS Stamps

Empty == [elements |-> Nothing, tombstones |-> Nothing]

\* x is there, and made after y.
After(x, y) == x # None /\ x.timestamp > y.timestamp

Add(s, id, element) ==
  IF s.tombstones[id] # None /\ s.tombstones[id].timestamp >= element.timestamp
    THEN s ELSE [s EXCEPT !.elements[id] = element]

Remove(s, id, tombstone) ==
  IF After(s.elements[id], tombstone)
    THEN s ELSE [elements |-> [s.elements EXCEPT ![id] = None],
                 tombstones |-> [s.tombstones EXCEPT ![id] = tombstone]]

Has(s, id) ==
  /\ s.elements[id] # None
  /\ s.tombstones[id] # None => After(s.elements[id], s.tombstones[id])

Get(s, id) == IF Has(s, id) THEN s.elements[id].value ELSE None

\* Mutant of Merge: tombstones are purged for any element, also an older one.
MergePurgesAll(s, t) ==
  LET elements == MergeMaps(s.elements, t.elements)
      tombstones == MergeMaps(s.tombstones, t.tombstones)
  IN [elements |-> elements,
      tombstones |-> [id \in Id |-> IF elements[id] # None THEN None ELSE tombstones[id]]]

\* The later entries of both sets; then a tombstone purges an older element,
\* and an element an older tombstone.
Merge(s, t) ==
  LET elements == MergeMaps(s.elements, t.elements)
      tombstones == MergeMaps(s.tombstones, t.tombstones)
      Purged(x, y) == x # None /\ After(y, x)
  IN [elements |-> [id \in Id |-> IF Purged(elements[id], tombstones[id])
                                    THEN None ELSE elements[id]],
      tombstones |-> [id \in Id |-> IF Purged(tombstones[id], elements[id])
                                      THEN None ELSE tombstones[id]]]

=============================================================================
