----------------------------- MODULE OrderedSet -----------------------------
(* The class OrderedSet of src/src/Core.ts as a value: a removed id is      *)
(* remembered for good.                                                     *)
EXTENDS Stamps

Empty == [elements |-> Nothing, tombstones |-> {}]

Add(s, id, element) ==
  IF id \in s.tombstones THEN s ELSE [s EXCEPT !.elements[id] = element]

Remove(s, id) == [s EXCEPT !.tombstones = @ \cup {id}]

Get(s, id) ==
  IF s.elements[id] = None \/ id \in s.tombstones THEN None ELSE s.elements[id].value

Merge(s, t) == [elements |-> MergeMaps(s.elements, t.elements),
                tombstones |-> s.tombstones \cup t.tombstones]

=============================================================================
