---------------------------- MODULE TwoPhaseSet ----------------------------
(* The class TwoPhaseSet of src/src/Core.ts as a value.                     *)
CONSTANTS Id, None

Empty == [additions |-> {}, removals |-> {}]

\* An element that was removed is not added again.
Add(s, id) ==
  IF id \in s.removals THEN s ELSE [s EXCEPT !.additions = @ \cup {id}]

Remove(s, id) == [s EXCEPT !.removals = @ \cup {id}]

Get(s, id) == IF id \in s.additions \ s.removals THEN id ELSE None

Merge(s, t) == [additions |-> s.additions \cup t.additions,
                removals |-> s.removals \cup t.removals]

=============================================================================
