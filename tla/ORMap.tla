------------------------------- MODULE ORMap -------------------------------
(* The class ORMap of src/src/Core.ts as a value: an entry for each key,    *)
(* with the time of the last put and that of the removal, if any.           *)
EXTENDS Integers

CONSTANTS Id, None

Entry(value, added, removed) == [value |-> value, added |-> added, removed |-> removed]

Empty == [key \in Id |-> None]

\* Mutant of Put: an earlier removal is not reset.
PutKeepsRemoval(m, key, value, now) ==
  [m EXCEPT ![key] = Entry(value, now, IF @ = None THEN None ELSE @.removed)]

Put(m, key, value, now) == [m EXCEPT ![key] = Entry(value, now, None)]

IsVisible(m, key) == m[key] # None /\ m[key].removed = None

\* What is not visible is not removed either.
Remove(m, key, now) ==
  IF IsVisible(m, key) THEN [m EXCEPT ![key].removed = now] ELSE m

Get(m, key) == IF IsVisible(m, key) THEN m[key].value ELSE None

Latest(entry) == IF entry.removed # None THEN entry.removed ELSE entry.added

\* The entry with the latest activity, and one's own if they are equally late.
Merge(m, n) ==
  [key \in Id |->
     IF n[key] # None /\ (m[key] # None => Latest(n[key]) > Latest(m[key]))
       THEN n[key] ELSE m[key]]

=============================================================================
