-------------------------------- MODULE GSet --------------------------------
(* The class GSet of src/src/Core.ts as a value: a set that only grows.     *)
CONSTANTS Id, None

Empty == {}

Add(s, id) == s \cup {id}

Get(s, id) == IF id \in s THEN id ELSE None

Merge(s, t) == s \cup t

=============================================================================
