---------------------------- MODULE MCStateSets ----------------------------
(* Instances of StateSets for TLC. *)
EXTENDS StateSets

CONSTANTS r1, r2, r3, i1

RankDef == [r \in Replica |-> CASE r = r1 -> 1 [] r = r2 -> 2 [] r = r3 -> 3]

=============================================================================
