---------------------------- MODULE MCPNCounter ----------------------------
(* Instances of PNCounter for TLC. *)
EXTENDS PNCounter, TLC

Symmetry == Permutations(Replica)

=============================================================================
