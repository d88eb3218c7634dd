------------------------------- MODULE MCRGA -------------------------------
(* Instances of RGA for TLC. *)
EXTENDS RGA

CONSTANTS r1, r2

=============================================================================
