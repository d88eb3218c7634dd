----------------------------- MODULE MCStorage -----------------------------
(* Instances of Storage for TLC. *)
EXTENDS Storage

CONSTANTS k1, k2, c1, c2, w1

TwoKeys == {k1, k2}
TwoClients == {c1, c2}
OneWatcher == {w1}

=============================================================================
