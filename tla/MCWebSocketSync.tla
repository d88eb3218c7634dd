-------------------------- MODULE MCWebSocketSync --------------------------
(* Instances of WebSocketSync for TLC. *)
EXTENDS WebSocketSync

CONSTANTS s1, s2, s3,  \* sockets
          c1, c2       \* calls

\* Nothing but pushes, which are not told apart by an id.
Pushes == [c \in Call |-> "push"]

\* Nothing but reconciliations, which are, and which report their progress.
Reconciles == [c \in Call |-> "reconcile"]

=============================================================================
