---------------------------- MODULE MCLocalFirst ----------------------------
(* Instances of LocalFirst for TLC. *)
EXTENDS LocalFirst

CONSTANTS a1, a2,  \* callers
          k1, k2,  \* collections
          ra, rb   \* replicas

\* Every caller runs on ra.
AllOnA == [a \in App |-> ra]

\* a1 writes on ra, a2 on rb.
OneOnEach == [a \in App |-> IF a = a1 THEN ra ELSE rb]

OneCall == [a \in App |-> 1]

\* a1 calls add twice, a2 once.
MostByA1 == [a \in App |-> IF a = a1 THEN 2 ELSE 1]

OnWebSocket == [r \in Replica |-> "websocket"]

\* A replica without a syncUrl.
BManual == [r \in Replica |-> IF r = rb THEN "manual" ELSE "websocket"]

InMemory == [r \in Replica |-> "memory"]

InIndexedDB == [r \in Replica |-> "indexeddb"]

\* ra keeps its data on disk, rb in memory.
AInIndexedDB == [r \in Replica |-> IF r = ra THEN "indexeddb" ELSE "memory"]

=============================================================================
