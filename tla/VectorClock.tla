---------------------------- MODULE VectorClock ----------------------------
(***************************************************************************)
(* The vector clock of src/src/Core.ts (class VectorClock).                *)
(*                                                                         *)
(* The class keeps a Record<string, number> and reads an absent entry as   *)
(* 0, so a clock is modelled as a total function from node names to        *)
(* naturals.  The class has no join: the framework replaces clocks.        *)
(***************************************************************************)
EXTENDS Integers

CONSTANT Node  \* every name that can be an entry of a clock

Clock == [Node -> Nat]

Empty == [n \in Node |-> 0]

Increment(c, n) == [c EXCEPT ![n] = @ + 1]

\* "No entry of a exceeds its entry in b": the flag allLess of compare(a, b),
\* and with the arguments swapped the flag allGreater.
Leq(a, b) == \A n \in Node : a[n] <= b[n]

\* compare() answers 0 both for equal clocks and for concurrent ones.
Compare(a, b) ==
  CASE Leq(a, b) /\ ~Leq(b, a) -> -1
    [] Leq(b, a) /\ ~Leq(a, b) -> 1
    [] OTHER -> 0

\* The causal order the clock stands for.
Before(a, b) == Leq(a, b) /\ a # b

Concurrent(a, b) == ~Leq(a, b) /\ ~Leq(b, a)

\* Pointwise maximum.  No client code computes it; the reconciliation server,
\* which is outside the repository, is assumed to.
Join(a, b) == [n \in Node |-> IF a[n] >= b[n] THEN a[n] ELSE b[n]]

=============================================================================
