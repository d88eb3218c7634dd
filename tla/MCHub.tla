------------------------------- MODULE MCHub -------------------------------
(* Instances of Hub for TLC. *)
EXTENDS Hub

Made(tag, capacity) == [tag |-> tag, capacity |-> capacity]

\* HubStrategy.sliding(1) and so on; "unbounded" ignores its capacity.
Strategies == {Made("unbounded", 1), Made("sliding", 2), Made("dropping", 2),
               Made("backpressure", 1), Made("backpressure", 2)}

=============================================================================
