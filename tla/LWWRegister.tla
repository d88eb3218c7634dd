---------------------------- MODULE LWWRegister ----------------------------
(* The class LWWRegister of src/src/Core.ts as a value: the registers a     *)
(* replica holds, one under each id, once they are made.                    *)
EXTENDS Stamps

Empty == Nothing

\* LWWRegister.make and set stamp the value with the local time, whatever was there.
Set(x, id, element) == [x EXCEPT ![id] = element]

Get(x, id) == IF x[id] = None THEN None ELSE x[id].value

\* this.merge(other): other, unless this was set later.
Merge(x, y) ==
  [id \in Id |-> IF y[id] # None /\ (x[id] # None => ~Later(x[id], y[id])) THEN y[id]
                                                                           ELSE x[id]]

=============================================================================
