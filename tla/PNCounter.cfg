SPECIFICATION Spec
CONSTANTS
  r1 = r1
  r2 = r2
  r3 = r3
  Replica = {r1, r2, r3}
  Amount = {1}
  MaxUpdates = 2
  MaxSent = 3
SYMMETRY Symmetry
INVARIANTS TypeOK OwnerAhead CountedOnce SameUpdatesSameState
PROPERTIES NeverForgets
