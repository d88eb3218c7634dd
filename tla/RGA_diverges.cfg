SPECIFICATION Spec
CONSTANTS
  r1 = r1
  r2 = r2
  None = None
  Replica = {r1, r2}
  Author = r1
  Lengths = {0}
  MaxUpdates = 2
  MaxSent = 2
INVARIANT SameElementsSameArray
CHECK_DEADLOCK FALSE
