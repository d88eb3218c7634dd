SPECIFICATION Spec
CONSTANTS
  r1 = r1
  r2 = r2
  None = None
  Replica = {r1, r2}
  Author = r1
  Lengths = {0, 2}
  MaxUpdates = 4
  MaxSent = 2
INVARIANT TypeOK
INVARIANT SameArrayWithoutTies
PROPERTY InsertsWhereAsked
CHECK_DEADLOCK FALSE
