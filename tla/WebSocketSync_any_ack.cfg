SPECIFICATION Spec
CONSTANTS
  s1 = s1
  s2 = s2
  s3 = s3
  c1 = c1
  c2 = c2
  None = None
  First = s1
  Socket = {s1, s2}
  Call = {c1, c2}
  Kind <- Pushes
  User = {}
  MaxAttempts = 1
INVARIANTS PushedMeansProcessed
CHECK_DEADLOCK FALSE
