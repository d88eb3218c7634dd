SPECIFICATION FairSpec
CONSTANTS
  s1 = s1
  s2 = s2
  s3 = s3
  c1 = c1
  c2 = c2
  None = None
  First = s1
  Socket = {s1, s2, s3}
  Call = {c1, c2}
  Kind <- Reconciles
  User = {"connect", "disconnect"}
  MaxAttempts = 1
INVARIANTS TypeOK OneChain StatusTruthful AnsweredMeansProcessed
PROPERTIES CallsEnd
CHECK_DEADLOCK FALSE
