SPECIFICATION Spec
CONSTANTS
  r1 = r1
  r2 = r2
  r3 = r3
  i1 = i1
  None = None
  Class = {"GSet", "TwoPhaseSet", "LWWRegister", "OrderedSet", "TombstoneSet", "ORMap"}
  Id = {i1}
  Replica = {r1, r2, r3}
  Rank <- RankDef
  Settled = TRUE
  MaxTime = 2
  MaxUpdates = 3
  MaxSent = 3
INVARIANTS TypeOK ReadsWhatIsLeft
CHECK_DEADLOCK FALSE
