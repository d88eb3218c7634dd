SPECIFICATION FairSpec
CONSTANTS
  Strategy <- Strategies
  Publisher = {p1, p2}
  Subscriber = {s1, s2}
  Nobody = Nobody
  ChunkSize = 2
  MaxMessages = 5
  MaxBatch = 3
  MaxStops = 2
INVARIANTS TypeOK OnePlace InOrder NobodyWaitsInVain
PROPERTIES DropsByStrategy EveryMessageSettles
CHECK_DEADLOCK FALSE
