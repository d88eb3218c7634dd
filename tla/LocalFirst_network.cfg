SPECIFICATION FairSpec
CONSTANTS
  a1 = a1
  a2 = a2
  ra = ra
  rb = rb
  k1 = k1
  k2 = k2
  None = None
  Replica = {ra, rb}
  Node = {ra, rb}
  App = {a1, a2}
  Host <- OneOnEach
  AutoSync = {ra}
  Transport <- OnWebSocket
  Medium <- InMemory
  Faulty = {"push", "pull", "reconcile"}
  Restartable = {}
  MaxAdds <- MostByA1
  MaxFaults = 2
  MaxRestarts = 0
  Key = {k1}
INVARIANTS UniqueStamps
PROPERTIES PushTellsAll FibersRepeat
CHECK_DEADLOCK FALSE
