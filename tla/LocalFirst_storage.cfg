SPECIFICATION Spec
CONSTANTS
  a1 = a1
  a2 = a2
  ra = ra
  rb = rb
  k1 = k1
  k2 = k2
  None = None
  Replica = {ra, rb}
  Node = {ra, rb}
  App = {a1, a2}
  Host <- OneOnEach
  AutoSync = {ra, rb}
  Transport <- BManual
  Medium <- AInIndexedDB
  Faulty = {"storage", "reconcile"}
  Restartable = {ra}
  MaxAdds <- MostByA1
  MaxFaults = 1
  MaxRestarts = 1
  Key = {k1}
INVARIANTS TypeOK ClockNeverAhead
PROPERTIES WritesBehind
CHECK_DEADLOCK FALSE
