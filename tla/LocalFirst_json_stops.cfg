SPECIFICATION FairSpec
CONSTANTS
  a1 = a1
  a2 = a2
  ra = ra
  rb = rb
  k1 = k1
  k2 = k2
  None = None
  Replica = {ra, rb}
  Node = {ra, rb}
  App = {a1}
  Host <- AllOnA
  AutoSync = {ra, rb}
  Transport <- OnWebSocket
  Medium <- InMemory
  Faulty = {}
  Restartable = {}
  MaxAdds <- OneCall
  MaxFaults = 0
  MaxRestarts = 0
  Key = {k1}
PROPERTIES ReadersConverge
