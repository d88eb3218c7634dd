CONSTANTS
  k1 = k1
  k2 = k2
  c1 = c1
  c2 = c2
  w1 = w1
  None = None
  Failure = Failure
  Medium = {"memory", "indexeddb"}
  Key <- TwoKeys
  Client <- TwoClients
  Watcher <- OneWatcher
  MaxCalls = 2
  MaxFaults = 1
  MaxPolls = 2
SPECIFICATION FairSpec
INVARIANTS TypeOK WatchInOrder WatchTruthful AnswerTellsOutcome
PROPERTIES WatchCatchesUp CallsEnd
CHECK_DEADLOCK FALSE
