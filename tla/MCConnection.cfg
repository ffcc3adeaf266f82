SPECIFICATION FairSpec
CONSTANTS
  c1 = c1
  c2 = c2
  Calls <- MCCalls
  Asks <- MCAsks
  MaxAttempts = 2
  BreakerThreshold = 2
  MaxEdits = 1
INVARIANTS TypeOK DeleteMeansGone StaleMeansForeign BreakerExact
PROPERTIES ImplementsWriteOnce EveryCallEnds
CHECK_DEADLOCK FALSE
