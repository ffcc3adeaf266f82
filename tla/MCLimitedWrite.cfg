SPECIFICATION Spec
CONSTANTS
  c1 = c1
  Calls <- MCCalls
  Asks <- MCAsks
  MaxAttempts = 3
  BreakerThreshold = 3
  MaxEdits = 0
INVARIANT LimitedMeansUndone
CHECK_DEADLOCK FALSE
