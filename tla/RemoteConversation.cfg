CONSTANTS
  Threshold = 3
  MaxIterations = 1
  Early = {"event", "stats"}
  MaxOps = 2
SPECIFICATION Spec
CHECK_DEADLOCK FALSE
INVARIANTS CacheSorted NothingMissed
PROPERTIES CompleteOnReturn RunReturns
