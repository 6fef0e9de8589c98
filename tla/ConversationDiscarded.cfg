CONSTANTS
  Callers = {c1, c2}
  Runs = {r1}
  Ops = {"message"}
  MaxActions = 2
  MaxIterations = 2
  MaxCrashes = 0
SPECIFICATION HSpec
PROPERTIES DiscardedNeverExecuted
