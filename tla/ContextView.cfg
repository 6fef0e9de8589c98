CONSTANTS
  MaxSize = 6
  KeepFirst = 1
  MinProgress = 30
  MaxBatch = 2
  MaxRepeats = 1
  MaxLog = 8
SPECIFICATION Spec
INVARIANTS PromptIsCoherent NothingIsEnforced Chronological
PROPERTIES CondensationShrinks
CHECK_DEADLOCK FALSE
