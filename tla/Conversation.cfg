CONSTANTS
  Callers = {c1, c2}
  Runs = {r1}
  Ops = {"message", "pause", "interrupt", "reject", "condense"}
  MaxActions = 1
  MaxIterations = 2
SPECIFICATION PromptSpec
INVARIANTS TypeOK QueueMatchesActors RunningIsHonest
PROPERTIES RunEnds InterruptEndsRun
