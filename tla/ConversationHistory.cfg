CONSTANTS
  Callers = {c1, c2}
  Runs = {r1}
  Ops = {"message", "interrupt", "reject", "condense"}
  MaxActions = 2
  MaxIterations = 2
  MaxCrashes = 1
SPECIFICATION HSpec
SYMMETRY Symmetry
INVARIANTS NobodyIsStarved RestartCanRun
PROPERTIES ExecutedOncePerLife NeverWithoutConsent
