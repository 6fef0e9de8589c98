CONSTANTS
  Callers = {c1}
  Runs = {r1, r2}
  Ops = {"message", "interrupt", "condense"}
  MaxActions = 0
  MaxIterations = 1
  Nobody = Nobody
SPECIFICATION SFairSpec
PROPERTIES RequestsReturn
