CONSTANTS
  Callers = {c1, c2}
  Runs = {r1, r2}
  Ops = {"message", "pause", "interrupt", "reject", "condense"}
  MaxActions = 1
  MaxIterations = 1
  Nobody = Nobody
SPECIFICATION SSpec
SYMMETRY Symmetry
INVARIANTS RunLockIsSection OneRun RefusalIsTemporary
