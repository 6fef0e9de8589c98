CONSTANTS
  Threads = {t1, t2, t3}
  Keys = {1, 2}
  LockIds = {l1, l2}
  NoThread = NoThread
  NoLock = NoLock
  MaxWorkers = 2
  Batches <- MCBatches
  t1 = t1
  t2 = t2
  t3 = t3
SPECIFICATION XFairSpec
INVARIANTS MutualExclusion SameLockForAll RefcountIsUsers NoDeadlock
PROPERTIES NoLateStart CallsReturn
