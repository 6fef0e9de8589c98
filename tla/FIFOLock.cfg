CONSTANTS
  Threads = {t1, t2, t3, t4}
  NoThread = NoThread
  MaxCount = 2
SPECIFICATION FairSpec
INVARIANTS TypeOK QueueMatchesThreads NoLostWakeup
PROPERTIES RefinesFIFOMutex AcquireReturns
