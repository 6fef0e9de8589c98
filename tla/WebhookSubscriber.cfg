CONSTANTS
  BufferSize = 2
  MaxQueue = 2
  NumRetries = 1
  MaxEvents = 4
  None = None
SPECIFICATION Spec
INVARIANTS Accounted QueueBounded TimerIsLive
PROPERTIES TimerFlushes
CHECK_DEADLOCK FALSE
