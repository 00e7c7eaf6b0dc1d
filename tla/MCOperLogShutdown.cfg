\* One runner and no checkpoints: the smallest instance in which the handler
\* interrupts a thread inside a mutex.
CONSTANTS
  Threads = {t1}
  MaxTime = 1
  QueueMax = 0
  MaxEvents = 1
  MaxCheckpoints = 0
  RangeMax = 1
  percentile_rank = 95
  NoThread = NoThread
SPECIFICATION FairSpec
CHECK_DEADLOCK FALSE
PROPERTY ShutdownForced
