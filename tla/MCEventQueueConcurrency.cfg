\* sysbench.h's comment on concurrency, against a runner whose request fails.
CONSTANTS
  Threads = {t1, t2}
  MAX_QUEUE_LEN = 2
  MaxRequests = 2
  MaxSpurious = 0
  HasMaxTime = FALSE
  Generator = Generator
  NoThread = NoThread
SPECIFICATION Spec
INVARIANT ConcurrentRequests
