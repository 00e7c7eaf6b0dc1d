\* Two runners on a ring of two slots and four requests: the ring wraps, the
\* queue fills up and runners are left without a request.  No symmetry, since
\* two of the properties are temporal.
CONSTANTS
  Threads = {t1, t2}
  MAX_QUEUE_LEN = 2
  MaxRequests = 4
  MaxSpurious = 1
  HasMaxTime = TRUE
  Generator = Generator
  NoThread = NoThread
SPECIFICATION FairSpec
INVARIANTS
  SlotFree
  FifoOrder
  NoLostWakeup
  NoStrandedWaiter
PROPERTIES
  Termination
  FifoSpec
