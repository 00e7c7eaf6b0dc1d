\* Two runners, two events, one tick and one unit of time in the queue: the
\* percentile's scale is shorter than the longest event.  A handler interrupted
\* inside a mutex waits for itself, so the system may stop.
CONSTANTS
  Threads = {t1, t2}
  MaxTime = 1
  QueueMax = 1
  MaxEvents = 2
  MaxCheckpoints = 1
  RangeMax = 1
  percentile_rank = 95
  NoThread = NoThread
SPECIFICATION Spec
SYMMETRY Symmetry
CHECK_DEADLOCK FALSE
INVARIANTS
  EventsConserved
  ReportSound
