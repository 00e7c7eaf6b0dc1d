\* Two runners, two queries, two intermediate reports and one checkpoint.
CONSTANTS
  Threads = {t1, t2}
  MaxQueries = 2
  MaxReports = 2
  MaxCheckpoints = 1
  ULONG = 8
  NoThread = NoThread
SPECIFICATION Spec
SYMMETRY Symmetry
INVARIANTS
  ReportsSound
  FinalExact
  IntervalsAddUp
