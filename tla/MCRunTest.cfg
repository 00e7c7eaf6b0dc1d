\* Two runners, two requests and up to one checkpoint, for every combination
\* of helper threads; no symmetry, since one property is temporal.
CONSTANTS
  Threads = {t1, t2}
  MaxRequests = 2
  MaxCheckpoints = 1
  Master = Master
  NoThread = NoThread
SPECIFICATION FairSpec
INVARIANTS
  SilentReports
  SectionsExclusive
  ExitStatusTruthful
PROPERTIES
  BarrierHolds
  ExitsUnlessReportLate
