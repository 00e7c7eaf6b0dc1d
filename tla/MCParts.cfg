SPECIFICATION PartsSpec
CONSTANTS
  INT_MAX = 127
  rand_iter = 3
  rand_pct = 40
  rand_res = 50
  Steps = 7
  LARGE_PRIME = 127
  MAX_CHECKPOINTS = 3
  MaxDraws = 5
  CommandLines <- Lines
  args <- Args
  config_files <- ConfigFiles
  Tests <- Compiled
  drivers <- Drivers
  RandomScripts <- Drawing
  Ranges <- DrawRanges
\* Three runners; --max-requests below their number, so that they compete
\* for the last request.  Three bits stand for those of unsigned int.
  Threads = {t1, t2, t3}
  Configs <- MCConfigs
  max_requests = 2
  MaxReports = 1
  MaxCheckpoints = 1
  UINT = 8
  NoThread = NoThread
\* The shims: three runners, so that one broadcast can overtake another's
\* waiters.
  r1 = r1
  r2 = r2
  r3 = r3
  Runners <- RunnerSet
  Generator = generator
  NoOwner = none
  MaxEvents = 3
INVARIANTS
  OptionsAsGiven
  RunAsConfigured
  NumbersSound
  
  ReportsPartition
  OnceInitialised
PROPERTIES
  TestsFinish
  ShimsServe
