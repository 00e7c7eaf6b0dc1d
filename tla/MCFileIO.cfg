\* Two runners on two files of two or three blocks; one failing system call.
CONSTANTS
  Threads = {t1, t2}
  Configs <- MCConfigs
  MaxErrors = 1
  MaxCheckpoints = 1
SPECIFICATION FairSpec
INVARIANTS
  FsyncEvery
  UnsyncedInFlight
  NoFalseAlarm
PROPERTY Finishes

\* After a failed asynchronous operation a thread may wait forever.
CHECK_DEADLOCK FALSE
