SPECIFICATION FairSpec
CONSTANTS
  Threads = {t1, t2}
  Configs <- MCConfigs
  max_requests = 2
  MaxFaults = 2
  BULK_PACKET_SIZE = 6
  ROWS_BEFORE_COMMIT = 2
INVARIANTS EventsGranted BulkConservation CountedPerformed InSync
PROPERTY Ends
