CONSTANTS
  Addresses = {1, 2, 3}
  Mixes <- ObjectMixes
  GCSWEEPMAX = 1
SPECIFICATION GCFairSpec
INVARIANTS MemorySafe TriColour FinalizedOnce
PROPERTY Collected
CHECK_DEADLOCK FALSE
