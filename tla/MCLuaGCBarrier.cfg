CONSTANTS
  Addresses = {1, 2, 3}
  Mixes <- WeakKeyMix
  GCSWEEPMAX = 1
SPECIFICATION GCSpec
INVARIANT BarrierPhase
CHECK_DEADLOCK FALSE
