CONSTANTS
  cacheSize = 12
  blockSize = 2
  ways = 2
  Address <- MCFirstBytes
  MaxAccesses = 2
SPECIFICATION Spec
INVARIANT IndexInRange
CHECK_DEADLOCK FALSE
