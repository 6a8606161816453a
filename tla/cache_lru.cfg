CONSTANTS
  cacheSize = 12
  blockSize = 2
  ways = 3
  Address <- MCAddress
  MaxAccesses = 7
SPECIFICATION Spec
INVARIANTS TypeOK LinesDistinct
PROPERTY ImplementsLru
CHECK_DEADLOCK FALSE
