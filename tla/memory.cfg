CONSTANTS
  startAddr = 0
  numEntries = 10
  AddrMod = 256
  Byte <- MCByte
  NoFile = NoFile
  Images <- MCImages
  Files <- MCFiles
  Address <- MCAddress
  Values <- MCValues
  MaxCalls = 2
  Ranges <- MCRanges
  entriesPerRow = 2
  W = 8
  WordBits = 4
  CellBits = 1
  BitXor <- MCXor
  BitOr <- MCOr
  BitAnd <- MCAnd
SPECIFICATION DumpSpec
INVARIANTS TypeOK CallEffect LoopIsDatapath MemoryPrepared DumpIsRange
CHECK_DEADLOCK FALSE
