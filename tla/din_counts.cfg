CONSTANTS
  W = 5
  WordBits = 3
  CellBits = 2
  Cells <- MCCells
  BitXor <- MCXor
  BitOr <- MCOr
  BitAnd <- MCAnd
  Length = 3
  Cycles = 11
  Word <- DWord
  Reg <- MCReg
  Fn <- DFn
  Insts <- MCInsts
  Programs <- MCPrograms
  Mems <- DMems
  InitMems <- MCInitMems
  Plus4 <- DPlus4
  ArithLogic <- DArithLogic
  NextPC <- DNextPC
  AddrGen <- DAddrGen
  MemGet <- DMemGet
  MemSet <- DMemSet
SPECIFICATION TimedSpec
INVARIANT DinCountsInstructions
CHECK_DEADLOCK FALSE
