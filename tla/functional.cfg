CONSTANTS
  W = 5
  WordBits = 3
  CellBits = 2
  Cells <- MCCells
  BitXor <- MCXor
  BitOr <- MCOr
  BitAnd <- MCAnd
  Length = 3
  Instructions = 8
  Word <- DWord
  Reg <- MCReg
  Fn <- DFn
  Insts <- MCInsts
  Programs <- MCPrograms
  Mems <- DMems
  InitMems <- MCInitMems
  Plus4 <- DPlus4
  ArithLogic <- DArithLogic
  NextPC <- DNextPC
  AddrGen <- DAddrGen
  MemGet <- DMemGet
  MemSet <- DMemSet
SPECIFICATION Spec
INVARIANT TypeOK
PROPERTY ImplementsIsa
CHECK_DEADLOCK FALSE
