CONSTANTS
  W = 8
  WordBits = 4
  CellBits = 1
  Cells = {}
  BitXor <- MCXor
  BitOr <- MCOr
  BitAnd <- MCAnd
  Assembled <- MCAssembled
  Raw <- MCRaw
  Operands <- MCOperands
SPECIFICATION Spec
INVARIANTS DecodedAsAssembled FlagsAreMachine ComputedAsMeant PrintedAsDecoded
CHECK_DEADLOCK FALSE
