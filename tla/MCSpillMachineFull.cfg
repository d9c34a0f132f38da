SPECIFICATION MachineSpec
CONSTANTS
  DEPTH = 8
  Numbers = 2
  Arities = {0}
  Callees <- MCFullCallees
  MaxExcess = 10
  MaxLocals = 1
  MaxNesting = 1
  FrameSize = 11
  Val <- MCVal
  Unary <- MCUnary
  Second <- MCSecond
  Binary <- MCBinary
  Result <- MCResult
  Fresh = Fresh
  Stale = Stale
  Unwritten = Unwritten
  Junk = Junk
PROPERTY
  Refinement
CHECK_DEADLOCK FALSE
CONSTRAINT Sparse
