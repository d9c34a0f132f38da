SPECIFICATION MachineSpec
CONSTANTS
  DEPTH = 3
  Numbers = 2
  Arities = {1}
  Callees <- MCCallees
  MaxExcess = 4
  MaxLocals = 2
  MaxNesting = 3
  FrameSize = 10
  Val <- MCVal
  Unary <- MCUnary
  Second <- MCSecond
  Binary <- MCBinary
  Result <- MCResult
  Fresh = Fresh
  Stale = Stale
  Unwritten = Unwritten
  Junk = Junk
INVARIANTS
  TypeOK
  RegisterBudget
  FrameLayout
  BracketsNested
  AdjustAssertions
  CallAssertions
  SpillInvisible
  ReplayStable
  LeaveAssertions
  NoFault
  FrameCovered
  ClobberCovered
PROPERTY
  Refinement
CHECK_DEADLOCK FALSE
