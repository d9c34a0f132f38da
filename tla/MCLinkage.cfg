SPECIFICATION LinkageSpec
CONSTANTS
  DEPTH = 3
  Arities = {0}
  Callees = {}
  MaxExcess = 5
  MaxLocals = 4
  MaxNesting = 3
  Bodies <- MCBodies
  MaxFunctions = 4
  StackBase = 100
  Word = 1000
INVARIANTS
  MachineAccepts
  AddressesAgree
  FramesNested
  RegistersAreOwn
  CheckSucceeds
PROPERTY
  Terminates
CHECK_DEADLOCK FALSE
