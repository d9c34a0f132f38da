SPECIFICATION LinkageSpec
CONSTANTS
  DEPTH = 3
  Arities = {0}
  Callees = {}
  MaxExcess = 5
  MaxLocals = 4
  MaxNesting = 3
  Bodies <- MCBodies
  MaxFunctions = 3
  StackBase = 1100
  Word = 1000
INVARIANT AddressesAgree
CHECK_DEADLOCK FALSE
