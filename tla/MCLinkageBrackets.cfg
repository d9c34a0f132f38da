SPECIFICATION LinkageSpec
CONSTANTS
  DEPTH = 3
  Arities = {0}
  Callees = {}
  MaxExcess = 5
  MaxLocals = 4
  MaxNesting = 3
  Bodies <- MCBracketBodies
  MaxFunctions = 2
  StackBase = 100
  Word = 1000
INVARIANT BracketAssertions
CHECK_DEADLOCK FALSE
