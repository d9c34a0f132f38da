SPECIFICATION ScenarioSpec
CONSTANTS
  DEPTH = 8
  Arities = {0}
  Callees <- MCCallees
  MaxExcess = 9
  MaxLocals = 2
  MaxNesting = 1
  Script <- DeclareSum
INVARIANT NothingSpilledAtAlloca
CHECK_DEADLOCK FALSE
