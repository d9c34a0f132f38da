SPECIFICATION SymbolsSpec
CONSTANTS
  a = a
  b = b
  Underscore = Underscore
  MinusZero = MinusZero
  NotANumber = NotANumber
  Names <- MCNames
  Dummy <- Underscore
  Numbers <- MCNumbers
  NegZero <- MinusZero
  NaN <- NotANumber
  Literals <- MCLiterals
  Lists <- MCLists
  MaxFunctions = 2
  MaxDeclarations = 4
  MaxBrackets = 3
  MaxHeap = 3
CONSTRAINT ScopesOrHeap
CHECK_DEADLOCK FALSE
INVARIANTS
  SymbolsTypeOK
  NamesFollowMonitor
  CellsOwned
  OperandsStand
  StoresReachGlobals
  CallsGoBack
PROPERTY NamesAsWritten
