SPECIFICATION SymbolsSpec
CONSTANTS
  a = a
  b = b
  Underscore = Underscore
  MinusZero = MinusZero
  NotANumber = NotANumber
  Names <- MCNames
  Dummy <- Underscore
  Numbers <- MCNumbers
  NegZero <- MinusZero
  NaN <- NotANumber
  Literals <- NaNLiterals
  Lists <- NaNLists
  MaxFunctions = 2
  MaxDeclarations = 0
  MaxBrackets = 1
  MaxHeap = 3
CHECK_DEADLOCK FALSE
INVARIANT LiteralsAppended
