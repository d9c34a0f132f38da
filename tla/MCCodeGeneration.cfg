CONSTANTS
  Entries = {"f", "pair", "sum"}
  Arity <- MCArity
  Results <- MCResults
  Trees <- MCTrees
  Caller <- MCCaller
  LoadedValue <- Loaded
  TransformedValue <- Transformed
  PushedValue <- Pushed
  CombinedValue <- Combined
  LessValue <- IfLess
  CalledValue <- CallValue
SPECIFICATION Spec
INVARIANT CallerUntouched
PROPERTIES
  FootprintKept
  IllFormedRefused
  ComputesMeaning
  GivesUpTheUndefined
  FoldingKeepsMeaning
  LiteralsFold
CHECK_DEADLOCK FALSE
