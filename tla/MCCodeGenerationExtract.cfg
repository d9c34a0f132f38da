CONSTANTS
  Entries = {"f", "pair", "sum"}
  Arity <- MCArity
  Results <- MCResults
  Trees <- MCExtractions
  Caller <- MCCaller
  LoadedValue <- Loaded
  TransformedValue <- Transformed
  PushedValue <- Pushed
  CombinedValue <- Combined
  LessValue <- IfLess
  CalledValue <- CallValue
SPECIFICATION Spec
PROPERTY ExtractAsDescribed
CHECK_DEADLOCK FALSE
