CONSTANTS
  Entries = {"f", "pair", "sum"}
  Arity <- MCArity
  Results <- MCResults
  Trees <- MCScalings
  Caller <- MCCaller
  LoadedValue <- Loaded
  TransformedValue <- Transformed
  PushedValue <- Pushed
  CombinedValue <- Combined
  LessValue <- IfLess
  CalledValue <- CallValue
SPECIFICATION Spec
PROPERTY ScalingFolds
CHECK_DEADLOCK FALSE
