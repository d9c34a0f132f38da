CONSTANTS
  Entries = {}
  Arity <- MCArity
  Results <- MCArity
  Requests <- MCRequests
  Bounds = {"kept", "less", "more"}
SPECIFICATION Spec
PROPERTIES
  DerivativesDerive
  DerivativesCompile
  RefusalsOwed
  LeafIsDerivative
  SimplifyKeepsValues
  PrintedReadsBack
CHECK_DEADLOCK FALSE
