CONSTANTS
  Dims <- GradDims
  Vals <- CheckVals
INIT Init
NEXT Next
CHECK_DEADLOCK FALSE
INVARIANTS
  GradientCorrect
