CONSTANTS
  Dims <- ShapeDims
  Vals <- CheckVals
INIT Init
NEXT Next
CHECK_DEADLOCK FALSE
INVARIANTS
  WellShaped
  BackpropLayout
