CONSTANTS
  NbLayers = 1
  NbSamples = 2
  NumEpoch = 1
  GslAbortsOnError = FALSE
  MaxFaults = 1
  MaxCalls = 6
INIT Init
NEXT Next
CHECK_DEADLOCK FALSE
INVARIANTS
  NoLeak
