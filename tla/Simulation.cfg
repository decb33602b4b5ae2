CONSTANTS
  NbLayers = 1
  NbSamples = 2
  NumEpoch = 1
  GslAbortsOnError = TRUE
  MaxFaults = 1
  MaxCalls = 0
  ITER = 2
SPECIFICATION SimSpec
CHECK_DEADLOCK FALSE
INVARIANTS
  TypeOK
  NoLeak
PROPERTY Termination
