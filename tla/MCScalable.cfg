CONSTANTS
  NAddr = 2
  Changes <- MCChanges
  Amounts <- MCAmounts
  INDEX_INIT = 1000
  INCR_PER_REV_INIT = 10
  Unit = 6
  MaxStake = 3
  MaxRevenue = 4
  CallerAvoidsEmptyPool = TRUE
  HashmapMayFail = FALSE
  PosInf = PosInf
  NegInf = NegInf
  NaN = NaN
INIT Init
NEXT Next
INVARIANTS
  StakeConservation
  TypeOK
  SettlementWellDefined
  AccruedBounded
