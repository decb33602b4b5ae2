CONSTANTS
  NAddr = 2
  Changes <- MCChanges
  Amounts <- MCAmounts
  Unit = 6
  MaxStake = 3
  MaxRevenue = 4
  CallerAvoidsEmptyPool = TRUE
  PosInf = PosInf
  NegInf = NegInf
  NaN = NaN
INIT Init
NEXT Next
INVARIANTS
  TotalShareBounded
  TypeOK
PROPERTY
  RevenueMonotone
