SPECIFICATION Spec
CONSTANTS
  N = 1
  P = 0
  STAKING_SCALE = 5
  U64_MAX = 5
  InitialBase = 2
  Amounts = {1, 2}
  Fees = {2}
  FeeBound = 4
  Schedules = {}
  TimeBound = 1
PROPERTIES
  FeesReachShares
CHECK_DEADLOCK FALSE
