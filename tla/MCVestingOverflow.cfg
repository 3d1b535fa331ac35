SPECIFICATION Spec
CONSTANTS
  N = 1
  P = 1
  STAKING_SCALE = 10
  U64_MAX = 10
  InitialBase = 6
  Amounts = {6}
  Fees = {}
  FeeBound = 0
  Schedules <- MCSchedules
  TimeBound = 6
INVARIANTS
  ReleaseAvailable
CHECK_DEADLOCK FALSE
