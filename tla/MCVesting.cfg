SPECIFICATION FairSpec
CONSTANTS
  N = 2
  P = 2
  STAKING_SCALE = 10
  U64_MAX = 12
  InitialBase = 5
  Amounts = {2, 5}
  Fees = {}
  FeeBound = 0
  Schedules <- MCSchedules
  TimeBound = 6
INVARIANTS
  PlansMatch
  NeverReleasedEarly
PROPERTIES
  VestingCompletes
