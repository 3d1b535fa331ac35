SPECIFICATION Spec
CONSTANTS
  N = 2
  P = 1
  STAKING_SCALE = 5
  U64_MAX = 5
  InitialBase = 2
  Amounts = {1, 2}
  Fees = {2, 3}
  FeeBound = 5
  Schedules <- MCSchedules
  TimeBound = 5
INVARIANTS
  TypeOK
  TotalsMatch
  RewardsSolvent
  StakersCanLeave
PROPERTIES
  RewardsNeverShrink
  NoRetroactiveRewards
