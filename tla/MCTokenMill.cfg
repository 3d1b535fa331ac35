SPECIFICATION MillSpec
CONSTANTS
  INTERVAL_NUMBER = 1
  SCALE = 2
  BASE_PRECISION = 1
  QUOTE_PRECISION = 1
  MAX_TOTAL_SUPPLY = 2
  MAX_PRICE = 8
  U64_MAX = 30
  N = 2
  MAX_BPS = 2
  InitialQuote = 6
  Supplies = {2}
  PriceCurves <- MCCurves
  FeeShares = {1}
  Recipients = {2}
  Traders = {1}
  Amounts = {1}
  Thresholds = {30}
  P = 1
  STAKING_SCALE = 5
  StakeAmounts = {1, 2}
  FeeBound = 3
  Schedules <- MCSchedules
  TimeBound = 3
INVARIANTS
  BaseAccountCovered
  QuoteAccountCovered
  EveryoneCanBePaid
  BookAgrees
PROPERTIES
  ImplementsStaking
