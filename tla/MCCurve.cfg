SPECIFICATION Spec
CONSTANTS
  INTERVAL_NUMBER = 2
  SCALE = 6
  BASE_PRECISION = 2
  QUOTE_PRECISION = 3
  MAX_TOTAL_SUPPLY = 12
  MAX_PRICE = 25
  U64_MAX = 46
  Curves <- MCCurves
  TotalSupply = 12
  MaxAmount = 14
INVARIANTS
  RoundingFavoursMarket
  WithinSupply
  ExactFormsAgree
  SplitNeverBeatsWhole
  SalePaysForSomething
  ReserveAlwaysForSale
