SPECIFICATION Spec
CONSTANTS
  INTERVAL_NUMBER = 2
  SCALE = 2
  BASE_PRECISION = 1
  QUOTE_PRECISION = 2
  MAX_TOTAL_SUPPLY = 4
  MAX_PRICE = 6
  U64_MAX = 30
  N = 2
  MAX_BPS = 4
  InitialQuote = 10
  Supplies = {4, 3, 6}
  PriceCurves <- MCPriceCurves
  FeeShares = {2}
  Recipients = {2}
  Traders = {1}
  Amounts = {0, 1, 3, 4}
  Thresholds = {3, 30}
INVARIANTS
  BaseConserved
  QuoteConserved
  Backed
  HoldersCanExit
PROPERTIES
  ImplementsReserve
