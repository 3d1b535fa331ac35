SPECIFICATION Spec
CONSTANTS
  INTERVAL_NUMBER = 2
  SCALE = 2
  BASE_PRECISION = 1
  QUOTE_PRECISION = 2
  MAX_TOTAL_SUPPLY = 4
  MAX_PRICE = 6
  U64_MAX = 30
  N = 2
  MAX_BPS = 4
  InitialQuote = 7
  Supplies = {4, 3, 6}
  PriceCurves <- MCWideCurve
  FeeShares = {0, 2, 5}
  Recipients = {1, 2}
  Traders = {1}
  Amounts = {2}
  Thresholds = {2, 30}
INVARIANTS
  TypeOK
  FeeSplitFits
PROPERTIES
  ProtocolShareFixed
  FeePotsOnlyGrow
