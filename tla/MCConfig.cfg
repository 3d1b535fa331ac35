SPECIFICATION Spec
CONSTANTS
  k1 = k1
  k2 = k2
  k3 = k3
  c1 = c1
  c2 = c2
  Keys = {k1, k2, k3}
  Configs = {c1, c2}
  Mints = {q1}
  Supported = {q1}
  Markets = {m1}
  MAX_BPS = 2
  FeeShares = {1, 3}
  None = None
SYMMETRY Symmetric
INVARIANTS
  TypeOK
  PendingNamedByAuthority
PROPERTIES
  HandoverAgreed
  AuthorityRules
  BadgeCoversMarket
