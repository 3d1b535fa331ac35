SPECIFICATION Spec
CONSTANTS
  u1 = u1
  u2 = u2
  m1 = m1
  m2 = m2
  Users = {u1, u2}
  Markets = {m1, m2}
  QuoteMints = {usd, taxed}
  Taxed = {taxed}
  Plans = {p1}
  Supply = 1
  InitialQuote = 1
  Amounts = {1}
  None = None
SYMMETRY Symmetric
INVARIANTS
  TypeOK
  SharesLinked
  BaseCovered
  QuoteCovered
PROPERTIES
  OnlySignersPay
