SPECIFICATION Spec
CONSTANTS
  u1 = u1
  u2 = u2
  m1 = m1
  m2 = m2
  Users = {u1, u2}
  Markets = {m1}
  QuoteMints = {usd}
  Taxed = {}
  Plans = {p1, p2}
  Supply = 2
  InitialQuote = 1
  Amounts = {1, 2}
  None = None
INVARIANTS
  SharesLinked
