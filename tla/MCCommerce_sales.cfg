SPECIFICATION CommerceSpec
CONSTANTS
  t1 = t1
  k1 = k1
  k2 = k2
  c1 = c1
  c2 = c2
  r1 = r1
  r2 = r2
  l1 = l1
  l2 = l2
  a1 = a1
  a2 = a2
  Tenants = {t1}
  Skus = {k1, k2}
  Carts = {c1, c2}
  Receipts = {r1, r2}
  LotIds = {l1, l2}
  AllocIds = {a1, a2}
  Quantities <- Signed
  Costs = {2}
  Received = {1}
  ReceiveOptions <- AllOptions
  VCChoices = {FALSE}
  MaxLines = 1
  MaxTime = 0
  MaxFaults = 1
  ForeignPreference = FALSE
  VerifyLimit = 100
  MaxEvents = 5
SYMMETRY Symmetry
CONSTRAINT ShortLog
INVARIANT ReservationsBacked
INVARIANT LedgerExplainsLots
INVARIANT ProjectionMatchesLots
INVARIANT ChainLinked
INVARIANT ReceiptsListSales
CHECK_DEADLOCK FALSE
