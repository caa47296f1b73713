SPECIFICATION Spec
CONSTANTS
  t1 = t1
  t2 = t2
  k1 = k1
  k2 = k2
  c1 = c1
  c2 = c2
  r1 = r1
  r2 = r2
  l1 = l1
  l2 = l2
  a1 = a1
  a2 = a2
  a3 = a3
  Tenants = {t1}
  Skus = {k1}
  Carts = {c1}
  Receipts = {r1}
  LotIds = {l1, l2}
  AllocIds = {a1}
  Quantities = {1}
  Costs = {1}
  ReceiveOptions <- AllOptions
  VCChoices = {FALSE}
  MaxLines = 1
  MaxTime = 1
  MaxFaults = 0
  ForeignPreference = FALSE
  VerifyLimit = 100
SYMMETRY Symmetry
INVARIANT ChainHashesVerify
CHECK_DEADLOCK FALSE
