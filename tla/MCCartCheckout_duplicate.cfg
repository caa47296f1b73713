SPECIFICATION Spec
CONSTANTS
  c1 = c1
  r1 = r1
  r2 = r2
  Carts = {c1}
  Refs = {r1}
  Buyers = {TRUE}
  Totals = {1}
  Databases = {"payments"}
  MaxDeliveries = 3
  MaxFaults = 0
SYMMETRY Symmetry
INVARIANT OneReceiptPerPayment
CHECK_DEADLOCK FALSE
