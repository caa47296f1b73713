SPECIFICATION FairSpec
CONSTANTS
  c1 = c1
  r1 = r1
  r2 = r2
  Carts = {c1}
  Refs = {r1, r2}
  Buyers = {TRUE}
  Totals = {1, 2}
  Databases = {"bare", "014", "payments", "receipts"}
  MaxDeliveries = 2
  MaxFaults = 1
INVARIANT AnnouncedIsSettled
INVARIANT OneReceiptInSequence
INVARIANT SuccessIsRecorded
 
PROPERTY ImplementsLifecycle
PROPERTY KnownSuccessIsSettled
CHECK_DEADLOCK FALSE
