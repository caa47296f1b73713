SPECIFICATION FairSpec
CONSTANTS
  o1 = o1
  o2 = o2
  Offers = {o1, o2}
  Skipped = {o2}
  SessionLimit = 2
  MaxCalls = 2
  MaxFailures = 2
INVARIANT SessionsExplained
INVARIANT OverrideScoped
INVARIANT RedeemedIsHeld
PROPERTY RequestsEnd
CHECK_DEADLOCK FALSE
