SPECIFICATION Spec
CONSTANTS
  n1 = n1
  n2 = n2
  m1 = m1
  m2 = m2
  Names = {n1, n2}
  Emails = {m1, m2}
  MaxRequests = 3
  MaxNonces = 1
SYMMETRY Symmetry
INVARIANT UsersHaveWallets
INVARIANT AnnouncedIsSaved
INVARIANT RefusedLeavesNothing
CHECK_DEADLOCK FALSE
