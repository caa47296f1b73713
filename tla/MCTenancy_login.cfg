SPECIFICATION Spec
CONSTANTS
  n1 = n1
  n2 = n2
  m1 = m1
  m2 = m2
  Names = {n1}
  Emails = {m1}
  MaxRequests = 3
  MaxNonces = 1
PROPERTY DidLogsIn
CHECK_DEADLOCK FALSE
