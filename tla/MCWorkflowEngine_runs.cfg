SPECIFICATION FairSpec
CONSTANTS
  v = v
  w = w
  Workflows = {v, w}
  Definitions <- Short
  MaxStarts = 2
  MaxChanges = 3
  MaxCrashes = 1
INVARIANT TypeOK
INVARIANT StepLog
INVARIANT LoopsMatchRuns
PROPERTY ImplementsWorkflowRuns
PROPERTY RunsEnd
CHECK_DEADLOCK FALSE
