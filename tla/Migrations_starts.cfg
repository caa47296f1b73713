SPECIFICATION Spec
CONSTANTS
  MaxFaults = 2
INVARIANT CompleteWhenFinished
INVARIANT RefusedForCause
CHECK_DEADLOCK FALSE
