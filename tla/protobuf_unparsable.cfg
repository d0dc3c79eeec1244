SPECIFICATION Spec
CONSTANTS
  MaxSize = 3
  MaxCalls = 4
  Faults <- Unparsable
INVARIANT FailureReturned
CHECK_DEADLOCK FALSE
