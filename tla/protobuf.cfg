SPECIFICATION Spec
CONSTANTS
  MaxSize = 3
  MaxCalls = 4
  Faults <- EveryFault
INVARIANTS
  TypeOK
  OutputIsInput
  LoanReturned
CHECK_DEADLOCK FALSE
