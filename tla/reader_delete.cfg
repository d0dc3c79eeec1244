SPECIFICATION FairSpec
CONSTANTS
  MaxPolls = 2
  Faults <- NoFaults
PROPERTY DeleteCompletes
CHECK_DEADLOCK FALSE
