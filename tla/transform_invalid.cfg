SPECIFICATION Spec
CONSTANTS
  MaxBatch = 2
  MaxSamples = 6
  Faults <- InvalidSamples
INVARIANT OutputsExact
CHECK_DEADLOCK FALSE
