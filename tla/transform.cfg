SPECIFICATION Spec
CONSTANTS
  MaxBatch = 2
  MaxSamples = 6
  Faults <- ConversionFaults
INVARIANTS
  TypeOK
  OutputsExact
  BufferClean
CHECK_DEADLOCK FALSE
