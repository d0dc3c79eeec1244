SPECIFICATION Spec
CONSTANTS
  Payloads <- BinaryPayloads
  MaxBatch = 2
  MaxSamples = 2
  QueueMax = 2
  Garbage <- Neighbours
  Faults <- NoFaults
INVARIANT PayloadPublished
CHECK_DEADLOCK FALSE
