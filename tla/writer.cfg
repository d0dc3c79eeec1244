SPECIFICATION FairSpec
CONSTANTS
  Payloads <- MixedPayloads
  MaxBatch = 2
  MaxSamples = 3
  QueueMax = 2
  Garbage <- Neighbours
  Faults <- EveryFault
INVARIANTS
  TypeOK
  FullQueueDropsNothing
  ReportedOnce
  TextPublished
PROPERTIES
  WriteReturns
  DeletionSettles
  ImplementsOutput
CHECK_DEADLOCK FALSE
