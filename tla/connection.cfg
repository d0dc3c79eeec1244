SPECIFICATION Spec
CONSTANTS
  r1 = r1
  w1 = w1
  Readers <- OneReader
  Writers <- OneWriter
  Faults <- EveryFault
INVARIANTS
  TypeOK
  ReaderReady
  LeftByDeletion
  LeftByFailure
CHECK_DEADLOCK FALSE
