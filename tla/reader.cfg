SPECIFICATION FairSpec
CONSTANTS
  MaxPolls = 4
  Faults <- EveryFault
INVARIANTS
  TypeOK
  BatonExclusive
  MessageLiveWhileUsed
  DestroyedExactlyOnce
  DeliveredInOrder
  NoMessageLost
  SilentOnlyUnread
  NoThreadInFreedReader
PROPERTIES
  ImplementsHandoff
  EventuallyDelivered
  PollingResumes
CHECK_DEADLOCK FALSE
