SPECIFICATION Spec
CONSTANTS
  MaxPolls = 2
  Faults <- ConsumerErrors
INVARIANT PollingSurvivesErrors
CHECK_DEADLOCK FALSE
