SPECIFICATION Spec
CONSTANTS
  t1 = t1
  t2 = t2
  t3 = t3
  Transforms <- ThreeTransforms
  FailAt <- EveryStage
INVARIANTS
  TypeOK
  RegistryExact
  FreedOnce
  NothingLeaked
CHECK_DEADLOCK FALSE
