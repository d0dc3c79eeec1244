SPECIFICATION Spec
CONSTANTS
  Types <- MCTypes
  Schema <- MCSchema
  Root = "Root"
  Rank <- MCRank
  CharMin <- SignedChar
  Samples <- MCSamples
  Messages <- MCMessages
  DescriptorSets <- MCDescriptorSets
  InitialSize = 2
  MaxCalls = 2
  Faults <- AllFaults
INVARIANTS
  TypeOK
  NothingForeign
  NothingLeftOut
  BindingsFollowCalls
  BindNeverRefused
  CapacityHonest
CHECK_DEADLOCK FALSE
