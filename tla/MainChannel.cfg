SPECIFICATION DataSpec
CONSTANTS
  MaxSockets = 3
  Configurations <- Kept
  MaxWrites <- FewWrites
  Capacity = 2
INVARIANTS
  FrontendReceivesInOrder
  BackendReceivesOnce
  OpenChannelsReachTheirContext
CHECK_DEADLOCK FALSE
