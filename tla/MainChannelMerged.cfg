SPECIFICATION DataSpec
CONSTANTS
  MaxSockets = 2
  Configurations <- Kept
  MaxWrites <- TwoUp
  Capacity = 2
INVARIANT OneMessagePerFrame
CHECK_DEADLOCK FALSE
