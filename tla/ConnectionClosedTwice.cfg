SPECIFICATION FairSpec
CONSTANTS
  MaxSockets = 2
  Configurations <- Consistent
INVARIANT NotCalledWithoutConnection
CHECK_DEADLOCK FALSE
