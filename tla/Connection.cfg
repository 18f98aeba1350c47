SPECIFICATION FairSpec
CONSTANTS
  MaxSockets = 4
  Configurations <- Consistent
INVARIANT OneContext
PROPERTIES
  ServedUntilDisconnected
  ReconnectResumesChannel
  EventuallyServed
  UnusedContextIsDiscarded
CHECK_DEADLOCK FALSE
