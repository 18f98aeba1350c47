SPECIFICATION FairSpec
CONSTANTS
  Clients = {c1, c2}
  MaxWatches = 2
  MaxEvents = 1
INVARIANTS
  OneLiveWatcher
  ReferencesAreHandles
PROPERTIES
  LossIsTold
  ClosedClientIsReleased
  UnusedIsDisposed
CHECK_DEADLOCK FALSE
