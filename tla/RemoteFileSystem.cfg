SPECIFICATION FairSpec
CONSTANTS
  MaxWatches = 1
  MaxReads = 2
  MaxLives = 2
  Pieces = 2
INVARIANTS
  WatchesAgree
  StreamIsTheFile
PROPERTY ReadsEnd
CHECK_DEADLOCK FALSE
