SPECIFICATION FairSpec
CONSTANTS
  Paths = {p1}
  Openers <- FrontOpens
  MaxSessions = 3
  MaxData = 1
  MaxAgain = 1
INVARIANTS
  DataFindsItsSession
  NoOrphanedChannel
  EndsAgree
PROPERTY OpenIsAnswered
CHECK_DEADLOCK FALSE
