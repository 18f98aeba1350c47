SPECIFICATION FairSpec
CONSTANTS
  c1 = c1
  c2 = c2
  c3 = c3
  Calls = {c1, c2, c3}
  Prelude = Prelude
  Setup = Setup
INVARIANTS
  OneTransactionAtATime
  TrueIsSaved
PROPERTY CallsSettle
CHECK_DEADLOCK FALSE
