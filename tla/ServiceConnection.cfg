SPECIFICATION FairSpec
CONSTANTS
  MaxMains = 3
  Calls = {c1, c2, c3}
INVARIANTS
  NoCallIsStranded
  ServiceIsAccountedFor
PROPERTY CallsSettle
CHECK_DEADLOCK FALSE
