SPECIFICATION FairFileSpec
CONSTANTS
  MaxTime = 3
  Sizes = {1, 2}
  Saves = {s1, s2}
  ReadCalls = {r1}
INVARIANT NoBlindOverwrite
PROPERTY ChangeIsNoticed
CHECK_DEADLOCK FALSE
