SPECIFICATION FairSpec
CONSTANTS
  a1 = a1
  a2 = a2
  a = a
  Tabs = {a1, a2}
  Docs = {a}
  DocOf <- TabDoc
  Modes = {"off", "afterDelay", "onFocusChange"}
  MaxEdits = 2
  Options = {"ask", "dont"}
  Bulk = Bulk
  Exit = Exit
PROPERTIES
  LossIsDeclined
  ClosingEnds
  AutoSaves
CHECK_DEADLOCK FALSE
