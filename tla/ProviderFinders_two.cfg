CONSTANTS
  d1 = d1
  d2 = d2
  Dispatchers = {d1, d2}
  MaxProvs = 1
  MayCancel = TRUE
CHECK_DEADLOCK FALSE
SPECIFICATION FairSpec
INVARIANT ErrorNeedsAnother
PROPERTIES MainReturns FullFindersStop
