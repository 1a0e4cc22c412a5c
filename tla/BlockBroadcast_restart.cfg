CONSTANTS
  peerP = peerP
  peerQ = peerQ
  peerR = peerR
  Sessions = {1, 2}
  Endless = {2}
  first = peerP
  Others = {peerQ, peerR}
  MaxBlocks = 2
  Sizes = {2}
  MaxCrashes = 1
CHECK_DEADLOCK FALSE
SPECIFICATION Spec
INVARIANTS OwnContent OverlapNeedsRestart CommitAfterAll
PROPERTY BlocksEnd
