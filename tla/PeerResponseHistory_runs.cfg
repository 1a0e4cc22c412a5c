CONSTANTS
  peerP = peerP
  peerQ = peerQ
  peerR = peerR
  updA = updA
  updB = updB
  torn = torn
  Peers = {peerP, peerQ, peerR}
  Routines = {updA, updB}
  Durs = {1, 3}
  Size = 2
  MaxRuns = 2
  MaxUpdates = 2
CHECK_DEADLOCK FALSE
SPECIFICATION Spec
SYMMETRY Symmetric
INVARIANTS RestartRemembers OnlyMeasured AverageSound
