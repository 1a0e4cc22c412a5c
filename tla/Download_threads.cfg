CONSTANTS
  blkA = blkA
  blkB = blkB
  leafB = leafB
  blkC = blkC
  peerP = peerP
  peerQ = peerQ
  Blocks = {blkA, blkB, leafB, blkC}
  Peers = {peerP, peerQ}
  concurrentGet = 2
  CidFile <- MCCidFile
  lastEnded = FALSE
  BlocksOf <- MCBlocksOf
  CallsOf <- MCCallsOf
  Goroutines = {1, 2}
  pag = TRUE
  sad = FALSE
CHECK_DEADLOCK FALSE
SPECIFICATION Spec
INVARIANTS NeverOvercounts ExactWhenAlone OwnFileWhenUndisturbed EndedLinesTried
