CONSTANTS
  blkA = blkA
  blkB = blkB
  blkC = blkC
  peerP = peerP
  peerQ = peerQ
  Peers = {peerP, peerQ}
  Cids = {blkA, blkB}
  RootChilds <- ChainRoot
  Childs <- ChainChilds
  Has <- AllFull
  Distance <- Distances
  BlkNumber = 1
  MaxRuns = 1
  MaxBatch = 2
  VisitCap = 2
  EfficiencyDrops = FALSE
  MayCancel = FALSE
CHECK_DEADLOCK FALSE
SPECIFICATION Spec
INVARIANT VisitedOnce
