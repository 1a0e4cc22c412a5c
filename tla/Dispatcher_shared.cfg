CONSTANTS
  blkA = blkA
  blkB = blkB
  blkC = blkC
  peerP = peerP
  peerQ = peerQ
  Peers = {peerP, peerQ}
  Cids = {blkA, blkB, blkC}
  RootChilds <- ChainRoot
  Childs <- SharedChilds
  Has <- CoWorker
  Distance <- Distances
  BlkNumber = 4
  MaxRuns = 1
  MaxBatch = 3
  VisitCap = 2
  EfficiencyDrops = TRUE
  MayCancel = TRUE
CHECK_DEADLOCK FALSE
SPECIFICATION Spec
INVARIANT RoundAccounting
