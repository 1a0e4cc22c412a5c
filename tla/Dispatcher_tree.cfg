CONSTANTS
  blkA = blkA
  blkB = blkB
  blkC = blkC
  peerP = peerP
  peerQ = peerQ
  Peers = {peerP, peerQ}
  Cids = {blkA, blkB, blkC}
  RootChilds <- TreeRoot
  Childs <- TreeChilds
  Has <- AllFull
  Distance <- Distances
  BlkNumber = 1
  MaxRuns = 1
  MaxBatch = 2
  VisitCap = 2
  EfficiencyDrops = TRUE
  MayCancel = TRUE
CHECK_DEADLOCK FALSE
SPECIFICATION Spec
INVARIANTS TypeOK SequenceTracked FilledIsVisited ParentFirst WorkingFlagTruthful SomebodyResponsible CompleteOnNil
PROPERTY FetchSpec
