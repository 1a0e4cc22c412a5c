CONSTANTS
  blkA = blkA
  blkB = blkB
  blkC = blkC
  blkD = blkD
  peerP = peerP
  Owner = peerP
  Peers = {peerP}
  Cids = {blkA, blkB, blkC, blkD}
  Distance <- Distances
  Batches <- ShortLists
  BlkNumber = 4
  MaxBatch = 4
  EfficiencyDrops = TRUE
  Durations = {1, 2}
  MaxMisses = 4
SPECIFICATION WorkerSpec
INVARIANTS SequenceSorted SqueezeAgrees TolerateFollowsMisses
PROPERTIES AbsorbAgrees AdjusterAgrees
