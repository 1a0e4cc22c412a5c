CONSTANTS
  peerA = peerA
  peerB = peerB
  peerC = peerC
  lookup1 = lookup1
  lookup2 = lookup2
  NoPeer = NoPeer
  Peers = {peerA, peerB, peerC}
  Lookups = {lookup1, lookup2}
  SeedsOf <- TwoSeeds
  ClosersOf <- Pair
  MaxEvents = 2
  MaxCollects = 1
SPECIFICATION Spec
CHECK_DEADLOCK FALSE
INVARIANTS PathsEnd PathsBeginAtSeeds
PROPERTY CollectEnds
