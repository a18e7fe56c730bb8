SPECIFICATION FairPullSpec
CONSTANTS
  p1 = p1
  p2 = p2
  NoPeer = NoPeer
  Peers <- TwoPeers
  MaxOps = 2
  MaxOffers = 2
  MaxDump = 2
INVARIANTS
  PullTypeOK
  LaneIsOwned
  ReportsAreTrue
  
PROPERTY EveryOperationEnds
