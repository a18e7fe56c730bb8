SPECIFICATION Spec
CONSTANTS
  p1 = p1
  p2 = p2
  p3 = p3
  Peers <- TwoPeers
  MaxServes = 2
  MaxSession = 2
  MaxGen = 2
INVARIANT WaitersAreTold
