SPECIFICATION Spec
CONSTANTS
  p1 = p1
  p2 = p2
  p3 = p3
  Peers <- ThreePeers
  MaxServes = 2
  MaxSession = 2
  MaxGen = 2
SYMMETRY PeerSymmetry
CONSTRAINT FewRequests
INVARIANTS ServeTypeOK FilesAreRight ServesAreSound
PROPERTY OneDumpPerSession
