-------------------------- MODULE MCDatabaseServe --------------------------
(* Instances of DatabaseServe for TLC.  Peers differ in nothing but name.   *)
EXTENDS DatabaseServe, TLC
CONSTANTS p1, p2, p3
TwoPeers == {p1, p2}
ThreePeers == {p1, p2, p3}
(* Three requests between them: every peer asks, or one asks again.  Two    *)
(* once the counter was lost: a name given out again needs no third.        *)
FewRequests ==
  lastSession[p1] + lastSession[p2] + lastSession[p3] <= IF metaState = "lost" THEN 2 ELSE 3
PeerSymmetry == Permutations(Peers)
=============================================================================
