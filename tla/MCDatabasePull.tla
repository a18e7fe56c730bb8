---------------------------- MODULE MCDatabasePull ----------------------------
(* Two peers to pull from, for TLC.                                         *)
EXTENDS DatabasePull

CONSTANTS p1, p2

TwoPeers == {p1, p2}
=============================================================================
