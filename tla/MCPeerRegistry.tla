--------------------------- MODULE MCPeerRegistry ---------------------------
(* Instances of PeerRegistry for TLC.                                      *)
EXTENDS PeerRegistry

CONSTANTS p1, p2, w1, w2

TwoPeers   == {p1, p2}
TwoWorkers == {w1, w2}
=============================================================================
