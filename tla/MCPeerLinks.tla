------------------------------ MODULE MCPeerLinks ------------------------------
(* Instances of PeerLinks for TLC.                                         *)
EXTENDS PeerLinks

CONSTANTS h1, h2

(* One device on the first host, two runs of the program on the second.    *)
ThreeRuns   == 1..3
ThreeHomes  == <<h1, h2, h2>>
=============================================================================
