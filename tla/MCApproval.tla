------------------------------- MODULE MCApproval -------------------------------
(* Instances of Approval for TLC.                                          *)
EXTENDS Approval, TLC

CONSTANTS p, q

TwoPeers == {p, q}
=============================================================================
