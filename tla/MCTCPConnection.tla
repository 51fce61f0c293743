---------------------------- MODULE MCTCPConnection ----------------------------
(* Bounded instances of TCPConnection; the cfg files choose the bounds.    *)
EXTENDS TCPConnectionLink
=============================================================================
