------------------------------- MODULE MCCMClient -------------------------------
(* Bounded instances of CMClient; the cfg files choose the bounds.         *)
EXTENDS CMClient
=============================================================================
