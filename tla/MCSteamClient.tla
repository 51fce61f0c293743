---------------------------- MODULE MCSteamClient ----------------------------
(* Bounded instances of SteamClient.                                       *)
EXTENDS SteamClient
=============================================================================
