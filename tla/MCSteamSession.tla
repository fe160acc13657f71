--------------------------- MODULE MCSteamSession ---------------------------
(* SteamSession for TLC: two accounts.                                      *)
EXTENDS SteamSession
=============================================================================
