---------------------------- MODULE MCSteamLogon ----------------------------
(* Instances of SteamLogon for TLC.                                        *)
EXTENDS SteamLogon
CONSTANTS u1, u2, a, b
MCCodes == {OK, "Canceled"}
=============================================================================
