----------------------------- MODULE MCGCClient -----------------------------
(* Instances of GCClient for TLC.                                          *)
EXTENDS GCClient
=============================================================================
