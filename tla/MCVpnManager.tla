---------------------------- MODULE MCVpnManager ----------------------------
(* An instance of VpnManager for TLC; the .cfg gives the sets.             *)
EXTENDS VpnManager
=============================================================================
