---------------------------- MODULE MCLifecycle ----------------------------
(* An instance of Lifecycle for TLC; the .cfg gives the numbers.           *)
EXTENDS Lifecycle
=============================================================================
