---------------------------- MODULE MCEventLoop ----------------------------
(* An instance of EventLoop for TLC; the .cfg gives the sets.              *)
EXTENDS EventLoop
=============================================================================
