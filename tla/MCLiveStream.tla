---------------------------- MODULE MCLiveStream ----------------------------
(* An instance of LiveStream for TLC. *)
EXTENDS LiveStream
CONSTANT j1
=============================================================================
