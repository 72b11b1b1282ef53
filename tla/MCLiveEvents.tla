---------------------------- MODULE MCLiveEvents ----------------------------
(* Small instances of LiveEvents for TLC. *)
EXTENDS LiveEvents
=============================================================================
