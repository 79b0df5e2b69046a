------------------------------- MODULE MCListen -------------------------------
(* FirestoreListen for TLC. *)
EXTENDS FirestoreListen

CONSTANTS a, b
=============================================================================
