------------------------------- MODULE MCWrites -------------------------------
(* FirestoreWrites for TLC. *)
EXTENDS FirestoreWrites, TLC

CONSTANTS u1, u2

MCRefused == {<<u1, 2>>}

MCMaxWrites == u1 :> 3 @@ u2 :> 1
=============================================================================
