------------------------------- MODULE MCStore -------------------------------
(* TLC instances of the store of game rooms: any caller, any interleaving.  *)
EXTENDS GameRoomFirestore

Symmetry == Permutations(Players) \union Permutations(CallIDs) \union Permutations(RoomIDs)

=============================================================================
