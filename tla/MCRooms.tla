------------------------------ MODULE MCRooms ------------------------------
(* Small instances of MonopolyRooms. *)
EXTENDS MonopolyRooms, TLC

Symmetry == Permutations(Players) \union Permutations(CallIDs) \union Permutations(RoomIDs)

=============================================================================
