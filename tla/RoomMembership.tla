--------------------------- MODULE RoomMembership ---------------------------
(***************************************************************************)
(* What the game rooms of MonopolyGame promise their players, with every   *)
(* operation one indivisible step: a room is opened once by its owner,     *)
(* players enter while there is a place and the game has not begun, players *)
(* leave, the owner's leaving hands the room to somebody who stays, and    *)
(* the last one out closes the room for good.                              *)
(*                                                                         *)
(* GameRoomFirestore.tla, translated from the code, implements this as     *)
(* long as the calls on one room do not overlap (OrderlySpec there).       *)
(***************************************************************************)
EXTENDS Integers, FiniteSets

CONSTANTS Players,      \* the players' document ids
          RoomIDs,      \* the rooms' document ids
          Peoples,      \* places in a room (parameter "peoples" of joinGameRoom)
          NoPlayer      \* the owner of a room that is not open

VARIABLES status,       \* room id -> "new", "open" or "closed"
          members,      \* room id -> the players in the room
          owner,        \* room id -> the player who may start the game
          running       \* room id -> has the game begun?

vars == <<status, members, owner, running>>

Init ==
    /\ status = [r \in RoomIDs |-> "new"]
    /\ members = [r \in RoomIDs |-> {}]
    /\ owner = [r \in RoomIDs |-> NoPlayer]
    /\ running = [r \in RoomIDs |-> FALSE]

\* A player opens a room nobody has used and is its owner and only member.
Open(r, p) ==
    /\ status[r] = "new"
    /\ status' = [status EXCEPT ![r] = "open"]
    /\ members' = [members EXCEPT ![r] = {p}]
    /\ owner' = [owner EXCEPT ![r] = p]
    /\ UNCHANGED running

\* A player takes a free place of a room whose game has not begun.
Enter(r, p) ==
    /\ status[r] = "open"
    /\ ~running[r]
    /\ p \notin members[r]
    /\ Cardinality(members[r]) < Peoples
    /\ members' = [members EXCEPT ![r] = @ \union {p}]
    /\ UNCHANGED <<status, owner, running>>

\* A member leaves others behind; an owner is succeeded by one of them.
Leave(r, p) ==
    /\ status[r] = "open"
    /\ p \in members[r]
    /\ members' = [members EXCEPT ![r] = @ \ {p}]
    /\ \E heir \in members[r] \ {p} :
          owner' = [owner EXCEPT ![r] = IF @ = p THEN heir ELSE @]
    /\ UNCHANGED <<status, running>>

\* The last member leaves; the room is closed.
Close(r, p) ==
    /\ status[r] = "open"
    /\ members[r] = {p}
    /\ status' = [status EXCEPT ![r] = "closed"]
    /\ members' = [members EXCEPT ![r] = {}]
    /\ owner' = [owner EXCEPT ![r] = NoPlayer]
    /\ running' = [running EXCEPT ![r] = FALSE]

\* The game of a room begins.
Start(r) ==
    /\ status[r] = "open"
    /\ running' = [running EXCEPT ![r] = TRUE]
    /\ UNCHANGED <<status, members, owner>>

Next ==
    \E r \in RoomIDs :
        \/ \E p \in Players : Open(r, p) \/ Enter(r, p) \/ Leave(r, p) \/ Close(r, p)
        \/ Start(r)

Spec == Init /\ [][Next]_vars

=============================================================================
