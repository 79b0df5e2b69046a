-------------------------- MODULE GameRoomFirestore --------------------------
(***************************************************************************)
(* The store of game rooms of MonopolyGame: class GameRoomFirestore, the   *)
(* documents of the Firestore collection "Rooms" it reads and writes, and  *)
(* the calls of all the players' apps that are under way on it.            *)
(*                                                                         *)
(* No operation of the class is a transaction.  Each one sends a read, and *)
(* when the answer arrives its completion computes a whole room from the   *)
(* answer and writes it over whatever the document holds by then.  So a    *)
(* call has three moments: it is made, the server takes the snapshot that  *)
(* answers it, and its callback runs; the calls of all apps interleave     *)
(* between them.                                                           *)
(***************************************************************************)
EXTENDS Integers, Sequences, FiniteSets, SequencesExt

CONSTANTS Players,      \* the players' document ids
          RoomIDs,      \* document ids Firestore may give a new room (the bound on rooms)
          ShareKeys,    \* four-letter keys a room may draw
          CallIDs,      \* the calls that may be under way at once (the bound on overlap)
          Peoples,      \* places in a room (default argument "peoples" of joinGameRoom)
          NoDoc,        \* no document: never written, or an answer without one
          NoCall        \* a call that is not under way

VARIABLES rooms,        \* the collection "Rooms": id -> document
          calls,        \* the calls under way: call id -> call
          entered       \* history: id -> the players who ever put themselves in the room

storeVars == <<rooms, calls, entered>>

----------------------------------------------------------------------------
(* Documents.  A deleted document keeps its last contents with exists =    *)
(* FALSE: they are what a listener's "removed" event still delivers.       *)

Room == [exists : BOOLEAN, ownerID : Players, shareKey : ShareKeys,
         playerIDs : Seq(Players), gameRunning : BOOLEAN]

LiveRoom == {room \in Room : room.exists}

StoreAssumption ==
    /\ Peoples \in Nat \ {0}
    /\ NoDoc \notin Room
    /\ RoomIDs \intersect ShareKeys = {}

ASSUME StoreAssumption

\* GameRoom(player:): the only member owns the room.
NewRoom(player, key) ==
    [exists |-> TRUE, ownerID |-> player, shareKey |-> key,
     playerIDs |-> <<player>>, gameRunning |-> FALSE]

Exists(r) == rooms[r] # NoDoc /\ rooms[r].exists

Member(room, player) == \E i \in DOMAIN room.playerIDs : room.playerIDs[i] = player

\* The room takes players: there is a place left and the game has not begun.
HasPlace(room) == Len(room.playerIDs) < Peoples /\ ~room.gameRunning

\* Variant: without the loop that looks for the player.
CanEnterTwice(room, player) == HasPlace(room)

CanEnter(room, player) == HasPlace(room) /\ ~Member(room, player)

WithPlayer(room, player) == [room EXCEPT !.playerIDs = Append(@, player)]

\* Variant: without the loop that moves playerIDIdx.
FirstPosition(room, player) == 1

\* The position quitGameRoom removes.  playerIDIdx starts at the first
\* position and is only moved when the player is found.
QuitPosition(room, player) ==
    IF Member(room, player)
    THEN CHOOSE i \in DOMAIN room.playerIDs :
            /\ room.playerIDs[i] = player
            /\ \A j \in 1 .. i - 1 : room.playerIDs[j] # player
    ELSE 1

\* Variant: the quitting owner stays the owner.
SameOwner(room, player) == room.ownerID

\* A quitting owner is succeeded by the next player round the list.
NextOwner(room, player) ==
    IF room.ownerID = player
    THEN room.playerIDs[(QuitPosition(room, player) % Len(room.playerIDs)) + 1]
    ELSE room.ownerID

WithoutPlayer(room, player) ==
    [room EXCEPT !.ownerID = NextOwner(room, player),
                 !.playerIDs = RemoveAt(@, QuitPosition(room, player))]

Running(room) == [room EXCEPT !.gameRunning = TRUE]

----------------------------------------------------------------------------
(* Calls.  "search" and "confirm" are the two reads of createGameRoom,     *)
(* "find" and "join" those of joinGameRoom, "quit" and "update" the reads  *)
(* of quitGameRoom and updateGameRoom.  The target is the document read,   *)
(* or the share key of the room to make or to find.                        *)

DocumentReads == {"confirm", "join", "quit", "update"}

Call == [op : {"search", "find"} \union DocumentReads, stage : {"asked", "answered"},
         player : Players, target : RoomIDs \union ShareKeys,
         unexist : BOOLEAN, snap : LiveRoom \union {NoDoc}]

Asked(op, player, target) ==
    [op |-> op, stage |-> "asked", player |-> player, target |-> target,
     unexist |-> TRUE, snap |-> NoDoc]

UnderWay(k, op, stage) ==
    calls[k] # NoCall /\ calls[k].op = op /\ calls[k].stage = stage

Makes(k, call) == calls[k] = NoCall /\ calls' = [calls EXCEPT ![k] = call]

Returns(k) == calls' = [calls EXCEPT ![k] = NoCall]

\* setData: the whole document, whatever it held, whether or not it existed.
SetData(r, room) == rooms' = [rooms EXCEPT ![r] = room]

\* Variant: a deleted room's id is given out again.
NotInUse == {r \in RoomIDs : ~Exists(r)}

Unused == {r \in RoomIDs : rooms[r] = NoDoc}

\* Variant: document.exists is not looked at.
FoundDeleted(target) == {rooms[r] : r \in {r \in RoomIDs : r = target /\ rooms[r] # NoDoc}}

\* The document with the id, if it exists.
Found(target) == {rooms[r] : r \in {r \in RoomIDs : r = target /\ Exists(r)}}

\* The bound: every createGameRoom under way can still get a document id.
RoomLeft == Cardinality({k \in CallIDs : calls[k] # NoCall /\ calls[k].op = "search"})
              < Cardinality(Unused)

----------------------------------------------------------------------------
(* The calls the pages make.                                               *)

\* createGameRoom for a room drawn with this key: look for a room of the owner.
CreateGameRoom(k, player, key) ==
    /\ RoomLeft
    /\ Makes(k, Asked("search", player, key))
    /\ UNCHANGED <<rooms, entered>>

\* joinGameRoom(shareKey:): look for a room with the key.
JoinGameRoom(k, player, key) ==
    /\ Makes(k, Asked("find", player, key))
    /\ UNCHANGED <<rooms, entered>>

\* quitGameRoom: the room is the one the player's profile names, so one the
\* player has entered; the player need not be in it any more.
QuitGameRoom(k, player, r) ==
    /\ player \in entered[r]
    /\ Makes(k, Asked("quit", player, r))
    /\ UNCHANGED <<rooms, entered>>

\* updateGameRoom, which the Start button calls for the room on the page.
UpdateGameRoom(k, player, r) ==
    /\ player \in entered[r]
    /\ Makes(k, Asked("update", player, r))
    /\ UNCHANGED <<rooms, entered>>

----------------------------------------------------------------------------
(* Firestore answers.  A read that fails looks to every caller like one    *)
(* that found nothing.                                                     *)

\* searchGameRoom(ownerID:): is there no room of the owner?
SearchAnswered(k) ==
    /\ UnderWay(k, "search", "asked")
    /\ \E unexist \in {TRUE, ~ \E r \in RoomIDs : Exists(r) /\ rooms[r].ownerID = calls[k].player} :
          calls' = [calls EXCEPT ![k].stage = "answered", ![k].unexist = unexist]
    /\ UNCHANGED <<rooms, entered>>

\* getGameRoom(shareKey:): one of the rooms with the key; joinGameRoom at once
\* reads its document.  Without one the call completes with nil.
ShareKeyAnswered(k) ==
    /\ UnderWay(k, "find", "asked")
    /\ \/ \E r \in RoomIDs :
             /\ Exists(r) /\ rooms[r].shareKey = calls[k].target
             /\ calls' = [calls EXCEPT ![k] = Asked("join", calls[k].player, r)]
       \/ Returns(k)
    /\ UNCHANGED <<rooms, entered>>

\* getDocument: the server takes the snapshot that answers the call.
DocumentAnswered(k) ==
    /\ \E op \in DocumentReads : UnderWay(k, op, "asked")
    /\ \E snap \in {NoDoc} \union Found(calls[k].target) :
          calls' = [calls EXCEPT ![k].stage = "answered", ![k].snap = snap]
    /\ UNCHANGED <<rooms, entered>>

----------------------------------------------------------------------------
(* The callbacks.                                                          *)

\* createGameRoom adds the document whatever the search found (there is no
\* return under "Game room existed."), then reads it back.
AddDocument(k, r) ==
    /\ UnderWay(k, "search", "answered")
    /\ r \in Unused
    /\ SetData(r, NewRoom(calls[k].player, calls[k].target))
    /\ entered' = [entered EXCEPT ![r] = {calls[k].player}]
    /\ calls' = [calls EXCEPT ![k] = Asked("confirm", calls[k].player, r)]

\* createGameRoom completes with the room read back, or not at all.
CreateReturns(k) ==
    /\ UnderWay(k, "confirm", "answered")
    /\ Returns(k)
    /\ UNCHANGED <<rooms, entered>>

\* joinGameRoom writes the snapshot with the player appended, if the snapshot
\* has a place for a player it does not name.
JoinReturns(k) ==
    /\ UnderWay(k, "join", "answered")
    /\ LET call == calls[k] IN
       IF call.snap # NoDoc /\ CanEnter(call.snap, call.player)
       THEN /\ SetData(call.target, WithPlayer(call.snap, call.player))
            /\ entered' = [entered EXCEPT ![call.target] = @ \union {call.player}]
       ELSE UNCHANGED <<rooms, entered>>
    /\ Returns(k)

\* What the completion of joinGameRoom or createGameRoom receives: a room, or
\* NoDoc for nil (a create that reads nothing back does not complete).
Completion(call) ==
    IF call.op # "join" \/ call.snap = NoDoc THEN call.snap
    ELSE IF CanEnter(call.snap, call.player) THEN WithPlayer(call.snap, call.player)
    ELSE IF HasPlace(call.snap) THEN call.snap
    ELSE NoDoc

\* quitGameRoom writes the snapshot without the player, or deletes the document
\* of an owner who is alone; anybody else alone is told off.
QuitReturns(k) ==
    /\ UnderWay(k, "quit", "answered")
    /\ LET call == calls[k] IN
       IF call.snap = NoDoc THEN UNCHANGED rooms
       ELSE IF Len(call.snap.playerIDs) > 1
            THEN SetData(call.target, WithoutPlayer(call.snap, call.player))
       ELSE IF call.snap.ownerID = call.player
            THEN rooms' = [rooms EXCEPT ![call.target].exists = FALSE]
       ELSE UNCHANGED rooms
    /\ Returns(k)
    /\ UNCHANGED entered

\* updateGameRoom with the completion of startGameUpdate: the snapshot, running.
UpdateReturns(k) ==
    /\ UnderWay(k, "update", "answered")
    /\ IF calls[k].snap = NoDoc
       THEN UNCHANGED rooms
       ELSE SetData(calls[k].target, Running(calls[k].snap))
    /\ Returns(k)
    /\ UNCHANGED entered

\* A player's app is killed: none of its callbacks will run.
AppKilled(player) ==
    /\ calls' = [k \in CallIDs |-> IF calls[k] # NoCall /\ calls[k].player = player
                                    THEN NoCall ELSE calls[k]]
    /\ UNCHANGED <<rooms, entered>>

----------------------------------------------------------------------------

Init ==
    /\ rooms = [r \in RoomIDs |-> NoDoc]
    /\ calls = [k \in CallIDs |-> NoCall]
    /\ entered = [r \in RoomIDs |-> {}]

\* What the players' pages ask for.
PagesCall(k) ==
    \E player \in Players :
        \/ \E key \in ShareKeys : CreateGameRoom(k, player, key) \/ JoinGameRoom(k, player, key)
        \/ \E r \in RoomIDs : QuitGameRoom(k, player, r) \/ UpdateGameRoom(k, player, r)

\* What Firestore and the callbacks do with a call under way.
CallProceeds(k) ==
    \/ SearchAnswered(k)
    \/ ShareKeyAnswered(k)
    \/ DocumentAnswered(k)
    \/ \E r \in RoomIDs : AddDocument(k, r)
    \/ CreateReturns(k)
    \/ JoinReturns(k)
    \/ QuitReturns(k)
    \/ UpdateReturns(k)

Next ==
    \/ \E k \in CallIDs : PagesCall(k) \/ CallProceeds(k)
    \/ \E player \in Players : AppKilled(player)

Spec == Init /\ [][Next]_storeVars

----------------------------------------------------------------------------
(* What holds however the calls interleave.                                *)

\* Type correctness of the documents, the calls (their snapshots exist) and
\* the history.
TypeOK ==
    /\ rooms \in [RoomIDs -> Room \union {NoDoc}]
    /\ calls \in [CallIDs -> Call \union {NoCall}]
    /\ entered \in [RoomIDs -> SUBSET Players]

\* A list of players a room may show: somebody is in it, nobody twice, and not
\* more than there are places.
WellFormed(room) ==
    /\ Len(room.playerIDs) \in 1 .. Peoples
    /\ \A i, j \in DOMAIN room.playerIDs :
          room.playerIDs[i] = room.playerIDs[j] => i = j

\* However the joins, quits and starts of several apps overlap, a room never
\* shows a player twice, more players than it has places, or nobody.
RoomsWellFormed == \A r \in RoomIDs : rooms[r] # NoDoc => WellFormed(rooms[r])

Among(room, players) ==
    /\ room.ownerID \in players
    /\ \A i \in DOMAIN room.playerIDs : room.playerIDs[i] \in players

\* However stale a write is, it puts into a room, and makes its owner, only
\* players who entered that room themselves.
OnlyEntrants == \A r \in RoomIDs : rooms[r] # NoDoc => Among(rooms[r], entered[r])

\* Why the two invariants survive stale writes: a snapshot under way, which a
\* callback may write back at any later time, satisfies them too.
SoundCall(call) ==
    /\ call.op \in DocumentReads => call.target \in RoomIDs
    /\ call.op \notin DocumentReads => call.target \in ShareKeys /\ call.snap = NoDoc
    /\ call.snap # NoDoc =>
          /\ rooms[call.target] # NoDoc
          /\ WellFormed(call.snap)
          /\ Among(call.snap, entered[call.target])

CallsSound == \A k \in CallIDs : calls[k] # NoCall => SoundCall(calls[k])

StoreInv == TypeOK /\ CallsSound /\ RoomsWellFormed /\ OnlyEntrants

----------------------------------------------------------------------------
(* What holds when the calls on one room do not overlap.                   *)

OneCallPerRoom ==
    \A k1, k2 \in CallIDs :
        (/\ calls[k1] # NoCall /\ calls[k2] # NoCall
         /\ calls[k1].target = calls[k2].target /\ calls[k1].target \in RoomIDs) => k1 = k2

QuittersAreMembers ==
    \A k \in CallIDs : calls[k] # NoCall /\ calls[k].op = "quit" =>
        Exists(calls[k].target) /\ Member(rooms[calls[k].target], calls[k].player)

\* The discipline: one call at a time on a room, and only members quit.
Orderly == OneCallPerRoom /\ QuittersAreMembers

OrderlySpec == Init /\ [][Next /\ Orderly']_storeVars

\* The owner, who alone sees the Start button, is in the room.
OwnerIsMember == \A r \in RoomIDs : Exists(r) => Member(rooms[r], rooms[r].ownerID)

\* The refinement mapping: what RoomMembership sees of the documents.
statusOf  == [r \in RoomIDs |-> IF rooms[r] = NoDoc THEN "new"
                                ELSE IF rooms[r].exists THEN "open" ELSE "closed"]
membersOf == [r \in RoomIDs |-> IF Exists(r) THEN Range(rooms[r].playerIDs) ELSE {}]
ownerOf   == [r \in RoomIDs |-> IF Exists(r) THEN rooms[r].ownerID ELSE NoDoc]
runningOf == [r \in RoomIDs |-> IF Exists(r) THEN rooms[r].gameRunning ELSE FALSE]

RM == INSTANCE RoomMembership WITH
        NoPlayer <- NoDoc, status <- statusOf, members <- membersOf,
        owner <- ownerOf, running <- runningOf

\* Calls on one room that do not overlap amount to indivisible operations.
Membership == RM!Spec

==============================================================================
