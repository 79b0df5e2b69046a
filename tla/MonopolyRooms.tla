---------------------------- MODULE MonopolyRooms ----------------------------
(***************************************************************************)
(* The apps of the players around the store of game rooms: the pages that  *)
(* lead into a room and out of it (HomePage, ProfilePage,                  *)
(* GameCreateJoinRoomPage, GameRoomWaitPage), the stack of pages, the      *)
(* player's own document in the collection "players" (PlayerFirestore),    *)
(* and the listener the wait page keeps on its room.                       *)
(*                                                                         *)
(* Every app runs its buttons and callbacks one at a time on its main      *)
(* queue; the apps interleave.  A page appears, and its onAppear runs, in  *)
(* the step that sets currentPage.                                         *)
(***************************************************************************)
EXTENDS Integers, Sequences

CONSTANTS Players, RoomIDs, ShareKeys, CallIDs, Peoples, NoDoc, NoCall,
          NoRoom,       \* gameRoomID = "": the profile names no room
          NoProfile,    \* playerProfile = Player(): nothing loaded since the launch
          NoListener,   \* the app does not listen to a room
          MaxUpdates    \* bound: equal calls of updatePlayerData under way in one app

VARIABLES rooms, calls, entered,    \* GameRoomFirestore
          currentPage,              \* player -> page
          lastPageStack,            \* player -> pages to go back to
          playerProfile,            \* player -> gameRoomID of the profile in memory
          playerDoc,                \* player -> gameRoomID of the document in "players"
          userGameRoom,             \* player -> the room on the page, or NoDoc for nil
          roomListener,             \* player -> the room whose listener the wait page can remove
          heard,                    \* player -> room -> what its listener delivered last
          updates,                  \* player -> gameRoomID -> calls of updatePlayerData under way
          reading                   \* the players whose profile is being read

Store == INSTANCE GameRoomFirestore

storeVars == <<rooms, calls, entered>>
pageVars == <<currentPage, lastPageStack>>
profileVars == <<playerProfile, playerDoc, updates, reading>>
roomVars == <<userGameRoom, roomListener, heard>>
vars == <<storeVars, pageVars, profileVars, roomVars>>

\* LoginPage stands for every page of a player who is not signed in.
Pages == {"LoginPage", "HomePage", "ProfilePage", "GameCreateJoinRoomPage",
          "GameRoomWaitPage", "GameScenePage"}

\* What the wait page uses of a GameRoom.  Before Firestore names it, id is nil.
Shown(r, room) == [id |-> r, ownerID |-> room.ownerID, gameRunning |-> room.gameRunning]

ShownRoom == [id : RoomIDs \union {NoRoom}, ownerID : Players, gameRunning : BOOLEAN]

\* Nothing is also one of the things there are.
PagesAssumption ==
    /\ Store!StoreAssumption
    /\ NoCall \notin Store!Call
    /\ NoDoc \notin ShownRoom
    /\ NoRoom \notin RoomIDs
    /\ NoProfile \notin RoomIDs \union {NoRoom}
    /\ MaxUpdates \in Nat

ASSUME PagesAssumption

----------------------------------------------------------------------------
(* Moving between pages.                                                   *)

On(p, pg) == currentPage[p] = pg

\* lastPageStack.push(currentPage); currentPage = page
Forward(p, pg) ==
    /\ lastPageStack' = [lastPageStack EXCEPT ![p] = Append(@, currentPage[p])]
    /\ currentPage' = [currentPage EXCEPT ![p] = pg]

\* currentPage = lastPageStack.pop() ?? Pages.HomePage
Back(p) ==
    IF lastPageStack[p] = <<>>
    THEN /\ currentPage' = [currentPage EXCEPT ![p] = "HomePage"]
         /\ UNCHANGED lastPageStack
    ELSE /\ currentPage' = [currentPage EXCEPT ![p] = lastPageStack[p][Len(lastPageStack[p])]]
         /\ lastPageStack' = [lastPageStack EXCEPT ![p] = SubSeq(@, 1, Len(@) - 1)]

\* updatePlayerData is called to make r the player's gameRoomID.
AskUpdate(p, r) ==
    /\ updates[p][r] < MaxUpdates
    /\ updates' = [updates EXCEPT ![p][r] = @ + 1]

----------------------------------------------------------------------------
(* Starting the app, and the profile.                                      *)

\* The player signs in from the home page, and the profile page appears.
SignIn(p) ==
    /\ On(p, "LoginPage")
    /\ currentPage' = [currentPage EXCEPT ![p] = "ProfilePage"]
    /\ lastPageStack' = [lastPageStack EXCEPT ![p] = Append(@, "HomePage")]
    /\ reading' = reading \union {p}
    /\ UNCHANGED <<storeVars, roomVars, playerProfile, playerDoc, updates>>

OpenProfile(p) ==
    /\ On(p, "HomePage")
    /\ Forward(p, "ProfilePage")
    /\ reading' = reading \union {p}
    /\ UNCHANGED <<storeVars, roomVars, playerProfile, playerDoc, updates>>

\* getPlayerData(uid:) of the profile page answers, or fails.
ProfileRead(p) ==
    /\ p \in reading
    /\ reading' = reading \ {p}
    /\ playerProfile' \in {[playerProfile EXCEPT ![p] = playerDoc[p]], playerProfile}
    /\ UNCHANGED <<storeVars, pageVars, roomVars, playerDoc, updates>>

LeaveProfile(p) ==
    /\ On(p, "ProfilePage")
    /\ currentPage' = [currentPage EXCEPT ![p] = "HomePage"]
    /\ lastPageStack' = [lastPageStack EXCEPT ![p] = <<>>]
    /\ UNCHANGED <<storeVars, profileVars, roomVars>>

\* LogOut: playerProfile = Player(); what is under way goes on.
LogOut(p) ==
    /\ On(p, "HomePage")
    /\ currentPage' = [currentPage EXCEPT ![p] = "LoginPage"]
    /\ playerProfile' = [playerProfile EXCEPT ![p] = NoProfile]
    /\ UNCHANGED <<storeVars, roomVars, lastPageStack, playerDoc, updates, reading>>

StartGame(p) ==
    /\ On(p, "HomePage")
    /\ Forward(p, "GameCreateJoinRoomPage")
    /\ UNCHANGED <<storeVars, profileVars, roomVars>>

\* updatePlayerData answers: the profile becomes the document with the new
\* gameRoomID and is written back; on the way out the room is forgotten too.
PlayerUpdated(p, r) ==
    /\ updates[p][r] > 0
    /\ updates' = [updates EXCEPT ![p][r] = @ - 1]
    /\ playerProfile' = [playerProfile EXCEPT ![p] = r]
    /\ playerDoc' = [playerDoc EXCEPT ![p] = r]
    /\ userGameRoom' = IF r = NoRoom THEN [userGameRoom EXCEPT ![p] = NoDoc] ELSE userGameRoom
    /\ UNCHANGED <<storeVars, pageVars, reading, roomListener, heard>>

\* Its read fails, and nothing happens.
PlayerUpdateFails(p, r) ==
    /\ updates[p][r] > 0
    /\ updates' = [updates EXCEPT ![p][r] = @ - 1]
    /\ UNCHANGED <<storeVars, pageVars, roomVars, playerProfile, playerDoc, reading>>

\* The app ends and starts again, signed out; memory is lost, and the calls
\* under way with it.
AppGone(p) ==
    /\ Store!AppKilled(p)
    /\ currentPage' = [currentPage EXCEPT ![p] = "LoginPage"]
    /\ lastPageStack' = [lastPageStack EXCEPT ![p] = <<>>]
    /\ playerProfile' = [playerProfile EXCEPT ![p] = NoProfile]
    /\ updates' = [updates EXCEPT ![p] = [r \in RoomIDs \union {NoRoom} |-> 0]]
    /\ reading' = reading \ {p}
    /\ userGameRoom' = [userGameRoom EXCEPT ![p] = NoDoc]
    /\ roomListener' = [roomListener EXCEPT ![p] = NoRoom]
    /\ heard' = [heard EXCEPT ![p] = [r \in RoomIDs |-> NoListener]]
    /\ UNCHANGED playerDoc

----------------------------------------------------------------------------
(* GameCreateJoinRoomPage.                                                 *)

LeaveCreateJoin(p) ==
    /\ On(p, "GameCreateJoinRoomPage")
    /\ Back(p)
    /\ UNCHANGED <<storeVars, profileVars, roomVars>>

\* Variant: the key is taken for the document's id.
LocalRoomByKey(p, key) == Shown(key, Store!NewRoom(p, key))

\* GameRoom(player:), which Firestore has given no id yet.
LocalRoom(p, key) == Shown(NoRoom, Store!NewRoom(p, key))

\* GameRoom(player:) unwraps the player's id: pressed before the profile is
\* loaded, the button ends the app.
CommitCreateRoom(p, k, key) ==
    /\ On(p, "GameCreateJoinRoomPage")
    /\ playerProfile[p] # NoProfile
    /\ Store!CreateGameRoom(k, p, key)
    /\ userGameRoom' = [userGameRoom EXCEPT ![p] = LocalRoom(p, key)]
    /\ UNCHANGED <<pageVars, profileVars, roomListener, heard>>

CreateCrashes(p) ==
    /\ On(p, "GameCreateJoinRoomPage")
    /\ playerProfile[p] = NoProfile
    /\ AppGone(p)

CommitJoinRoom(p, k, key) ==
    /\ On(p, "GameCreateJoinRoomPage")
    /\ playerProfile[p] # NoProfile
    /\ Store!JoinGameRoom(k, p, key)
    /\ UNCHANGED <<pageVars, profileVars, roomVars>>

\* The completion of both: the profile is to name the room, and the wait page
\* appears and listens to it - unless it is the page already.
Enters(p, r, room) ==
    /\ AskUpdate(p, r)
    /\ userGameRoom' = [userGameRoom EXCEPT ![p] = Shown(r, room)]
    /\ Forward(p, "GameRoomWaitPage")
    /\ IF On(p, "GameRoomWaitPage")
       THEN UNCHANGED <<roomListener, heard>>
       ELSE /\ roomListener' = [roomListener EXCEPT ![p] = r]
            /\ heard' = [heard EXCEPT ![p][r] = NoDoc]
    /\ UNCHANGED <<playerProfile, playerDoc, reading>>

\* Variant: a room that was read counts as entered, refused or not.
RoomRead(k) == calls[k].snap

\* The room the completion gets, or NoDoc.
RoomEntered(k) == Store!Completion(calls[k])

Completes(k) ==
    /\ Store!CreateReturns(k) \/ Store!JoinReturns(k)
    /\ IF RoomEntered(k) = NoDoc THEN UNCHANGED <<pageVars, profileVars, roomVars>>
       ELSE Enters(calls[k].player, calls[k].target, RoomEntered(k))

----------------------------------------------------------------------------
(* GameRoomWaitPage.                                                       *)

\* Variant: the profile is cleared first, so that there is no room to quit.
QuitNothing(p) == UNCHANGED calls

\* quitGameRoom(player: playerProfile)
QuitGameRoom(p) ==
    IF playerProfile[p] \in RoomIDs
    THEN \E k \in CallIDs : Store!Makes(k, Store!Asked("quit", p, playerProfile[p]))
    ELSE UNCHANGED calls

\* Variant: the listener stays.
ListenOn(p) == UNCHANGED <<roomListener, heard>>

\* roomListener?.remove()
RemoveListener(p) ==
    /\ roomListener' = [roomListener EXCEPT ![p] = NoRoom]
    /\ heard' = IF roomListener[p] = NoRoom THEN heard
                ELSE [heard EXCEPT ![p][roomListener[p]] = NoListener]

\* The arrow: quit the room the profile names, forget it, stop listening.
LeaveRoom(p) ==
    /\ On(p, "GameRoomWaitPage")
    /\ playerProfile[p] # NoProfile
    /\ QuitGameRoom(p)
    /\ AskUpdate(p, NoRoom)
    /\ RemoveListener(p)
    /\ Back(p)
    /\ UNCHANGED <<rooms, entered, playerProfile, playerDoc, reading, userGameRoom>>

\* Without a profile the arrow asks for the document of the empty path, which
\* ends the app: the page came up after the player had logged out.
LeaveCrashes(p) ==
    /\ On(p, "GameRoomWaitPage")
    /\ playerProfile[p] = NoProfile
    /\ AppGone(p)

\* playerProfile.id == userGameRoom?.ownerID, where both may be nil.
SeesStart(p) ==
    IF userGameRoom[p] = NoDoc THEN playerProfile[p] = NoProfile
    ELSE playerProfile[p] # NoProfile /\ userGameRoom[p].ownerID = p

\* The Start button.  The page goes, and with it the handle of the listener,
\* which goes on.
Start(p) ==
    /\ On(p, "GameRoomWaitPage")
    /\ SeesStart(p)
    /\ IF userGameRoom[p] = NoDoc \/ userGameRoom[p].id = NoRoom THEN UNCHANGED calls
       ELSE \E k \in CallIDs : Store!Makes(k, Store!Asked("update", p, userGameRoom[p].id))
    /\ currentPage' = [currentPage EXCEPT ![p] = "GameScenePage"]
    /\ roomListener' = [roomListener EXCEPT ![p] = NoRoom]
    /\ UNCHANGED <<rooms, entered, lastPageStack, profileVars, userGameRoom, heard>>

\* startGameUpdate's completion also puts the running room on the page.
StartCompletes(k) ==
    /\ Store!UpdateReturns(k)
    /\ userGameRoom' = IF calls[k].snap = NoDoc THEN userGameRoom
                       ELSE [userGameRoom EXCEPT ![calls[k].player] =
                                Shown(calls[k].target, Store!Running(calls[k].snap))]
    /\ UNCHANGED <<pageVars, profileVars, roomListener, heard>>

\* Variant: only the modify branch's fetchGameRoomMembers is left.
DetectNothing(p, room) == UNCHANGED <<currentPage, roomListener>>

\* A running room begins the game; the wait page goes, its listener goes on.
DetectStartGameUpdate(p, room) ==
    IF room.gameRunning
    THEN /\ currentPage' = [currentPage EXCEPT ![p] = "GameScenePage"]
         /\ roomListener' = [roomListener EXCEPT ![p] = NoRoom]
    ELSE UNCHANGED <<currentPage, roomListener>>

\* Variant: the room on the page stays as it was on entering.
ShowNothing(p, r, room) == UNCHANGED userGameRoom

\* userGameRoom = GR
Show(p, r, room) == userGameRoom' = [userGameRoom EXCEPT ![p] = Shown(r, room)]

\* The listener delivers the room as it is by now, added or modified.
RoomDelivered(p, r) ==
    /\ heard[p][r] # NoListener /\ Store!Exists(r) /\ heard[p][r] # rooms[r]
    /\ heard' = [heard EXCEPT ![p][r] = rooms[r]]
    /\ Show(p, r, rooms[r])
    /\ DetectStartGameUpdate(p, rooms[r])
    /\ UNCHANGED <<storeVars, profileVars, lastPageStack>>

\* It delivers, as it was last delivered, a room that is gone.
RemovalDelivered(p, r) ==
    /\ heard[p][r] \notin {NoListener, NoDoc} /\ ~Store!Exists(r)
    /\ heard' = [heard EXCEPT ![p][r] = NoDoc]
    /\ Show(p, r, heard[p][r])
    /\ UNCHANGED <<storeVars, profileVars, pageVars, roomListener>>

----------------------------------------------------------------------------

Init ==
    /\ Store!Init
    /\ currentPage = [p \in Players |-> "HomePage"]
    /\ lastPageStack = [p \in Players |-> <<>>]
    /\ playerProfile = [p \in Players |-> NoRoom]
    /\ playerDoc = [p \in Players |-> NoRoom]
    /\ userGameRoom = [p \in Players |-> NoDoc]
    /\ roomListener = [p \in Players |-> NoRoom]
    /\ heard = [p \in Players |-> [r \in RoomIDs |-> NoListener]]
    /\ updates = [p \in Players |-> [r \in RoomIDs \union {NoRoom} |-> 0]]
    /\ reading = {}

\* What the player does.
Acts(p) ==
    \/ SignIn(p) \/ LogOut(p) \/ OpenProfile(p) \/ LeaveProfile(p) \/ StartGame(p) \/ LeaveCreateJoin(p)
    \/ \E k \in CallIDs, key \in ShareKeys : CommitCreateRoom(p, k, key) \/ CommitJoinRoom(p, k, key)
    \/ CreateCrashes(p) \/ LeaveRoom(p) \/ LeaveCrashes(p) \/ Start(p)

\* What the player's app hears from Firestore.
Hears(p) ==
    \/ ProfileRead(p)
    \/ \E r \in RoomIDs \union {NoRoom} : PlayerUpdated(p, r)
    \/ \E r \in RoomIDs : RoomDelivered(p, r) \/ RemovalDelivered(p, r)

\* A call on the store goes on: these steps touch nothing of the pages.
Proceeds(k) ==
    /\ \/ Store!SearchAnswered(k) \/ Store!ShareKeyAnswered(k) \/ Store!DocumentAnswered(k)
       \/ \E r \in RoomIDs : Store!AddDocument(k, r)
       \/ Store!QuitReturns(k)
    /\ UNCHANGED <<pageVars, profileVars, roomVars>>

CallStep(k) == Proceeds(k) \/ Completes(k) \/ StartCompletes(k)

Next ==
    \/ \E p \in Players :
          \/ Acts(p) \/ Hears(p) \/ AppGone(p)
          \/ \E r \in RoomIDs \union {NoRoom} : PlayerUpdateFails(p, r)
    \/ \E k \in CallIDs : CallStep(k)

Spec == Init /\ [][Next]_vars

\* No app is killed and nobody logs out or turns back to his profile, so that
\* every profile stays loaded: what is left is the way into rooms and out of them.
Awake == \A p \in Players : currentPage[p] \notin {"LoginPage", "ProfilePage"}

AwakeSpec == Init /\ [][Next /\ Awake']_vars

----------------------------------------------------------------------------
(* The discipline under which the profiles and the rooms agree: a player    *)
(* touches nothing while his app waits for an answer, calls on one room do  *)
(* not overlap, the reads that matter succeed, and profiles stay loaded.    *)

Quiet(p) ==
    /\ \A k \in CallIDs : calls[k] # NoCall => calls[k].player # p
    /\ \A r \in RoomIDs \union {NoRoom} : updates[p][r] = 0
    /\ p \notin reading

ReadsSucceed ==
    \A k \in CallIDs :
        calls[k] # NoCall /\ calls[k].op \in Store!DocumentReads /\ calls[k].stage = "answered"
        /\ calls[k].snap = NoDoc => ~Store!Exists(calls[k].target)

Disciplined(A) == A /\ Store!OneCallPerRoom' /\ ReadsSucceed' /\ Awake'

PatientNext ==
    \/ \E p \in Players : Quiet(p) /\ Disciplined(Acts(p))
    \/ \E p \in Players : Hears(p)
    \/ \E k \in CallIDs : Disciplined(CallStep(k))

\* Firestore answers every call, and delivers every change of a room listened to.
Answers ==
    /\ \A k \in CallIDs : WF_vars(Disciplined(CallStep(k)))
    /\ \A p \in Players : WF_vars(Hears(p))

PatientSpec == Init /\ [][PatientNext]_vars /\ Answers

----------------------------------------------------------------------------
(* What holds however players and callbacks interleave.                    *)

\* Type correctness of what the apps keep.
TypeOK ==
    /\ currentPage \in [Players -> Pages]
    /\ lastPageStack \in [Players -> Seq(Pages)]
    /\ playerProfile \in [Players -> RoomIDs \union {NoRoom, NoProfile}]
    /\ playerDoc \in [Players -> RoomIDs \union {NoRoom}]
    /\ userGameRoom \in [Players -> ShownRoom \union {NoDoc}]
    /\ roomListener \in [Players -> RoomIDs \union {NoRoom}]
    /\ heard \in [Players -> [RoomIDs -> Store!Room \union {NoDoc, NoListener}]]
    /\ updates \in [Players -> [RoomIDs \union {NoRoom} -> 0 .. MaxUpdates]]
    /\ reading \subseteq Players

\* Whoever is outside the wait page and the game has no listener left that could
\* drag him into a game when a room he turned away from begins.
NoListenerLeftBehind ==
    \A p \in Players : currentPage[p] \notin {"GameRoomWaitPage", "GameScenePage"} =>
        \A r \in RoomIDs : heard[p][r] = NoListener

\* Why none is left: a listener whose handle was lost has brought its player into
\* the game, and pages opened from there only lead back there.
BackToGame(p) ==
    \E i \in DOMAIN lastPageStack[p] :
        /\ lastPageStack[p][i] = "GameScenePage"
        /\ \A j \in DOMAIN lastPageStack[p] :
              j > i => lastPageStack[p][j] \in {"GameScenePage", "GameRoomWaitPage"}

ListenersTraced ==
    \A p \in Players, r \in RoomIDs : heard[p][r] # NoListener =>
        \/ On(p, "GameScenePage")
        \/ On(p, "GameRoomWaitPage") /\ (roomListener[p] = r \/ BackToGame(p))

\* Why only entrants quit and start: whatever names a room in an app, its player
\* has entered the room.
Knows(p, r) ==
    \/ playerProfile[p] = r
    \/ playerDoc[p] = r
    \/ updates[p][r] > 0
    \/ userGameRoom[p] # NoDoc /\ userGameRoom[p].id = r
    \/ heard[p][r] # NoListener

OnlyEntrantsKnow == \A p \in Players, r \in RoomIDs : Knows(p, r) => p \in entered[r]

\* The pages use the store as GameRoomFirestore.tla assumes: a player quits and
\* starts only rooms he has entered.
StoreUsed == Store!Spec

----------------------------------------------------------------------------
(* What holds under the discipline.                                        *)

\* A profile at rest names the one room its player is in, or none, and so does
\* its document, to which the player comes back after a restart.
ProfileNamesRoom ==
    \A p \in Players : Quiet(p) =>
        /\ playerDoc[p] = playerProfile[p]
        /\ \A r \in RoomIDs :
              playerProfile[p] = r <=> Store!Exists(r) /\ Store!Member(rooms[r], p)

\* To patient players the operations on a room are indivisible, as RoomMembership
\* has them: nobody is put back or left out by a callback that writes what another
\* one read before, nobody enters a game that has begun, and the owner who leaves
\* has an heir in the room.
RoomsIndivisible == Store!Membership

Waits(p, r) == On(p, "GameRoomWaitPage") /\ roomListener[p] = r

\* Once the owner starts a room, nobody goes on waiting in it.
StartReachesEveryone ==
    \A p \in Players, r \in RoomIDs :
        (Waits(p, r) /\ \E k \in CallIDs : calls[k] # NoCall /\ calls[k].op = "update"
                                                         /\ calls[k].target = r)
            ~> ~Waits(p, r)

\* Whoever a room is handed to gets the Start button, or goes.
HandoverReachesHeir ==
    \A p \in Players, r \in RoomIDs :
        (Waits(p, r) /\ Store!Exists(r) /\ rooms[r].ownerID = p)
            ~> \/ ~Waits(p, r)
               \/ userGameRoom[p] # NoDoc /\ userGameRoom[p].id = r /\ userGameRoom[p].ownerID = p

----------------------------------------------------------------------------
(* What messages in the code say of it, and it does not do.                *)

\* "You cannot exit the room where you are not in there": a player whom the room
\* read by quitGameRoom does not name leaves the rooms as they are.
NonMembersExitNothing ==
    [][\A k \in CallIDs :
          (/\ Store!UnderWay(k, "quit", "answered") /\ calls'[k] = NoCall
           /\ calls[k].snap # NoDoc /\ ~Store!Member(calls[k].snap, calls[k].player))
              => UNCHANGED rooms]_vars

\* "Game room existed": a createGameRoom that was told so makes no room.
RefusedCreateMakesNoRoom ==
    [][\A k \in CallIDs :
          (/\ Store!UnderWay(k, "search", "answered") /\ calls'[k] # calls[k]
           /\ ~calls[k].unexist)
              => UNCHANGED rooms]_vars

=============================================================================
