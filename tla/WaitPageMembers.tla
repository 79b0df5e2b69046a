--------------------------- MODULE WaitPageMembers ---------------------------
(***************************************************************************)
(* The pictures on the wait page of one player: fetchGameRoomMembers,      *)
(* which runs whenever the listener delivers the room, clears the page and *)
(* reads the document and the picture of every player on the list, and the *)
(* closures of these reads, which fill the slots of the page in whatever   *)
(* order they arrive.                                                      *)
(*                                                                         *)
(* Nothing ties a closure to the fetch that asked for it: those of an      *)
(* earlier fetch fill the page too, and one slot too many ends the app.    *)
(***************************************************************************)
EXTENDS Integers, Sequences, FiniteSets, Functions

CONSTANTS Players,      \* the players' document ids
          Me,           \* the player whose page it is
          Pictureless,  \* the players whose imageURL is empty
          Peoples,      \* slots of the page, and places in a room (4 in the code)
          Nobody,       \* nil: an empty slot
          MaxReads      \* bound: reads of one player under way

VARIABLES playerIDs,    \* userGameRoom.playerIDs as delivered last
          reads,        \* player -> reads of his document and picture under way
          players,      \* the others, in the order their closures ran
          showPlayers,  \* slot -> player
          ended,        \* has the app ended by a run-time error?
          disturbed     \* history: did the last fetch overlap an earlier one, lack a
                        \* read, or not ask for Me?

vars == <<playerIDs, reads, players, showPlayers, ended, disturbed>>

WaitPageAssumption ==
    /\ Me \in Players
    /\ Pictureless \subseteq Players
    /\ Peoples \in Nat \ {0}
    /\ MaxReads \in Nat
    /\ Nobody \notin Players

ASSUME WaitPageAssumption

\* What rooms show (RoomsWellFormed of GameRoomFirestore): nobody twice, not more
\* players than places.  A player whose join was overwritten is not on the list.
Lists == {list \in UNION {[1 .. n -> Players] : n \in 1 .. Peoples} : IsInjective(list)}

Quiet == \A p \in Players : reads[p] = 0

NoSlots == [slot \in 1 .. Peoples |-> Nobody]

----------------------------------------------------------------------------

\* Variant: players.removeAll() is left out.
KeepPlayers == UNCHANGED players

\* Variant: the list of the others is reset like the slots.
PlayersToNil == players' = NoSlots

\* players.removeAll()
RemovePlayers == players' = <<>>

\* Variant: the list is read from its second player on.
AskedButFirst(list) == {list[i] : i \in 2 .. Len(list)}

\* The players whose documents are read: the whole list.
AskedFor(list) == Range(list)

\* The listener delivers the room, added or modified; fetchGameRoomMembers.
FetchGameRoomMembers(list) ==
    /\ ~ended
    /\ \A p \in AskedFor(list) : reads[p] < MaxReads
    /\ playerIDs' = list
    /\ RemovePlayers
    /\ showPlayers' = NoSlots
    /\ reads' = [p \in Players |-> IF p \in AskedFor(list) THEN reads[p] + 1 ELSE reads[p]]
    /\ disturbed' = (~Quiet \/ Me \notin Range(list))
    /\ UNCHANGED ended

\* One read of p is over.
Answered(p) ==
    /\ ~ended
    /\ reads[p] > 0
    /\ reads' = [reads EXCEPT ![p] = @ - 1]

\* getPlayerData reads nothing, and its completion is not called.
ReadFails(p) ==
    /\ Answered(p)
    /\ disturbed' = TRUE
    /\ UNCHANGED <<playerIDs, players, showPlayers, ended>>

\* URL(string: "") is nil, and url! ends the app.
PictureMissing(p) ==
    /\ p \in Pictureless
    /\ Answered(p)
    /\ ended' = TRUE
    /\ UNCHANGED <<playerIDs, players, showPlayers, disturbed>>

\* Variant: one's own document is treated like the others'.
NobodyIsMe(p) == FALSE

\* playerProfile.id == oPlayer.id
IsMe(p) == p = Me

\* The closure of one's own document fills the first slot.
IAmShown(p) ==
    /\ IsMe(p)
    /\ p \notin Pictureless
    /\ Answered(p)
    /\ showPlayers' = [showPlayers EXCEPT ![1] = p]
    /\ UNCHANGED <<playerIDs, players, ended, disturbed>>

\* The closure of another's fills the slot after the others', if there is one.
OtherIsShown(p) ==
    /\ ~IsMe(p)
    /\ p \notin Pictureless
    /\ Answered(p)
    /\ players' = Append(players, p)
    /\ IF Len(players) + 2 \in DOMAIN showPlayers
       THEN showPlayers' = [showPlayers EXCEPT ![Len(players) + 2] = p] /\ UNCHANGED ended
       ELSE ended' = TRUE /\ UNCHANGED showPlayers
    /\ UNCHANGED <<playerIDs, disturbed>>

----------------------------------------------------------------------------

\* The page has appeared, and the room on it names its player.
Init ==
    /\ playerIDs \in {list \in Lists : Me \in Range(list)}
    /\ reads = [p \in Players |-> 0]
    /\ players = <<>>
    /\ showPlayers = NoSlots
    /\ ended = FALSE
    /\ disturbed = TRUE

Arrives(p) == ReadFails(p) \/ PictureMissing(p) \/ IAmShown(p) \/ OtherIsShown(p)

Next ==
    \/ \E list \in Lists : FetchGameRoomMembers(list)
    \/ \E p \in Players : Arrives(p)

\* Every read and every download is answered or fails.
Spec == Init /\ [][Next]_vars /\ \A p \in Players : WF_vars(Arrives(p))

----------------------------------------------------------------------------

\* Type correctness.
TypeOK ==
    /\ playerIDs \in Lists
    /\ reads \in [Players -> 0 .. MaxReads]
    /\ players \in Seq(Players)
    /\ showPlayers \in [1 .. Peoples -> Players \union {Nobody}]
    /\ ended \in BOOLEAN
    /\ disturbed \in BOOLEAN

\* A fetch that finds no read under way, of a list with Me, does not end the app,
\* whatever happened before, unless somebody has no picture.
EndsOnlyDisturbed == ended => disturbed \/ Range(playerIDs) \intersect Pictureless # {}

\* Such a fetch puts everybody on the list on the page once, Me first and the
\* others next to each other, and nobody else: what overlapping fetches had mixed
\* up is gone.
MembersShown ==
    ~disturbed /\ Quiet /\ ~ended =>
        /\ showPlayers[1] = Me
        /\ {showPlayers[i] : i \in 1 .. Len(playerIDs)} = Range(playerIDs)
        /\ \A i \in 1 .. Peoples : i > Len(playerIDs) => showPlayers[i] = Nobody

Shown(p) == \E slot \in DOMAIN showPlayers : showPlayers[slot] = p

\* Whoever is on the list of such a fetch appears on the page.
EveryMemberAppears ==
    \A p \in Players :
        p \in Range(playerIDs) /\ ~disturbed ~> Shown(p) \/ disturbed \/ ended

=============================================================================
