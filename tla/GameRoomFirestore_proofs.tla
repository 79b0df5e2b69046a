----------------------- MODULE GameRoomFirestore_proofs -----------------------
(***************************************************************************)
(* Proofs about GameRoomFirestore, for any players, rooms, keys, number of *)
(* overlapping calls and room size.                                        *)
(***************************************************************************)
EXTENDS GameRoomFirestore, SequenceTheorems, WellFoundedInduction, FiniteSetTheorems, TLAPS

----------------------------------------------------------------------------
(* The lists of players.                                                   *)

\* Removing a position of a list keeps the others, in order.
LEMMA RemoveAtFacts ==
    ASSUME NEW S, NEW s \in Seq(S), NEW i \in 1 .. Len(s)
    PROVE  /\ RemoveAt(s, i) \in Seq(S)
           /\ Len(RemoveAt(s, i)) = Len(s) - 1
           /\ \A j \in 1 .. Len(s) - 1 :
                 RemoveAt(s, i)[j] = IF j < i THEN s[j] ELSE s[j + 1]
<1> DEFINE front == SubSeq(s, 1, i - 1)
           back == SubSeq(s, i + 1, Len(s))
<1>1. /\ Len(s) \in Nat
      /\ \A j \in 1 .. Len(s) : s[j] \in S
  BY LenProperties, ElementOfSeq
<1>2. /\ front \in Seq(S)
      /\ Len(front) = i - 1
      /\ \A j \in 1 .. i - 1 : front[j] = s[j]
  <2>1. \A j \in 1 .. i - 1 : s[j] \in S
    BY <1>1
  <2>. QED  BY <1>1, <2>1, SubSeqProperties
<1>3. /\ back \in Seq(S)
      /\ Len(back) = Len(s) - i
      /\ \A j \in 1 .. Len(s) - i : back[j] = s[i + j]
  <2>1. \A j \in i + 1 .. Len(s) : s[j] \in S
    BY <1>1
  <2>. QED  BY <1>1, <2>1, SubSeqProperties
<1>4. /\ front \o back \in Seq(S)
      /\ Len(front \o back) = Len(s) - 1
      /\ \A j \in 1 .. Len(s) - 1 :
            (front \o back)[j] = IF j <= i - 1 THEN front[j] ELSE back[j - (i - 1)]
  <2>. HIDE DEF front, back
  <2>1. /\ front \o back \in Seq(S)
        /\ Len(front \o back) = Len(front) + Len(back)
        /\ \A j \in 1 .. Len(front) + Len(back) :
              (front \o back)[j] = IF j <= Len(front) THEN front[j] ELSE back[j - Len(front)]
    BY <1>2, <1>3, ConcatProperties
  <2>. QED  BY <1>1, <1>2, <1>3, <2>1
<1>5. \A j \in 1 .. Len(s) - 1 :
            (front \o back)[j] = IF j < i THEN s[j] ELSE s[j + 1]
  <2>. HIDE DEF front, back
  <2> SUFFICES ASSUME NEW j \in 1 .. Len(s) - 1
               PROVE  (front \o back)[j] = IF j < i THEN s[j] ELSE s[j + 1]
    OBVIOUS
  <2>1. PICK n \in Nat : n = Len(s)
    BY <1>1
  <2>2. CASE j < i
    <3>1. j \in 1 .. i - 1 /\ j <= i - 1
      BY <2>1, <2>2
    <3>. QED  BY <1>2, <1>4, <2>2, <3>1
  <2>3. CASE ~ (j < i)
    <3>1. j - (i - 1) \in 1 .. Len(s) - i /\ ~ (j <= i - 1) /\ i + (j - (i - 1)) = j + 1
      BY <2>1, <2>3
    <3>. QED  BY <1>3, <1>4, <2>3, <3>1
  <2>. QED  BY <2>2, <2>3
<1>. QED  BY <1>4, <1>5 DEF RemoveAt

\* quitGameRoom removes a position of the list, and it is the player's own one
\* if the list names the player.
LEMMA QuitPositionFacts ==
    ASSUME NEW room \in Room, NEW player, Len(room.playerIDs) > 0
    PROVE  /\ QuitPosition(room, player) \in 1 .. Len(room.playerIDs)
           /\ Member(room, player) => room.playerIDs[QuitPosition(room, player)] = player
<1> DEFINE list == room.playerIDs
           found == {i \in DOMAIN list : list[i] = player}
           first(i) == list[i] = player /\ \A j \in 1 .. i - 1 : list[j] # player
<1>1. list \in Seq(Players) /\ Len(list) \in Nat /\ DOMAIN list = 1 .. Len(list)
  BY LenProperties DEF Room
<1>2. CASE Member(room, player)
  <2>1. found \in SUBSET Nat /\ found # {}
    BY <1>1, <1>2 DEF Member
  <2>2. PICK least \in found : \A i \in found : least <= i
    <3>1. PICK least \in found : \A i \in found : <<i, least>> \notin OpToRel(<, Nat)
      BY <2>1, WFMin, NatLessThanWellFounded
    <3>2. \A i \in found : ~ (i < least)
      BY <2>1, <3>1 DEF OpToRel
    <3>. QED  BY <2>1, <3>2
  <2>3. first(least)
    BY <1>1, <2>2
  <2>4. \E i \in DOMAIN list : first(i)
    BY <2>2, <2>3
  <2>5. QuitPosition(room, player) = CHOOSE i \in DOMAIN list : first(i)
    BY <1>2 DEF QuitPosition
  <2>. QED  BY <1>1, <2>4, <2>5
<1>3. CASE ~ Member(room, player)
  BY <1>1, <1>3 DEF QuitPosition
<1>. QED  BY <1>2, <1>3

----------------------------------------------------------------------------
(* What the callbacks write is a well-formed room, if what they read was.  *)

LEMMA NewRoomFacts ==
    ASSUME NEW player \in Players, NEW key \in ShareKeys
    PROVE  /\ NewRoom(player, key) \in LiveRoom
           /\ WellFormed(NewRoom(player, key))
BY StoreAssumption DEF NewRoom, LiveRoom, Room, WellFormed, StoreAssumption

\* A player who may enter is appended without breaking the list.
LEMMA WithPlayerFacts ==
    ASSUME NEW room \in LiveRoom, NEW player \in Players,
           WellFormed(room), CanEnter(room, player)
    PROVE  /\ WithPlayer(room, player) \in LiveRoom
           /\ WellFormed(WithPlayer(room, player))
           /\ WithPlayer(room, player).ownerID = room.ownerID
           /\ \A i \in DOMAIN WithPlayer(room, player).playerIDs :
                 \/ WithPlayer(room, player).playerIDs[i] = player
                 \/ Member(room, WithPlayer(room, player).playerIDs[i])
<1> DEFINE list == room.playerIDs
           longer == Append(list, player)
<1>1. list \in Seq(Players) /\ Len(list) \in Nat /\ DOMAIN list = 1 .. Len(list)
  BY LenProperties DEF Room, LiveRoom
<1>2. /\ longer \in Seq(Players) /\ Len(longer) = Len(list) + 1
      /\ DOMAIN longer = 1 .. Len(list) + 1
      /\ \A i \in 1 .. Len(list) : longer[i] = list[i]
      /\ longer[Len(list) + 1] = player
  BY <1>1, AppendProperties, LenProperties
<1>3. /\ WithPlayer(room, player) = [room EXCEPT !.playerIDs = longer]
      /\ WithPlayer(room, player) \in LiveRoom
      /\ WithPlayer(room, player).playerIDs = longer
      /\ WithPlayer(room, player).ownerID = room.ownerID
  BY <1>2 DEF WithPlayer, Room, LiveRoom
<1>4. WellFormed(WithPlayer(room, player))
  <2> HIDE DEF longer
  <2>1. Len(longer) \in 1 .. Peoples
    BY <1>1, <1>2, StoreAssumption DEF CanEnter, HasPlace, StoreAssumption
  <2>2. ASSUME NEW i \in DOMAIN longer, NEW j \in DOMAIN longer, longer[i] = longer[j]
        PROVE  i = j
    <3>1. \A n \in 1 .. Len(list) : list[n] # player
      BY <1>1 DEF CanEnter, Member
    <3>2. \A m, n \in 1 .. Len(list) : list[m] = list[n] => m = n
      BY <1>1 DEF WellFormed
    <3>. QED  BY <1>1, <1>2, <2>2, <3>1, <3>2
  <2>. QED  BY <1>3, <2>1, <2>2 DEF WellFormed
<1>. QED  BY <1>1, <1>2, <1>3, <1>4 DEF Member

\* The list without one position, and with the owner's successor, is again a
\* list of some of the same players.
LEMMA WithoutPlayerFacts ==
    ASSUME NEW room \in LiveRoom, NEW player \in Players,
           WellFormed(room), Len(room.playerIDs) > 1
    PROVE  /\ WithoutPlayer(room, player) \in LiveRoom
           /\ WellFormed(WithoutPlayer(room, player))
           /\ \/ WithoutPlayer(room, player).ownerID = room.ownerID
              \/ Member(room, WithoutPlayer(room, player).ownerID)
           /\ \A i \in DOMAIN WithoutPlayer(room, player).playerIDs :
                 Member(room, WithoutPlayer(room, player).playerIDs[i])
<1> DEFINE list == room.playerIDs
           pos == QuitPosition(room, player)
           shorter == RemoveAt(list, pos)
           heir == NextOwner(room, player)
<1>1. /\ room \in Room /\ room.ownerID \in Players
      /\ list \in Seq(Players) /\ Len(list) \in Nat /\ DOMAIN list = 1 .. Len(list)
      /\ \A i \in 1 .. Len(list) : list[i] \in Players
  BY LenProperties, ElementOfSeq DEF Room, LiveRoom
<1>2. pos \in 1 .. Len(list)
  BY <1>1, QuitPositionFacts
<1>3. /\ shorter \in Seq(Players) /\ Len(shorter) = Len(list) - 1
      /\ DOMAIN shorter = 1 .. Len(list) - 1
      /\ \A j \in 1 .. Len(list) - 1 :
            shorter[j] = IF j < pos THEN list[j] ELSE list[j + 1]
  <2> HIDE DEF pos, shorter
  <2>1. /\ shorter \in Seq(Players) /\ Len(shorter) = Len(list) - 1
        /\ \A j \in 1 .. Len(list) - 1 :
              shorter[j] = IF j < pos THEN list[j] ELSE list[j + 1]
    BY <1>1, <1>2, RemoveAtFacts DEF shorter
  <2>. QED  BY <2>1, LenProperties
<1>4. heir \in Players /\ (heir = room.ownerID \/ Member(room, heir))
  <2>1. (pos % Len(list)) + 1 \in 1 .. Len(list)
    <3> HIDE DEF pos
    <3>. QED  BY <1>1, <1>2
  <2>. QED  BY <1>1, <2>1 DEF NextOwner, Member
<1>5. /\ WithoutPlayer(room, player) = [room EXCEPT !.ownerID = heir, !.playerIDs = shorter]
      /\ WithoutPlayer(room, player) \in LiveRoom
      /\ WithoutPlayer(room, player).playerIDs = shorter
      /\ WithoutPlayer(room, player).ownerID = heir
  <2> HIDE DEF heir, pos
  <2>1. WithoutPlayer(room, player) = [room EXCEPT !.ownerID = heir, !.playerIDs = shorter]
    BY DEF WithoutPlayer, heir, pos, Room
  <2> HIDE DEF shorter
  <2>. QED  BY <1>3, <1>4, <2>1 DEF Room, LiveRoom
<1> HIDE DEF pos, shorter, heir
<1>6. WellFormed(WithoutPlayer(room, player))
  <2>1. Len(shorter) \in 1 .. Peoples
    BY <1>1, <1>3, StoreAssumption DEF WellFormed, StoreAssumption
  <2>2. \A m, n \in 1 .. Len(list) : list[m] = list[n] => m = n
    BY <1>1 DEF WellFormed
  <2>3. \A i, j \in DOMAIN shorter : shorter[i] = shorter[j] => i = j
    BY <1>1, <1>2, <1>3, <2>2
  <2>. QED  BY <1>5, <2>1, <2>3 DEF WellFormed
<1>7. \A i \in DOMAIN shorter : Member(room, shorter[i])
  <2>1. \A n \in 1 .. Len(list) : Member(room, list[n])
    BY <1>1 DEF Member
  <2>. QED  BY <1>1, <1>2, <1>3, <2>1
<1>. QED  BY <1>4, <1>5, <1>6, <1>7

LEMMA RunningFacts ==
    ASSUME NEW room \in LiveRoom, WellFormed(room)
    PROVE  /\ Running(room) \in LiveRoom
           /\ WellFormed(Running(room))
           /\ Running(room).ownerID = room.ownerID
           /\ Running(room).playerIDs = room.playerIDs
BY DEF Running, LiveRoom, Room, WellFormed

----------------------------------------------------------------------------
(* The invariant, one lemma per way a step can disturb it.                 *)

\* Writing a well-formed room of entrants over any document keeps the rooms sound.
LEMMA WriteKeepsRooms ==
    ASSUME StoreInv, NEW r \in RoomIDs, NEW room \in LiveRoom,
           SetData(r, room), WellFormed(room),
           entered' \in [RoomIDs -> SUBSET Players],
           \A q \in RoomIDs : entered[q] \subseteq entered'[q],
           Among(room, entered'[r])
    PROVE  /\ rooms' \in [RoomIDs -> Room \union {NoDoc}]
           /\ \A q \in RoomIDs : rooms[q] # NoDoc => rooms'[q] # NoDoc
           /\ RoomsWellFormed'
           /\ OnlyEntrants'
<1>1. /\ rooms' = [rooms EXCEPT ![r] = room]
      /\ rooms \in [RoomIDs -> Room \union {NoDoc}]
      /\ room \in Room /\ room # NoDoc
  BY StoreAssumption DEF StoreInv, TypeOK, SetData, LiveRoom, StoreAssumption
<1>2. \A q \in RoomIDs : rooms'[q] = IF q = r THEN room ELSE rooms[q]
  BY <1>1
<1>3. RoomsWellFormed'
  BY <1>2 DEF StoreInv, RoomsWellFormed, WellFormed
<1>4. OnlyEntrants'
  <2>1. ASSUME NEW q \in RoomIDs, rooms'[q] # NoDoc
        PROVE  Among(rooms'[q], entered'[q])
    <3>1. CASE q = r
      BY <1>2, <3>1 DEF Among
    <3>2. CASE q # r
      BY <1>2, <2>1, <3>2 DEF StoreInv, OnlyEntrants, Among
    <3>. QED  BY <3>1, <3>2
  <2>. QED  BY <2>1 DEF OnlyEntrants
<1>. QED  BY <1>1, <1>2, <1>3, <1>4

\* Replacing one call by a sound one keeps the calls sound, while rooms do not
\* go away and nobody's entry is forgotten.
LEMMA StepKeepsCalls ==
    ASSUME StoreInv, NEW k \in CallIDs, NEW call \in Call \union {NoCall},
           calls' = [calls EXCEPT ![k] = call],
           call # NoCall => SoundCall(call)',
           \A q \in RoomIDs : entered[q] \subseteq entered'[q],
           \A q \in RoomIDs : rooms[q] # NoDoc => rooms'[q] # NoDoc
    PROVE  /\ calls' \in [CallIDs -> Call \union {NoCall}]
           /\ CallsSound'
<1>1. calls \in [CallIDs -> Call \union {NoCall}]
  BY DEF StoreInv, TypeOK
<1>2. ASSUME NEW j \in CallIDs, calls'[j] # NoCall
      PROVE  SoundCall(calls[j])'
  <2>1. CASE j = k
    BY <1>1, <1>2, <2>1 DEF SoundCall, Among
  <2>2. CASE j # k
    <3>1. calls'[j] = calls[j] /\ calls[j] \in Call /\ SoundCall(calls[j])
      BY <1>1, <1>2, <2>2 DEF StoreInv, CallsSound
    <3>. QED  BY <3>1 DEF SoundCall, Among, WellFormed, Call
  <2>. QED  BY <2>1, <2>2
<1>. QED  BY <1>1, <1>2 DEF CallsSound

\* A call that has just asked is sound, and so is one that is over.
LEMMA AskedFacts ==
    ASSUME NEW op \in {"search", "find"} \union DocumentReads, NEW player \in Players,
           NEW target, target \in IF op \in DocumentReads THEN RoomIDs ELSE ShareKeys
    PROVE  Asked(op, player, target) \in Call /\ SoundCall(Asked(op, player, target))'
BY DEF Asked, Call, SoundCall

\* A step that leaves the rooms and the history alone keeps their invariants.
LEMMA RoomsAlone ==
    ASSUME StoreInv, UNCHANGED <<rooms, entered>>
    PROVE  /\ rooms' \in [RoomIDs -> Room \union {NoDoc}]
           /\ entered' \in [RoomIDs -> SUBSET Players]
           /\ RoomsWellFormed' /\ OnlyEntrants'
           /\ \A q \in RoomIDs : entered[q] \subseteq entered'[q]
           /\ \A q \in RoomIDs : rooms[q] # NoDoc => rooms'[q] # NoDoc
BY DEF StoreInv, TypeOK, RoomsWellFormed, WellFormed, OnlyEntrants, Among

\* A call under way has the fields its operation says.
LEMMA UnderWayFacts ==
    ASSUME StoreInv, NEW k \in CallIDs, NEW op, NEW stage, UnderWay(k, op, stage)
    PROVE  /\ calls[k] \in Call /\ SoundCall(calls[k])
           /\ calls[k].player \in Players
           /\ op \in DocumentReads => calls[k].target \in RoomIDs
           /\ op \in {"search", "find"} => calls[k].target \in ShareKeys
           /\ calls[k].snap # NoDoc => calls[k].snap \in LiveRoom
BY DEF StoreInv, TypeOK, CallsSound, SoundCall, UnderWay, Call, DocumentReads

LEMMA PagesCallKeepsInv ==
    ASSUME StoreInv, NEW k \in CallIDs, PagesCall(k)
    PROVE  StoreInv'
<1>1. PICK op \in {"search", "find"} \union DocumentReads, player \in Players,
           target \in RoomIDs \union ShareKeys :
        /\ target \in IF op \in DocumentReads THEN RoomIDs ELSE ShareKeys
        /\ calls' = [calls EXCEPT ![k] = Asked(op, player, target)]
        /\ UNCHANGED <<rooms, entered>>
  BY DEF PagesCall, CreateGameRoom, JoinGameRoom, QuitGameRoom, UpdateGameRoom, Makes, DocumentReads
<1>. QED  BY <1>1, AskedFacts, StepKeepsCalls, RoomsAlone DEF StoreInv, TypeOK

\* Firestore's answers put into a call what the rooms hold, so sound snapshots.
LEMMA AnswerKeepsInv ==
    ASSUME StoreInv, NEW k \in CallIDs,
           SearchAnswered(k) \/ ShareKeyAnswered(k) \/ DocumentAnswered(k)
    PROVE  StoreInv'
<1>1. /\ rooms \in [RoomIDs -> Room \union {NoDoc}]
      /\ UNCHANGED <<rooms, entered>>
  BY DEF StoreInv, TypeOK, SearchAnswered, ShareKeyAnswered, DocumentAnswered, Found
<1>2. PICK call \in Call \union {NoCall} :
        /\ calls' = [calls EXCEPT ![k] = call]
        /\ call # NoCall => SoundCall(call)'
  <2>1. CASE SearchAnswered(k)
    <3>1. calls[k] \in Call /\ SoundCall(calls[k])
      BY <2>1, UnderWayFacts DEF SearchAnswered
    <3>2. PICK unexist \in BOOLEAN :
            calls' = [calls EXCEPT ![k] = [calls[k] EXCEPT !.stage = "answered", !.unexist = unexist]]
      BY <2>1 DEF SearchAnswered, StoreInv, TypeOK
    <3>3. PICK call \in Call : call = [calls[k] EXCEPT !.stage = "answered", !.unexist = unexist]
      BY <3>1 DEF Call
    <3>4. SoundCall(call)'
      BY <1>1, <3>1, <3>3 DEF SoundCall, Call
    <3>. QED  BY <3>2, <3>3, <3>4
  <2>2. CASE ShareKeyAnswered(k)
    <3>1. calls[k].player \in Players
      BY <2>2, UnderWayFacts DEF ShareKeyAnswered
    <3>2. CASE calls' = [calls EXCEPT ![k] = NoCall]
      BY <3>2
    <3>3. CASE \E r \in RoomIDs : calls' = [calls EXCEPT ![k] = Asked("join", calls[k].player, r)]
      <4>1. PICK r \in RoomIDs, player \in Players :
              calls' = [calls EXCEPT ![k] = Asked("join", player, r)]
        BY <3>1, <3>3
      <4>2. Asked("join", player, r) \in Call /\ SoundCall(Asked("join", player, r))'
        BY AskedFacts DEF DocumentReads
      <4>. QED  BY <4>1, <4>2
    <3>. QED  BY <2>2, <3>2, <3>3 DEF ShareKeyAnswered, Returns
  <2>3. CASE DocumentAnswered(k)
    <3>1. PICK op \in DocumentReads : UnderWay(k, op, "asked")
      BY <2>3 DEF DocumentAnswered, Found
    <3>2. calls[k] \in Call /\ SoundCall(calls[k]) /\ calls[k].op \in DocumentReads
          /\ calls[k].target \in RoomIDs
      BY <3>1, UnderWayFacts DEF UnderWay
    <3>3. PICK snap : /\ snap = NoDoc \/ (snap = rooms[calls[k].target] /\ Exists(calls[k].target))
                      /\ calls' = [calls EXCEPT ![k] = [calls[k] EXCEPT !.stage = "answered", !.snap = snap]]
      BY <2>3, <3>2 DEF DocumentAnswered, Found, StoreInv, TypeOK
    <3>4. snap \in LiveRoom \union {NoDoc}
      BY <1>1, <3>2, <3>3 DEF Exists, LiveRoom
    <3>5. PICK call \in Call :
            /\ call = [calls[k] EXCEPT !.stage = "answered", !.snap = snap]
            /\ call.op = calls[k].op /\ call.target = calls[k].target /\ call.snap = snap
      <4> DEFINE answered == [calls[k] EXCEPT !.stage = "answered", !.snap = snap]
      <4>1. answered \in Call
        BY <3>2, <3>4 DEF Call
      <4>2. answered.op = calls[k].op /\ answered.target = calls[k].target /\ answered.snap = snap
        BY <3>2 DEF Call
      <4>. QED  BY <4>1, <4>2
    <3>6. snap # NoDoc => /\ rooms[calls[k].target] # NoDoc
                          /\ WellFormed(snap) /\ Among(snap, entered[calls[k].target])
      BY <3>2, <3>3 DEF Exists, StoreInv, RoomsWellFormed, OnlyEntrants
    <3>7. SoundCall(call)'
      BY <1>1, <3>2, <3>5, <3>6 DEF SoundCall, WellFormed, Among
    <3>. QED  BY <3>3, <3>5, <3>7
  <2>. QED  BY <2>1, <2>2, <2>3
<1>3. /\ entered' \in [RoomIDs -> SUBSET Players]
      /\ rooms' \in [RoomIDs -> Room \union {NoDoc}]
      /\ RoomsWellFormed' /\ OnlyEntrants'
      /\ \A q \in RoomIDs : entered[q] \subseteq entered'[q]
      /\ \A q \in RoomIDs : rooms[q] # NoDoc => rooms'[q] # NoDoc
  BY <1>1, RoomsAlone
<1>4. calls' \in [CallIDs -> Call \union {NoCall}] /\ CallsSound'
  BY <1>2, <1>3, StepKeepsCalls
<1>. QED  BY <1>3, <1>4 DEF StoreInv, TypeOK

\* A callback that leaves a document alone, or writes a well-formed room of
\* entrants over it, and returns.
LEMMA ReturnKeepsInv ==
    ASSUME StoreInv, NEW k \in CallIDs, Returns(k),
           \/ UNCHANGED <<rooms, entered>>
           \/ \E r \in RoomIDs, room \in LiveRoom :
                 /\ SetData(r, room) /\ WellFormed(room) /\ Among(room, entered'[r])
                 /\ entered' \in [RoomIDs -> SUBSET Players]
                 /\ \A q \in RoomIDs : entered[q] \subseteq entered'[q]
    PROVE  StoreInv'
<1>1. /\ rooms' \in [RoomIDs -> Room \union {NoDoc}]
      /\ entered' \in [RoomIDs -> SUBSET Players]
      /\ RoomsWellFormed' /\ OnlyEntrants'
      /\ \A q \in RoomIDs : entered[q] \subseteq entered'[q]
      /\ \A q \in RoomIDs : rooms[q] # NoDoc => rooms'[q] # NoDoc
  <2>1. CASE UNCHANGED <<rooms, entered>>
    BY <2>1, RoomsAlone
  <2>2. CASE ~ UNCHANGED <<rooms, entered>>
    BY <2>2, WriteKeepsRooms
  <2>. QED  BY <2>1, <2>2
<1>2. calls' \in [CallIDs -> Call \union {NoCall}] /\ CallsSound'
  BY <1>1, StepKeepsCalls DEF Returns
<1>. QED  BY <1>1, <1>2 DEF StoreInv, TypeOK

LEMMA JoinKeepsInv ==
    ASSUME StoreInv, NEW k \in CallIDs, JoinReturns(k)
    PROVE  StoreInv'
<1> DEFINE call == calls[k]
<1>1. /\ UnderWay(k, "join", "answered") /\ Returns(k)
      /\ call.player \in Players /\ call.target \in RoomIDs /\ SoundCall(call)
      /\ call.snap # NoDoc => call.snap \in LiveRoom
  BY UnderWayFacts DEF JoinReturns, DocumentReads
<1>2. CASE call.snap # NoDoc /\ CanEnter(call.snap, call.player)
  <2> DEFINE room == WithPlayer(call.snap, call.player)
  <2>1. /\ SetData(call.target, room)
        /\ entered' = [entered EXCEPT ![call.target] = @ \union {call.player}]
    BY <1>2 DEF JoinReturns
  <2>2. WellFormed(call.snap) /\ Among(call.snap, entered[call.target])
    BY <1>1, <1>2 DEF SoundCall
  <2>3. /\ room \in LiveRoom /\ WellFormed(room) /\ room.ownerID = call.snap.ownerID
        /\ \A i \in DOMAIN room.playerIDs :
              room.playerIDs[i] = call.player \/ Member(call.snap, room.playerIDs[i])
    BY <1>1, <1>2, <2>2, WithPlayerFacts
  <2>4. /\ entered' \in [RoomIDs -> SUBSET Players]
        /\ \A q \in RoomIDs : entered[q] \subseteq entered'[q]
        /\ entered'[call.target] = entered[call.target] \union {call.player}
    BY <1>1, <2>1 DEF StoreInv, TypeOK
  <2> HIDE DEF room
  <2>5. /\ room.ownerID \in entered'[call.target]
        /\ \A i \in DOMAIN room.playerIDs : room.playerIDs[i] \in entered'[call.target]
    BY <2>2, <2>3, <2>4 DEF Among, Member
  <2>6. Among(room, entered'[call.target])
    BY <2>5 DEF Among
  <2>. QED  BY <1>1, <2>1, <2>3, <2>4, <2>6, ReturnKeepsInv
<1>3. CASE ~ (call.snap # NoDoc /\ CanEnter(call.snap, call.player))
  BY <1>1, <1>3, ReturnKeepsInv DEF JoinReturns
<1>. QED  BY <1>2, <1>3

\* Deleting a document only hides it.
LEMMA DeleteKeepsInv ==
    ASSUME StoreInv, NEW k \in CallIDs, NEW r \in RoomIDs, Returns(k), rooms[r] # NoDoc,
           rooms' = [rooms EXCEPT ![r].exists = FALSE], UNCHANGED entered
    PROVE  StoreInv'
<1>1. /\ rooms \in [RoomIDs -> Room \union {NoDoc}] /\ rooms[r] \in Room
      /\ rooms' = [rooms EXCEPT ![r] = [rooms[r] EXCEPT !.exists = FALSE]]
  BY DEF StoreInv, TypeOK
<1>2. /\ [rooms[r] EXCEPT !.exists = FALSE] \in Room
      /\ [rooms[r] EXCEPT !.exists = FALSE].playerIDs = rooms[r].playerIDs
      /\ [rooms[r] EXCEPT !.exists = FALSE].ownerID = rooms[r].ownerID
  BY <1>1 DEF Room
<1>3. /\ rooms' \in [RoomIDs -> Room \union {NoDoc}]
      /\ \A q \in RoomIDs : rooms[q] # NoDoc <=> rooms'[q] # NoDoc
      /\ \A q \in RoomIDs : rooms[q] # NoDoc => /\ rooms'[q].playerIDs = rooms[q].playerIDs
                                                /\ rooms'[q].ownerID = rooms[q].ownerID
  BY <1>1, <1>2, StoreAssumption DEF StoreAssumption
<1>4. RoomsWellFormed' /\ OnlyEntrants'
  BY <1>3 DEF StoreInv, RoomsWellFormed, WellFormed, OnlyEntrants, Among
<1>5. calls' \in [CallIDs -> Call \union {NoCall}] /\ CallsSound'
  BY <1>3, StepKeepsCalls DEF Returns
<1>. QED  BY <1>3, <1>4, <1>5 DEF StoreInv, TypeOK

LEMMA QuitKeepsInv ==
    ASSUME StoreInv, NEW k \in CallIDs, QuitReturns(k)
    PROVE  StoreInv'
<1> DEFINE call == calls[k]
<1>1. /\ UnderWay(k, "quit", "answered") /\ Returns(k) /\ UNCHANGED entered
      /\ call.player \in Players /\ call.target \in RoomIDs /\ SoundCall(call)
      /\ call.snap # NoDoc => call.snap \in LiveRoom
  BY UnderWayFacts DEF QuitReturns, DocumentReads
<1>2. CASE UNCHANGED rooms
  BY <1>1, <1>2, ReturnKeepsInv
<1>3. CASE /\ call.snap # NoDoc /\ Len(call.snap.playerIDs) > 1
           /\ SetData(call.target, WithoutPlayer(call.snap, call.player))
  <2> DEFINE room == WithoutPlayer(call.snap, call.player)
  <2>1. WellFormed(call.snap) /\ Among(call.snap, entered[call.target])
    BY <1>1, <1>3 DEF SoundCall
  <2>2. /\ room \in LiveRoom /\ WellFormed(room)
        /\ room.ownerID = call.snap.ownerID \/ Member(call.snap, room.ownerID)
        /\ \A i \in DOMAIN room.playerIDs : Member(call.snap, room.playerIDs[i])
    BY <1>1, <1>3, <2>1, WithoutPlayerFacts
  <2> HIDE DEF room
  <2>4. Among(room, entered'[call.target])
    BY <1>1, <2>1, <2>2 DEF Among, Member
  <2>5. /\ entered' \in [RoomIDs -> SUBSET Players]
        /\ \A q \in RoomIDs : entered[q] \subseteq entered'[q]
    BY <1>1 DEF StoreInv, TypeOK
  <2>6. SetData(call.target, room)
    BY <1>3 DEF room
  <2>. QED  BY <1>1, <2>2, <2>4, <2>5, <2>6, ReturnKeepsInv
<1>4. CASE call.snap # NoDoc /\ rooms' = [rooms EXCEPT ![call.target].exists = FALSE]
  <2>1. rooms[call.target] # NoDoc
    BY <1>1, <1>4 DEF SoundCall
  <2>. QED  BY <1>1, <1>4, <2>1, DeleteKeepsInv
<1>. QED  BY <1>2, <1>3, <1>4 DEF QuitReturns

LEMMA UpdateKeepsInv ==
    ASSUME StoreInv, NEW k \in CallIDs, UpdateReturns(k)
    PROVE  StoreInv'
<1> DEFINE call == calls[k]
<1>1. /\ UnderWay(k, "update", "answered") /\ Returns(k) /\ UNCHANGED entered
      /\ call.target \in RoomIDs /\ SoundCall(call)
      /\ call.snap # NoDoc => call.snap \in LiveRoom
  BY UnderWayFacts DEF UpdateReturns, DocumentReads
<1>2. CASE call.snap = NoDoc
  BY <1>1, <1>2, ReturnKeepsInv DEF UpdateReturns
<1>3. CASE call.snap # NoDoc
  <2> DEFINE room == Running(call.snap)
  <2>1. WellFormed(call.snap) /\ Among(call.snap, entered[call.target])
    BY <1>1, <1>3 DEF SoundCall
  <2>2. /\ room \in LiveRoom /\ WellFormed(room)
        /\ room.ownerID = call.snap.ownerID /\ room.playerIDs = call.snap.playerIDs
    BY <1>1, <1>3, <2>1, RunningFacts
  <2>3. SetData(call.target, room)
    BY <1>3 DEF UpdateReturns
  <2> HIDE DEF room
  <2>4. Among(room, entered'[call.target])
    BY <1>1, <2>1, <2>2 DEF Among
  <2>5. /\ entered' \in [RoomIDs -> SUBSET Players]
        /\ \A q \in RoomIDs : entered[q] \subseteq entered'[q]
    BY <1>1 DEF StoreInv, TypeOK
  <2>. QED  BY <1>1, <2>2, <2>3, <2>4, <2>5, ReturnKeepsInv
<1>. QED  BY <1>2, <1>3

LEMMA AddDocumentKeepsInv ==
    ASSUME StoreInv, NEW k \in CallIDs, NEW r \in RoomIDs, AddDocument(k, r)
    PROVE  StoreInv'
<1>1. PICK player \in Players, key \in ShareKeys :
        /\ SetData(r, NewRoom(player, key)) /\ rooms[r] = NoDoc
        /\ entered' = [entered EXCEPT ![r] = {player}]
        /\ calls' = [calls EXCEPT ![k] = Asked("confirm", player, r)]
  <2>1. calls[k].player \in Players /\ calls[k].target \in ShareKeys
    BY UnderWayFacts DEF AddDocument
  <2>. QED  BY <2>1 DEF AddDocument, Unused
<1> DEFINE room == NewRoom(player, key)
<1>2. /\ room \in LiveRoom /\ WellFormed(room)
      /\ room.ownerID = player /\ room.playerIDs = <<player>>
  BY NewRoomFacts DEF NewRoom
<1>3. /\ SetData(r, room)
      /\ rooms \in [RoomIDs -> Room \union {NoDoc}]
      /\ rooms' = [rooms EXCEPT ![r] = room]
      /\ entered' \in [RoomIDs -> SUBSET Players]
      /\ entered'[r] = {player}
      /\ \A q \in RoomIDs \ {r} : entered'[q] = entered[q]
  BY <1>1 DEF SetData, StoreInv, TypeOK
<1> HIDE DEF room
<1>4. RoomsWellFormed' /\ OnlyEntrants' /\ rooms' \in [RoomIDs -> Room \union {NoDoc}]
  <2>1. Among(room, {player})
    BY <1>2 DEF Among
  <2>. QED  BY <1>2, <1>3, <2>1 DEF StoreInv, RoomsWellFormed, WellFormed, OnlyEntrants, Among, LiveRoom
<1>5. calls' \in [CallIDs -> Call \union {NoCall}] /\ CallsSound'
  <2>1. Asked("confirm", player, r) \in Call /\ SoundCall(Asked("confirm", player, r))'
    BY AskedFacts DEF DocumentReads
  <2>2. ASSUME NEW j \in CallIDs, calls'[j] # NoCall
        PROVE  calls'[j] \in Call /\ SoundCall(calls[j])'
    <3>1. CASE j = k
      BY <1>1, <2>1, <3>1 DEF StoreInv, TypeOK, SoundCall
    <3>2. CASE j # k
      <4>1. calls'[j] = calls[j] /\ calls[j] \in Call /\ SoundCall(calls[j])
        BY <1>1, <2>2, <3>2 DEF StoreInv, TypeOK, CallsSound
      <4>2. calls[j].snap # NoDoc => calls[j].target \in RoomIDs \ {r}
        BY <1>1, <4>1 DEF SoundCall
      <4>. QED  BY <1>3, <4>1, <4>2 DEF SoundCall
    <3>. QED  BY <3>1, <3>2
  <2>3. calls' \in [CallIDs -> Call \union {NoCall}]
    BY <1>1, <2>1 DEF StoreInv, TypeOK
  <2>. QED  BY <2>2, <2>3 DEF CallsSound
<1>. QED  BY <1>3, <1>4, <1>5 DEF StoreInv, TypeOK

\* A killed app's calls are over.
LEMMA AppKilledKeepsInv ==
    ASSUME StoreInv, NEW player \in Players, AppKilled(player)
    PROVE  StoreInv'
<1>1. \A k \in CallIDs : calls'[k] = NoCall \/ calls'[k] = calls[k]
  BY DEF AppKilled
<1>2. calls' \in [CallIDs -> Call \union {NoCall}]
  BY DEF AppKilled, StoreInv, TypeOK
<1>3. CallsSound'
  BY <1>1 DEF AppKilled, StoreInv, CallsSound, SoundCall
<1>. QED  BY <1>2, <1>3, RoomsAlone DEF AppKilled, StoreInv, TypeOK

\* A call that ends without a trace.
LEMMA CreateReturnsKeepsInv ==
    ASSUME StoreInv, NEW k \in CallIDs, CreateReturns(k)
    PROVE  StoreInv'
BY ReturnKeepsInv DEF CreateReturns

LEMMA NextKeepsInv == StoreInv /\ [Next]_storeVars => StoreInv'
<1> SUFFICES ASSUME StoreInv, [Next]_storeVars PROVE StoreInv'
  OBVIOUS
<1>1. ASSUME NEW k \in CallIDs, PagesCall(k) PROVE StoreInv'
  BY <1>1, PagesCallKeepsInv
<1>2. ASSUME NEW k \in CallIDs, CallProceeds(k) PROVE StoreInv'
  BY <1>2, AnswerKeepsInv, AddDocumentKeepsInv, CreateReturnsKeepsInv, JoinKeepsInv,
     QuitKeepsInv, UpdateKeepsInv DEF CallProceeds
<1>3. ASSUME NEW player \in Players, AppKilled(player) PROVE StoreInv'
  BY <1>3, AppKilledKeepsInv
<1>4. CASE UNCHANGED storeVars
  <2>1. calls' = calls
    BY <1>4 DEF storeVars
  <2>2. CallsSound'
    BY <1>4 DEF StoreInv, CallsSound, SoundCall, storeVars
  <2>. QED  BY <1>4, <2>1, <2>2, RoomsAlone DEF storeVars, StoreInv, TypeOK
<1>. QED  BY <1>1, <1>2, <1>3, <1>4 DEF Next

LEMMA InitInv == Init => StoreInv
BY DEF Init, StoreInv, TypeOK, CallsSound, RoomsWellFormed, OnlyEntrants

----------------------------------------------------------------------------
(* What the pages rely on: who entered a room is known, and stays known.   *)

\* The reads of players who have entered the room.
EntrantReads == {"confirm", "quit", "update"}

\* A room nobody made has no entrants, and whoever reads back a room he made, or
\* quits or starts one, has entered it.
HistorySound ==
    /\ \A r \in RoomIDs : rooms[r] = NoDoc => entered[r] = {}
    /\ \A k \in CallIDs : calls[k] # NoCall /\ calls[k].op \in EntrantReads =>
          calls[k].player \in entered[calls[k].target]

\* Steps that leave the history and the documents alone, and make no such call
\* but of an entrant.
LEMMA HistoryAlone ==
    ASSUME HistorySound, UNCHANGED <<rooms, entered>>,
           \A k \in CallIDs : calls'[k] = NoCall
                               \/ calls'[k].op \notin EntrantReads
                               \/ calls'[k].player \in entered[calls'[k].target]
                               \/ /\ calls[k] # NoCall /\ calls[k].op \in EntrantReads
                                  /\ calls'[k].player = calls[k].player
                                  /\ calls'[k].target = calls[k].target
    PROVE  HistorySound'
BY DEF HistorySound

\* Steps that end a call, and may write its document.
LEMMA HistoryReturn ==
    ASSUME StoreInv, HistorySound, NEW k \in CallIDs, Returns(k), NEW r \in RoomIDs,
           entered' \in [RoomIDs -> SUBSET Players],
           \A q \in RoomIDs : entered[q] \subseteq entered'[q],
           \A q \in RoomIDs \ {r} : rooms'[q] = rooms[q] /\ entered'[q] = entered[q],
           rooms'[r] # NoDoc \/ UNCHANGED <<rooms, entered>>
    PROVE  HistorySound'
<1>1. \A j \in CallIDs : calls'[j] = NoCall \/ calls'[j] = calls[j]
  BY DEF Returns, StoreInv, TypeOK
<1>2. \A j \in CallIDs : calls[j] # NoCall /\ calls[j].op \in EntrantReads =>
          calls[j].target \in RoomIDs
  BY DEF StoreInv, CallsSound, SoundCall, DocumentReads, EntrantReads
<1>. QED  BY <1>1, <1>2 DEF HistorySound

LEMMA HistoryGrows ==
    ASSUME StoreInv, HistorySound, [Next]_storeVars
    PROVE  HistorySound' /\ \A r \in RoomIDs : entered[r] \subseteq entered'[r]
<1>1. ASSUME NEW k \in CallIDs, PagesCall(k)
      PROVE  HistorySound' /\ UNCHANGED <<rooms, entered>>
  <2>1. UNCHANGED <<rooms, entered>>
    BY <1>1 DEF PagesCall, CreateGameRoom, JoinGameRoom, QuitGameRoom, UpdateGameRoom
  <2>2. PICK op, player, target :
           /\ calls' = [calls EXCEPT ![k] = Asked(op, player, target)]
           /\ op \in EntrantReads => player \in entered[target]
    BY <1>1 DEF PagesCall, CreateGameRoom, JoinGameRoom, QuitGameRoom, UpdateGameRoom, Makes, EntrantReads
  <2>3. ASSUME NEW j \in CallIDs
        PROVE  \/ calls'[j] = calls[j]
               \/ calls'[j].op \notin EntrantReads
               \/ calls'[j].player \in entered[calls'[j].target]
    BY <2>2 DEF Asked, StoreInv, TypeOK
  <2>. QED  BY <2>1, <2>3, HistoryAlone
<1>2. ASSUME NEW k \in CallIDs,
             SearchAnswered(k) \/ ShareKeyAnswered(k) \/ DocumentAnswered(k)
      PROVE  HistorySound' /\ UNCHANGED <<rooms, entered>>
  <2>1. UNCHANGED <<rooms, entered>>
    BY <1>2 DEF SearchAnswered, ShareKeyAnswered, DocumentAnswered
  <2>2. calls \in [CallIDs -> Call \union {NoCall}]
    BY DEF StoreInv, TypeOK
  <2>3. ASSUME NEW j \in CallIDs
        PROVE  \/ calls'[j] = NoCall
               \/ calls'[j].op \notin EntrantReads
               \/ /\ calls[j] # NoCall /\ calls[j].op \in EntrantReads
                  /\ calls'[j].player = calls[j].player
                  /\ calls'[j].target = calls[j].target
    <3>1. CASE SearchAnswered(k)
      BY <2>2, <3>1 DEF SearchAnswered, UnderWay, Call
    <3>2. CASE ShareKeyAnswered(k)
      BY <2>2, <3>2 DEF ShareKeyAnswered, Returns, Asked, EntrantReads
    <3>3. CASE DocumentAnswered(k)
      BY <2>2, <3>3 DEF DocumentAnswered, UnderWay, Call
    <3>. QED  BY <1>2, <3>1, <3>2, <3>3
  <2>. QED  BY <2>1, <2>3, HistoryAlone
<1>3. ASSUME NEW k \in CallIDs, NEW r \in RoomIDs, AddDocument(k, r)
      PROVE  HistorySound' /\ \A q \in RoomIDs : entered[q] \subseteq entered'[q]
  <2>1. /\ rooms[r] = NoDoc
        /\ calls[k].player \in Players /\ calls[k].target \in ShareKeys
        /\ rooms' = [rooms EXCEPT ![r] = NewRoom(calls[k].player, calls[k].target)]
        /\ entered' = [entered EXCEPT ![r] = {calls[k].player}]
        /\ calls' = [calls EXCEPT ![k] = Asked("confirm", calls[k].player, r)]
    BY <1>3, UnderWayFacts DEF AddDocument, Unused, SetData
  <2>2. NewRoom(calls[k].player, calls[k].target) # NoDoc
    BY <2>1, NewRoomFacts, StoreAssumption DEF StoreAssumption, LiveRoom
  <2>3. /\ rooms \in [RoomIDs -> Room \union {NoDoc}]
        /\ calls \in [CallIDs -> Call \union {NoCall}]
        /\ entered \in [RoomIDs -> SUBSET Players]
    BY DEF StoreInv, TypeOK
  <2>4. \A q \in RoomIDs : entered[q] \subseteq entered'[q]
    BY <2>1, <2>3 DEF HistorySound
  <2>5. ASSUME NEW j \in CallIDs, calls'[j] # NoCall, calls'[j].op \in EntrantReads
        PROVE  calls'[j].player \in entered'[calls'[j].target]
    <3>1. CASE j = k
      BY <2>1, <2>3, <3>1 DEF Asked
    <3>2. CASE j # k
      <4>1. calls'[j] = calls[j] /\ calls[j].target \in RoomIDs
        BY <2>1, <2>3, <2>5, <3>2 DEF StoreInv, CallsSound, SoundCall, DocumentReads, EntrantReads
      <4>. QED  BY <2>4, <2>5, <4>1 DEF HistorySound
    <3>. QED  BY <3>1, <3>2
  <2>6. \A q \in RoomIDs : rooms'[q] = NoDoc => entered'[q] = {}
    BY <2>1, <2>2, <2>3 DEF HistorySound
  <2>. QED  BY <2>4, <2>5, <2>6 DEF HistorySound
<1>4. ASSUME NEW k \in CallIDs,
             CreateReturns(k) \/ JoinReturns(k) \/ QuitReturns(k) \/ UpdateReturns(k)
      PROVE  HistorySound' /\ \A q \in RoomIDs : entered[q] \subseteq entered'[q]
  <2> DEFINE r == calls[k].target
  <2>1. /\ Returns(k) /\ r \in RoomIDs
        /\ StoreInv'
    BY <1>4, UnderWayFacts, NextKeepsInv
       DEF CreateReturns, JoinReturns, QuitReturns, UpdateReturns, DocumentReads, Next, CallProceeds
  <2>2. /\ rooms \in [RoomIDs -> Room \union {NoDoc}]
        /\ entered \in [RoomIDs -> SUBSET Players]
        /\ rooms' \in [RoomIDs -> Room \union {NoDoc}]
        /\ entered' \in [RoomIDs -> SUBSET Players]
        /\ calls[k] \in Call /\ SoundCall(calls[k])
    BY <1>4, <2>1, UnderWayFacts
       DEF StoreInv, TypeOK, CreateReturns, JoinReturns, QuitReturns, UpdateReturns
  <2>3. /\ \A q \in RoomIDs : entered[q] \subseteq entered'[q]
        /\ \A q \in RoomIDs \ {r} : rooms'[q] = rooms[q] /\ entered'[q] = entered[q]
        /\ rooms'[r] # NoDoc \/ UNCHANGED <<rooms, entered>>
    <3> HIDE DEF r
    <3>1. CASE CreateReturns(k)
      BY <3>1 DEF CreateReturns
    <3>2. CASE JoinReturns(k)
      <4>1. calls[k].snap # NoDoc /\ CanEnter(calls[k].snap, calls[k].player) =>
              WithPlayer(calls[k].snap, calls[k].player) # NoDoc
        BY <2>2, WithPlayerFacts, StoreAssumption DEF Call, StoreAssumption, LiveRoom, SoundCall
      <4>. QED  BY <2>1, <2>2, <3>2, <4>1 DEF JoinReturns, SetData, r
    <3>3. CASE QuitReturns(k)
      <4>1. ASSUME calls[k].snap # NoDoc
            PROVE  rooms[r] \in Room
        BY <2>1, <2>2, <4>1 DEF SoundCall, r
      <4>2. ASSUME calls[k].snap # NoDoc, Len(calls[k].snap.playerIDs) > 1
            PROVE  WithoutPlayer(calls[k].snap, calls[k].player) # NoDoc
        BY <2>2, <4>2, WithoutPlayerFacts, StoreAssumption
           DEF Call, StoreAssumption, LiveRoom, SoundCall
      <4>3. [rooms[r] EXCEPT !.exists = FALSE] \in Room \/ calls[k].snap = NoDoc
        BY <4>1 DEF Room
      <4>. QED  BY <2>1, <2>2, <3>3, <4>2, <4>3, StoreAssumption
                DEF QuitReturns, SetData, r, StoreAssumption
    <3>4. CASE UpdateReturns(k)
      <4>1. calls[k].snap # NoDoc => Running(calls[k].snap) # NoDoc
        BY <2>2, RunningFacts, StoreAssumption DEF Call, StoreAssumption, LiveRoom, SoundCall
      <4>. QED  BY <2>1, <2>2, <3>4, <4>1 DEF UpdateReturns, SetData, r
    <3>. QED  BY <1>4, <3>1, <3>2, <3>3, <3>4
  <2> HIDE DEF r
  <2>. QED  BY <2>1, <2>2, <2>3, HistoryReturn
<1>5. ASSUME NEW player \in Players, AppKilled(player)
      PROVE  HistorySound' /\ UNCHANGED <<rooms, entered>>
  <2>1. UNCHANGED <<rooms, entered>> /\ \A k \in CallIDs : calls'[k] = NoCall \/ calls'[k] = calls[k]
    BY <1>5 DEF AppKilled
  <2>. QED  BY <2>1, HistoryAlone
<1>6. CASE UNCHANGED storeVars
  BY <1>6, HistoryAlone DEF storeVars
<1>. QED  BY <1>1, <1>2, <1>3, <1>4, <1>5, <1>6 DEF Next, CallProceeds

\* The room a completion brings is a room, and its player has entered it.
LEMMA CompletionFacts ==
    ASSUME StoreInv, HistorySound, NEW k \in CallIDs,
           CreateReturns(k) \/ JoinReturns(k), Completion(calls[k]) # NoDoc
    PROVE  /\ calls[k].player \in Players /\ calls[k].target \in RoomIDs
           /\ Completion(calls[k]) \in Room
           /\ calls[k].player \in entered'[calls[k].target]
<1> DEFINE call == calls[k]
<1>1. /\ call \in Call /\ SoundCall(call) /\ call # NoCall
      /\ call.player \in Players /\ call.target \in RoomIDs
      /\ call.op \in {"confirm", "join"}
      /\ call.snap # NoDoc => call.snap \in LiveRoom
      /\ entered \in [RoomIDs -> SUBSET Players]
  BY UnderWayFacts DEF CreateReturns, JoinReturns, UnderWay, DocumentReads, StoreInv, TypeOK
<1>2. CASE CreateReturns(k)
  <2>1. call.op = "confirm" /\ UNCHANGED entered
    BY <1>2 DEF CreateReturns, UnderWay
  <2>2. Completion(call) = call.snap
    BY <2>1 DEF Completion
  <2>. QED  BY <1>1, <2>1, <2>2 DEF HistorySound, LiveRoom, EntrantReads
<1>3. CASE JoinReturns(k)
  <2>1. call.op = "join"
    BY <1>3 DEF JoinReturns, UnderWay
  <2>2. call.snap # NoDoc
    BY <2>1 DEF Completion
  <2>3. CASE CanEnter(call.snap, call.player)
    <3>1. Completion(call) = WithPlayer(call.snap, call.player)
      BY <2>1, <2>2, <2>3 DEF Completion
    <3>2. Completion(call) \in Room
      BY <1>1, <2>2, <2>3, <3>1, WithPlayerFacts DEF LiveRoom, SoundCall
    <3>3. entered' = [entered EXCEPT ![call.target] = @ \union {call.player}]
      BY <1>3, <2>2, <2>3 DEF JoinReturns
    <3>. QED  BY <1>1, <3>2, <3>3
  <2>4. CASE ~CanEnter(call.snap, call.player)
    <3>1. Completion(call) = call.snap /\ Member(call.snap, call.player)
      BY <2>1, <2>2, <2>4 DEF Completion, CanEnter
    <3>2. UNCHANGED entered
      BY <1>3, <2>4 DEF JoinReturns
    <3>3. call.player \in entered[call.target]
      BY <1>1, <2>2, <3>1 DEF SoundCall, Among, Member
    <3>. QED  BY <1>1, <2>2, <3>1, <3>2, <3>3 DEF LiveRoom
  <2>. QED  BY <2>3, <2>4
<1>. QED  BY <1>2, <1>3 DEF CreateReturns, JoinReturns

----------------------------------------------------------------------------
(* The theorems.                                                           *)

\* The inductive invariant holds throughout.
THEOREM Invariance == Spec => []StoreInv
<1>. QED  BY InitInv, NextKeepsInv, PTL DEF Spec

\* Types, for GameRoomFirestore with any number of players, rooms and calls.
THEOREM TypeCorrect == Spec => []TypeOK
<1>1. StoreInv => TypeOK
  BY DEF StoreInv
<1>. QED  BY <1>1, Invariance, PTL

\* No interleaving of joinGameRoom, quitGameRoom and updateGameRoom overfills a
\* room, shows a player twice in it or leaves it without players.
THEOREM CapacityTheorem == Spec => []RoomsWellFormed
<1>1. StoreInv => RoomsWellFormed
  BY DEF StoreInv
<1>. QED  BY <1>1, Invariance, PTL

\* No interleaving puts into a room, or makes its owner, anybody who did not
\* create or join it.
THEOREM EntrantsTheorem == Spec => []OnlyEntrants
<1>1. StoreInv => OnlyEntrants
  BY DEF StoreInv
<1>. QED  BY <1>1, Invariance, PTL

----------------------------------------------------------------------------
(* Calls on one room that do not overlap, with only members quitting, are  *)
(* the indivisible operations of RoomMembership: OrderlySpec implements    *)
(* it, for any players, rooms, keys, number of calls and room size.        *)

\* A snapshot that will be used is still what the document holds.
SnapshotsFresh ==
    \A k \in CallIDs : calls[k] # NoCall /\ calls[k].snap # NoDoc =>
        Exists(calls[k].target) /\ calls[k].snap = rooms[calls[k].target]

OrderlyInv == StoreInv /\ Orderly /\ SnapshotsFresh /\ OwnerIsMember

----------------------------------------------------------------------------
(* Lists of players as sets of players.                                    *)

LEMMA RangeFacts ==
    ASSUME NEW room \in Room
    PROVE  /\ \A p : Member(room, p) <=> p \in Range(room.playerIDs)
           /\ Cardinality(Range(room.playerIDs)) \in Nat
           /\ Cardinality(Range(room.playerIDs)) <= Len(room.playerIDs)
<1> DEFINE list == room.playerIDs
<1>1. /\ list \in Seq(Players) /\ Len(list) \in Nat /\ DOMAIN list = 1 .. Len(list)
      /\ list \in [1 .. Len(list) -> Players]
  BY LenProperties DEF Room
<1> HIDE DEF list
<1>2. list \in Surjection(1 .. Len(list), Range(list))
  BY <1>1 DEF Surjection, Range
<1>3. ExistsSurjection(1 .. Len(list), Range(list))
  BY <1>2 DEF ExistsSurjection
<1>4. Cardinality(Range(list)) <= Len(list)
  BY <1>1, <1>3, FS_SurjCardinalityBound
<1>5. IsFiniteSet(1 .. Len(list))
  BY <1>1, FS_Interval
<1>6. IsFiniteSet(Range(list))
  BY <1>2, <1>5, FS_Surjection
<1>7. Cardinality(Range(list)) \in Nat
  BY <1>6, FS_CardinalityType
<1>8. \A p : (\E i \in DOMAIN list : list[i] = p) <=> p \in Range(list)
  BY DEF Range
<1>. QED  BY <1>4, <1>7, <1>8 DEF list, Member

\* Entering adds one player to the set.
LEMMA EnterFacts ==
    ASSUME NEW room \in LiveRoom, NEW player \in Players
    PROVE  Range(WithPlayer(room, player).playerIDs) = Range(room.playerIDs) \union {player}
<1> DEFINE list == room.playerIDs
           longer == Append(list, player)
<1>1. list \in Seq(Players) /\ Len(list) \in Nat /\ DOMAIN list = 1 .. Len(list)
  BY LenProperties DEF Room, LiveRoom
<1>2. /\ longer \in Seq(Players) /\ DOMAIN longer = 1 .. Len(list) + 1
      /\ \A i \in 1 .. Len(list) : longer[i] = list[i]
      /\ longer[Len(list) + 1] = player
  BY <1>1, AppendProperties, LenProperties
<1>3. WithPlayer(room, player).playerIDs = longer
  BY DEF WithPlayer, Room, LiveRoom
<1> HIDE DEF list, longer
<1>4. Range(longer) = Range(list) \union {player}
  BY <1>1, <1>2 DEF Range
<1>. QED  BY <1>3, <1>4 DEF list

\* A well-formed room with not more than one player has one.
LEMMA OnePlace ==
    ASSUME NEW room \in Room, WellFormed(room), ~ (Len(room.playerIDs) > 1)
    PROVE  DOMAIN room.playerIDs = {1}
<1>1. room.playerIDs \in Seq(Players) /\ Len(room.playerIDs) \in 1 .. Peoples
  BY DEF WellFormed, Room
<1>2. Len(room.playerIDs) \in Nat /\ DOMAIN room.playerIDs = 1 .. Len(room.playerIDs)
  BY <1>1, LenProperties
<1>3. Len(room.playerIDs) = 1
  <2>1. Peoples \in Nat
    BY StoreAssumption DEF StoreAssumption
  <2>2. PICK n \in Nat : n = Len(room.playerIDs)
    BY <1>2
  <2>3. n \in 1 .. Peoples /\ ~ (n > 1)
    BY <1>1, <2>2
  <2>4. n = 1
    BY <2>1, <2>3
  <2>. QED  BY <2>2, <2>4
<1>. QED  BY <1>2, <1>3

\* The next position round a list of two or more is another position of it.
LEMMA NextRound ==
    ASSUME NEW n \in Nat, n > 1, NEW p \in 1 .. n
    PROVE  (p % n) + 1 \in 1 .. n /\ (p % n) + 1 # p
<1>1. CASE p = n
  <2>1. n % n = 0
    OBVIOUS
  <2>. QED  BY <1>1, <2>1
<1>2. CASE p < n
  <2>1. p % n = p
    BY <1>2
  <2>. QED  BY <1>2, <2>1
<1>. QED  BY <1>1, <1>2

\* A member of a well-formed room who quits is the one player missing after,
\* and an owner who quits is succeeded by somebody who stays.
LEMMA LeaveFacts ==
    ASSUME NEW room \in LiveRoom, NEW player \in Players,
           WellFormed(room), Len(room.playerIDs) > 1, Member(room, player)
    PROVE  /\ Range(WithoutPlayer(room, player).playerIDs) = Range(room.playerIDs) \ {player}
           /\ WithoutPlayer(room, player).ownerID = NextOwner(room, player)
           /\ room.ownerID = player => NextOwner(room, player) \in Range(room.playerIDs) \ {player}
           /\ room.ownerID # player => NextOwner(room, player) = room.ownerID
           /\ WithoutPlayer(room, player).gameRunning = room.gameRunning
<1> DEFINE list == room.playerIDs
           pos == QuitPosition(room, player)
           shorter == RemoveAt(list, pos)
           succ == (pos % Len(list)) + 1
<1>1. /\ list \in Seq(Players) /\ Len(list) \in Nat /\ DOMAIN list = 1 .. Len(list)
      /\ \A m, n \in 1 .. Len(list) : list[m] = list[n] => m = n
  BY LenProperties DEF Room, LiveRoom, WellFormed
<1>2. pos \in 1 .. Len(list) /\ list[pos] = player
  BY <1>1, QuitPositionFacts DEF LiveRoom
<1>3. /\ DOMAIN shorter = 1 .. Len(list) - 1
      /\ \A j \in 1 .. Len(list) - 1 : shorter[j] = IF j < pos THEN list[j] ELSE list[j + 1]
  <2> HIDE DEF pos, shorter
  <2>1. /\ shorter \in Seq(Players) /\ Len(shorter) = Len(list) - 1
        /\ \A j \in 1 .. Len(list) - 1 :
              shorter[j] = IF j < pos THEN list[j] ELSE list[j + 1]
    <3> HIDE DEF list
    <3>1. list \in Seq(Players) /\ pos \in 1 .. Len(list)
      BY <1>1, <1>2
    <3>. QED  BY <3>1, RemoveAtFacts DEF shorter
  <2>. QED  BY <2>1, LenProperties
<1>4. /\ WithoutPlayer(room, player).playerIDs = shorter
      /\ WithoutPlayer(room, player).ownerID = NextOwner(room, player)
      /\ WithoutPlayer(room, player).gameRunning = room.gameRunning
  BY DEF WithoutPlayer, Room, LiveRoom
<1>5. room.ownerID = player => NextOwner(room, player) = list[succ]
  BY DEF NextOwner
<1>6. room.ownerID # player => NextOwner(room, player) = room.ownerID
  BY DEF NextOwner
<1> HIDE DEF list, pos, shorter
<1>7. succ \in 1 .. Len(list) /\ succ # pos
  <2>1. Len(list) > 1
    BY DEF list
  <2>. QED  BY <1>1, <1>2, <2>1, NextRound
<1>8. list[succ] \in Range(list) \ {player}
  <2> HIDE DEF succ
  <2>. QED  BY <1>1, <1>2, <1>7 DEF Range
<1>9. Range(shorter) = Range(list) \ {player}
  <2>1. ASSUME NEW p \in Range(shorter)
        PROVE  p \in Range(list) \ {player}
    <3>1. PICK j \in 1 .. Len(list) - 1 : shorter[j] = p
      BY <1>3 DEF Range
    <3>2. PICK n \in 1 .. Len(list) : n # pos /\ list[n] = p
      BY <1>1, <1>2, <1>3, <3>1
    <3>. QED  BY <1>1, <1>2, <3>2 DEF Range
  <2>2. ASSUME NEW p \in Range(list), p # player
        PROVE  p \in Range(shorter)
    <3>1. PICK n \in 1 .. Len(list) : list[n] = p /\ n # pos
      BY <1>1, <1>2, <2>2 DEF Range
    <3>2. CASE n < pos
      <4>1. n \in 1 .. Len(list) - 1 /\ shorter[n] = p
        BY <1>1, <1>2, <1>3, <3>1, <3>2
      <4>. QED  BY <1>3, <4>1 DEF Range
    <3>3. CASE n > pos
      <4>1. n - 1 \in 1 .. Len(list) - 1 /\ shorter[n - 1] = p
        BY <1>1, <1>2, <1>3, <3>1, <3>3
      <4>. QED  BY <1>3, <4>1 DEF Range
    <3>. QED  BY <1>1, <1>2, <3>1, <3>2, <3>3
  <2>. QED  BY <2>1, <2>2
<1>. QED  BY <1>4, <1>5, <1>6, <1>8, <1>9 DEF list

----------------------------------------------------------------------------
(* What a callback that writes finds, and what it leaves.                  *)

\* The room a callback that writes read is the room the document holds.
LEMMA WriterFacts ==
    ASSUME OrderlyInv, NEW k \in CallIDs, NEW op \in DocumentReads,
           UnderWay(k, op, "answered"), calls[k].snap # NoDoc
    PROVE  /\ calls[k].player \in Players /\ calls[k].target \in RoomIDs
           /\ Exists(calls[k].target) /\ calls[k].snap = rooms[calls[k].target]
           /\ calls[k].snap \in LiveRoom /\ calls[k].snap \in Room
           /\ WellFormed(calls[k].snap)
           /\ Member(calls[k].snap, calls[k].snap.ownerID)
           /\ op = "quit" => Member(calls[k].snap, calls[k].player)
<1>1. /\ calls[k] \in Call /\ SoundCall(calls[k]) /\ calls[k].player \in Players
      /\ calls[k].target \in RoomIDs /\ calls[k].snap \in LiveRoom
      /\ calls[k] # NoCall /\ calls[k].op = op
  BY UnderWayFacts DEF OrderlyInv, UnderWay
<1>2. Exists(calls[k].target) /\ calls[k].snap = rooms[calls[k].target]
  BY <1>1 DEF OrderlyInv, SnapshotsFresh
<1>3. WellFormed(calls[k].snap) /\ Member(calls[k].snap, calls[k].snap.ownerID)
  BY <1>1, <1>2 DEF SoundCall, OrderlyInv, OwnerIsMember
<1>4. op = "quit" => Member(calls[k].snap, calls[k].player)
  BY <1>1, <1>2 DEF OrderlyInv, Orderly, QuittersAreMembers
<1>. QED  BY <1>1, <1>2, <1>3, <1>4 DEF LiveRoom

\* While one call writes a document, no other call holds a snapshot of it.
LEMMA OthersElsewhere ==
    ASSUME OrderlyInv, NEW k \in CallIDs, NEW r \in RoomIDs,
           \/ rooms[r] = NoDoc
           \/ calls[k] # NoCall /\ calls[k].target = r,
           NEW j \in CallIDs, j # k, calls[j] # NoCall, calls[j].snap # NoDoc
    PROVE  calls[j].target \in RoomIDs \ {r}
<1>1. SoundCall(calls[j])
  BY DEF OrderlyInv, StoreInv, CallsSound
<1>2. calls[j].target \in RoomIDs
  BY <1>1 DEF SoundCall
<1>3. rooms[calls[j].target] # NoDoc
  BY <1>1 DEF SoundCall
<1>4. ~ (calls[k] # NoCall /\ calls[k].target = calls[j].target)
  BY <1>2 DEF OrderlyInv, Orderly, OneCallPerRoom
<1>. QED  BY <1>2, <1>3, <1>4

\* A write, or a deletion, of one document by the call that ends keeps the
\* other snapshots fresh and the other owners in their rooms.
LEMMA WriteKeepsFresh ==
    ASSUME OrderlyInv, NEW k \in CallIDs, NEW r \in RoomIDs, NEW room \in Room,
           rooms' = [rooms EXCEPT ![r] = room],
           room.exists => Member(room, room.ownerID),
           rooms[r] = NoDoc \/ (calls[k] # NoCall /\ calls[k].target = r),
           NEW call, calls' = [calls EXCEPT ![k] = call], call # NoCall => call.snap = NoDoc
    PROVE  SnapshotsFresh' /\ OwnerIsMember'
<1>1. /\ rooms \in [RoomIDs -> Room \union {NoDoc}] /\ DOMAIN calls = CallIDs
      /\ room # NoDoc
  BY StoreAssumption DEF OrderlyInv, StoreInv, TypeOK, StoreAssumption
<1>2. \A q \in RoomIDs : rooms'[q] = IF q = r THEN room ELSE rooms[q]
  BY <1>1
<1>3. SnapshotsFresh'
  <2>1. ASSUME NEW j \in CallIDs, calls'[j] # NoCall, calls'[j].snap # NoDoc
        PROVE  Exists(calls[j].target)' /\ calls'[j].snap = rooms'[calls'[j].target]
    <3>1. j # k /\ calls'[j] = calls[j]
      BY <1>1, <2>1
    <3>2. calls[j].target \in RoomIDs \ {r}
      BY <2>1, <3>1, OthersElsewhere
    <3>3. Exists(calls[j].target) /\ calls[j].snap = rooms[calls[j].target]
      BY <2>1, <3>1 DEF OrderlyInv, SnapshotsFresh
    <3>. QED  BY <1>2, <3>1, <3>2, <3>3 DEF Exists
  <2>. QED  BY <2>1 DEF SnapshotsFresh
<1>4. OwnerIsMember'
  <2>1. ASSUME NEW q \in RoomIDs, Exists(q)'
        PROVE  Member(rooms'[q], rooms'[q].ownerID)
    BY <1>2, <2>1 DEF OrderlyInv, OwnerIsMember, Exists
  <2>. QED  BY <2>1 DEF OwnerIsMember, Member
<1>. QED  BY <1>3, <1>4

\* A step that leaves the documents alone.
LEMMA ReadKeepsFresh ==
    ASSUME OrderlyInv, UNCHANGED rooms,
           \A j \in CallIDs : \/ calls'[j] = NoCall \/ calls'[j] = calls[j]
                              \/ calls'[j].snap = NoDoc
                              \/ /\ calls'[j].target \in RoomIDs /\ Exists(calls'[j].target)
                                 /\ calls'[j].snap = rooms[calls'[j].target]
    PROVE  SnapshotsFresh' /\ OwnerIsMember'
<1>1. SnapshotsFresh'
  BY DEF OrderlyInv, SnapshotsFresh, Exists
<1>2. OwnerIsMember'
  BY DEF OrderlyInv, OwnerIsMember, Exists, Member
<1>. QED  BY <1>1, <1>2

----------------------------------------------------------------------------
(* The documents change as RoomMembership allows.                          *)

RMStep == [RM!Next]_<<statusOf, membersOf, ownerOf, runningOf>>

\* Where the documents do not change, RoomMembership sees nothing.
LEMMA UnchangedStutters ==
    ASSUME UNCHANGED rooms
    PROVE  RMStep
BY DEF RMStep, statusOf, membersOf, ownerOf, runningOf, Exists

\* What RoomMembership sees of one document being written.
LEMMA MappedWrite ==
    ASSUME StoreInv, NEW r \in RoomIDs, NEW room \in Room, room.exists,
           rooms' = [rooms EXCEPT ![r] = room]
    PROVE  /\ statusOf' = [statusOf EXCEPT ![r] = "open"]
           /\ membersOf' = [membersOf EXCEPT ![r] = Range(room.playerIDs)]
           /\ ownerOf' = [ownerOf EXCEPT ![r] = room.ownerID]
           /\ runningOf' = [runningOf EXCEPT ![r] = room.gameRunning]
<1>1. rooms \in [RoomIDs -> Room \union {NoDoc}] /\ room # NoDoc
  BY StoreAssumption DEF StoreInv, TypeOK, StoreAssumption
<1>2. \A q \in RoomIDs : rooms'[q] = IF q = r THEN room ELSE rooms[q]
  BY <1>1
<1>. QED  BY <1>1, <1>2 DEF statusOf, membersOf, ownerOf, runningOf, Exists

\* What RoomMembership sees of one document being deleted.
LEMMA MappedDelete ==
    ASSUME StoreInv, NEW r \in RoomIDs, NEW room \in Room, ~ room.exists,
           rooms' = [rooms EXCEPT ![r] = room]
    PROVE  /\ statusOf' = [statusOf EXCEPT ![r] = "closed"]
           /\ membersOf' = [membersOf EXCEPT ![r] = {}]
           /\ ownerOf' = [ownerOf EXCEPT ![r] = NoDoc]
           /\ runningOf' = [runningOf EXCEPT ![r] = FALSE]
<1>1. rooms \in [RoomIDs -> Room \union {NoDoc}] /\ room # NoDoc
  BY StoreAssumption DEF StoreInv, TypeOK, StoreAssumption
<1>2. \A q \in RoomIDs : rooms'[q] = IF q = r THEN room ELSE rooms[q]
  BY <1>1
<1>. QED  BY <1>1, <1>2 DEF statusOf, membersOf, ownerOf, runningOf, Exists

LEMMA AddDocumentOpens ==
    ASSUME OrderlyInv, NEW k \in CallIDs, NEW r \in RoomIDs, AddDocument(k, r)
    PROVE  /\ RMStep /\ SnapshotsFresh' /\ OwnerIsMember'
<1>1. PICK player \in Players, key \in ShareKeys :
        /\ SetData(r, NewRoom(player, key)) /\ rooms[r] = NoDoc
        /\ calls' = [calls EXCEPT ![k] = Asked("confirm", player, r)]
  <2>1. calls[k].player \in Players /\ calls[k].target \in ShareKeys
    BY UnderWayFacts DEF AddDocument, OrderlyInv
  <2>. QED  BY <2>1 DEF AddDocument, Unused
<1> DEFINE room == NewRoom(player, key)
<1>2. /\ room \in Room /\ room.exists /\ room.ownerID = player
      /\ room.playerIDs = <<player>> /\ room.gameRunning = FALSE
  BY NewRoomFacts DEF NewRoom, LiveRoom
<1>3. Range(room.playerIDs) = {player} /\ Member(room, player)
  BY <1>2 DEF Range, Member
<1>4. rooms' = [rooms EXCEPT ![r] = room]
  BY <1>1 DEF SetData
<1> HIDE DEF room
<1>5. SnapshotsFresh' /\ OwnerIsMember'
  <2>1. Asked("confirm", player, r).snap = NoDoc
    BY DEF Asked
  <2>. QED  BY <1>1, <1>2, <1>3, <1>4, <2>1, WriteKeepsFresh
<1>6. RM!Open(r, player)
  <2>1. statusOf[r] = "new" /\ runningOf[r] = FALSE /\ runningOf \in [RoomIDs -> {runningOf[q] : q \in RoomIDs}]
    BY <1>1 DEF statusOf, runningOf, Exists
  <2>2. StoreInv
    BY DEF OrderlyInv
  <2>3. /\ statusOf' = [statusOf EXCEPT ![r] = "open"]
        /\ membersOf' = [membersOf EXCEPT ![r] = Range(room.playerIDs)]
        /\ ownerOf' = [ownerOf EXCEPT ![r] = room.ownerID]
        /\ runningOf' = [runningOf EXCEPT ![r] = room.gameRunning]
    BY <1>2, <1>4, <2>2, MappedWrite
  <2>4. runningOf' = runningOf
    BY <1>2, <2>1, <2>3
  <2>5. membersOf' = [membersOf EXCEPT ![r] = {player}] /\ ownerOf' = [ownerOf EXCEPT ![r] = player]
    BY <1>2, <1>3, <2>3
  <2>. QED  BY <2>1, <2>3, <2>4, <2>5 DEF RM!Open
<1>. QED  BY <1>5, <1>6 DEF RMStep, RM!Next

\* What RoomMembership sees of a document that exists.
LEMMA MappedRead ==
    ASSUME StoreInv, NEW r \in RoomIDs, Exists(r)
    PROVE  /\ statusOf[r] = "open"
           /\ membersOf[r] = Range(rooms[r].playerIDs)
           /\ ownerOf[r] = rooms[r].ownerID
           /\ runningOf[r] = rooms[r].gameRunning
           /\ statusOf \in [RoomIDs -> {statusOf[q] : q \in RoomIDs}]
           /\ membersOf \in [RoomIDs -> {membersOf[q] : q \in RoomIDs}]
           /\ ownerOf \in [RoomIDs -> {ownerOf[q] : q \in RoomIDs}]
           /\ runningOf \in [RoomIDs -> {runningOf[q] : q \in RoomIDs}]
BY DEF statusOf, membersOf, ownerOf, runningOf, Exists

\* What RoomMembership sees of one document that exists being overwritten.
LEMMA MappedOverwrite ==
    ASSUME StoreInv, NEW r \in RoomIDs, Exists(r), NEW room \in Room, room.exists,
           rooms' = [rooms EXCEPT ![r] = room]
    PROVE  /\ UNCHANGED statusOf
           /\ membersOf' = [membersOf EXCEPT ![r] = Range(room.playerIDs)]
           /\ membersOf[r] = Range(room.playerIDs) => UNCHANGED membersOf
           /\ ownerOf' = [ownerOf EXCEPT ![r] = room.ownerID]
           /\ ownerOf[r] = room.ownerID => UNCHANGED ownerOf
           /\ runningOf' = [runningOf EXCEPT ![r] = room.gameRunning]
           /\ runningOf[r] = room.gameRunning => UNCHANGED runningOf
<1>1. /\ statusOf' = [statusOf EXCEPT ![r] = "open"]
      /\ membersOf' = [membersOf EXCEPT ![r] = Range(room.playerIDs)]
      /\ ownerOf' = [ownerOf EXCEPT ![r] = room.ownerID]
      /\ runningOf' = [runningOf EXCEPT ![r] = room.gameRunning]
  BY MappedWrite
<1>2. statusOf[r] = "open" /\ statusOf \in [RoomIDs -> {statusOf[q] : q \in RoomIDs}]
  BY MappedRead
<1>3. UNCHANGED statusOf
  BY <1>1, <1>2
<1>4. membersOf[r] = Range(room.playerIDs) => UNCHANGED membersOf
  BY <1>1, MappedRead
<1>5. ownerOf[r] = room.ownerID => UNCHANGED ownerOf
  BY <1>1, MappedRead
<1>6. runningOf[r] = room.gameRunning => UNCHANGED runningOf
  BY <1>1, MappedRead
<1>. QED  BY <1>1, <1>3, <1>4, <1>5, <1>6

LEMMA JoinEnters ==
    ASSUME OrderlyInv, NEW k \in CallIDs, JoinReturns(k)
    PROVE  RMStep /\ SnapshotsFresh' /\ OwnerIsMember'
<1>1. UnderWay(k, "join", "answered") /\ calls' = [calls EXCEPT ![k] = NoCall]
  BY DEF JoinReturns, Returns
<1>2. CASE UNCHANGED rooms
  <2>1. DOMAIN calls = CallIDs
    BY DEF OrderlyInv, StoreInv, TypeOK
  <2>. QED  BY <1>1, <1>2, <2>1, ReadKeepsFresh, UnchangedStutters
<1>3. CASE calls[k].snap # NoDoc /\ CanEnter(calls[k].snap, calls[k].player)
  <2>1. PICK player \in Players, r \in RoomIDs, snap \in LiveRoom :
          /\ calls[k].player = player /\ calls[k].target = r /\ calls[k] # NoCall
          /\ snap = rooms[r] /\ Exists(r) /\ snap \in Room
          /\ WellFormed(snap) /\ Member(snap, snap.ownerID) /\ CanEnter(snap, player)
          /\ rooms' = [rooms EXCEPT ![r] = WithPlayer(snap, player)]
    BY <1>1, <1>3, WriterFacts DEF JoinReturns, SetData, DocumentReads, UnderWay
  <2> DEFINE room == WithPlayer(snap, player)
  <2>2. /\ room \in LiveRoom /\ room \in Room /\ room.exists /\ room.ownerID = snap.ownerID
        /\ room.gameRunning = snap.gameRunning
        /\ Range(room.playerIDs) = Range(snap.playerIDs) \union {player}
    BY <2>1, WithPlayerFacts, EnterFacts DEF LiveRoom, WithPlayer, Room
  <2> HIDE DEF room
  <2>3. Member(room, room.ownerID)
    BY <2>1, <2>2, RangeFacts
  <2>4. SnapshotsFresh' /\ OwnerIsMember'
    BY <1>1, <2>1, <2>2, <2>3, WriteKeepsFresh DEF room
  <2>5. /\ player \notin membersOf[r] /\ Cardinality(membersOf[r]) < Peoples
        /\ statusOf[r] = "open" /\ ~ runningOf[r]
    <3>1. /\ Cardinality(Range(snap.playerIDs)) <= Len(snap.playerIDs)
          /\ Cardinality(Range(snap.playerIDs)) \in Nat /\ Len(snap.playerIDs) \in Nat
      BY <2>1, RangeFacts, LenProperties DEF Room
    <3>2. Len(snap.playerIDs) < Peoples /\ ~ snap.gameRunning /\ player \notin Range(snap.playerIDs)
      BY <2>1, RangeFacts DEF CanEnter, HasPlace
    <3>3. StoreInv
      BY DEF OrderlyInv
    <3>4. /\ membersOf[r] = Range(snap.playerIDs) /\ statusOf[r] = "open"
          /\ runningOf[r] = snap.gameRunning
      BY <2>1, <3>3, MappedRead
    <3>5. Cardinality(Range(snap.playerIDs)) < Peoples
      BY <3>1, <3>2, StoreAssumption DEF StoreAssumption
    <3>6. ~ runningOf[r]
      BY <3>2, <3>4
    <3>. QED  BY <3>2, <3>4, <3>5, <3>6
  <2>6. StoreInv /\ rooms' = [rooms EXCEPT ![r] = room] /\ Exists(r)
    BY <2>1 DEF room, OrderlyInv
  <2>7. /\ membersOf[r] = Range(snap.playerIDs) /\ ownerOf[r] = room.ownerID
        /\ runningOf[r] = room.gameRunning
    BY <2>1, <2>2, <2>6, MappedRead
  <2>8. /\ membersOf' = [membersOf EXCEPT ![r] = Range(room.playerIDs)]
        /\ UNCHANGED <<statusOf, ownerOf, runningOf>>
    BY <2>2, <2>6, <2>7, MappedOverwrite
  <2>9. membersOf' = [membersOf EXCEPT ![r] = membersOf[r] \union {player}]
    BY <2>2, <2>7, <2>8
  <2>10. RM!Enter(r, player)
    BY <2>5, <2>8, <2>9 DEF RM!Enter, RM!Cardinality, Cardinality
  <2>. QED  BY <2>4, <2>10 DEF RMStep, RM!Next
<1>. QED  BY <1>2, <1>3 DEF JoinReturns

LEMMA QuitLeaves ==
    ASSUME OrderlyInv, NEW k \in CallIDs, QuitReturns(k)
    PROVE  RMStep /\ SnapshotsFresh' /\ OwnerIsMember'
<1>1. UnderWay(k, "quit", "answered") /\ calls' = [calls EXCEPT ![k] = NoCall]
  BY DEF QuitReturns, Returns
<1>2. CASE UNCHANGED rooms
  <2>1. DOMAIN calls = CallIDs
    BY DEF OrderlyInv, StoreInv, TypeOK
  <2>. QED  BY <1>1, <1>2, <2>1, ReadKeepsFresh, UnchangedStutters
<1>3. CASE calls[k].snap # NoDoc
  <2>1. PICK player \in Players, r \in RoomIDs, snap \in LiveRoom :
          /\ calls[k].player = player /\ calls[k].target = r /\ calls[k].snap = snap
          /\ calls[k] # NoCall
          /\ snap = rooms[r] /\ Exists(r) /\ snap \in Room
          /\ WellFormed(snap) /\ Member(snap, snap.ownerID) /\ Member(snap, player)
    BY <1>1, <1>3, WriterFacts DEF DocumentReads, UnderWay
  <2>2. /\ membersOf[r] = Range(snap.playerIDs) /\ player \in membersOf[r]
        /\ statusOf[r] = "open" /\ ownerOf[r] = snap.ownerID
        /\ ownerOf[r] \in membersOf[r] /\ runningOf[r] = snap.gameRunning
    BY <2>1, MappedRead, RangeFacts DEF OrderlyInv
  <2>3. CASE Len(snap.playerIDs) > 1
    <3> DEFINE room == WithoutPlayer(snap, player)
    <3>1. rooms' = [rooms EXCEPT ![r] = room]
      BY <1>3, <2>1, <2>3 DEF QuitReturns, SetData
    <3>2. /\ Range(room.playerIDs) = Range(snap.playerIDs) \ {player}
          /\ room.ownerID = NextOwner(snap, player)
          /\ snap.ownerID = player => NextOwner(snap, player) \in Range(snap.playerIDs) \ {player}
          /\ snap.ownerID # player => NextOwner(snap, player) = snap.ownerID
          /\ room.gameRunning = snap.gameRunning
      BY <2>1, <2>3, LeaveFacts
    <3>3. room \in LiveRoom /\ room \in Room /\ room.exists
      BY <2>1, <2>3, WithoutPlayerFacts DEF LiveRoom
    <3> HIDE DEF room
    <3>4. room.ownerID \in Range(room.playerIDs)
      BY <2>1, <2>2, <3>2
    <3>5. Member(room, room.ownerID)
      BY <3>3, <3>4, RangeFacts
    <3>6. SnapshotsFresh' /\ OwnerIsMember'
      BY <1>1, <2>1, <3>1, <3>3, <3>5, WriteKeepsFresh
    <3>7. PICK heir \in membersOf[r] \ {player} :
            room.ownerID = IF ownerOf[r] = player THEN heir ELSE ownerOf[r]
      BY <2>2, <3>2
    <3>8. /\ membersOf' = [membersOf EXCEPT ![r] = membersOf[r] \ {player}]
          /\ ownerOf' = [ownerOf EXCEPT ![r] = room.ownerID]
          /\ UNCHANGED <<statusOf, runningOf>>
      <4>1. StoreInv
        BY DEF OrderlyInv
      <4>2. Range(room.playerIDs) = membersOf[r] \ {player}
        BY <2>2, <3>2
      <4>3. runningOf[r] = room.gameRunning
        BY <2>2, <3>2
      <4>4. /\ membersOf' = [membersOf EXCEPT ![r] = Range(room.playerIDs)]
            /\ ownerOf' = [ownerOf EXCEPT ![r] = room.ownerID]
            /\ UNCHANGED <<statusOf, runningOf>>
        BY <2>1, <3>1, <3>3, <4>1, <4>3, MappedOverwrite
      <4>. QED  BY <4>2, <4>4
    <3>9. ownerOf' = [ownerOf EXCEPT ![r] = IF ownerOf[r] = player THEN heir ELSE ownerOf[r]]
      BY <3>7, <3>8
    <3>10. RM!Leave(r, player)
      BY <2>2, <3>7, <3>8, <3>9 DEF RM!Leave
    <3>. QED  BY <3>6, <3>10 DEF RMStep, RM!Next
  <2>4. CASE ~ (Len(snap.playerIDs) > 1)
    <3>1. DOMAIN snap.playerIDs = {1}
      BY <2>1, <2>4, OnePlace
    <3>2. snap.ownerID = player /\ Range(snap.playerIDs) = {player}
      BY <2>1, <3>1 DEF Member, Range
    <3>3. rooms' = [rooms EXCEPT ![r].exists = FALSE]
      BY <1>3, <2>1, <2>4, <3>2 DEF QuitReturns
    <3>4. PICK room \in Room : room = [snap EXCEPT !.exists = FALSE] /\ room.exists = FALSE
      <4>1. [snap EXCEPT !.exists = FALSE] \in Room
        BY <2>1 DEF Room
      <4>2. [snap EXCEPT !.exists = FALSE].exists = FALSE
        BY <2>1 DEF Room
      <4>. QED  BY <4>1, <4>2
    <3>5. rooms' = [rooms EXCEPT ![r] = room]
      BY <2>1, <3>3, <3>4
    <3>6. SnapshotsFresh' /\ OwnerIsMember'
      BY <1>1, <2>1, <3>4, <3>5, WriteKeepsFresh
    <3>7. RM!Close(r, player)
      BY <2>2, <3>2, <3>4, <3>5, MappedDelete DEF RM!Close, OrderlyInv
    <3>. QED  BY <3>6, <3>7 DEF RMStep, RM!Next
  <2>. QED  BY <2>3, <2>4
<1>. QED  BY <1>2, <1>3 DEF QuitReturns

LEMMA UpdateStarts ==
    ASSUME OrderlyInv, NEW k \in CallIDs, UpdateReturns(k)
    PROVE  RMStep /\ SnapshotsFresh' /\ OwnerIsMember'
<1>1. UnderWay(k, "update", "answered") /\ calls' = [calls EXCEPT ![k] = NoCall]
  BY DEF UpdateReturns, Returns
<1>2. CASE UNCHANGED rooms
  <2>1. DOMAIN calls = CallIDs
    BY DEF OrderlyInv, StoreInv, TypeOK
  <2>. QED  BY <1>1, <1>2, <2>1, ReadKeepsFresh, UnchangedStutters
<1>3. CASE calls[k].snap # NoDoc
  <2>1. PICK r \in RoomIDs, snap \in LiveRoom :
          /\ calls[k].target = r /\ calls[k] # NoCall /\ snap = rooms[r] /\ Exists(r)
          /\ WellFormed(snap) /\ Member(snap, snap.ownerID)
          /\ rooms' = [rooms EXCEPT ![r] = Running(snap)]
    BY <1>1, <1>3, WriterFacts DEF UpdateReturns, SetData, DocumentReads, UnderWay
  <2> DEFINE room == Running(snap)
  <2>2. /\ room \in Room /\ room.exists /\ room.ownerID = snap.ownerID
        /\ room.playerIDs = snap.playerIDs /\ room.gameRunning = TRUE
    BY <2>1, RunningFacts DEF LiveRoom, Running, Room
  <2> HIDE DEF room
  <2>3. Member(room, room.ownerID)
    BY <2>1, <2>2 DEF Member
  <2>4. SnapshotsFresh' /\ OwnerIsMember'
    BY <1>1, <2>1, <2>2, <2>3, WriteKeepsFresh DEF room
  <2>5. StoreInv /\ rooms' = [rooms EXCEPT ![r] = room]
    BY <2>1 DEF room, OrderlyInv
  <2>6. /\ membersOf[r] = Range(room.playerIDs) /\ ownerOf[r] = room.ownerID
        /\ statusOf[r] = "open"
    BY <2>1, <2>2, <2>5, MappedRead
  <2>7. RM!Start(r)
    <3>1. runningOf' = [runningOf EXCEPT ![r] = TRUE] /\ UNCHANGED <<statusOf, membersOf, ownerOf>>
      BY <2>1, <2>2, <2>5, <2>6, MappedOverwrite
    <3>. QED  BY <2>6, <3>1 DEF RM!Start
  <2>. QED  BY <2>4, <2>7 DEF RMStep, RM!Next
<1>. QED  BY <1>2, <1>3 DEF UpdateReturns

\* The other steps read: they leave the documents alone, and the snapshots they
\* take are of documents as they are.
LEMMA ReadsStutter ==
    ASSUME OrderlyInv, NEW k \in CallIDs,
           \/ PagesCall(k) \/ SearchAnswered(k) \/ ShareKeyAnswered(k)
           \/ DocumentAnswered(k) \/ CreateReturns(k)
    PROVE  RMStep /\ SnapshotsFresh' /\ OwnerIsMember'
<1>1. calls \in [CallIDs -> Call \union {NoCall}]
  BY DEF OrderlyInv, StoreInv, TypeOK
<1>2. CASE PagesCall(k)
  BY <1>1, <1>2, ReadKeepsFresh, UnchangedStutters
     DEF PagesCall, CreateGameRoom, JoinGameRoom, QuitGameRoom, UpdateGameRoom, Makes, Asked
<1>3. CASE SearchAnswered(k)
  <2>1. calls[k].snap = NoDoc /\ calls[k] \in Call
    <3>1. SoundCall(calls[k]) /\ calls[k] \in Call /\ calls[k].op = "search"
      BY <1>3, UnderWayFacts DEF SearchAnswered, OrderlyInv, UnderWay
    <3>. QED  BY <3>1 DEF SoundCall, DocumentReads
  <2>2. calls'[k].snap = NoDoc /\ \A j \in CallIDs \ {k} : calls'[j] = calls[j]
    BY <1>1, <1>3, <2>1 DEF SearchAnswered, Call
  <2>. QED  BY <1>3, <2>2, ReadKeepsFresh, UnchangedStutters DEF SearchAnswered
<1>4. CASE ShareKeyAnswered(k)
  BY <1>1, <1>4, ReadKeepsFresh, UnchangedStutters DEF ShareKeyAnswered, Returns, Asked
<1>5. CASE DocumentAnswered(k)
  <2>1. PICK op \in DocumentReads : UnderWay(k, op, "asked")
    BY <1>5 DEF DocumentAnswered, Found
  <2>2. calls[k] \in Call /\ calls[k].target \in RoomIDs
    BY <2>1, UnderWayFacts DEF OrderlyInv
  <2>3. PICK snap : /\ snap = NoDoc \/ (snap = rooms[calls[k].target] /\ Exists(calls[k].target))
                    /\ calls' = [calls EXCEPT ![k].stage = "answered", ![k].snap = snap]
    BY <1>5, <2>2 DEF DocumentAnswered, Found
  <2>4. calls'[k].snap = snap /\ calls'[k].target = calls[k].target
    BY <1>1, <2>2, <2>3 DEF Call
  <2>5. \A j \in CallIDs \ {k} : calls'[j] = calls[j]
    BY <1>1, <2>3
  <2>. QED  BY <1>5, <2>2, <2>3, <2>4, <2>5, ReadKeepsFresh, UnchangedStutters DEF DocumentAnswered, Found
<1>6. CASE CreateReturns(k)
  BY <1>1, <1>6, ReadKeepsFresh, UnchangedStutters DEF CreateReturns, Returns
<1>. QED  BY <1>2, <1>3, <1>4, <1>5, <1>6

----------------------------------------------------------------------------
(* Who is in a room, after each callback that writes.                      *)

InRoom(player, r) == Exists(r) /\ Member(rooms[r], player)

LEMMA MembersAfterWrite ==
    ASSUME StoreInv, NEW r \in RoomIDs, NEW room \in Room,
           rooms' = [rooms EXCEPT ![r] = room]
    PROVE  \A q \in Players, s \in RoomIDs :
              InRoom(q, s)' <=> IF s = r THEN room.exists /\ Member(room, q) ELSE InRoom(q, s)
<1>1. rooms \in [RoomIDs -> Room \union {NoDoc}] /\ room # NoDoc
  BY StoreAssumption DEF StoreInv, TypeOK, StoreAssumption
<1>2. \A s \in RoomIDs : rooms'[s] = IF s = r THEN room ELSE rooms[s]
  BY <1>1
<1>. QED  BY <1>1, <1>2 DEF InRoom, Exists, Member

\* The room made by createGameRoom has its owner in it, and nobody else.
LEMMA MembersAfterAdd ==
    ASSUME OrderlyInv, NEW k \in CallIDs, NEW r \in RoomIDs, AddDocument(k, r)
    PROVE  \A q \in Players, s \in RoomIDs :
              InRoom(q, s)' <=> InRoom(q, s) \/ (q = calls[k].player /\ s = r)
<1> DEFINE player == calls[k].player
           room == NewRoom(player, calls[k].target)
<1>1. player \in Players /\ calls[k].target \in ShareKeys
  BY UnderWayFacts DEF AddDocument, OrderlyInv
<1>2. rooms' = [rooms EXCEPT ![r] = room] /\ ~Exists(r)
  BY DEF AddDocument, SetData, Unused, Exists
<1>3. room \in Room /\ room.exists /\ room.playerIDs = <<player>>
  BY <1>1, NewRoomFacts DEF NewRoom, LiveRoom
<1>4. \A q : Member(room, q) <=> q = player
  <2> HIDE DEF room, player
  <2>. QED  BY <1>3 DEF Member
<1> HIDE DEF room, player
<1>5. \A q \in Players, s \in RoomIDs :
        InRoom(q, s)' <=> IF s = r THEN room.exists /\ Member(room, q) ELSE InRoom(q, s)
  BY <1>2, <1>3, MembersAfterWrite DEF OrderlyInv
<1>6. \A q : ~InRoom(q, r)
  BY <1>2 DEF InRoom
<1>. QED  BY <1>3, <1>4, <1>5, <1>6 DEF player

\* joinGameRoom adds its player to the room, or nobody; when it completes with
\* a room the player was not in, it has added him.
LEMMA MembersAfterJoin ==
    ASSUME OrderlyInv, NEW k \in CallIDs, JoinReturns(k)
    PROVE  LET enters == calls[k].snap # NoDoc /\ CanEnter(calls[k].snap, calls[k].player) IN
           /\ \A q \in Players, s \in RoomIDs :
                 InRoom(q, s)' <=> InRoom(q, s) \/ (enters /\ q = calls[k].player /\ s = calls[k].target)
           /\ ~InRoom(calls[k].player, calls[k].target) => (enters <=> Completion(calls[k]) # NoDoc)
<1> DEFINE player == calls[k].player
           r == calls[k].target
           snap == calls[k].snap
           enters == snap # NoDoc /\ CanEnter(snap, player)
<1>1. UnderWay(k, "join", "answered") /\ calls[k].op = "join"
  BY DEF JoinReturns, UnderWay
<1>2. CASE enters
  <2>1. /\ player \in Players /\ r \in RoomIDs /\ Exists(r) /\ snap = rooms[r]
        /\ snap \in LiveRoom /\ snap \in Room /\ WellFormed(snap)
    BY <1>1, <1>2, WriterFacts DEF DocumentReads
  <2> DEFINE room == WithPlayer(snap, player)
  <2>2. /\ room \in LiveRoom /\ room \in Room /\ room.exists
        /\ Range(room.playerIDs) = Range(snap.playerIDs) \union {player}
    BY <1>2, <2>1, WithPlayerFacts, EnterFacts DEF LiveRoom, WithPlayer, Room
  <2>3. rooms' = [rooms EXCEPT ![r] = room]
    BY <1>2 DEF JoinReturns, SetData
  <2>4. Completion(calls[k]) = room
    BY <1>1, <1>2 DEF Completion
  <2>5. room # NoDoc
    BY <2>2, StoreAssumption DEF StoreAssumption
  <2> HIDE DEF room, player, r, snap
  <2>6. \A q \in Players, s \in RoomIDs :
          InRoom(q, s)' <=> IF s = r THEN room.exists /\ Member(room, q) ELSE InRoom(q, s)
    BY <2>1, <2>2, <2>3, MembersAfterWrite DEF OrderlyInv
  <2>7. \A q : Member(room, q) <=> Member(snap, q) \/ q = player
    BY <2>1, <2>2, RangeFacts
  <2>8. \A q : InRoom(q, r) <=> Member(snap, q)
    BY <2>1 DEF InRoom
  <2>. QED  BY <1>2, <2>2, <2>4, <2>5, <2>6, <2>7, <2>8 DEF player, r, snap
<1>3. CASE ~enters
  <2>1. UNCHANGED rooms
    BY <1>3 DEF JoinReturns
  <2>2. ASSUME Completion(calls[k]) # NoDoc PROVE InRoom(player, r)
    <3>1. snap # NoDoc /\ HasPlace(snap)
      BY <1>1, <1>3, <2>2 DEF Completion
    <3>2. Exists(r) /\ snap = rooms[r]
      BY <1>1, <3>1, WriterFacts DEF DocumentReads
    <3>3. Member(snap, player)
      BY <1>3, <3>1 DEF CanEnter
    <3>. QED  BY <3>2, <3>3 DEF InRoom
  <2>. QED  BY <1>3, <2>1, <2>2 DEF InRoom, Exists
<1>. QED  BY <1>2, <1>3

\* A member who quits is out of the room, whether the room stays or goes.
LEMMA MembersAfterQuit ==
    ASSUME OrderlyInv, NEW k \in CallIDs, QuitReturns(k), calls[k].snap # NoDoc
    PROVE  \A q \in Players, s \in RoomIDs :
              InRoom(q, s)' <=> InRoom(q, s) /\ ~(q = calls[k].player /\ s = calls[k].target)
<1> DEFINE player == calls[k].player
           r == calls[k].target
           snap == calls[k].snap
<1>1. UnderWay(k, "quit", "answered")
  BY DEF QuitReturns
<1>2. /\ player \in Players /\ r \in RoomIDs /\ Exists(r) /\ snap = rooms[r]
      /\ snap \in LiveRoom /\ snap \in Room /\ WellFormed(snap)
      /\ Member(snap, snap.ownerID) /\ Member(snap, player)
  BY <1>1, WriterFacts DEF DocumentReads
<1>3. \A q : InRoom(q, r) <=> Member(snap, q)
  BY <1>2 DEF InRoom
<1>4. PICK room \in Room :
        /\ rooms' = [rooms EXCEPT ![r] = room]
        /\ \A q : room.exists /\ Member(room, q) <=> Member(snap, q) /\ q # player
  <2>1. CASE Len(snap.playerIDs) > 1
    <3> DEFINE room == WithoutPlayer(snap, player)
    <3>1. rooms' = [rooms EXCEPT ![r] = room]
      BY <2>1 DEF QuitReturns, SetData
    <3>2. Range(room.playerIDs) = Range(snap.playerIDs) \ {player}
      BY <1>2, <2>1, LeaveFacts
    <3>3. room \in LiveRoom /\ room \in Room /\ room.exists
      BY <1>2, <2>1, WithoutPlayerFacts DEF LiveRoom
    <3> HIDE DEF room, player, snap, r
    <3>4. \A q : Member(room, q) <=> Member(snap, q) /\ q # player
      BY <1>2, <3>2, <3>3, RangeFacts
    <3>. QED  BY <3>1, <3>3, <3>4
  <2>2. CASE ~ (Len(snap.playerIDs) > 1)
    <3>1. DOMAIN snap.playerIDs = {1}
      BY <1>2, <2>2, OnePlace
    <3>2. snap.ownerID = player /\ \A q : Member(snap, q) => q = player
      <4> HIDE DEF player, snap
      <4>. QED  BY <1>2, <3>1 DEF Member
    <3>3. rooms' = [rooms EXCEPT ![r].exists = FALSE]
      BY <2>2, <3>2 DEF QuitReturns
    <3>4. PICK room \in Room : room = [snap EXCEPT !.exists = FALSE] /\ room.exists = FALSE
      <4>1. [snap EXCEPT !.exists = FALSE] \in Room
        BY <1>2 DEF Room
      <4>2. [snap EXCEPT !.exists = FALSE].exists = FALSE
        BY <1>2 DEF Room
      <4>. QED  BY <4>1, <4>2
    <3>5. rooms' = [rooms EXCEPT ![r] = room]
      BY <1>2, <3>3, <3>4
    <3>. QED  BY <3>2, <3>4, <3>5
  <2>. QED  BY <2>1, <2>2
<1> HIDE DEF player, r, snap
<1>5. \A q \in Players, s \in RoomIDs :
        InRoom(q, s)' <=> IF s = r THEN room.exists /\ Member(room, q) ELSE InRoom(q, s)
  BY <1>2, <1>4, MembersAfterWrite DEF OrderlyInv
<1>. QED  BY <1>3, <1>4, <1>5 DEF player, r

\* Starting a room changes nobody's place.
LEMMA MembersAfterUpdate ==
    ASSUME OrderlyInv, NEW k \in CallIDs, UpdateReturns(k)
    PROVE  \A q \in Players, s \in RoomIDs : InRoom(q, s)' <=> InRoom(q, s)
<1> DEFINE r == calls[k].target
           snap == calls[k].snap
<1>1. CASE UNCHANGED rooms
  BY <1>1 DEF InRoom, Exists
<1>2. CASE snap # NoDoc
  <2>1. UnderWay(k, "update", "answered")
    BY DEF UpdateReturns
  <2>2. r \in RoomIDs /\ Exists(r) /\ snap = rooms[r] /\ snap \in LiveRoom
    BY <1>2, <2>1, WriterFacts DEF DocumentReads
  <2> DEFINE room == Running(snap)
  <2>3. room \in Room /\ room.exists /\ room.playerIDs = snap.playerIDs
    BY <2>2, RunningFacts DEF LiveRoom, Running, Room
  <2>4. rooms' = [rooms EXCEPT ![r] = room]
    BY <1>2 DEF UpdateReturns, SetData
  <2> HIDE DEF room, r, snap
  <2>5. \A q \in Players, s \in RoomIDs :
          InRoom(q, s)' <=> IF s = r THEN room.exists /\ Member(room, q) ELSE InRoom(q, s)
    BY <2>2, <2>3, <2>4, MembersAfterWrite DEF OrderlyInv
  <2>. QED  BY <2>2, <2>3, <2>5 DEF InRoom, Member
<1>. QED  BY <1>1, <1>2 DEF UpdateReturns

----------------------------------------------------------------------------
(* The theorems.                                                           *)

LEMMA OrderlyStep ==
    OrderlyInv /\ [Next /\ Orderly']_storeVars => OrderlyInv' /\ RMStep
<1> SUFFICES ASSUME OrderlyInv, [Next /\ Orderly']_storeVars
             PROVE  OrderlyInv' /\ RMStep
  OBVIOUS
<1>1. StoreInv'
  BY NextKeepsInv DEF OrderlyInv
<1>2. CASE Next /\ Orderly'
  <2>1. RMStep /\ SnapshotsFresh' /\ OwnerIsMember'
    <3>1. ASSUME NEW k \in CallIDs, PagesCall(k) \/ CallProceeds(k)
          PROVE  RMStep /\ SnapshotsFresh' /\ OwnerIsMember'
      BY <3>1, ReadsStutter, AddDocumentOpens, JoinEnters, QuitLeaves, UpdateStarts DEF CallProceeds
    <3>2. ASSUME NEW player \in Players, AppKilled(player)
          PROVE  RMStep /\ SnapshotsFresh' /\ OwnerIsMember'
      BY <3>2, ReadKeepsFresh, UnchangedStutters DEF AppKilled
    <3>. QED  BY <1>2, <3>1, <3>2 DEF Next
  <2>. QED  BY <1>1, <1>2, <2>1 DEF OrderlyInv
<1>3. CASE UNCHANGED storeVars
  <2>1. UNCHANGED rooms /\ UNCHANGED calls
    BY <1>3 DEF storeVars
  <2>2. Orderly'
    BY <2>1 DEF OrderlyInv, Orderly, OneCallPerRoom, QuittersAreMembers, Exists, Member
  <2>. QED  BY <1>1, <2>1, <2>2, ReadKeepsFresh, UnchangedStutters DEF OrderlyInv
<1>. QED  BY <1>2, <1>3

LEMMA OrderlyInit == Init => OrderlyInv /\ RM!Init
<1> SUFFICES ASSUME Init PROVE OrderlyInv /\ RM!Init
  OBVIOUS
<1>1. OrderlyInv
  BY InitInv DEF Init, OrderlyInv, Orderly, OneCallPerRoom, QuittersAreMembers, SnapshotsFresh,
     OwnerIsMember, Exists
<1>2. RM!Init
  BY DEF Init, RM!Init, statusOf, membersOf, ownerOf, runningOf, Exists
<1>. QED  BY <1>1, <1>2

\* While calls on one room do not overlap and only members quit, the owner of a
\* room, who alone may start its game, is in it.
THEOREM OwnerTheorem == OrderlySpec => []OwnerIsMember
<1>1. Init => OrderlyInv
  BY OrderlyInit
<1>2. OrderlyInv /\ [Next /\ Orderly']_storeVars => OrderlyInv'
  BY OrderlyStep
<1>3. OrderlyInv => OwnerIsMember
  BY DEF OrderlyInv
<1>. QED  BY <1>1, <1>2, <1>3, PTL DEF OrderlySpec

\* Calls on one room that do not overlap are the indivisible operations of
\* RoomMembership: nobody is lost or comes back, a started game stays started,
\* a closed room stays closed.
THEOREM MembershipTheorem == OrderlySpec => Membership
<1>1. Init => OrderlyInv /\ RM!Init
  BY OrderlyInit
<1>2. OrderlyInv /\ [Next /\ Orderly']_storeVars
        => OrderlyInv' /\ [RM!Next]_<<statusOf, membersOf, ownerOf, runningOf>>
  BY OrderlyStep DEF RMStep
<1>. QED  BY <1>1, <1>2, PTL DEF OrderlySpec, Membership, RM!Spec, RM!vars
=============================================================================
