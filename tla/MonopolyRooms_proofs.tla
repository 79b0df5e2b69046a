-------------------------- MODULE MonopolyRooms_proofs --------------------------
(***************************************************************************)
(* Proofs about MonopolyRooms, for any players, rooms, keys and numbers of *)
(* calls under way: the apps use the store as GameRoomFirestore assumes,   *)
(* so that what is proved of the store holds here, and no listener is left *)
(* behind; with patient players, rooms are RoomMembership's and profiles   *)
(* name the rooms their players are in.                                    *)
(***************************************************************************)
EXTENDS MonopolyRooms, SequenceTheorems, TLAPS

StoreProofs == INSTANCE GameRoomFirestore_proofs

PagesInv == TypeOK /\ OnlyEntrantsKnow /\ ListenersTraced

StoreSound == StoreProofs!StoreInv /\ StoreProofs!HistorySound

----------------------------------------------------------------------------
(* The store seen from the pages.                                          *)

LEMMA StoreAssumed == StoreProofs!StoreAssumption
BY PagesAssumption
   DEF PagesAssumption, Store!StoreAssumption, StoreProofs!StoreAssumption, Store!Room, StoreProofs!Room

LEMMA StoreGrows ==
    ASSUME StoreSound, [StoreProofs!Next]_storeVars
    PROVE  StoreSound' /\ \A r \in RoomIDs : entered[r] \subseteq entered'[r]
<1>1. [StoreProofs!Next]_StoreProofs!storeVars
  BY DEF storeVars, StoreProofs!storeVars
<1>. QED  BY <1>1, StoreAssumed, StoreProofs!NextKeepsInv, StoreProofs!HistoryGrows DEF StoreSound

\* What the pages need of the documents and the calls.
LEMMA StoreTypes ==
    ASSUME StoreSound
    PROVE  /\ rooms \in [RoomIDs -> Store!Room \union {NoDoc}]
           /\ entered \in [RoomIDs -> SUBSET Players]
           /\ \A k \in CallIDs : calls[k] # NoCall =>
                 /\ calls[k] \in Store!Call
                 /\ calls[k].op \in Store!DocumentReads => calls[k].target \in RoomIDs
                 /\ calls[k].snap # NoDoc => calls[k].snap.ownerID \in Players
                 /\ calls[k].snap # NoDoc => calls[k].snap \in Store!Room
BY DEF StoreSound, StoreProofs!StoreInv, StoreProofs!TypeOK, StoreProofs!CallsSound, StoreProofs!SoundCall,
       StoreProofs!Room, StoreProofs!Call, StoreProofs!LiveRoom, StoreProofs!DocumentReads,
       Store!Room, Store!Call, Store!LiveRoom, Store!DocumentReads

\* A step of the apps that keeps what they know and hear keeps the invariants.
LEMMA KnowledgeStays ==
    ASSUME OnlyEntrantsKnow,
           \A r \in RoomIDs : entered[r] \subseteq entered'[r],
           \A p \in Players, r \in RoomIDs : Knows(p, r)' => Knows(p, r) \/ p \in entered'[r]
    PROVE  OnlyEntrantsKnow'
BY DEF OnlyEntrantsKnow

LEMMA PagesAlone ==
    ASSUME PagesInv, UNCHANGED <<pageVars, profileVars, roomVars>>,
           \A r \in RoomIDs : entered[r] \subseteq entered'[r]
    PROVE  PagesInv'
<1>1. TypeOK'
  BY DEF PagesInv, TypeOK, pageVars, profileVars, roomVars
<1>2. OnlyEntrantsKnow'
  BY KnowledgeStays DEF PagesInv, Knows, profileVars, roomVars
<1>3. ListenersTraced'
  BY DEF PagesInv, ListenersTraced, BackToGame, On, pageVars, roomVars
<1>. QED  BY <1>1, <1>2, <1>3 DEF PagesInv

\* The calls of updatePlayerData under way, when one more or one fewer is.
LEMMA CountFacts ==
    ASSUME TypeOK, NEW p \in Players, NEW r \in RoomIDs \union {NoRoom},
           NEW n \in 0 .. MaxUpdates, updates' = [updates EXCEPT ![p][r] = n]
    PROVE  /\ updates' \in [Players -> [RoomIDs \union {NoRoom} -> 0 .. MaxUpdates]]
           /\ \A q \in Players, s \in RoomIDs \union {NoRoom} :
                 updates'[q][s] = IF q = p /\ s = r THEN n ELSE updates[q][s]
BY DEF TypeOK

\* One call fewer.
LEMMA AnsweredFacts ==
    ASSUME TypeOK, NEW p \in Players, NEW r \in RoomIDs \union {NoRoom}, updates[p][r] > 0
    PROVE  updates' = [updates EXCEPT ![p][r] = @ - 1] =>
           /\ updates' \in [Players -> [RoomIDs \union {NoRoom} -> 0 .. MaxUpdates]]
           /\ \A q \in Players, s \in RoomIDs : updates'[q][s] > 0 => updates[q][s] > 0
<1>1. PICK m \in 0 .. MaxUpdates : m = updates[p][r]
  BY DEF TypeOK
<1>2. MaxUpdates \in Nat /\ m > 0
  BY <1>1, PagesAssumption DEF PagesAssumption
<1>3. PICK n \in 0 .. MaxUpdates : n = m - 1
  BY <1>2
<1>4. ASSUME updates' = [updates EXCEPT ![p][r] = n]
      PROVE  /\ updates' \in [Players -> [RoomIDs \union {NoRoom} -> 0 .. MaxUpdates]]
             /\ \A q \in Players, s \in RoomIDs \union {NoRoom} :
                   updates'[q][s] = IF q = p /\ s = r THEN n ELSE updates[q][s]
  BY <1>4, CountFacts
<1>5. ASSUME updates' = [updates EXCEPT ![p][r] = @ - 1]
      PROVE  updates' = [updates EXCEPT ![p][r] = n]
  BY <1>1, <1>3, <1>5
<1>. QED  BY <1>1, <1>2, <1>4, <1>5

----------------------------------------------------------------------------
(* The home page and the profile.                                          *)

\* Steps between pages on which nobody listens.
LEMMA QuietPages ==
    ASSUME PagesInv, UNCHANGED <<storeVars, roomVars>>, NEW p \in Players, NEW pg \in Pages,
           currentPage[p] \notin {"GameScenePage", "GameRoomWaitPage"},
           currentPage' = [currentPage EXCEPT ![p] = pg],
           NEW stack \in Seq(Pages),
           lastPageStack' = [lastPageStack EXCEPT ![p] = stack],
           playerProfile' \in [Players -> RoomIDs \union {NoRoom, NoProfile}],
           \A q \in Players : playerProfile'[q] \in {playerProfile[q], playerDoc[q], NoProfile},
           reading' \subseteq Players,
           UNCHANGED <<playerDoc, updates>>
    PROVE  PagesInv'
<1>1. TypeOK'
  BY DEF PagesInv, TypeOK, roomVars
<1>2. OnlyEntrantsKnow'
  BY PagesAssumption DEF PagesInv, OnlyEntrantsKnow, Knows, roomVars, storeVars, PagesAssumption
<1>3. ListenersTraced'
  <2>1. \A r \in RoomIDs : heard[p][r] = NoListener
    BY DEF PagesInv, ListenersTraced, On
  <2>. QED  BY <2>1 DEF PagesInv, TypeOK, ListenersTraced, BackToGame, On, roomVars
<1>. QED  BY <1>1, <1>2, <1>3 DEF PagesInv

LEMMA HomeSteps ==
    ASSUME PagesInv, NEW p \in Players,
           SignIn(p) \/ LogOut(p) \/ OpenProfile(p) \/ LeaveProfile(p) \/ StartGame(p)
    PROVE  PagesInv'
<1>1. PICK pg \in Pages, stack \in Seq(Pages) :
        /\ currentPage' = [currentPage EXCEPT ![p] = pg]
        /\ lastPageStack' = [lastPageStack EXCEPT ![p] = stack]
  <2>1. /\ lastPageStack \in [Players -> Seq(Pages)] /\ currentPage \in [Players -> Pages]
        /\ lastPageStack = [lastPageStack EXCEPT ![p] = lastPageStack[p]]
        /\ lastPageStack[p] \in Seq(Pages)
    BY DEF PagesInv, TypeOK
  <2>2. Append(lastPageStack[p], "HomePage") \in Seq(Pages) /\ <<>> \in Seq(Pages)
    BY <2>1 DEF Pages
  <2>3. {"LoginPage", "HomePage", "ProfilePage", "GameCreateJoinRoomPage"} \subseteq Pages
    BY DEF Pages
  <2>4. CASE LogOut(p)
    BY <2>1, <2>3, <2>4 DEF LogOut
  <2>5. CASE SignIn(p)
    BY <2>2, <2>3, <2>5 DEF SignIn
  <2>6. CASE OpenProfile(p)
    BY <2>2, <2>3, <2>6 DEF OpenProfile, Forward, On
  <2>7. CASE LeaveProfile(p)
    BY <2>2, <2>3, <2>7 DEF LeaveProfile
  <2>8. CASE StartGame(p)
    BY <2>2, <2>3, <2>8 DEF StartGame, Forward, On
  <2>. QED  BY <2>4, <2>5, <2>6, <2>7, <2>8
<1>2. /\ UNCHANGED <<storeVars, roomVars, playerDoc, updates>>
      /\ currentPage[p] \notin {"GameScenePage", "GameRoomWaitPage"}
      /\ playerProfile' \in [Players -> RoomIDs \union {NoRoom, NoProfile}]
      /\ \A q \in Players : playerProfile'[q] \in {playerProfile[q], playerDoc[q], NoProfile}
      /\ reading' \subseteq Players
  BY DEF SignIn, LogOut, OpenProfile, LeaveProfile, StartGame, On, profileVars, PagesInv, TypeOK
<1>. QED  BY <1>1, <1>2, QuietPages

\* The callbacks of updatePlayerData and getPlayerData.
LEMMA ProfileSteps ==
    ASSUME PagesInv, NEW p \in Players,
           \/ ProfileRead(p)
           \/ \E r \in RoomIDs \union {NoRoom} : PlayerUpdated(p, r) \/ PlayerUpdateFails(p, r)
    PROVE  PagesInv'
<1>1. UNCHANGED <<storeVars, pageVars, roomListener, heard>>
  BY DEF ProfileRead, PlayerUpdated, PlayerUpdateFails, roomVars
<1>2. ListenersTraced'
  BY <1>1 DEF PagesInv, ListenersTraced, BackToGame, On, pageVars
<1>3. CASE ProfileRead(p)
  BY <1>1, <1>2, <1>3
     DEF ProfileRead, PagesInv, TypeOK, OnlyEntrantsKnow, Knows, storeVars, pageVars, roomVars
<1>4. ASSUME NEW r \in RoomIDs \union {NoRoom}, PlayerUpdated(p, r)
      PROVE  PagesInv'
  <2>1. updates[p][r] > 0
    BY <1>4 DEF PlayerUpdated
  <2>2. /\ updates' \in [Players -> [RoomIDs \union {NoRoom} -> 0 .. MaxUpdates]]
        /\ \A q \in Players, s \in RoomIDs : updates'[q][s] > 0 => updates[q][s] > 0
    <3>1. TypeOK /\ updates' = [updates EXCEPT ![p][r] = @ - 1]
      BY <1>4 DEF PlayerUpdated, PagesInv
    <3>. QED  BY <2>1, <3>1, AnsweredFacts
  <2>3. TypeOK'
    BY <1>1, <1>4, <2>2 DEF PlayerUpdated, PagesInv, TypeOK, pageVars
  <2>4. \A q \in Players, s \in RoomIDs : Knows(q, s)' => Knows(q, s)
    BY <1>1, <1>4, <2>1, <2>2, PagesAssumption
       DEF PlayerUpdated, PagesInv, TypeOK, Knows, PagesAssumption
  <2>5. OnlyEntrantsKnow'
    BY <1>1, <2>4 DEF PagesInv, OnlyEntrantsKnow, storeVars
  <2>. QED  BY <1>2, <2>3, <2>5 DEF PagesInv
<1>5. ASSUME NEW r \in RoomIDs \union {NoRoom}, PlayerUpdateFails(p, r)
      PROVE  PagesInv'
  <2>1. updates[p][r] > 0
    BY <1>5 DEF PlayerUpdateFails
  <2>2. /\ updates' \in [Players -> [RoomIDs \union {NoRoom} -> 0 .. MaxUpdates]]
        /\ \A q \in Players, s \in RoomIDs : updates'[q][s] > 0 => updates[q][s] > 0
    <3>1. TypeOK /\ updates' = [updates EXCEPT ![p][r] = @ - 1]
      BY <1>5 DEF PlayerUpdateFails, PagesInv
    <3>. QED  BY <2>1, <3>1, AnsweredFacts
  <2>3. TypeOK' /\ OnlyEntrantsKnow'
    BY <1>1, <1>5, <2>2
       DEF PlayerUpdateFails, PagesInv, TypeOK, OnlyEntrantsKnow, Knows, pageVars, roomVars, storeVars
  <2>. QED  BY <1>2, <2>3 DEF PagesInv
<1>. QED  BY <1>3, <1>4, <1>5

----------------------------------------------------------------------------
(* Pages to go back to.                                                    *)

InGame == {"GameScenePage", "GameRoomWaitPage"}

LeadsBackToGame(stack) ==
    \E i \in DOMAIN stack :
        /\ stack[i] = "GameScenePage"
        /\ \A j \in DOMAIN stack : j > i => stack[j] \in InGame

\* pop() brings a page of the stack, and from pages opened out of the game one
\* that is in it or out of it.
LEMMA BackFacts ==
    ASSUME TypeOK, NEW p \in Players, Back(p)
    PROVE  \E pg \in Pages, stack \in Seq(Pages) :
              /\ currentPage' = [currentPage EXCEPT ![p] = pg]
              /\ lastPageStack' = [lastPageStack EXCEPT ![p] = stack]
              /\ BackToGame(p) => \/ pg = "GameScenePage"
                                  \/ pg = "GameRoomWaitPage" /\ LeadsBackToGame(stack)
<1> DEFINE list == lastPageStack[p]
<1>1. /\ list \in Seq(Pages) /\ Len(list) \in Nat /\ DOMAIN list = 1 .. Len(list)
  BY LenProperties DEF TypeOK
<1>2. CASE list = <<>>
  <2>1. DOMAIN list = {}
    BY <1>2
  <2>2. ~BackToGame(p)
    BY <2>1 DEF BackToGame
  <2>3. currentPage' = [currentPage EXCEPT ![p] = "HomePage"]
        /\ lastPageStack' = [lastPageStack EXCEPT ![p] = list]
    BY <1>2 DEF Back, TypeOK
  <2>. QED  BY <1>1, <2>2, <2>3 DEF Pages
<1>3. CASE list # <<>>
  <2> DEFINE pg == list[Len(list)]
             stack == SubSeq(list, 1, Len(list) - 1)
  <2>1. PICK n \in Nat : n = Len(list) /\ n > 0
    BY <1>1, <1>3, EmptySeq
  <2>2. pg \in Pages
    BY <1>1, <2>1, ElementOfSeq
  <2>3. /\ stack \in Seq(Pages) /\ Len(stack) = n - 1
        /\ \A j \in 1 .. n - 1 : stack[j] = list[j]
    <3>1. \A j \in 1 .. n - 1 : list[j] \in Pages
      BY <1>1, <2>1, ElementOfSeq
    <3>. QED  BY <1>1, <2>1, <3>1, SubSeqProperties
  <2>4. currentPage' = [currentPage EXCEPT ![p] = pg] /\ lastPageStack' = [lastPageStack EXCEPT ![p] = stack]
    BY <1>3 DEF Back, TypeOK
  <2>5. ASSUME BackToGame(p)
        PROVE  \/ pg = "GameScenePage"
               \/ pg = "GameRoomWaitPage" /\ LeadsBackToGame(stack)
    <3> HIDE DEF pg, stack, list
    <3>1. PICK i \in 1 .. n : /\ list[i] = "GameScenePage"
                              /\ \A j \in 1 .. n : j > i => list[j] \in InGame
      BY <1>1, <2>1, <2>5 DEF BackToGame, InGame, list
    <3>2. CASE i = n
      BY <2>1, <3>1, <3>2 DEF pg
    <3>3. CASE i # n
      <4>1. pg \in InGame
        <5>1. n \in 1 .. n /\ n > i
          BY <2>1, <3>1, <3>3
        <5>2. list[n] \in InGame
          BY <3>1, <5>1
        <5>. QED  BY <2>1, <5>2 DEF pg
      <4>2. DOMAIN stack = 1 .. n - 1
        BY <2>1, <2>3, LenProperties
      <4>3. i \in 1 .. n - 1 /\ stack[i] = "GameScenePage"
        BY <2>3, <3>1, <3>3
      <4>4. \A j \in 1 .. n - 1 : j > i => stack[j] \in InGame
        BY <2>3, <3>1
      <4>. QED  BY <4>1, <4>2, <4>3, <4>4 DEF LeadsBackToGame, InGame
    <3>. QED  BY <3>2, <3>3
  <2>. QED  BY <2>2, <2>3, <2>4, <2>5
<1>. QED  BY <1>2, <1>3

\* Pushing a page of the game keeps the way back to it, and pushing the game
\* itself makes one.
LEMMA ForwardFacts ==
    ASSUME TypeOK, NEW p \in Players, NEW pg \in Pages, Forward(p, pg)
    PROVE  \E stack \in Seq(Pages) :
              /\ currentPage' = [currentPage EXCEPT ![p] = pg]
              /\ lastPageStack' = [lastPageStack EXCEPT ![p] = stack]
              /\ On(p, "GameScenePage") => LeadsBackToGame(stack)
              /\ On(p, "GameRoomWaitPage") /\ BackToGame(p) => LeadsBackToGame(stack)
<1> DEFINE list == lastPageStack[p]
           stack == Append(list, currentPage[p])
<1>1. /\ list \in Seq(Pages) /\ Len(list) \in Nat /\ DOMAIN list = 1 .. Len(list)
      /\ currentPage[p] \in Pages
  BY LenProperties DEF TypeOK
<1>2. /\ stack \in Seq(Pages) /\ DOMAIN stack = 1 .. Len(list) + 1
      /\ \A i \in 1 .. Len(list) : stack[i] = list[i]
      /\ stack[Len(list) + 1] = currentPage[p]
  BY <1>1, AppendProperties, LenProperties
<1>3. currentPage' = [currentPage EXCEPT ![p] = pg] /\ lastPageStack' = [lastPageStack EXCEPT ![p] = stack]
  BY DEF Forward
<1> HIDE DEF list, stack
<1>4. PICK n \in Nat : n = Len(list)
  BY <1>1
<1>5. CASE On(p, "GameScenePage")
  <2>1. n + 1 \in DOMAIN stack /\ stack[n + 1] = "GameScenePage"
        /\ \A j \in DOMAIN stack : ~(j > n + 1)
    BY <1>2, <1>4, <1>5 DEF On
  <2>2. LeadsBackToGame(stack)
    BY <2>1 DEF LeadsBackToGame
  <2>. QED  BY <1>2, <1>3, <2>2
<1>6. CASE On(p, "GameRoomWaitPage") /\ BackToGame(p)
  <2>1. PICK i \in 1 .. n : /\ list[i] = "GameScenePage"
                            /\ \A j \in 1 .. n : j > i => list[j] \in InGame
    BY <1>1, <1>4, <1>6 DEF BackToGame, InGame, list
  <2>2. i \in DOMAIN stack /\ stack[i] = "GameScenePage"
    BY <1>2, <1>4, <2>1
  <2>3. ASSUME NEW j \in DOMAIN stack, j > i PROVE stack[j] \in InGame
    BY <1>2, <1>4, <1>6, <2>1, <2>3 DEF On, InGame
  <2>4. LeadsBackToGame(stack)
    BY <2>2, <2>3 DEF LeadsBackToGame
  <2>. QED  BY <1>2, <1>3, <2>4
<1>. QED  BY <1>2, <1>3, <1>5, <1>6

----------------------------------------------------------------------------
(* The create and join page.                                               *)

LEMMA GoneKeepsInv ==
    ASSUME PagesInv, NEW p \in Players, AppGone(p)
    PROVE  PagesInv'
<1>1. UNCHANGED entered
  BY DEF AppGone, Store!AppKilled
<1>2. TypeOK'
  <2>1. 0 \in 0 .. MaxUpdates
    BY PagesAssumption DEF PagesAssumption
  <2>2. [r \in RoomIDs \union {NoRoom} |-> 0] \in [RoomIDs \union {NoRoom} -> 0 .. MaxUpdates]
    BY <2>1
  <2>3. updates' \in [Players -> [RoomIDs \union {NoRoom} -> 0 .. MaxUpdates]]
    BY <2>2 DEF AppGone, PagesInv, TypeOK
  <2>4. /\ currentPage' \in [Players -> Pages] /\ lastPageStack' \in [Players -> Seq(Pages)]
        /\ playerProfile' \in [Players -> RoomIDs \union {NoRoom, NoProfile}]
        /\ playerDoc' \in [Players -> RoomIDs \union {NoRoom}]
        /\ userGameRoom' \in [Players -> ShownRoom \union {NoDoc}]
        /\ roomListener' \in [Players -> RoomIDs \union {NoRoom}]
        /\ reading' \subseteq Players
    BY DEF AppGone, PagesInv, TypeOK, Pages
  <2>5. [r \in RoomIDs |-> NoListener] \in [RoomIDs -> Store!Room \union {NoDoc, NoListener}]
    OBVIOUS
  <2>6. heard' \in [Players -> [RoomIDs -> Store!Room \union {NoDoc, NoListener}]]
    BY <2>5 DEF AppGone, PagesInv, TypeOK
  <2>. QED  BY <2>3, <2>4, <2>6 DEF TypeOK
<1>3. \A q \in Players, r \in RoomIDs : Knows(q, r)' => Knows(q, r)
  BY PagesAssumption DEF AppGone, PagesInv, TypeOK, Knows, PagesAssumption
<1>4. ListenersTraced'
  BY DEF AppGone, PagesInv, TypeOK, ListenersTraced, BackToGame, On
<1>. QED  BY <1>1, <1>2, <1>3, <1>4, KnowledgeStays DEF PagesInv

LEMMA CreateKeepsInv ==
    ASSUME PagesInv, NEW p \in Players, NEW k, NEW key, CommitCreateRoom(p, k, key)
    PROVE  PagesInv'
<1>1. /\ UNCHANGED <<entered, pageVars, profileVars, roomListener, heard>>
      /\ userGameRoom' = [userGameRoom EXCEPT ![p] = LocalRoom(p, key)]
  BY DEF CommitCreateRoom, Store!CreateGameRoom
<1>2. LocalRoom(p, key) \in ShownRoom /\ LocalRoom(p, key).id = NoRoom
  BY DEF LocalRoom, Shown, ShownRoom, Store!NewRoom
<1>3. TypeOK'
  BY <1>1, <1>2 DEF PagesInv, TypeOK, pageVars, profileVars
<1>4. \A q \in Players, r \in RoomIDs : Knows(q, r)' => Knows(q, r)
  BY <1>1, <1>2, PagesAssumption DEF PagesInv, TypeOK, Knows, profileVars, PagesAssumption
<1>5. ListenersTraced'
  BY <1>1 DEF PagesInv, ListenersTraced, BackToGame, On, pageVars
<1>. QED  BY <1>1, <1>3, <1>4, <1>5, KnowledgeStays DEF PagesInv

LEMMA LeaveCreateKeepsInv ==
    ASSUME PagesInv, NEW p \in Players, LeaveCreateJoin(p)
    PROVE  PagesInv'
<1>1. PICK pg \in Pages, stack \in Seq(Pages) :
        /\ currentPage' = [currentPage EXCEPT ![p] = pg]
        /\ lastPageStack' = [lastPageStack EXCEPT ![p] = stack]
  BY BackFacts DEF LeaveCreateJoin, PagesInv
<1>2. /\ UNCHANGED <<storeVars, roomVars, playerDoc, updates>>
      /\ currentPage[p] \notin {"GameScenePage", "GameRoomWaitPage"}
      /\ playerProfile' \in [Players -> RoomIDs \union {NoRoom, NoProfile}]
      /\ \A q \in Players : playerProfile'[q] \in {playerProfile[q], playerDoc[q], NoProfile}
      /\ reading' \subseteq Players
  BY DEF LeaveCreateJoin, On, profileVars, PagesInv, TypeOK
<1>. QED  BY <1>1, <1>2, QuietPages

\* One more call of updatePlayerData.
LEMMA AskUpdateFacts ==
    ASSUME TypeOK, NEW p \in Players, NEW r \in RoomIDs \union {NoRoom}, AskUpdate(p, r)
    PROVE  /\ updates' \in [Players -> [RoomIDs \union {NoRoom} -> 0 .. MaxUpdates]]
           /\ \A q \in Players, s \in RoomIDs :
                 updates'[q][s] > 0 => updates[q][s] > 0 \/ (q = p /\ s = r)
<1>1. PICK m \in 0 .. MaxUpdates : m = updates[p][r]
  BY DEF TypeOK
<1>2. MaxUpdates \in Nat /\ m < MaxUpdates
  BY <1>1, PagesAssumption DEF AskUpdate, PagesAssumption
<1>3. PICK n \in 0 .. MaxUpdates : n = m + 1
  BY <1>2
<1>4. updates' = [updates EXCEPT ![p][r] = n]
  BY <1>1, <1>3 DEF AskUpdate
<1>5. /\ updates' \in [Players -> [RoomIDs \union {NoRoom} -> 0 .. MaxUpdates]]
      /\ \A q \in Players, s \in RoomIDs \union {NoRoom} :
            updates'[q][s] = IF q = p /\ s = r THEN n ELSE updates[q][s]
  BY <1>4, CountFacts
<1>. QED  BY <1>5

\* What a listener delivered last, when it is set.
LEMMA HeardFacts ==
    ASSUME heard \in [Players -> [RoomIDs -> Store!Room \union {NoDoc, NoListener}]],
           NEW p \in Players, NEW r \in RoomIDs,
           NEW value \in Store!Room \union {NoDoc, NoListener},
           heard' = [heard EXCEPT ![p][r] = value]
    PROVE  /\ heard' \in [Players -> [RoomIDs -> Store!Room \union {NoDoc, NoListener}]]
           /\ \A q \in Players, s \in RoomIDs :
                 heard'[q][s] = IF q = p /\ s = r THEN value ELSE heard[q][s]
OBVIOUS

\* A room is entered and the wait page appears.
LEMMA EntersKeepsInv ==
    ASSUME PagesInv, NEW p \in Players, NEW r \in RoomIDs, NEW room \in Store!Room,
           Enters(p, r, room), p \in entered'[r],
           \A q \in RoomIDs : entered[q] \subseteq entered'[q]
    PROVE  PagesInv'
<1>1. PICK stack \in Seq(Pages) :
        /\ currentPage' = [currentPage EXCEPT ![p] = "GameRoomWaitPage"]
        /\ lastPageStack' = [lastPageStack EXCEPT ![p] = stack]
        /\ On(p, "GameScenePage") => LeadsBackToGame(stack)
        /\ On(p, "GameRoomWaitPage") /\ BackToGame(p) => LeadsBackToGame(stack)
  <2>1. "GameRoomWaitPage" \in Pages /\ TypeOK /\ Forward(p, "GameRoomWaitPage")
    BY DEF Pages, PagesInv, Enters
  <2>. QED  BY <2>1, ForwardFacts
<1>2. /\ updates' \in [Players -> [RoomIDs \union {NoRoom} -> 0 .. MaxUpdates]]
      /\ \A q \in Players, s \in RoomIDs :
            updates'[q][s] > 0 => updates[q][s] > 0 \/ (q = p /\ s = r)
  <2>1. TypeOK /\ AskUpdate(p, r)
    BY DEF PagesInv, Enters
  <2>. QED  BY <2>1, AskUpdateFacts
<1>3. /\ userGameRoom' = [userGameRoom EXCEPT ![p] = Shown(r, room)]
      /\ UNCHANGED <<playerProfile, playerDoc, reading>>
  BY DEF Enters
<1>4. Shown(r, room) \in ShownRoom /\ Shown(r, room).id = r
  BY DEF Shown, ShownRoom, Store!Room
<1>5. /\ roomListener' \in [Players -> RoomIDs \union {NoRoom}]
      /\ heard' \in [Players -> [RoomIDs -> Store!Room \union {NoDoc, NoListener}]]
      /\ \A q \in Players, s \in RoomIDs :
            heard'[q][s] # NoListener => heard[q][s] # NoListener \/ (q = p /\ s = r)
  <2>1. CASE On(p, "GameRoomWaitPage")
    BY <2>1 DEF Enters, PagesInv, TypeOK
  <2>2. CASE ~On(p, "GameRoomWaitPage")
    <3>1. /\ roomListener' = [roomListener EXCEPT ![p] = r]
          /\ heard' = [heard EXCEPT ![p][r] = NoDoc]
      BY <2>2 DEF Enters
    <3>2. /\ roomListener \in [Players -> RoomIDs \union {NoRoom}]
          /\ heard \in [Players -> [RoomIDs -> Store!Room \union {NoDoc, NoListener}]]
      BY DEF PagesInv, TypeOK
    <3>. QED  BY <3>1, <3>2, HeardFacts
  <2>. QED  BY <2>1, <2>2
<1>6. TypeOK'
  <2>1. /\ currentPage' \in [Players -> Pages]
        /\ lastPageStack' \in [Players -> Seq(Pages)]
    BY <1>1 DEF PagesInv, TypeOK, Pages
  <2>2. userGameRoom' \in [Players -> ShownRoom \union {NoDoc}]
    BY <1>3, <1>4 DEF PagesInv, TypeOK
  <2>. QED  BY <1>2, <1>3, <1>5, <2>1, <2>2 DEF PagesInv, TypeOK
<1>7. OnlyEntrantsKnow'
  <2>1. ASSUME NEW q \in Players, NEW s \in RoomIDs, Knows(q, s)'
        PROVE  Knows(q, s) \/ (q = p /\ s = r)
    BY <1>2, <1>3, <1>4, <1>5, <2>1 DEF Knows, PagesInv, TypeOK
  <2>. QED  BY <2>1, KnowledgeStays DEF PagesInv
<1>8. ListenersTraced'
  <2>1. ASSUME NEW q \in Players \ {p}, NEW s \in RoomIDs, heard'[q][s] # NoListener
        PROVE  (\/ On(q, "GameScenePage")
                \/ On(q, "GameRoomWaitPage") /\ (roomListener[q] = s \/ BackToGame(q)))'
    <3>1. /\ heard[q][s] # NoListener /\ roomListener'[q] = roomListener[q]
          /\ currentPage'[q] = currentPage[q] /\ lastPageStack'[q] = lastPageStack[q]
      BY <1>1, <1>5, <2>1 DEF Enters, PagesInv, TypeOK
    <3>. QED  BY <3>1 DEF PagesInv, ListenersTraced, BackToGame, On
  <2>2. ASSUME NEW s \in RoomIDs, heard'[p][s] # NoListener
        PROVE  (On(p, "GameRoomWaitPage") /\ (roomListener[p] = s \/ BackToGame(p)))'
    <3>1. currentPage'[p] = "GameRoomWaitPage" /\ lastPageStack'[p] = stack
      BY <1>1 DEF PagesInv, TypeOK
    <3>2. LeadsBackToGame(stack) => BackToGame(p)'
      BY <3>1 DEF LeadsBackToGame, BackToGame, InGame
    <3>3. CASE On(p, "GameRoomWaitPage")
      <4>1. heard[p][s] # NoListener /\ roomListener'[p] = roomListener[p]
        BY <2>2, <3>3 DEF Enters
      <4>2. roomListener[p] = s \/ BackToGame(p)
        BY <3>3, <4>1 DEF PagesInv, ListenersTraced, On
      <4>. QED  BY <1>1, <3>1, <3>2, <3>3, <4>1, <4>2 DEF On
    <3>4. CASE ~On(p, "GameRoomWaitPage")
      <4>1. roomListener'[p] = r
        BY <3>4 DEF Enters, PagesInv, TypeOK
      <4>2. s = r \/ heard[p][s] # NoListener
        BY <1>5, <2>2
      <4>3. s = r \/ On(p, "GameScenePage")
        BY <3>4, <4>2 DEF PagesInv, ListenersTraced
      <4>. QED  BY <1>1, <3>1, <3>2, <4>1, <4>3 DEF On
    <3>. QED  BY <3>3, <3>4
  <2>. QED  BY <2>1, <2>2 DEF ListenersTraced
<1>. QED  BY <1>6, <1>7, <1>8 DEF PagesInv

----------------------------------------------------------------------------
(* The wait page.                                                          *)

LEMMA LeaveRoomKeepsInv ==
    ASSUME PagesInv, NEW p \in Players, LeaveRoom(p)
    PROVE  PagesInv'
<1>1. PICK pg \in Pages, stack \in Seq(Pages) :
        /\ currentPage' = [currentPage EXCEPT ![p] = pg]
        /\ lastPageStack' = [lastPageStack EXCEPT ![p] = stack]
        /\ BackToGame(p) => \/ pg = "GameScenePage"
                            \/ pg = "GameRoomWaitPage" /\ LeadsBackToGame(stack)
  <2>1. TypeOK /\ Back(p)
    BY DEF LeaveRoom, PagesInv
  <2>. QED  BY <2>1, BackFacts
<1>2. /\ updates' \in [Players -> [RoomIDs \union {NoRoom} -> 0 .. MaxUpdates]]
      /\ \A q \in Players, s \in RoomIDs : updates'[q][s] > 0 => updates[q][s] > 0
  <2>1. TypeOK /\ AskUpdate(p, NoRoom)
    BY DEF PagesInv, LeaveRoom
  <2>. QED  BY <2>1, AskUpdateFacts, PagesAssumption DEF PagesAssumption
<1>3. UNCHANGED <<entered, playerProfile, playerDoc, reading, userGameRoom>>
  BY DEF LeaveRoom
<1>4. /\ roomListener' \in [Players -> RoomIDs \union {NoRoom}]
      /\ heard' \in [Players -> [RoomIDs -> Store!Room \union {NoDoc, NoListener}]]
      /\ \A q \in Players, s \in RoomIDs :
            heard'[q][s] = IF q = p /\ s = roomListener[p] THEN NoListener ELSE heard[q][s]
      /\ \A q \in Players \ {p} : roomListener'[q] = roomListener[q]
  <2>1. /\ roomListener \in [Players -> RoomIDs \union {NoRoom}]
        /\ heard \in [Players -> [RoomIDs -> Store!Room \union {NoDoc, NoListener}]]
        /\ roomListener' = [roomListener EXCEPT ![p] = NoRoom]
    BY DEF LeaveRoom, RemoveListener, PagesInv, TypeOK
  <2>2. CASE roomListener[p] = NoRoom
    BY <2>1, <2>2, PagesAssumption DEF LeaveRoom, RemoveListener, PagesAssumption
  <2>3. CASE roomListener[p] \in RoomIDs
    <3>1. heard' = [heard EXCEPT ![p][roomListener[p]] = NoListener]
      BY <2>3, PagesAssumption DEF LeaveRoom, RemoveListener, PagesAssumption
    <3>. QED  BY <2>1, <2>3, <3>1, HeardFacts
  <2>. QED  BY <2>1, <2>2, <2>3
<1>5. TypeOK'
  BY <1>1, <1>2, <1>3, <1>4 DEF PagesInv, TypeOK
<1>6. OnlyEntrantsKnow'
  <2>1. \A q \in Players, s \in RoomIDs : Knows(q, s)' => Knows(q, s)
    BY <1>2, <1>3, <1>4 DEF Knows
  <2>. QED  BY <1>3, <2>1, KnowledgeStays DEF PagesInv
<1>7. ListenersTraced'
  <2>1. ASSUME NEW q \in Players \ {p}, NEW s \in RoomIDs, heard'[q][s] # NoListener
        PROVE  (\/ On(q, "GameScenePage")
                \/ On(q, "GameRoomWaitPage") /\ (roomListener[q] = s \/ BackToGame(q)))'
    <3>1. /\ heard[q][s] # NoListener /\ roomListener'[q] = roomListener[q]
          /\ currentPage'[q] = currentPage[q] /\ lastPageStack'[q] = lastPageStack[q]
      BY <1>1, <1>4, <2>1 DEF PagesInv, TypeOK
    <3>. QED  BY <3>1 DEF PagesInv, ListenersTraced, BackToGame, On
  <2>2. ASSUME NEW s \in RoomIDs, heard'[p][s] # NoListener
        PROVE  (On(p, "GameScenePage") \/ (On(p, "GameRoomWaitPage") /\ BackToGame(p)))'
    <3>1. currentPage'[p] = pg /\ lastPageStack'[p] = stack
      BY <1>1 DEF PagesInv, TypeOK
    <3>2. LeadsBackToGame(stack) => BackToGame(p)'
      BY <3>1 DEF LeadsBackToGame, BackToGame, InGame
    <3>3. heard[p][s] # NoListener /\ roomListener[p] # s
      BY <1>4, <2>2
    <3>4. BackToGame(p)
      BY <3>3 DEF LeaveRoom, PagesInv, ListenersTraced, On
    <3>. QED  BY <1>1, <3>1, <3>2, <3>4 DEF On
  <2>. QED  BY <2>1, <2>2 DEF ListenersTraced
<1>. QED  BY <1>5, <1>6, <1>7 DEF PagesInv

\* Whoever goes to the game from the wait page loses the handle of his listener.
LEMMA GameBegins ==
    ASSUME PagesInv, NEW p \in Players, currentPage[p] \in InGame,
           currentPage' = [currentPage EXCEPT ![p] = "GameScenePage"],
           roomListener' = [roomListener EXCEPT ![p] = NoRoom],
           UNCHANGED lastPageStack,
           \A q \in Players, r \in RoomIDs : heard'[q][r] # NoListener => heard[q][r] # NoListener
    PROVE  /\ ListenersTraced'
           /\ currentPage' \in [Players -> Pages]
           /\ lastPageStack' \in [Players -> Seq(Pages)]
           /\ roomListener' \in [Players -> RoomIDs \union {NoRoom}]
BY DEF PagesInv, TypeOK, ListenersTraced, BackToGame, On, Pages

LEMMA StartKeepsInv ==
    ASSUME PagesInv, NEW p \in Players, Start(p)
    PROVE  PagesInv'
<1>1. UNCHANGED <<entered, playerProfile, playerDoc, updates, reading, userGameRoom, heard>>
  BY DEF Start, profileVars
<1>2. /\ ListenersTraced'
      /\ currentPage' \in [Players -> Pages]
      /\ lastPageStack' \in [Players -> Seq(Pages)]
      /\ roomListener' \in [Players -> RoomIDs \union {NoRoom}]
  BY GameBegins DEF Start, On, InGame
<1>3. OnlyEntrantsKnow'
  BY <1>1, KnowledgeStays DEF PagesInv, Knows
<1>. QED  BY <1>1, <1>2, <1>3 DEF PagesInv, TypeOK

LEMMA StartCompletesKeepsInv ==
    ASSUME StoreSound, PagesInv, NEW k \in CallIDs, StartCompletes(k),
           \A r \in RoomIDs : entered[r] \subseteq entered'[r]
    PROVE  PagesInv'
<1> DEFINE p == calls[k].player
           r == calls[k].target
           room == calls[k].snap
<1>1. /\ UNCHANGED <<entered, pageVars, profileVars, roomListener, heard>>
      /\ calls[k] # NoCall /\ calls[k].op = "update"
  BY DEF StartCompletes, Store!UpdateReturns, Store!UnderWay
<1>2. /\ r \in RoomIDs /\ p \in Players
      /\ room # NoDoc => room \in Store!Room
  BY <1>1, StoreTypes DEF Store!DocumentReads, Store!Call
<1>3. CASE room = NoDoc
  <2>1. UNCHANGED <<pageVars, profileVars, roomVars>>
    BY <1>1, <1>3 DEF StartCompletes, roomVars
  <2>. QED  BY <2>1, PagesAlone
<1>4. CASE room # NoDoc
  <2> DEFINE shown == Shown(r, Store!Running(room))
  <2>1. userGameRoom' = [userGameRoom EXCEPT ![p] = shown]
    BY <1>4 DEF StartCompletes
  <2>2. shown \in ShownRoom /\ shown.id = r
    BY <1>2, <1>4 DEF Shown, ShownRoom, Store!Running, Store!Room
  <2> HIDE DEF shown, p, r, room
  <2>3. TypeOK'
    BY <1>1, <1>2, <2>1, <2>2 DEF PagesInv, TypeOK, pageVars, profileVars
  <2>4. p \in entered[r]
    BY <1>1 DEF StoreSound, StoreProofs!HistorySound, StoreProofs!EntrantReads, p, r
  <2>5. OnlyEntrantsKnow'
    BY <1>1, <1>2, <2>1, <2>2, <2>4, KnowledgeStays DEF PagesInv, TypeOK, Knows, profileVars
  <2>6. ListenersTraced'
    BY <1>1 DEF PagesInv, ListenersTraced, BackToGame, On, pageVars
  <2>. QED  BY <2>3, <2>5, <2>6 DEF PagesInv
<1>. QED  BY <1>3, <1>4

\* The room on the page becomes one the app listens to.
LEMMA ShowFacts ==
    ASSUME PagesInv, NEW p \in Players, NEW r \in RoomIDs, NEW room \in Store!Room,
           heard[p][r] # NoListener, Show(p, r, room),
           UNCHANGED <<entered, profileVars>>,
           \A q \in Players, s \in RoomIDs : heard'[q][s] # NoListener => heard[q][s] # NoListener
    PROVE  /\ userGameRoom' \in [Players -> ShownRoom \union {NoDoc}]
           /\ OnlyEntrantsKnow'
<1>1. Shown(r, room) \in ShownRoom /\ Shown(r, room).id = r
  BY DEF Shown, ShownRoom, Store!Room
<1>2. userGameRoom' = [userGameRoom EXCEPT ![p] = Shown(r, room)]
  BY DEF Show
<1>3. userGameRoom' \in [Players -> ShownRoom \union {NoDoc}]
  BY <1>1, <1>2 DEF PagesInv, TypeOK
<1>4. \A q \in Players, s \in RoomIDs : Knows(q, s)' => Knows(q, s)
  BY <1>1, <1>2 DEF PagesInv, TypeOK, Knows, profileVars
<1>. QED  BY <1>3, <1>4, KnowledgeStays DEF PagesInv

LEMMA DeliveryKeepsInv ==
    ASSUME StoreSound, PagesInv, NEW p \in Players, NEW r \in RoomIDs,
           RoomDelivered(p, r) \/ RemovalDelivered(p, r)
    PROVE  PagesInv'
<1>1. /\ UNCHANGED <<entered, profileVars, lastPageStack>>
      /\ heard[p][r] # NoListener
      /\ heard \in [Players -> [RoomIDs -> Store!Room \union {NoDoc, NoListener}]]
      /\ rooms \in [RoomIDs -> Store!Room \union {NoDoc}]
  BY StoreTypes DEF RoomDelivered, RemovalDelivered, storeVars, pageVars, PagesInv, TypeOK
<1>2. PICK room \in Store!Room, value \in Store!Room \union {NoDoc} :
        Show(p, r, room) /\ heard' = [heard EXCEPT ![p][r] = value]
  <2>1. CASE RoomDelivered(p, r)
    <3>1. rooms[r] \in Store!Room
      BY <1>1, <2>1 DEF RoomDelivered, Store!Exists
    <3>. QED  BY <2>1, <3>1 DEF RoomDelivered
  <2>2. CASE RemovalDelivered(p, r)
    <3>1. heard[p][r] \in Store!Room
      BY <1>1, <2>2 DEF RemovalDelivered
    <3>. QED  BY <2>2, <3>1 DEF RemovalDelivered
  <2>. QED  BY <2>1, <2>2
<1>3. /\ heard' \in [Players -> [RoomIDs -> Store!Room \union {NoDoc, NoListener}]]
      /\ \A q \in Players, s \in RoomIDs : heard'[q][s] # NoListener => heard[q][s] # NoListener
  BY <1>1, <1>2, HeardFacts
<1>4. userGameRoom' \in [Players -> ShownRoom \union {NoDoc}] /\ OnlyEntrantsKnow'
  BY <1>1, <1>2, <1>3, ShowFacts
<1>5. /\ ListenersTraced'
      /\ currentPage' \in [Players -> Pages]
      /\ lastPageStack' \in [Players -> Seq(Pages)]
      /\ roomListener' \in [Players -> RoomIDs \union {NoRoom}]
  <2>1. CASE UNCHANGED <<currentPage, roomListener>>
    BY <1>1, <1>3, <2>1 DEF PagesInv, TypeOK, ListenersTraced, BackToGame, On
  <2>2. CASE RoomDelivered(p, r) /\ rooms[r].gameRunning
    <3>1. currentPage[p] \in InGame
      BY <1>1 DEF PagesInv, ListenersTraced, On, InGame
    <3>. QED  BY <1>1, <1>3, <2>2, <3>1, GameBegins DEF RoomDelivered, DetectStartGameUpdate
  <2>. QED  BY <2>1, <2>2 DEF RoomDelivered, RemovalDelivered, DetectStartGameUpdate, pageVars
<1>. QED  BY <1>1, <1>3, <1>4, <1>5 DEF PagesInv, TypeOK, profileVars

LEMMA SameCompletion ==
    ASSUME NEW k
    PROVE  RoomEntered(k) = StoreProofs!Completion(calls[k])
BY DEF RoomEntered, Store!Completion, StoreProofs!Completion,
       Store!CanEnter, StoreProofs!CanEnter, Store!HasPlace, StoreProofs!HasPlace,
       Store!Member, StoreProofs!Member, Store!WithPlayer, StoreProofs!WithPlayer

\* Whoever is given a room by a completion has entered it.
LEMMA EnteredRoom ==
    ASSUME StoreSound, NEW k \in CallIDs, Completes(k), RoomEntered(k) # NoDoc
    PROVE  /\ calls[k].player \in Players /\ calls[k].target \in RoomIDs
           /\ RoomEntered(k) \in Store!Room
           /\ calls[k].player \in entered'[calls[k].target]
<1>1. StoreProofs!CreateReturns(k) \/ StoreProofs!JoinReturns(k)
  BY DEF Completes, Store!CreateReturns, StoreProofs!CreateReturns,
         Store!JoinReturns, StoreProofs!JoinReturns, Store!UnderWay, StoreProofs!UnderWay,
         Store!Returns, StoreProofs!Returns, Store!SetData, StoreProofs!SetData,
         Store!CanEnter, StoreProofs!CanEnter, Store!HasPlace, StoreProofs!HasPlace,
         Store!Member, StoreProofs!Member, Store!WithPlayer, StoreProofs!WithPlayer
<1>2. /\ calls[k].player \in Players /\ calls[k].target \in RoomIDs
      /\ RoomEntered(k) \in StoreProofs!Room
      /\ calls[k].player \in entered'[calls[k].target]
  BY <1>1, SameCompletion, StoreAssumed, StoreProofs!CompletionFacts DEF StoreSound
<1>. QED  BY <1>2 DEF Store!Room, StoreProofs!Room

LEMMA CompletesKeepsInv ==
    ASSUME StoreSound, PagesInv, NEW k \in CallIDs, Completes(k),
           \A r \in RoomIDs : entered[r] \subseteq entered'[r]
    PROVE  PagesInv'
<1>1. CASE RoomEntered(k) = NoDoc
  BY <1>1, PagesAlone DEF Completes
<1>2. CASE RoomEntered(k) # NoDoc
  BY <1>2, EnteredRoom, EntersKeepsInv DEF Completes
<1>. QED  BY <1>1, <1>2

----------------------------------------------------------------------------
(* Every step of the apps is a step of the store, or leaves it alone.      *)

\* The two instances of the store are one: its steps, as GameRoomFirestore and
\* as the module of its proofs define them.
LEMMA SameCalls ==
    ASSUME NEW k, NEW p, NEW key
    PROVE  /\ Store!CreateGameRoom(k, p, key) = StoreProofs!CreateGameRoom(k, p, key)
           /\ Store!JoinGameRoom(k, p, key) = StoreProofs!JoinGameRoom(k, p, key)
           /\ Store!AppKilled(p) = StoreProofs!AppKilled(p)
<1>1. Store!RoomLeft = StoreProofs!RoomLeft
  BY DEF Store!RoomLeft, StoreProofs!RoomLeft, Store!Unused, StoreProofs!Unused,
         Store!Cardinality, StoreProofs!Cardinality
<1>2. Store!CreateGameRoom(k, p, key) = StoreProofs!CreateGameRoom(k, p, key)
  BY <1>1 DEF Store!CreateGameRoom, StoreProofs!CreateGameRoom, Store!Makes, StoreProofs!Makes,
              Store!Asked, StoreProofs!Asked
<1>3. Store!JoinGameRoom(k, p, key) = StoreProofs!JoinGameRoom(k, p, key)
  BY DEF Store!JoinGameRoom, StoreProofs!JoinGameRoom, Store!Makes, StoreProofs!Makes,
         Store!Asked, StoreProofs!Asked
<1>4. Store!AppKilled(p) = StoreProofs!AppKilled(p)
  BY DEF Store!AppKilled, StoreProofs!AppKilled
<1>. QED  BY <1>2, <1>3, <1>4

LEMMA SameAnswers ==
    ASSUME NEW k, NEW r
    PROVE  /\ Store!SearchAnswered(k) = StoreProofs!SearchAnswered(k)
           /\ Store!ShareKeyAnswered(k) = StoreProofs!ShareKeyAnswered(k)
           /\ Store!DocumentAnswered(k) = StoreProofs!DocumentAnswered(k)
           /\ Store!AddDocument(k, r) = StoreProofs!AddDocument(k, r)
<1>1. Store!SearchAnswered(k) = StoreProofs!SearchAnswered(k)
  BY DEF Store!SearchAnswered, StoreProofs!SearchAnswered, Store!UnderWay, StoreProofs!UnderWay,
         Store!Exists, StoreProofs!Exists
<1>2. Store!ShareKeyAnswered(k) = StoreProofs!ShareKeyAnswered(k)
  BY DEF Store!ShareKeyAnswered, StoreProofs!ShareKeyAnswered, Store!UnderWay, StoreProofs!UnderWay,
         Store!Exists, StoreProofs!Exists, Store!Asked, StoreProofs!Asked, Store!Returns, StoreProofs!Returns
<1>3. Store!DocumentAnswered(k) = StoreProofs!DocumentAnswered(k)
  BY DEF Store!DocumentAnswered, StoreProofs!DocumentAnswered, Store!UnderWay, StoreProofs!UnderWay,
         Store!DocumentReads, StoreProofs!DocumentReads, Store!Found, StoreProofs!Found,
         Store!Exists, StoreProofs!Exists
<1>4. Store!AddDocument(k, r) = StoreProofs!AddDocument(k, r)
  BY DEF Store!AddDocument, StoreProofs!AddDocument, Store!UnderWay, StoreProofs!UnderWay,
         Store!Unused, StoreProofs!Unused, Store!SetData, StoreProofs!SetData,
         Store!NewRoom, StoreProofs!NewRoom, Store!Asked, StoreProofs!Asked
<1>. QED  BY <1>1, <1>2, <1>3, <1>4

LEMMA SameReturns ==
    ASSUME NEW k
    PROVE  /\ Store!CreateReturns(k) = StoreProofs!CreateReturns(k)
           /\ Store!JoinReturns(k) = StoreProofs!JoinReturns(k)
           /\ Store!QuitReturns(k) = StoreProofs!QuitReturns(k)
           /\ Store!UpdateReturns(k) = StoreProofs!UpdateReturns(k)
<1>1. Store!CreateReturns(k) = StoreProofs!CreateReturns(k)
  BY DEF Store!CreateReturns, StoreProofs!CreateReturns, Store!UnderWay, StoreProofs!UnderWay,
         Store!Returns, StoreProofs!Returns
<1>2. Store!JoinReturns(k) = StoreProofs!JoinReturns(k)
  BY DEF Store!JoinReturns, StoreProofs!JoinReturns, Store!UnderWay, StoreProofs!UnderWay,
         Store!Returns, StoreProofs!Returns, Store!SetData, StoreProofs!SetData,
         Store!CanEnter, StoreProofs!CanEnter, Store!HasPlace, StoreProofs!HasPlace,
         Store!Member, StoreProofs!Member, Store!WithPlayer, StoreProofs!WithPlayer
<1>3. Store!WithoutPlayer(calls[k].snap, calls[k].player)
        = StoreProofs!WithoutPlayer(calls[k].snap, calls[k].player)
  BY DEF Store!WithoutPlayer, StoreProofs!WithoutPlayer, Store!NextOwner, StoreProofs!NextOwner,
         Store!QuitPosition, StoreProofs!QuitPosition, Store!Member, StoreProofs!Member,
         Store!RemoveAt, StoreProofs!RemoveAt
<1>4. Store!QuitReturns(k) = StoreProofs!QuitReturns(k)
  BY <1>3 DEF Store!QuitReturns, StoreProofs!QuitReturns, Store!UnderWay, StoreProofs!UnderWay,
              Store!Returns, StoreProofs!Returns, Store!SetData, StoreProofs!SetData
<1>5. Store!UpdateReturns(k) = StoreProofs!UpdateReturns(k)
  BY DEF Store!UpdateReturns, StoreProofs!UpdateReturns, Store!UnderWay, StoreProofs!UnderWay,
         Store!Returns, StoreProofs!Returns, Store!SetData, StoreProofs!SetData,
         Store!Running, StoreProofs!Running
<1>. QED  BY <1>1, <1>2, <1>4, <1>5

\* The steps of an app by which it makes a call, or is killed.
LEMMA AppUsesStore ==
    ASSUME PagesInv, NEW p \in Players, Acts(p) \/ Hears(p) \/ AppGone(p)
                        \/ (\E r \in RoomIDs \union {NoRoom} : PlayerUpdateFails(p, r))
    PROVE  \/ UNCHANGED storeVars
           \/ Store!AppKilled(p)
           \/ \E k \in CallIDs :
                 \/ \E key \in ShareKeys : Store!CreateGameRoom(k, p, key) \/ Store!JoinGameRoom(k, p, key)
                 \/ \E r \in RoomIDs : Store!QuitGameRoom(k, p, r) \/ Store!UpdateGameRoom(k, p, r)
<1>1. CASE LeaveRoom(p)
  <2>1. CASE playerProfile[p] \in RoomIDs
    <3>1. PICK k \in CallIDs : Store!Makes(k, Store!Asked("quit", p, playerProfile[p]))
      BY <1>1, <2>1 DEF LeaveRoom, QuitGameRoom
    <3>2. p \in entered[playerProfile[p]]
      BY <2>1 DEF PagesInv, OnlyEntrantsKnow, Knows
    <3>3. Store!QuitGameRoom(k, p, playerProfile[p])
      BY <1>1, <3>1, <3>2 DEF LeaveRoom, Store!QuitGameRoom
    <3>. QED  BY <2>1, <3>3
  <2>2. CASE playerProfile[p] \notin RoomIDs
    BY <1>1, <2>2 DEF LeaveRoom, QuitGameRoom, storeVars
  <2>. QED  BY <2>1, <2>2
<1>2. CASE Start(p)
  <2>1. CASE userGameRoom[p] = NoDoc \/ userGameRoom[p].id = NoRoom
    BY <1>2, <2>1 DEF Start, storeVars
  <2>2. CASE ~(userGameRoom[p] = NoDoc \/ userGameRoom[p].id = NoRoom)
    <3>1. PICK k \in CallIDs : Store!Makes(k, Store!Asked("update", p, userGameRoom[p].id))
      BY <1>2, <2>2 DEF Start
    <3>2. userGameRoom[p].id \in RoomIDs
      BY <2>2 DEF PagesInv, TypeOK, ShownRoom
    <3>3. p \in entered[userGameRoom[p].id]
      BY <2>2, <3>2 DEF PagesInv, OnlyEntrantsKnow, Knows
    <3>4. Store!UpdateGameRoom(k, p, userGameRoom[p].id)
      BY <1>2, <3>1, <3>3 DEF Start, Store!UpdateGameRoom
    <3>. QED  BY <3>2, <3>4
  <2>. QED  BY <2>1, <2>2
<1>3. CASE \E k \in CallIDs, key \in ShareKeys : CommitCreateRoom(p, k, key) \/ CommitJoinRoom(p, k, key)
  BY <1>3 DEF CommitCreateRoom, CommitJoinRoom
<1>4. CASE CreateCrashes(p) \/ LeaveCrashes(p) \/ AppGone(p)
  BY <1>4 DEF CreateCrashes, LeaveCrashes, AppGone
<1>5. CASE \/ SignIn(p) \/ LogOut(p) \/ OpenProfile(p) \/ LeaveProfile(p) \/ StartGame(p)
           \/ LeaveCreateJoin(p) \/ Hears(p)
           \/ \E r \in RoomIDs \union {NoRoom} : PlayerUpdateFails(p, r)
  BY <1>5 DEF SignIn, LogOut, OpenProfile, LeaveProfile, StartGame, LeaveCreateJoin, Hears, ProfileRead,
              PlayerUpdated, RoomDelivered, RemovalDelivered, PlayerUpdateFails
<1>. QED  BY <1>1, <1>2, <1>3, <1>4, <1>5 DEF Acts

LEMMA NextUsesStore ==
    ASSUME PagesInv, [Next]_vars
    PROVE  [Store!Next]_Store!storeVars /\ [StoreProofs!Next]_storeVars
<1>1. CASE UNCHANGED storeVars
  BY <1>1 DEF storeVars, Store!storeVars
<1>2. CASE \E p \in Players : Store!AppKilled(p)
  <2>1. \E p \in Players : StoreProofs!AppKilled(p)
    BY <1>2, SameCalls
  <2>. QED  BY <1>2, <2>1 DEF Store!Next, StoreProofs!Next
<1>3. ASSUME NEW p \in Players, NEW k \in CallIDs,
             \/ \E key \in ShareKeys : Store!CreateGameRoom(k, p, key) \/ Store!JoinGameRoom(k, p, key)
             \/ \E r \in RoomIDs : Store!QuitGameRoom(k, p, r) \/ Store!UpdateGameRoom(k, p, r)
      PROVE  Store!PagesCall(k) /\ StoreProofs!PagesCall(k)
  <2>1. Store!PagesCall(k)
    BY <1>3 DEF Store!PagesCall
  <2>2. CASE \E key \in ShareKeys : Store!CreateGameRoom(k, p, key) \/ Store!JoinGameRoom(k, p, key)
    <3>1. \E key \in ShareKeys : StoreProofs!CreateGameRoom(k, p, key) \/ StoreProofs!JoinGameRoom(k, p, key)
      BY <2>2, SameCalls
    <3>. QED  BY <2>1, <3>1 DEF StoreProofs!PagesCall
  <2>3. CASE \E r \in RoomIDs : Store!QuitGameRoom(k, p, r) \/ Store!UpdateGameRoom(k, p, r)
    <3>1. \E r \in RoomIDs : StoreProofs!QuitGameRoom(k, p, r) \/ StoreProofs!UpdateGameRoom(k, p, r)
      BY <2>3 DEF Store!QuitGameRoom, StoreProofs!QuitGameRoom, Store!UpdateGameRoom,
                  StoreProofs!UpdateGameRoom, Store!Makes, StoreProofs!Makes, Store!Asked, StoreProofs!Asked
    <3>. QED  BY <2>1, <3>1 DEF StoreProofs!PagesCall
  <2>. QED  BY <1>3, <2>2, <2>3
<1>4. ASSUME NEW k \in CallIDs, CallStep(k)
      PROVE  Store!CallProceeds(k) /\ StoreProofs!CallProceeds(k)
  <2>1. Store!CallProceeds(k)
    BY <1>4 DEF CallStep, Proceeds, Completes, StartCompletes, Store!CallProceeds
  <2>2. StoreProofs!CallProceeds(k)
    BY <2>1, SameAnswers, SameReturns DEF Store!CallProceeds, StoreProofs!CallProceeds
  <2>. QED  BY <2>1, <2>2
<1>5. CASE Next
  <2>1. CASE \E k \in CallIDs : CallStep(k)
    BY <1>4, <2>1 DEF Store!Next, StoreProofs!Next
  <2>2. ASSUME NEW p \in Players,
               Acts(p) \/ Hears(p) \/ AppGone(p)
                  \/ (\E r \in RoomIDs \union {NoRoom} : PlayerUpdateFails(p, r))
        PROVE  [Store!Next]_Store!storeVars /\ [StoreProofs!Next]_storeVars
    <3>1. \/ UNCHANGED storeVars
          \/ Store!AppKilled(p)
          \/ \E k \in CallIDs : Store!PagesCall(k) /\ StoreProofs!PagesCall(k)
      BY <1>3, <2>2, AppUsesStore
    <3>. QED  BY <1>1, <1>2, <3>1 DEF Store!Next, StoreProofs!Next
  <2>. QED  BY <1>5, <2>1, <2>2 DEF Next
<1>6. CASE UNCHANGED vars
  BY <1>1, <1>6 DEF vars
<1>. QED  BY <1>5, <1>6

----------------------------------------------------------------------------
(* The invariant is inductive.                                             *)

PagesSound == PagesInv /\ StoreSound

LEMMA NextKeepsPages == PagesSound /\ [Next]_vars => PagesSound'
<1> SUFFICES ASSUME PagesSound, [Next]_vars PROVE PagesSound'
  OBVIOUS
<1>1. PagesInv /\ StoreSound
  BY DEF PagesSound
<1>2. StoreSound' /\ \A r \in RoomIDs : entered[r] \subseteq entered'[r]
  BY <1>1, NextUsesStore, StoreGrows
<1>3. CASE UNCHANGED vars
  BY <1>1, <1>2, <1>3, PagesAlone DEF vars, PagesSound
<1>4. ASSUME NEW p \in Players, Acts(p) PROVE PagesInv'
  <2>1. CASE SignIn(p) \/ LogOut(p) \/ OpenProfile(p) \/ LeaveProfile(p) \/ StartGame(p)
    BY <1>1, <2>1, HomeSteps
  <2>2. CASE LeaveCreateJoin(p) \/ LeaveRoom(p) \/ Start(p)
    BY <1>1, <2>2, LeaveCreateKeepsInv, LeaveRoomKeepsInv, StartKeepsInv
  <2>3. ASSUME NEW k \in CallIDs, NEW key \in ShareKeys, CommitCreateRoom(p, k, key)
        PROVE  PagesInv'
    BY <1>1, <2>3, CreateKeepsInv
  <2>4. ASSUME NEW k \in CallIDs, NEW key \in ShareKeys, CommitJoinRoom(p, k, key)
        PROVE  PagesInv'
    BY <1>1, <1>2, <2>4, PagesAlone DEF CommitJoinRoom
  <2>5. CASE CreateCrashes(p) \/ LeaveCrashes(p)
    BY <1>1, <2>5, GoneKeepsInv DEF CreateCrashes, LeaveCrashes
  <2>. QED  BY <1>4, <2>1, <2>2, <2>3, <2>4, <2>5 DEF Acts
<1>5. ASSUME NEW p \in Players,
             Hears(p) \/ (\E r \in RoomIDs \union {NoRoom} : PlayerUpdateFails(p, r))
      PROVE  PagesInv'
  BY <1>1, <1>5, ProfileSteps, DeliveryKeepsInv DEF Hears
<1>6. ASSUME NEW p \in Players, AppGone(p) PROVE PagesInv'
  BY <1>1, <1>6, GoneKeepsInv
<1>7. ASSUME NEW k \in CallIDs, CallStep(k) PROVE PagesInv'
  <2>1. CASE Proceeds(k)
    BY <1>1, <1>2, <2>1, PagesAlone DEF Proceeds
  <2>2. CASE Completes(k)
    BY <1>1, <1>2, <2>2, CompletesKeepsInv
  <2>3. CASE StartCompletes(k)
    BY <1>1, <1>2, <2>3, StartCompletesKeepsInv
  <2>. QED  BY <1>7, <2>1, <2>2, <2>3 DEF CallStep
<1>8. CASE Next
  BY <1>2, <1>4, <1>5, <1>6, <1>7, <1>8 DEF Next, PagesSound
<1>. QED  BY <1>3, <1>8

LEMMA InitPages == Init => PagesSound /\ Store!Init
<1> SUFFICES ASSUME Init PROVE PagesSound /\ Store!Init
  OBVIOUS
<1>1. Store!Init /\ StoreProofs!Init
  BY DEF Init, Store!Init, StoreProofs!Init
<1>2. StoreSound
  <2>1. StoreProofs!StoreInv
    BY <1>1, StoreAssumed, StoreProofs!InitInv
  <2>2. StoreProofs!HistorySound
    BY <1>1 DEF StoreProofs!Init, StoreProofs!HistorySound
  <2>. QED  BY <2>1, <2>2 DEF StoreSound
<1>3. TypeOK
  <2>1. 0 \in 0 .. MaxUpdates
    BY PagesAssumption DEF PagesAssumption
  <2>. QED  BY <2>1 DEF Init, TypeOK, Pages
<1>4. OnlyEntrantsKnow
  BY PagesAssumption DEF Init, OnlyEntrantsKnow, Knows, PagesAssumption
<1>5. ListenersTraced
  BY DEF Init, ListenersTraced
<1>. QED  BY <1>1, <1>2, <1>3, <1>4, <1>5 DEF PagesSound, PagesInv

----------------------------------------------------------------------------
(* Patient players, who do one thing at a time, with nobody's call on the   *)
(* same room under way: what a player has asked for says where he stands.   *)
(* He is outside, or on his way out; seeks a room, or has made one that is  *)
(* being read back; arrives in a room his profile is about to name; or      *)
(* stays in the room it names.                                              *)

In(p, r) == StoreProofs!InRoom(p, r)

\* The player is in r and in no other room; in none, if r is NoRoom.
InOnly(p, r) == \A s \in RoomIDs : In(p, s) <=> s = r

CallOf(p, k) == calls[k] # NoCall /\ calls[k].player = p

NoCallOf(p) == \A k \in CallIDs : ~CallOf(p, k)

OnlyCallOf(p, k) == CallOf(p, k) /\ \A j \in CallIDs : CallOf(p, j) => j = k

NoUpdate(p) == \A s \in RoomIDs \union {NoRoom} : updates[p][s] = 0

OnlyUpdate(p, r) ==
    \A s \in RoomIDs \union {NoRoom} : updates[p][s] = IF s = r THEN 1 ELSE 0

Outdoors == {"HomePage", "GameCreateJoinRoomPage"}

\* The player is on the wait page of r, or in its game, and hears of no other room.
AtRoom(p, r) ==
    /\ currentPage[p] \in InGame
    /\ userGameRoom[p] # NoDoc /\ userGameRoom[p].id = r
    /\ \A s \in RoomIDs : heard[p][s] # NoListener => s = r

\* In no room, or on the way out of one: the quit and the update of the profile
\* are both under way, or one of them has been done.
Outside(p) ==
    /\ currentPage[p] \in Outdoors
    /\ \/ NoCallOf(p) /\ InOnly(p, NoRoom)
       \/ \E k \in CallIDs :
             OnlyCallOf(p, k) /\ calls[k].op = "quit" /\ InOnly(p, calls[k].target)
    /\ \/ NoUpdate(p) /\ playerProfile[p] = NoRoom
       \/ OnlyUpdate(p, NoRoom)

\* Looking for a room, or in the one just made, which is being read back.
Seeking(p) ==
    /\ On(p, "GameCreateJoinRoomPage")
    /\ NoUpdate(p) /\ playerProfile[p] = NoRoom
    /\ \E k \in CallIDs :
          /\ OnlyCallOf(p, k)
          /\ \/ calls[k].op \in {"search", "find", "join"} /\ InOnly(p, NoRoom)
             \/ calls[k].op = "confirm" /\ InOnly(p, calls[k].target)

\* In a room that the profile is about to name.
Arriving(p) ==
    \E r \in RoomIDs : AtRoom(p, r) /\ InOnly(p, r) /\ NoCallOf(p) /\ OnlyUpdate(p, r)

\* In the room the profile names; its owner may be starting it.
Staying(p) ==
    \E r \in RoomIDs :
       /\ AtRoom(p, r) /\ InOnly(p, r) /\ NoUpdate(p) /\ playerProfile[p] = r
       /\ \/ NoCallOf(p)
          \/ \E k \in CallIDs :
                OnlyCallOf(p, k) /\ calls[k].op = "update" /\ calls[k].target = r

Phase(p) == Outside(p) \/ Seeking(p) \/ Arriving(p) \/ Staying(p)

Phases == \A p \in Players : Phase(p)

Stacked == \A p \in Players : \A i \in DOMAIN lastPageStack[p] : lastPageStack[p][i] \in Outdoors

Profiled == reading = {} /\ playerDoc = playerProfile

Calm == Phases /\ Stacked /\ Profiled

PatientInv == PagesSound /\ StoreProofs!OrderlyInv /\ ReadsSucceed /\ Calm

----------------------------------------------------------------------------
(* What a step of one player leaves to the others.                         *)

OthersPages(p) ==
    \A q \in Players \ {p} :
        /\ currentPage'[q] = currentPage[q] /\ playerProfile'[q] = playerProfile[q]
        /\ updates'[q] = updates[q] /\ userGameRoom'[q] = userGameRoom[q]
        /\ heard'[q] = heard[q]

OthersCalls(p) ==
    \A q \in Players \ {p}, j \in CallIDs :
        CallOf(q, j) \/ CallOf(q, j)' => calls'[j] = calls[j]

OthersRooms(p) == \A q \in Players \ {p}, s \in RoomIDs : In(q, s)' <=> In(q, s)

LEMMA OthersStay ==
    ASSUME Phases, NEW p \in Players, OthersPages(p), OthersCalls(p), OthersRooms(p), Phase(p)'
    PROVE  Phases'
<1>1. ASSUME NEW q \in Players \ {p} PROVE Phase(q)'
  <2>1. \A r : InOnly(q, r)' <=> InOnly(q, r)
    BY DEF OthersRooms, InOnly
  <2>2. NoCallOf(q) => NoCallOf(q)'
    BY DEF CallOf, OthersCalls, NoCallOf
  <2>3. \A k \in CallIDs : OnlyCallOf(q, k) => OnlyCallOf(q, k)' /\ calls'[k] = calls[k]
    BY DEF CallOf, OthersCalls, OnlyCallOf
  <2>4. /\ currentPage'[q] = currentPage[q] /\ playerProfile'[q] = playerProfile[q]
        /\ updates'[q] = updates[q] /\ userGameRoom'[q] = userGameRoom[q]
        /\ heard'[q] = heard[q]
    BY DEF OthersPages
  <2>5. /\ NoUpdate(q)' <=> NoUpdate(q)
        /\ \A r : OnlyUpdate(q, r)' <=> OnlyUpdate(q, r)
        /\ \A r : AtRoom(q, r)' <=> AtRoom(q, r)
    BY <2>4 DEF NoUpdate, OnlyUpdate, AtRoom
  <2>6. CASE Outside(q)
    <3>1. Outside(q)'
      BY <2>1, <2>2, <2>3, <2>4, <2>5, <2>6 DEF Outside
    <3>. QED  BY <3>1 DEF Phase
  <2>7. CASE Seeking(q)
    <3>1. Seeking(q)'
      BY <2>1, <2>2, <2>3, <2>4, <2>5, <2>7 DEF Seeking, On
    <3>. QED  BY <3>1 DEF Phase
  <2>8. CASE Arriving(q)
    <3>1. Arriving(q)'
      BY <2>1, <2>2, <2>3, <2>4, <2>5, <2>8 DEF Arriving
    <3>. QED  BY <3>1 DEF Phase
  <2>9. CASE Staying(q)
    <3>1. Staying(q)'
      BY <2>1, <2>2, <2>3, <2>4, <2>5, <2>9 DEF Staying
    <3>. QED  BY <3>1 DEF Phase
  <2>. QED  BY <2>6, <2>7, <2>8, <2>9 DEF Phases, Phase
<1>. QED  BY <1>1 DEF Phases

\* A player makes a call, or his call goes on or is over.
LEMMA OneCallMoves ==
    ASSUME calls \in [CallIDs -> Store!Call \union {NoCall}],
           NEW p \in Players, NEW k \in CallIDs,
           \A j \in CallIDs : CallOf(p, j) => j = k,
           calls[k] = NoCall \/ calls[k].player = p,
           NEW call, calls' = [calls EXCEPT ![k] = call],
           call # NoCall => call.player = p
    PROVE  /\ OthersCalls(p)
           /\ calls'[k] = call
           /\ call = NoCall => NoCallOf(p)'
           /\ call # NoCall => OnlyCallOf(p, k)'
<1>1. calls'[k] = call /\ \A j \in CallIDs \ {k} : calls'[j] = calls[j]
  OBVIOUS
<1>2. OthersCalls(p)
  BY <1>1 DEF CallOf, OthersCalls
<1>. QED  BY <1>1, <1>2 DEF CallOf, NoCallOf, OnlyCallOf

\* The caller's phase, by what he calls.
LEMMA CallerPhase ==
    ASSUME Phases, NEW p \in Players, NEW k \in CallIDs, CallOf(p, k)
    PROVE  /\ OnlyCallOf(p, k)
           /\ \/ /\ calls[k].op = "quit" /\ InOnly(p, calls[k].target)
                 /\ currentPage[p] \in Outdoors
                 /\ (NoUpdate(p) /\ playerProfile[p] = NoRoom) \/ OnlyUpdate(p, NoRoom)
              \/ /\ On(p, "GameCreateJoinRoomPage")
                 /\ NoUpdate(p) /\ playerProfile[p] = NoRoom
                 /\ \/ calls[k].op \in {"search", "find", "join"} /\ InOnly(p, NoRoom)
                    \/ calls[k].op = "confirm" /\ InOnly(p, calls[k].target)
              \/ /\ calls[k].op = "update" /\ calls[k].target \in RoomIDs
                 /\ AtRoom(p, calls[k].target) /\ InOnly(p, calls[k].target)
                 /\ NoUpdate(p) /\ playerProfile[p] = calls[k].target
<1>1. ~NoCallOf(p)
  BY DEF CallOf, NoCallOf
<1>2. \A j \in CallIDs : OnlyCallOf(p, j) => j = k
  BY DEF CallOf, OnlyCallOf
<1>. QED  BY <1>1, <1>2 DEF Phases, Phase, Outside, Seeking, Arriving, Staying

\* A player who is asked to do something is in a room or out of it.
LEMMA QuietPhases ==
    ASSUME Phases, NEW p \in Players, Quiet(p)
    PROVE  /\ NoCallOf(p) /\ NoUpdate(p)
           /\ \/ currentPage[p] \in Outdoors /\ playerProfile[p] = NoRoom /\ InOnly(p, NoRoom)
              \/ \E r \in RoomIDs : AtRoom(p, r) /\ InOnly(p, r) /\ playerProfile[p] = r
<1>1. NoCallOf(p) /\ NoUpdate(p)
  BY DEF Quiet, CallOf, NoCallOf, NoUpdate
<1>2. \A k \in CallIDs : ~OnlyCallOf(p, k)
  BY <1>1 DEF CallOf, NoCallOf, OnlyCallOf
<1>3. \A r \in RoomIDs \union {NoRoom} : ~OnlyUpdate(p, r)
  BY <1>1 DEF NoUpdate, OnlyUpdate
<1>. QED  BY <1>1, <1>2, <1>3 DEF Phases, Phase, Outside, Seeking, Arriving, Staying

----------------------------------------------------------------------------
(* Pages and profile updates of patient players.                           *)

\* Only pages outside rooms are ever pushed, so that pop() leads out of rooms.
LEMMA StackForward ==
    ASSUME TypeOK, Stacked, NEW p \in Players, NEW pg \in Pages,
           currentPage[p] \in Outdoors, Forward(p, pg)
    PROVE  /\ Stacked'
           /\ currentPage' = [currentPage EXCEPT ![p] = pg]
<1> DEFINE list == lastPageStack[p]
           longer == Append(list, currentPage[p])
<1>1. list \in Seq(Pages) /\ Len(list) \in Nat /\ DOMAIN list = 1 .. Len(list) /\ currentPage[p] \in Pages
  BY LenProperties DEF TypeOK
<1>2. /\ longer \in Seq(Pages) /\ DOMAIN longer = 1 .. Len(list) + 1
      /\ \A i \in 1 .. Len(list) : longer[i] = list[i]
      /\ longer[Len(list) + 1] = currentPage[p]
  BY <1>1, AppendProperties, LenProperties
<1>3. \A i \in DOMAIN longer : longer[i] \in Outdoors
  <2> HIDE DEF longer
  <2>1. \A i \in DOMAIN list : list[i] \in Outdoors
    BY DEF Stacked
  <2> HIDE DEF list
  <2>. QED  BY <1>1, <1>2, <2>1
<1>4. /\ currentPage' = [currentPage EXCEPT ![p] = pg]
      /\ \A q \in Players : lastPageStack'[q] = IF q = p THEN longer ELSE lastPageStack[q]
  BY DEF Forward, TypeOK
<1>. QED  BY <1>3, <1>4 DEF Stacked

LEMMA StackBack ==
    ASSUME TypeOK, Stacked, NEW p \in Players, Back(p)
    PROVE  /\ Stacked'
           /\ \E pg \in Outdoors : currentPage' = [currentPage EXCEPT ![p] = pg]
<1> DEFINE list == lastPageStack[p]
<1>1. list \in Seq(Pages) /\ Len(list) \in Nat /\ DOMAIN list = 1 .. Len(list)
  BY LenProperties DEF TypeOK
<1>2. CASE list = <<>>
  BY <1>2 DEF Back, Stacked, Outdoors
<1>3. CASE list # <<>>
  <2> DEFINE stack == SubSeq(list, 1, Len(list) - 1)
  <2>1. PICK n \in Nat : n = Len(list) /\ n > 0
    BY <1>1, <1>3, EmptySeq
  <2>2. list[Len(list)] \in Outdoors
    BY <1>1, <2>1 DEF Stacked
  <2>3. /\ stack \in Seq(Pages) /\ Len(stack) = n - 1
        /\ \A j \in 1 .. n - 1 : stack[j] = list[j]
    <3>1. \A j \in 1 .. n - 1 : list[j] \in Pages
      BY <1>1, <2>1, ElementOfSeq
    <3>. QED  BY <1>1, <2>1, <3>1, SubSeqProperties
  <2>4. DOMAIN stack = 1 .. n - 1
    BY <2>1, <2>3, LenProperties
  <2>5. \A i \in DOMAIN stack : stack[i] \in Outdoors
    <3> HIDE DEF stack
    <3>1. \A i \in DOMAIN list : list[i] \in Outdoors
      BY DEF Stacked
    <3> HIDE DEF list
    <3>. QED  BY <1>1, <2>1, <2>3, <2>4, <3>1
  <2>6. /\ currentPage' = [currentPage EXCEPT ![p] = list[Len(list)]]
        /\ \A q \in Players : lastPageStack'[q] = IF q = p THEN stack ELSE lastPageStack[q]
    BY <1>3 DEF Back, TypeOK
  <2>7. Stacked'
    <3> HIDE DEF stack, list
    <3>. QED  BY <2>5, <2>6 DEF Stacked
  <2>. QED  BY <2>2, <2>6, <2>7
<1>. QED  BY <1>2, <1>3

\* The one update asked for, and answered.
LEMMA OneUpdateAsked ==
    ASSUME TypeOK, NEW p \in Players, NEW r \in RoomIDs \union {NoRoom}, NoUpdate(p), AskUpdate(p, r)
    PROVE  OnlyUpdate(p, r)' /\ \A q \in Players \ {p} : updates'[q] = updates[q]
<1>1. updates[p][r] = 0
  BY DEF NoUpdate
<1>2. MaxUpdates \in Nat /\ 0 < MaxUpdates
  BY <1>1, PagesAssumption DEF AskUpdate, PagesAssumption
<1>3. 1 \in 0 .. MaxUpdates
  BY <1>2
<1>4. updates' = [updates EXCEPT ![p][r] = 1]
  BY <1>1 DEF AskUpdate
<1>5. \A q \in Players, s \in RoomIDs \union {NoRoom} :
         updates'[q][s] = IF q = p /\ s = r THEN 1 ELSE updates[q][s]
  BY <1>3, <1>4, CountFacts
<1>6. \A q \in Players \ {p} : updates'[q] = updates[q]
  BY <1>4 DEF TypeOK
<1>. QED  BY <1>5, <1>6 DEF NoUpdate, OnlyUpdate

LEMMA OneUpdateAnswered ==
    ASSUME TypeOK, NEW p \in Players, NEW r \in RoomIDs \union {NoRoom}, NEW s \in RoomIDs \union {NoRoom},
           OnlyUpdate(p, s), updates[p][r] > 0
    PROVE  /\ r = s
           /\ updates' = [updates EXCEPT ![p][r] = @ - 1] =>
                 NoUpdate(p)' /\ \A q \in Players \ {p} : updates'[q] = updates[q]
<1>1. r = s /\ updates[p][r] = 1
  BY DEF OnlyUpdate
<1>2. MaxUpdates \in Nat /\ updates[p][r] \in 0 .. MaxUpdates
  BY PagesAssumption DEF PagesAssumption, TypeOK
<1>3. 0 \in 0 .. MaxUpdates
  BY <1>2
<1>4. ASSUME updates' = [updates EXCEPT ![p][r] = @ - 1]
      PROVE  updates' = [updates EXCEPT ![p][r] = 0]
  <2>1. PICK m : m = updates[p][r] - 1
    OBVIOUS
  <2>2. updates' = [updates EXCEPT ![p][r] = m]
    BY <1>4, <2>1
  <2>3. m = 0
    BY <1>1, <2>1
  <2>. QED  BY <2>2, <2>3
<1>5. ASSUME updates' = [updates EXCEPT ![p][r] = 0]
      PROVE  NoUpdate(p)' /\ \A q \in Players \ {p} : updates'[q] = updates[q]
  <2>1. \A q \in Players, t \in RoomIDs \union {NoRoom} :
           updates'[q][t] = IF q = p /\ t = r THEN 0 ELSE updates[q][t]
    BY <1>3, <1>5, CountFacts
  <2>2. \A q \in Players \ {p} : updates'[q] = updates[q]
    BY <1>5 DEF TypeOK
  <2>. QED  BY <1>1, <2>1, <2>2 DEF NoUpdate, OnlyUpdate
<1>. QED  BY <1>1, <1>4, <1>5

\* Whoever is out of rooms hears of none.
LEMMA OutdoorsQuiet ==
    ASSUME PagesInv, NEW p \in Players, currentPage[p] \in Outdoors
    PROVE  \A r \in RoomIDs : heard[p][r] = NoListener
BY DEF PagesInv, ListenersTraced, On, Outdoors

\* Who is where does not change with the documents.
LEMMA RoomsStand ==
    ASSUME UNCHANGED rooms
    PROVE  \A q, s : In(q, s)' <=> In(q, s)
BY DEF In, StoreProofs!InRoom, StoreProofs!Exists

----------------------------------------------------------------------------
(* What a patient player does.                                             *)

LEMMA CallsTyped ==
    ASSUME StoreSound
    PROVE  calls \in [CallIDs -> Store!Call \union {NoCall}]
<1>1. Store!Call = StoreProofs!Call
  BY DEF Store!Call, StoreProofs!Call, Store!DocumentReads, StoreProofs!DocumentReads,
         Store!LiveRoom, StoreProofs!LiveRoom, Store!Room, StoreProofs!Room
<1>. QED  BY <1>1 DEF StoreSound, StoreProofs!StoreInv, StoreProofs!TypeOK

LEMMA AskedIsCall ==
    ASSUME NEW op \in {"search", "find"} \union Store!DocumentReads, NEW p \in Players,
           NEW target \in RoomIDs \union ShareKeys
    PROVE  /\ Store!Asked(op, p, target) # NoCall
           /\ Store!Asked(op, p, target).op = op
           /\ Store!Asked(op, p, target).player = p
           /\ Store!Asked(op, p, target).target = target
<1>1. Store!Asked(op, p, target) \in Store!Call
  BY DEF Store!Asked, Store!Call
<1>2. NoCall \notin Store!Call
  BY PagesAssumption DEF PagesAssumption
<1>3. Store!Asked(op, p, target) # NoCall
  BY <1>1, <1>2
<1>. QED  BY <1>3 DEF Store!Asked

\* A player with no call under way makes one.
LEMMA CallMade ==
    ASSUME StoreSound, NEW p \in Players, NEW k \in CallIDs, NoCallOf(p),
           NEW op \in {"search", "find"} \union Store!DocumentReads,
           NEW target \in RoomIDs \union ShareKeys,
           Store!Makes(k, Store!Asked(op, p, target))
    PROVE  /\ OthersCalls(p) /\ OnlyCallOf(p, k)'
           /\ calls'[k].op = op /\ calls'[k].target = target
<1> DEFINE call == Store!Asked(op, p, target)
<1>1. calls[k] = NoCall /\ calls' = [calls EXCEPT ![k] = call]
  BY DEF Store!Makes
<1>2. call # NoCall /\ call.op = op /\ call.player = p /\ call.target = target
  BY AskedIsCall
<1>3. calls \in [CallIDs -> Store!Call \union {NoCall}]
  BY CallsTyped
<1>4. \A j \in CallIDs : CallOf(p, j) => j = k
  BY DEF NoCallOf
<1> HIDE DEF call
<1>. QED  BY <1>1, <1>2, <1>3, <1>4, OneCallMoves

\* Steps between the pages outside rooms.
LEMMA StrollKeepsCalm ==
    ASSUME PagesSound, Calm, NEW p \in Players, NoCallOf(p), NoUpdate(p),
           InOnly(p, NoRoom), playerProfile[p] = NoRoom,
           NEW pg \in Outdoors, currentPage' = [currentPage EXCEPT ![p] = pg], Stacked',
           UNCHANGED <<storeVars, profileVars, roomVars>>
    PROVE  Calm'
<1>1. /\ OthersPages(p) /\ currentPage'[p] = pg
  BY DEF OthersPages, PagesSound, PagesInv, TypeOK, profileVars, roomVars
<1>2. OthersCalls(p) /\ NoCallOf(p)'
  BY DEF CallOf, OthersCalls, NoCallOf, storeVars
<1>3. OthersRooms(p) /\ InOnly(p, NoRoom)'
  BY RoomsStand DEF OthersRooms, InOnly, storeVars
<1>4. NoUpdate(p)' /\ playerProfile'[p] = NoRoom
  BY DEF NoUpdate, profileVars
<1>5. Outside(p)'
  BY <1>1, <1>2, <1>3, <1>4 DEF Outside
<1>6. Phases'
  BY <1>1, <1>2, <1>3, <1>5, OthersStay DEF Phase, Calm
<1>7. Profiled'
  BY DEF Calm, Profiled, profileVars
<1>. QED  BY <1>6, <1>7 DEF Calm

LEMMA PagesKeepCalm ==
    ASSUME PagesSound, Calm, NEW p \in Players, Quiet(p), StartGame(p) \/ LeaveCreateJoin(p)
    PROVE  Calm'
<1>1. TypeOK /\ Stacked
  BY DEF PagesSound, PagesInv, Calm
<1>2. /\ NoCallOf(p) /\ NoUpdate(p)
      /\ currentPage[p] \in Outdoors /\ playerProfile[p] = NoRoom /\ InOnly(p, NoRoom)
  BY QuietPhases DEF Calm, AtRoom, InGame, StartGame, LeaveCreateJoin, On
<1>3. UNCHANGED <<storeVars, profileVars, roomVars>>
  BY DEF StartGame, LeaveCreateJoin
<1>4. CASE StartGame(p)
  <2>1. Forward(p, "GameCreateJoinRoomPage") /\ "GameCreateJoinRoomPage" \in Pages \intersect Outdoors
    BY <1>4 DEF StartGame, Pages, Outdoors
  <2>2. Stacked' /\ currentPage' = [currentPage EXCEPT ![p] = "GameCreateJoinRoomPage"]
    BY <1>1, <1>2, <2>1, StackForward
  <2>. QED  BY <1>2, <1>3, <2>1, <2>2, StrollKeepsCalm
<1>5. CASE LeaveCreateJoin(p)
  <2>1. Back(p)
    BY <1>5 DEF LeaveCreateJoin
  <2>2. Stacked' /\ \E pg \in Outdoors : currentPage' = [currentPage EXCEPT ![p] = pg]
    BY <1>1, <2>1, StackBack
  <2>. QED  BY <1>2, <1>3, <2>2, StrollKeepsCalm
<1>. QED  BY <1>4, <1>5

\* A player outside asks for a room, or for a new one.
LEMMA SeekKeepsCalm ==
    ASSUME PagesSound, Calm, NEW p \in Players, Quiet(p), NEW k \in CallIDs, NEW key \in ShareKeys,
           CommitCreateRoom(p, k, key) \/ CommitJoinRoom(p, k, key)
    PROVE  Calm'
<1>1. PICK op \in {"search", "find"} : Store!Makes(k, Store!Asked(op, p, key))
  BY DEF CommitCreateRoom, CommitJoinRoom, Store!CreateGameRoom, Store!JoinGameRoom
<1>2. /\ NoCallOf(p) /\ NoUpdate(p) /\ On(p, "GameCreateJoinRoomPage")
      /\ playerProfile[p] = NoRoom /\ InOnly(p, NoRoom)
  BY QuietPhases DEF Calm, AtRoom, InGame, CommitCreateRoom, CommitJoinRoom, On
<1>3. /\ OthersCalls(p) /\ OnlyCallOf(p, k)' /\ calls'[k].op = op
  BY <1>1, <1>2, CallMade DEF PagesSound
<1>4. /\ UNCHANGED <<rooms, pageVars, profileVars, heard>>
      /\ \A q \in Players \ {p} : userGameRoom'[q] = userGameRoom[q]
  BY DEF CommitCreateRoom, CommitJoinRoom, Store!CreateGameRoom, Store!JoinGameRoom, roomVars,
         PagesSound, PagesInv, TypeOK
<1>5. OthersPages(p) /\ On(p, "GameCreateJoinRoomPage")' /\ NoUpdate(p)' /\ playerProfile'[p] = NoRoom
  BY <1>2, <1>4 DEF OthersPages, On, NoUpdate, pageVars, profileVars
<1>6. OthersRooms(p) /\ InOnly(p, NoRoom)'
  BY <1>2, <1>4, RoomsStand DEF OthersRooms, InOnly
<1>7. Seeking(p)'
  BY <1>3, <1>5, <1>6 DEF Seeking
<1>8. Phases'
  BY <1>3, <1>5, <1>6, <1>7, OthersStay DEF Phase, Calm
<1>9. Profiled' /\ Stacked'
  BY <1>4 DEF Calm, Profiled, Stacked, profileVars, pageVars
<1>. QED  BY <1>8, <1>9 DEF Calm

\* The arrow of the wait page: the profile names the room the player is in, so
\* that room is quit.
LEMMA LeaveKeepsCalm ==
    ASSUME PagesSound, Calm, NEW p \in Players, Quiet(p), LeaveRoom(p)
    PROVE  Calm'
<1>1. TypeOK /\ Stacked /\ Back(p) /\ AskUpdate(p, NoRoom) /\ RemoveListener(p)
  BY DEF PagesSound, PagesInv, Calm, LeaveRoom
<1>2. PICK r \in RoomIDs :
        NoCallOf(p) /\ NoUpdate(p) /\ InOnly(p, r) /\ playerProfile[p] = r
  BY QuietPhases DEF Calm, Outdoors, LeaveRoom, On
<1>3. PICK k \in CallIDs : Store!Makes(k, Store!Asked("quit", p, r))
  BY <1>2 DEF LeaveRoom, QuitGameRoom
<1>4. OthersCalls(p) /\ OnlyCallOf(p, k)' /\ calls'[k].op = "quit" /\ calls'[k].target = r
  <2>1. "quit" \in {"search", "find"} \union Store!DocumentReads
    BY DEF Store!DocumentReads
  <2>. QED  BY <1>2, <1>3, <2>1, CallMade DEF PagesSound
<1>5. PICK pg \in Outdoors : Stacked' /\ currentPage' = [currentPage EXCEPT ![p] = pg]
  BY <1>1, StackBack
<1>6. OnlyUpdate(p, NoRoom)' /\ \A q \in Players \ {p} : updates'[q] = updates[q]
  BY <1>1, <1>2, OneUpdateAsked
<1>7. UNCHANGED <<rooms, playerProfile, playerDoc, reading, userGameRoom>>
  BY DEF LeaveRoom
<1>8. OthersPages(p) /\ currentPage'[p] = pg
  <2>1. \A q \in Players \ {p} : heard'[q] = heard[q]
    BY <1>1 DEF RemoveListener, TypeOK
  <2>. QED  BY <1>1, <1>5, <1>6, <1>7, <2>1 DEF OthersPages, TypeOK
<1>9. OthersRooms(p) /\ InOnly(p, r)'
  BY <1>2, <1>7, RoomsStand DEF OthersRooms, InOnly
<1>10. Outside(p)'
  BY <1>4, <1>6, <1>8, <1>9 DEF Outside
<1>11. Phases'
  BY <1>4, <1>8, <1>9, <1>10, OthersStay DEF Phase, Calm
<1>12. Profiled'
  BY <1>7 DEF Calm, Profiled
<1>. QED  BY <1>5, <1>11, <1>12 DEF Calm

\* The Start button: the room on the page is the one the player is in.
LEMMA StartKeepsCalm ==
    ASSUME PagesSound, Calm, NEW p \in Players, Quiet(p), Start(p)
    PROVE  Calm'
<1>1. TypeOK
  BY DEF PagesSound, PagesInv
<1>2. PICK r \in RoomIDs :
        /\ NoCallOf(p) /\ NoUpdate(p) /\ InOnly(p, r) /\ playerProfile[p] = r /\ AtRoom(p, r)
  BY QuietPhases DEF Calm, Outdoors, Start, On
<1>3. PICK k \in CallIDs : Store!Makes(k, Store!Asked("update", p, r))
  BY <1>2, PagesAssumption DEF Start, AtRoom, PagesAssumption
<1>4. OthersCalls(p) /\ OnlyCallOf(p, k)' /\ calls'[k].op = "update" /\ calls'[k].target = r
  <2>1. "update" \in {"search", "find"} \union Store!DocumentReads
    BY DEF Store!DocumentReads
  <2>. QED  BY <1>2, <1>3, <2>1, CallMade DEF PagesSound
<1>5. /\ UNCHANGED <<rooms, lastPageStack, profileVars, userGameRoom, heard>>
      /\ currentPage' = [currentPage EXCEPT ![p] = "GameScenePage"]
  BY DEF Start
<1>6. OthersPages(p) /\ currentPage'[p] \in InGame
  BY <1>1, <1>5 DEF OthersPages, TypeOK, profileVars, InGame
<1>7. AtRoom(p, r)' /\ NoUpdate(p)' /\ playerProfile'[p] = r
  BY <1>2, <1>5, <1>6 DEF AtRoom, NoUpdate, profileVars
<1>8. OthersRooms(p) /\ InOnly(p, r)'
  BY <1>2, <1>5, RoomsStand DEF OthersRooms, InOnly
<1>9. Staying(p)'
  BY <1>4, <1>7, <1>8 DEF Staying
<1>10. Phases'
  BY <1>4, <1>6, <1>8, <1>9, OthersStay DEF Phase, Calm
<1>11. Profiled' /\ Stacked'
  BY <1>5 DEF Calm, Profiled, Stacked, profileVars
<1>. QED  BY <1>10, <1>11 DEF Calm

LEMMA ActsKeepCalm ==
    ASSUME PagesSound, Calm, NEW p \in Players, Quiet(p), Acts(p), Awake'
    PROVE  Calm'
<1>1. TypeOK
  BY DEF PagesSound, PagesInv
<1>2. currentPage[p] \in Outdoors \union InGame /\ playerProfile[p] # NoProfile
  BY QuietPhases, PagesAssumption DEF Calm, AtRoom, PagesAssumption
<1>3. ~SignIn(p) /\ ~LeaveProfile(p) /\ ~CreateCrashes(p) /\ ~LeaveCrashes(p)
  BY <1>2 DEF SignIn, LeaveProfile, CreateCrashes, LeaveCrashes, On, Outdoors, InGame
<1>4. ~LogOut(p) /\ ~OpenProfile(p)
  BY <1>1 DEF LogOut, OpenProfile, Forward, Awake, TypeOK
<1>. QED  BY <1>3, <1>4, PagesKeepCalm, SeekKeepsCalm, LeaveKeepsCalm, StartKeepsCalm DEF Acts

----------------------------------------------------------------------------
(* What a patient player's app hears.                                      *)

\* The profile comes to name the room entered, or none after the one left.
LEMMA UpdatedKeepsCalm ==
    ASSUME PagesSound, Calm, NEW p \in Players, NEW r \in RoomIDs \union {NoRoom}, PlayerUpdated(p, r)
    PROVE  Calm'
<1>1. TypeOK /\ updates[p][r] > 0
  BY DEF PagesSound, PagesInv, PlayerUpdated
<1>2. ~NoUpdate(p)
  BY <1>1 DEF NoUpdate
<1>3. PICK s \in RoomIDs \union {NoRoom} :
        /\ OnlyUpdate(p, s)
        /\ \/ /\ s = NoRoom /\ currentPage[p] \in Outdoors
              /\ \/ NoCallOf(p) /\ InOnly(p, NoRoom)
                 \/ \E k \in CallIDs :
                       OnlyCallOf(p, k) /\ calls[k].op = "quit" /\ InOnly(p, calls[k].target)
           \/ s \in RoomIDs /\ AtRoom(p, s) /\ InOnly(p, s) /\ NoCallOf(p)
  BY <1>2 DEF Calm, Phases, Phase, Outside, Seeking, Arriving, Staying
<1>4. r = s /\ NoUpdate(p)' /\ \A q \in Players \ {p} : updates'[q] = updates[q]
  BY <1>1, <1>3, OneUpdateAnswered DEF PlayerUpdated
<1>5. /\ UNCHANGED <<storeVars, pageVars, reading, heard>>
      /\ playerProfile'[p] = r
      /\ r # NoRoom => UNCHANGED userGameRoom
      /\ \A q \in Players \ {p} : playerProfile'[q] = playerProfile[q] /\ userGameRoom'[q] = userGameRoom[q]
  BY <1>1 DEF PlayerUpdated, TypeOK
<1>6. OthersPages(p) /\ OthersCalls(p)
  BY <1>4, <1>5 DEF OthersPages, CallOf, OthersCalls, storeVars, pageVars
<1>7. OthersRooms(p) /\ \A t : InOnly(p, t)' <=> InOnly(p, t)
  BY <1>5, RoomsStand DEF OthersRooms, InOnly, storeVars
<1>8. /\ NoCallOf(p)' <=> NoCallOf(p)
      /\ \A k \in CallIDs : OnlyCallOf(p, k)' <=> OnlyCallOf(p, k)
      /\ UNCHANGED <<calls, currentPage>>
  BY <1>5 DEF CallOf, NoCallOf, OnlyCallOf, storeVars, pageVars
<1>9. Phase(p)'
  <2>1. CASE s = NoRoom /\ currentPage[p] \in Outdoors
    <3>1. Outside(p)'
      BY <1>3, <1>4, <1>5, <1>7, <1>8, <2>1, PagesAssumption DEF Outside, AtRoom, Outdoors, InGame, PagesAssumption
    <3>. QED  BY <3>1 DEF Phase
  <2>2. CASE s \in RoomIDs /\ AtRoom(p, s) /\ InOnly(p, s) /\ NoCallOf(p)
    <3>1. UNCHANGED <<userGameRoom, heard, currentPage>>
      BY <1>4, <1>5, <2>2, PagesAssumption DEF pageVars, PagesAssumption
    <3>2. AtRoom(p, s)'
      BY <2>2, <3>1 DEF AtRoom
    <3>3. Staying(p)'
      BY <1>4, <1>5, <1>7, <1>8, <2>2, <3>2 DEF Staying
    <3>. QED  BY <3>3 DEF Phase
  <2>. QED  BY <1>3, <2>1, <2>2
<1>10. Phases'
  BY <1>6, <1>7, <1>9, OthersStay DEF Calm
<1>11. Profiled' /\ Stacked'
  <2>1. playerDoc' = playerProfile'
    BY DEF PlayerUpdated, Calm, Profiled
  <2>. QED  BY <1>5, <2>1 DEF Calm, Profiled, Stacked, pageVars
<1>. QED  BY <1>10, <1>11 DEF Calm

\* Only the room the player is in is heard of, and it exists.
LEMMA DeliveryKeepsCalm ==
    ASSUME PagesSound, Calm, NEW p \in Players, NEW r \in RoomIDs,
           RoomDelivered(p, r) \/ RemovalDelivered(p, r)
    PROVE  Calm'
<1>1. TypeOK /\ heard[p][r] # NoListener
  BY DEF PagesSound, PagesInv, RoomDelivered, RemovalDelivered
<1>2. currentPage[p] \notin Outdoors
  BY <1>1, OutdoorsQuiet DEF PagesSound
<1>3. Arriving(p) \/ Staying(p)
  BY <1>2 DEF Calm, Phases, Phase, Outside, Seeking, On, Outdoors
<1>4. AtRoom(p, r) /\ InOnly(p, r)
  BY <1>1, <1>3 DEF Arriving, Staying, AtRoom
<1>5. In(p, r)
  BY <1>4 DEF InOnly
<1>6. RoomDelivered(p, r)
  BY <1>5 DEF RemovalDelivered, In, StoreProofs!InRoom, StoreProofs!Exists, Store!Exists
<1>7. /\ UNCHANGED <<storeVars, profileVars, lastPageStack>>
      /\ userGameRoom' = [userGameRoom EXCEPT ![p] = Shown(r, rooms[r])]
      /\ heard' = [heard EXCEPT ![p][r] = rooms[r]]
      /\ currentPage'[p] \in InGame
      /\ \A q \in Players \ {p} : currentPage'[q] = currentPage[q]
  BY <1>1, <1>4, <1>6 DEF RoomDelivered, Show, DetectStartGameUpdate, TypeOK, AtRoom, InGame
<1>8. Shown(r, rooms[r]) # NoDoc /\ Shown(r, rooms[r]).id = r
  <2>1. rooms[r] \in Store!Room
    BY <1>6, StoreTypes DEF PagesSound, RoomDelivered, Store!Exists
  <2>2. Shown(r, rooms[r]) \in ShownRoom
    BY <2>1 DEF Shown, ShownRoom, Store!Room
  <2>. QED  BY <2>2, PagesAssumption DEF Shown, PagesAssumption
<1>9. OthersPages(p) /\ OthersCalls(p)
  BY <1>1, <1>7 DEF OthersPages, CallOf, OthersCalls, storeVars, profileVars, TypeOK
<1>10. AtRoom(p, r)'
  BY <1>1, <1>4, <1>7, <1>8 DEF AtRoom, TypeOK
<1>11. OthersRooms(p) /\ \A t : InOnly(p, t)' <=> InOnly(p, t)
  BY <1>7, RoomsStand DEF OthersRooms, InOnly, storeVars
<1>12. /\ NoCallOf(p) => NoCallOf(p)'
       /\ \A k \in CallIDs : OnlyCallOf(p, k) => OnlyCallOf(p, k)'
       /\ NoUpdate(p) => NoUpdate(p)'
       /\ \A t : OnlyUpdate(p, t) => OnlyUpdate(p, t)'
       /\ UNCHANGED <<calls, playerProfile>>
  BY <1>7 DEF CallOf, NoCallOf, OnlyCallOf, NoUpdate, OnlyUpdate, storeVars, profileVars
<1>13. \A t \in RoomIDs : AtRoom(p, t) => t = r
  BY <1>4 DEF AtRoom
<1>14. Phase(p)'
  <2>1. CASE Arriving(p)
    <3>1. Arriving(p)'
      BY <1>10, <1>11, <1>12, <1>13, <2>1 DEF Arriving
    <3>. QED  BY <3>1 DEF Phase
  <2>2. CASE Staying(p)
    <3>1. Staying(p)'
      BY <1>10, <1>11, <1>12, <1>13, <2>2 DEF Staying
    <3>. QED  BY <3>1 DEF Phase
  <2>. QED  BY <1>3, <2>1, <2>2
<1>15. Phases'
  BY <1>9, <1>11, <1>14, OthersStay DEF Calm
<1>16. Profiled' /\ Stacked'
  BY <1>7 DEF Calm, Profiled, Stacked, profileVars
<1>. QED  BY <1>15, <1>16 DEF Calm

LEMMA HearsKeepCalm ==
    ASSUME PagesSound, Calm, NEW p \in Players, Hears(p)
    PROVE  Calm'
<1>1. ~ProfileRead(p)
  BY DEF ProfileRead, Calm, Profiled
<1>. QED  BY <1>1, UpdatedKeepsCalm, DeliveryKeepsCalm DEF Hears

----------------------------------------------------------------------------
(* A call of a patient player goes on.                                     *)

LEMMA CallerIsPlayer ==
    ASSUME PagesSound, NEW k \in CallIDs, calls[k] # NoCall
    PROVE  calls[k] \in Store!Call /\ calls[k].player \in Players /\ CallOf(calls[k].player, k)
BY StoreTypes DEF PagesSound, CallOf, Store!Call

LEMMA CallMoved ==
    ASSUME PagesSound, Calm, NEW p \in Players, NEW k \in CallIDs, CallOf(p, k),
           NEW call, calls' = [calls EXCEPT ![k] = call],
           call # NoCall => call.player = p
    PROVE  /\ OthersCalls(p)
           /\ calls'[k] = call
           /\ call = NoCall => NoCallOf(p)'
           /\ call # NoCall => OnlyCallOf(p, k)'
<1>1. OnlyCallOf(p, k)
  BY CallerPhase DEF Calm
<1>2. calls \in [CallIDs -> Store!Call \union {NoCall}]
  BY CallsTyped DEF PagesSound
<1>3. /\ \A j \in CallIDs : CallOf(p, j) => j = k
      /\ calls[k] = NoCall \/ calls[k].player = p
  BY <1>1 DEF OnlyCallOf, CallOf
<1>. QED  BY <1>2, <1>3, OneCallMoves

LEMMA PagesStand ==
    ASSUME UNCHANGED <<pageVars, profileVars, roomVars>>
    PROVE  /\ \A p \in Players : OthersPages(p)
           /\ \A p : /\ currentPage'[p] = currentPage[p] /\ playerProfile'[p] = playerProfile[p]
                     /\ NoUpdate(p) => NoUpdate(p)'
                     /\ \A r : OnlyUpdate(p, r) => OnlyUpdate(p, r)'
                     /\ \A r : AtRoom(p, r) => AtRoom(p, r)'
           /\ Stacked => Stacked'
           /\ Profiled => Profiled'
<1>1. /\ currentPage' = currentPage /\ playerProfile' = playerProfile /\ updates' = updates
      /\ userGameRoom' = userGameRoom /\ heard' = heard /\ lastPageStack' = lastPageStack
      /\ reading' = reading /\ playerDoc' = playerDoc
  BY DEF pageVars, profileVars, roomVars
<1>. QED  BY <1>1 DEF OthersPages, NoUpdate, OnlyUpdate, AtRoom, Stacked, Profiled

\* Answered, a call is what it was, with its answer.
LEMMA AnsweredCall ==
    ASSUME NEW call \in Store!Call, NEW answered,
           \/ \E unexist \in BOOLEAN :
                 answered = [call EXCEPT !.stage = "answered", !.unexist = unexist]
           \/ \E snap \in Store!LiveRoom \union {NoDoc} :
                 answered = [call EXCEPT !.stage = "answered", !.snap = snap]
    PROVE  /\ answered # NoCall
           /\ answered.op = call.op /\ answered.player = call.player /\ answered.target = call.target
<1>1. answered \in Store!Call
  BY DEF Store!Call
<1>2. answered.op = call.op /\ answered.player = call.player /\ answered.target = call.target
  BY DEF Store!Call
<1>3. NoCall \notin Store!Call
  BY PagesAssumption DEF PagesAssumption
<1>. QED  BY <1>1, <1>2, <1>3

LEMMA AnswerKeepsCalm ==
    ASSUME PagesSound, Calm, NEW k \in CallIDs, Store!SearchAnswered(k) \/ Store!DocumentAnswered(k),
           UNCHANGED <<pageVars, profileVars, roomVars>>
    PROVE  Calm'
<1>1. calls[k] # NoCall /\ UNCHANGED rooms
  BY DEF Store!SearchAnswered, Store!DocumentAnswered, Store!UnderWay
<1>2. PICK p \in Players : calls[k] \in Store!Call /\ calls[k].player = p /\ CallOf(p, k)
  BY <1>1, CallerIsPlayer
<1>3. PICK call : /\ calls' = [calls EXCEPT ![k] = call] /\ call # NoCall
                  /\ call.op = calls[k].op /\ call.player = p /\ call.target = calls[k].target
  <2>1. CASE Store!SearchAnswered(k)
    <3>1. PICK unexist \in BOOLEAN :
             calls' = [calls EXCEPT ![k].stage = "answered", ![k].unexist = unexist]
      BY <2>1 DEF Store!SearchAnswered, Store!Exists
    <3>2. PICK answered : answered = [calls[k] EXCEPT !.stage = "answered", !.unexist = unexist]
      OBVIOUS
    <3>3. calls' = [calls EXCEPT ![k] = answered]
      <4>1. calls \in [CallIDs -> Store!Call \union {NoCall}]
        BY CallsTyped DEF PagesSound
      <4>. QED  BY <1>2, <3>1, <3>2, <4>1
    <3>. QED  BY <1>2, <3>2, <3>3, AnsweredCall
  <2>2. CASE Store!DocumentAnswered(k)
    <3>1. PICK snap \in Store!LiveRoom \union {NoDoc} :
             calls' = [calls EXCEPT ![k].stage = "answered", ![k].snap = snap]
      <4>1. rooms \in [RoomIDs -> Store!Room \union {NoDoc}]
        BY StoreTypes DEF PagesSound
      <4>2. Store!Found(calls[k].target) \subseteq Store!LiveRoom
        BY <4>1 DEF Store!Found, Store!LiveRoom, Store!Exists
      <4>. QED  BY <2>2, <4>2 DEF Store!DocumentAnswered
    <3>2. PICK answered : answered = [calls[k] EXCEPT !.stage = "answered", !.snap = snap]
      OBVIOUS
    <3>3. calls' = [calls EXCEPT ![k] = answered]
      <4>1. calls \in [CallIDs -> Store!Call \union {NoCall}]
        BY CallsTyped DEF PagesSound
      <4>. QED  BY <1>2, <3>1, <3>2, <4>1
    <3>. QED  BY <1>2, <3>2, <3>3, AnsweredCall
  <2>. QED  BY <2>1, <2>2
<1>4. OthersCalls(p) /\ calls'[k] = call /\ OnlyCallOf(p, k)'
  BY <1>2, <1>3, CallMoved
<1>5. OthersPages(p) /\ Stacked' /\ Profiled'
  BY <1>2, PagesStand DEF Calm
<1>6. OthersRooms(p) /\ \A r : InOnly(p, r)' <=> InOnly(p, r)
  BY <1>1, RoomsStand DEF OthersRooms, InOnly
<1>7. Phase(p)'
  BY <1>2, <1>3, <1>4, <1>6, PagesStand, CallerPhase
     DEF Calm, Phase, Outside, Seeking, Staying, On
<1>8. Phases'
  BY <1>2, <1>4, <1>5, <1>6, <1>7, OthersStay DEF Calm
<1>. QED  BY <1>5, <1>8 DEF Calm

\* The key is found and the room read, or the player is told that there is none.
LEMMA KeyKeepsCalm ==
    ASSUME PagesSound, Calm, NEW k \in CallIDs, Store!ShareKeyAnswered(k),
           UNCHANGED <<pageVars, profileVars, roomVars>>
    PROVE  Calm'
<1>1. calls[k] # NoCall /\ calls[k].op = "find" /\ UNCHANGED rooms
  BY DEF Store!ShareKeyAnswered, Store!UnderWay
<1>2. PICK p \in Players : calls[k] \in Store!Call /\ calls[k].player = p /\ CallOf(p, k)
  BY <1>1, CallerIsPlayer
<1>3. PICK call : /\ calls' = [calls EXCEPT ![k] = call]
                  /\ call # NoCall => call.op = "join" /\ call.player = p
  <2>1. "join" \in {"search", "find"} \union Store!DocumentReads
    BY DEF Store!DocumentReads
  <2>. QED  BY <1>2, <2>1, AskedIsCall DEF Store!ShareKeyAnswered, Store!Returns
<1>4. /\ OthersCalls(p) /\ calls'[k] = call
      /\ call = NoCall => NoCallOf(p)'
      /\ call # NoCall => OnlyCallOf(p, k)'
  BY <1>2, <1>3, CallMoved
<1>5. OthersPages(p) /\ Stacked' /\ Profiled'
  BY <1>2, PagesStand DEF Calm
<1>6. OthersRooms(p) /\ \A r : InOnly(p, r)' <=> InOnly(p, r)
  BY <1>1, RoomsStand DEF OthersRooms, InOnly
<1>7. On(p, "GameCreateJoinRoomPage") /\ NoUpdate(p) /\ playerProfile[p] = NoRoom /\ InOnly(p, NoRoom)
  BY <1>1, <1>2, CallerPhase DEF Calm
<1>8. On(p, "GameCreateJoinRoomPage")' /\ NoUpdate(p)' /\ playerProfile'[p] = NoRoom /\ InOnly(p, NoRoom)'
  BY <1>6, <1>7, PagesStand DEF On
<1>9. Phase(p)'
  BY <1>3, <1>4, <1>8 DEF Phase, Outside, Seeking, On, Outdoors
<1>10. Phases'
  BY <1>2, <1>4, <1>5, <1>6, <1>9, OthersStay DEF Calm
<1>. QED  BY <1>5, <1>10 DEF Calm

----------------------------------------------------------------------------
(* The callbacks of a patient player's calls.                              *)

\* Patient players never wait in vain: what is read of a room a player is in is
\* the room.
LEMMA ReadsFind ==
    ASSUME ReadsSucceed, NEW k \in CallIDs, NEW op \in Store!DocumentReads,
           Store!UnderWay(k, op, "answered"), NEW p \in Players, In(p, calls[k].target)
    PROVE  calls[k].snap # NoDoc
BY DEF ReadsSucceed, Store!UnderWay, In, StoreProofs!InRoom, StoreProofs!Exists, Store!Exists

\* The new room is the one its owner is in.
LEMMA AddKeepsCalm ==
    ASSUME PagesSound, StoreProofs!OrderlyInv, Calm, NEW k \in CallIDs, NEW r \in RoomIDs,
           Store!AddDocument(k, r), UNCHANGED <<pageVars, profileVars, roomVars>>
    PROVE  Calm'
<1>1. /\ calls[k] # NoCall /\ calls[k].op = "search"
      /\ calls' = [calls EXCEPT ![k] = Store!Asked("confirm", calls[k].player, r)]
  BY DEF Store!AddDocument, Store!UnderWay
<1>2. PICK p \in Players : calls[k] \in Store!Call /\ calls[k].player = p /\ CallOf(p, k)
  BY <1>1, CallerIsPlayer
<1>3. PICK call : /\ calls' = [calls EXCEPT ![k] = call] /\ call # NoCall
                  /\ call.op = "confirm" /\ call.player = p /\ call.target = r
  <2>1. "confirm" \in {"search", "find"} \union Store!DocumentReads
    BY DEF Store!DocumentReads
  <2>2. PICK call : call = Store!Asked("confirm", p, r)
    OBVIOUS
  <2>3. calls' = [calls EXCEPT ![k] = call]
    BY <1>1, <1>2, <2>2
  <2>4. call # NoCall /\ call.op = "confirm" /\ call.player = p /\ call.target = r
    BY <2>1, <2>2, AskedIsCall
  <2>. QED  BY <2>3, <2>4
<1>4. OthersCalls(p) /\ calls'[k] = call /\ OnlyCallOf(p, k)'
  BY <1>2, <1>3, CallMoved
<1>5. OthersPages(p) /\ Stacked' /\ Profiled'
  BY <1>2, PagesStand DEF Calm
<1>6. On(p, "GameCreateJoinRoomPage") /\ NoUpdate(p) /\ playerProfile[p] = NoRoom /\ InOnly(p, NoRoom)
  BY <1>1, <1>2, CallerPhase DEF Calm
<1>7. \A q \in Players, s \in RoomIDs : In(q, s)' <=> In(q, s) \/ (q = p /\ s = r)
  <2>1. StoreProofs!AddDocument(k, r)
    BY SameAnswers
  <2>. QED  BY <1>2, <2>1, StoreAssumed, StoreProofs!MembersAfterAdd DEF In
<1>8. OthersRooms(p) /\ InOnly(p, r)'
  BY <1>6, <1>7, PagesAssumption DEF OthersRooms, InOnly, PagesAssumption
<1>9. On(p, "GameCreateJoinRoomPage")' /\ NoUpdate(p)' /\ playerProfile'[p] = NoRoom
  BY <1>6, PagesStand DEF On
<1>10. Phase(p)'
  BY <1>3, <1>4, <1>8, <1>9 DEF Phase, Seeking
<1>11. Phases'
  BY <1>2, <1>4, <1>5, <1>8, <1>10, OthersStay DEF Calm
<1>. QED  BY <1>5, <1>11 DEF Calm

\* Whoever quits was in the room, and is in none then.
LEMMA QuitKeepsCalm ==
    ASSUME PagesSound, StoreProofs!OrderlyInv, ReadsSucceed, Calm, NEW k \in CallIDs,
           Store!QuitReturns(k), UNCHANGED <<pageVars, profileVars, roomVars>>
    PROVE  Calm'
<1>1. /\ Store!UnderWay(k, "quit", "answered") /\ calls[k] # NoCall /\ calls[k].op = "quit"
      /\ calls' = [calls EXCEPT ![k] = NoCall]
  BY DEF Store!QuitReturns, Store!UnderWay, Store!Returns
<1>2. PICK p \in Players : calls[k] \in Store!Call /\ calls[k].player = p /\ CallOf(p, k)
  BY <1>1, CallerIsPlayer
<1>3. OthersCalls(p) /\ NoCallOf(p)'
  BY <1>1, <1>2, CallMoved
<1>4. OthersPages(p) /\ Stacked' /\ Profiled'
  BY <1>2, PagesStand DEF Calm
<1>5. /\ InOnly(p, calls[k].target) /\ currentPage[p] \in Outdoors
      /\ (NoUpdate(p) /\ playerProfile[p] = NoRoom) \/ OnlyUpdate(p, NoRoom)
  BY <1>1, <1>2, CallerPhase DEF Calm
<1>6. calls[k].target \in RoomIDs
  BY <1>1, StoreTypes DEF PagesSound, Store!DocumentReads
<1>7. \A q \in Players, s \in RoomIDs : In(q, s)' <=> In(q, s) /\ ~(q = p /\ s = calls[k].target)
  <2>1. In(p, calls[k].target)
    BY <1>5, <1>6 DEF InOnly
  <2>2. calls[k].snap # NoDoc
    BY <1>1, <2>1, ReadsFind DEF Store!DocumentReads
  <2>3. StoreProofs!QuitReturns(k)
    BY SameReturns
  <2>. QED  BY <1>2, <2>2, <2>3, StoreAssumed, StoreProofs!MembersAfterQuit DEF In
<1>8. OthersRooms(p) /\ InOnly(p, NoRoom)'
  BY <1>5, <1>7, PagesAssumption DEF OthersRooms, InOnly, PagesAssumption
<1>9. /\ currentPage'[p] \in Outdoors
      /\ (NoUpdate(p)' /\ playerProfile'[p] = NoRoom) \/ OnlyUpdate(p, NoRoom)'
  BY <1>5, PagesStand
<1>10. Phase(p)'
  BY <1>3, <1>8, <1>9 DEF Phase, Outside
<1>11. Phases'
  BY <1>2, <1>3, <1>4, <1>8, <1>10, OthersStay DEF Calm
<1>. QED  BY <1>4, <1>11 DEF Calm

\* The owner's room begins; he is in it as before.
LEMMA BeginKeepsCalm ==
    ASSUME PagesSound, StoreProofs!OrderlyInv, Calm, NEW k \in CallIDs, StartCompletes(k)
    PROVE  Calm'
<1>1. /\ calls[k] # NoCall /\ calls[k].op = "update" /\ calls' = [calls EXCEPT ![k] = NoCall]
      /\ UNCHANGED <<pageVars, profileVars, roomListener, heard>> /\ Store!UpdateReturns(k)
  BY DEF StartCompletes, Store!UpdateReturns, Store!UnderWay, Store!Returns
<1>2. PICK p \in Players : calls[k] \in Store!Call /\ calls[k].player = p /\ CallOf(p, k)
  BY <1>1, CallerIsPlayer
<1>3. OthersCalls(p) /\ NoCallOf(p)'
  BY <1>1, <1>2, CallMoved
<1>4. PICK r \in RoomIDs : /\ calls[k].target = r /\ AtRoom(p, r) /\ InOnly(p, r)
                           /\ NoUpdate(p) /\ playerProfile[p] = r
  BY <1>1, <1>2, CallerPhase DEF Calm
<1>5. /\ userGameRoom'[p] # NoDoc /\ userGameRoom'[p].id = r
      /\ \A q \in Players \ {p} : userGameRoom'[q] = userGameRoom[q]
  <2>1. userGameRoom \in [Players -> ShownRoom \union {NoDoc}]
    BY DEF PagesSound, PagesInv, TypeOK
  <2>2. CASE calls[k].snap = NoDoc
    BY <1>4, <2>2 DEF StartCompletes, AtRoom
  <2>3. CASE calls[k].snap # NoDoc
    <3> DEFINE shown == Shown(r, Store!Running(calls[k].snap))
    <3>1. calls[k].snap \in Store!Room
      BY <1>1, <2>3, StoreTypes DEF PagesSound
    <3>2. shown \in ShownRoom /\ shown.id = r
      BY <3>1 DEF Shown, ShownRoom, Store!Running, Store!Room
    <3>3. shown # NoDoc
      BY <3>2, PagesAssumption DEF PagesAssumption
    <3>4. userGameRoom' = [userGameRoom EXCEPT ![p] = shown]
      BY <1>2, <1>4, <2>3 DEF StartCompletes
    <3> HIDE DEF shown
    <3>. QED  BY <2>1, <3>2, <3>3, <3>4
  <2>. QED  BY <2>2, <2>3
<1>6. OthersPages(p) /\ AtRoom(p, r)' /\ NoUpdate(p)' /\ playerProfile'[p] = r
  BY <1>1, <1>4, <1>5 DEF OthersPages, AtRoom, NoUpdate, pageVars, profileVars
<1>7. \A q \in Players, s \in RoomIDs : In(q, s)' <=> In(q, s)
  <2>1. StoreProofs!UpdateReturns(k)
    BY <1>1, SameReturns
  <2>. QED  BY <2>1, StoreAssumed, StoreProofs!MembersAfterUpdate DEF In
<1>8. OthersRooms(p) /\ InOnly(p, r)'
  BY <1>4, <1>7 DEF OthersRooms, InOnly
<1>9. Phase(p)'
  BY <1>3, <1>6, <1>8 DEF Phase, Staying
<1>10. Phases'
  BY <1>3, <1>6, <1>8, <1>9, OthersStay DEF Calm
<1>11. Stacked' /\ Profiled'
  BY <1>1 DEF Calm, Stacked, Profiled, pageVars, profileVars
<1>. QED  BY <1>10, <1>11 DEF Calm

\* A player outside comes into a room, whose wait page appears.
LEMMA EntersKeepsCalm ==
    ASSUME PagesSound, Calm, NEW p \in Players, NEW r \in RoomIDs, NEW room \in Store!Room,
           On(p, "GameCreateJoinRoomPage"), NoUpdate(p), Enters(p, r, room),
           OthersCalls(p), NoCallOf(p)', OthersRooms(p), InOnly(p, r)'
    PROVE  Calm'
<1>1. TypeOK /\ Stacked /\ PagesInv
  BY DEF PagesSound, PagesInv, Calm
<1>2. currentPage[p] \in Outdoors /\ ~On(p, "GameRoomWaitPage") /\ "GameRoomWaitPage" \in Pages
  BY DEF On, Outdoors, Pages
<1>3. Stacked' /\ currentPage' = [currentPage EXCEPT ![p] = "GameRoomWaitPage"]
  BY <1>1, <1>2, StackForward DEF Enters
<1>4. OnlyUpdate(p, r)' /\ \A q \in Players \ {p} : updates'[q] = updates[q]
  BY <1>1, OneUpdateAsked DEF Enters
<1>5. /\ userGameRoom' = [userGameRoom EXCEPT ![p] = Shown(r, room)]
      /\ heard' = [heard EXCEPT ![p][r] = NoDoc]
      /\ UNCHANGED <<playerProfile, playerDoc, reading>>
  BY <1>2 DEF Enters
<1>6. Shown(r, room) # NoDoc /\ Shown(r, room).id = r
  <2>1. Shown(r, room) \in ShownRoom
    BY DEF Shown, ShownRoom, Store!Room
  <2>. QED  BY <2>1, PagesAssumption DEF Shown, PagesAssumption
<1>7. \A s \in RoomIDs : heard'[p][s] # NoListener => s = r
  <2>1. \A s \in RoomIDs : heard[p][s] = NoListener
    BY <1>1, <1>2, OutdoorsQuiet
  <2>. QED  BY <1>1, <1>5, <2>1 DEF TypeOK
<1>8. AtRoom(p, r)'
  BY <1>1, <1>3, <1>5, <1>6, <1>7 DEF AtRoom, TypeOK, InGame
<1>9. OthersPages(p)
  BY <1>1, <1>3, <1>4, <1>5 DEF OthersPages, TypeOK
<1>10. Phase(p)'
  BY <1>4, <1>8 DEF Phase, Arriving
<1>11. Phases'
  BY <1>9, <1>10, OthersStay DEF Calm
<1>12. Profiled'
  BY <1>5 DEF Calm, Profiled
<1>. QED  BY <1>3, <1>11, <1>12 DEF Calm

\* createGameRoom completes with the room its player is in by now.
LEMMA CreatedKeepsCalm ==
    ASSUME PagesSound, StoreProofs!OrderlyInv, ReadsSucceed, Calm, NEW k \in CallIDs,
           Completes(k), Store!CreateReturns(k)
    PROVE  Calm'
<1>1. /\ Store!UnderWay(k, "confirm", "answered") /\ calls[k] # NoCall /\ calls[k].op = "confirm"
      /\ calls' = [calls EXCEPT ![k] = NoCall] /\ UNCHANGED rooms
  BY DEF Store!CreateReturns, Store!UnderWay, Store!Returns
<1>2. PICK p \in Players : calls[k] \in Store!Call /\ calls[k].player = p /\ CallOf(p, k)
  BY <1>1, CallerIsPlayer
<1>3. OthersCalls(p) /\ NoCallOf(p)'
  BY <1>1, <1>2, CallMoved
<1>4. On(p, "GameCreateJoinRoomPage") /\ NoUpdate(p) /\ InOnly(p, calls[k].target)
  BY <1>1, <1>2, CallerPhase DEF Calm
<1>5. PICK r \in RoomIDs : calls[k].target = r
  BY <1>1, StoreTypes DEF PagesSound, Store!DocumentReads
<1>6. OthersRooms(p) /\ InOnly(p, r)'
  BY <1>1, <1>4, <1>5, RoomsStand DEF OthersRooms, InOnly
<1>7. PICK room \in Store!Room : room = calls[k].snap /\ room # NoDoc
  <2>1. In(p, r)
    BY <1>4, <1>5 DEF InOnly
  <2>2. calls[k].snap # NoDoc
    BY <1>1, <1>5, <2>1, ReadsFind DEF Store!DocumentReads
  <2>. QED  BY <1>1, <2>2, StoreTypes DEF PagesSound
<1>8. Enters(p, r, room)
  <2>1. RoomEntered(k) = room
    BY <1>1, <1>7 DEF RoomEntered, Store!Completion
  <2>. QED  BY <1>2, <1>5, <1>7, <2>1 DEF Completes
<1>. QED  BY <1>3, <1>4, <1>6, <1>8, EntersKeepsCalm

\* joinGameRoom completes with the room its player is in now, or he stays outside.
LEMMA JoinedKeepsCalm ==
    ASSUME PagesSound, StoreProofs!OrderlyInv, Calm, NEW k \in CallIDs,
           Completes(k), Store!JoinReturns(k)
    PROVE  Calm'
<1>1. /\ calls[k] # NoCall /\ calls[k].op = "join" /\ calls' = [calls EXCEPT ![k] = NoCall]
  BY DEF Store!JoinReturns, Store!UnderWay, Store!Returns
<1>2. PICK p \in Players : calls[k] \in Store!Call /\ calls[k].player = p /\ CallOf(p, k)
  BY <1>1, CallerIsPlayer
<1>3. OthersCalls(p) /\ NoCallOf(p)'
  BY <1>1, <1>2, CallMoved
<1>4. On(p, "GameCreateJoinRoomPage") /\ NoUpdate(p) /\ playerProfile[p] = NoRoom /\ InOnly(p, NoRoom)
  BY <1>1, <1>2, CallerPhase DEF Calm
<1>5. PICK r \in RoomIDs : calls[k].target = r
  BY <1>1, StoreTypes DEF PagesSound, Store!DocumentReads
<1>6. PICK room : room = RoomEntered(k)
  OBVIOUS
<1>7. \A q \in Players, s \in RoomIDs :
         In(q, s)' <=> In(q, s) \/ (room # NoDoc /\ q = p /\ s = r)
  <2>1. StoreProofs!JoinReturns(k)
    BY SameReturns
  <2>2. room = StoreProofs!Completion(calls[k])
    BY <1>6, SameCompletion
  <2>3. ~In(p, r)
    BY <1>4, PagesAssumption DEF InOnly, PagesAssumption
  <2>. QED  BY <1>2, <1>5, <2>1, <2>2, <2>3, StoreAssumed, StoreProofs!MembersAfterJoin DEF In
<1>8. OthersRooms(p)
  BY <1>7 DEF OthersRooms
<1>9. CASE room = NoDoc
  <2>1. UNCHANGED <<pageVars, profileVars, roomVars>>
    BY <1>6, <1>9 DEF Completes
  <2>2. InOnly(p, NoRoom)'
    BY <1>4, <1>7, <1>9 DEF InOnly
  <2>3. /\ OthersPages(p) /\ Stacked' /\ Profiled'
        /\ On(p, "GameCreateJoinRoomPage")' /\ NoUpdate(p)' /\ playerProfile'[p] = NoRoom
    BY <1>4, <2>1, PagesStand DEF Calm, On
  <2>4. Phase(p)'
    BY <1>3, <2>2, <2>3 DEF Phase, Outside, On, Outdoors
  <2>5. Phases'
    BY <1>3, <1>8, <2>3, <2>4, OthersStay DEF Calm
  <2>. QED  BY <2>3, <2>5 DEF Calm
<1>10. CASE room # NoDoc
  <2>1. InOnly(p, r)'
    BY <1>4, <1>7, <1>10, PagesAssumption DEF InOnly, PagesAssumption
  <2>2. Enters(p, r, room)
    BY <1>2, <1>5, <1>6, <1>10 DEF Completes
  <2>3. room \in Store!Room
    BY <1>6, <1>10, EnteredRoom DEF PagesSound
  <2>. QED  BY <1>3, <1>4, <1>8, <2>1, <2>2, <2>3, EntersKeepsCalm
<1>. QED  BY <1>9, <1>10

LEMMA CallStepKeepsCalm ==
    ASSUME PagesSound, StoreProofs!OrderlyInv, ReadsSucceed, Calm, NEW k \in CallIDs, CallStep(k)
    PROVE  Calm'
<1>1. CASE Proceeds(k)
  BY <1>1, AnswerKeepsCalm, KeyKeepsCalm, AddKeepsCalm, QuitKeepsCalm DEF Proceeds
<1>2. CASE Completes(k)
  BY <1>2, CreatedKeepsCalm, JoinedKeepsCalm DEF Completes
<1>3. CASE StartCompletes(k)
  BY <1>3, BeginKeepsCalm
<1>. QED  BY <1>1, <1>2, <1>3 DEF CallStep

----------------------------------------------------------------------------
(* The discipline keeps the calls orderly, and the invariant inductive.     *)

LEMMA StutterKeepsCalm ==
    ASSUME Calm, UNCHANGED vars
    PROVE  Calm'
<1>1. UNCHANGED <<pageVars, profileVars, roomVars>> /\ UNCHANGED rooms /\ UNCHANGED calls
  BY DEF vars, storeVars
<1>2. Stacked' /\ Profiled'
  BY <1>1, PagesStand DEF Calm
<1>3. ASSUME NEW p \in Players PROVE Phase(p)'
  <2>1. OthersPages(p) /\ OthersCalls(p)
    BY <1>1, PagesStand DEF CallOf, OthersCalls
  <2>2. OthersRooms(p) /\ \A r : InOnly(p, r)' <=> InOnly(p, r)
    BY <1>1, RoomsStand DEF OthersRooms, InOnly
  <2>3. /\ NoCallOf(p) => NoCallOf(p)'
        /\ \A k \in CallIDs : OnlyCallOf(p, k) => OnlyCallOf(p, k)'
    BY <1>1 DEF CallOf, NoCallOf, OnlyCallOf
  <2>4. CASE Outside(p)
    <3>1. Outside(p)'
      BY <1>1, <2>2, <2>3, <2>4, PagesStand DEF Outside
    <3>. QED  BY <3>1 DEF Phase
  <2>5. CASE Seeking(p)
    <3>1. Seeking(p)'
      BY <1>1, <2>2, <2>3, <2>5, PagesStand DEF Seeking, On
    <3>. QED  BY <3>1 DEF Phase
  <2>6. CASE Arriving(p)
    <3>1. Arriving(p)'
      BY <1>1, <2>2, <2>3, <2>6, PagesStand DEF Arriving
    <3>. QED  BY <3>1 DEF Phase
  <2>7. CASE Staying(p)
    <3>1. Staying(p)'
      BY <1>1, <2>2, <2>3, <2>7, PagesStand DEF Staying
    <3>. QED  BY <3>1 DEF Phase
  <2>. QED  BY <2>4, <2>5, <2>6, <2>7 DEF Calm, Phases, Phase
<1>4. Phases'
  BY <1>3 DEF Phases
<1>. QED  BY <1>2, <1>4 DEF Calm

\* Only members quit.
LEMMA QuittersInside == PagesSound /\ Calm => StoreProofs!QuittersAreMembers
<1> SUFFICES ASSUME PagesSound, Calm, NEW k \in CallIDs, calls[k] # NoCall, calls[k].op = "quit"
             PROVE  StoreProofs!InRoom(calls[k].player, calls[k].target)
  BY DEF StoreProofs!QuittersAreMembers, StoreProofs!InRoom
<1>1. PICK p \in Players : calls[k].player = p /\ CallOf(p, k)
  BY CallerIsPlayer
<1>2. InOnly(p, calls[k].target)
  BY <1>1, CallerPhase DEF Calm
<1>3. calls[k].target \in RoomIDs
  BY StoreTypes DEF PagesSound, Store!DocumentReads
<1>. QED  BY <1>1, <1>2, <1>3 DEF InOnly, In

LEMMA PatientSteps ==
    ASSUME PatientInv, [PatientNext]_vars
    PROVE  /\ [Next]_vars /\ Calm' /\ ReadsSucceed'
           /\ StoreProofs!OneCallPerRoom'
<1>1. PagesSound /\ StoreProofs!OrderlyInv /\ ReadsSucceed /\ Calm /\ Store!OneCallPerRoom
  BY DEF PatientInv, StoreProofs!OrderlyInv, StoreProofs!Orderly, StoreProofs!OneCallPerRoom,
         Store!OneCallPerRoom
<1>2. Store!OneCallPerRoom' => StoreProofs!OneCallPerRoom'
  BY DEF StoreProofs!OneCallPerRoom, Store!OneCallPerRoom
<1>3. UNCHANGED <<rooms, calls>> => ReadsSucceed' /\ Store!OneCallPerRoom'
  BY <1>1 DEF ReadsSucceed, Store!OneCallPerRoom, Store!Exists
<1>4. CASE UNCHANGED vars
  BY <1>1, <1>2, <1>3, <1>4, StutterKeepsCalm DEF vars, storeVars
<1>5. ASSUME NEW p \in Players, Quiet(p), Disciplined(Acts(p))
      PROVE  Next /\ Calm' /\ ReadsSucceed' /\ Store!OneCallPerRoom'
  BY <1>1, <1>5, ActsKeepCalm DEF Disciplined, Next
<1>6. ASSUME NEW p \in Players, Hears(p)
      PROVE  Next /\ Calm' /\ ReadsSucceed' /\ Store!OneCallPerRoom'
  <2>1. UNCHANGED <<rooms, calls>>
    BY <1>6 DEF Hears, ProfileRead, PlayerUpdated, RoomDelivered, RemovalDelivered, storeVars
  <2>. QED  BY <1>1, <1>3, <1>6, <2>1, HearsKeepCalm DEF Next
<1>7. ASSUME NEW k \in CallIDs, Disciplined(CallStep(k))
      PROVE  Next /\ Calm' /\ ReadsSucceed' /\ Store!OneCallPerRoom'
  BY <1>1, <1>7, CallStepKeepsCalm DEF Disciplined, Next
<1>. QED  BY <1>2, <1>4, <1>5, <1>6, <1>7 DEF PatientNext

LEMMA NextKeepsPatient ==
    PatientInv /\ [PatientNext]_vars
        => PatientInv' /\ [StoreProofs!Next /\ StoreProofs!Orderly']_storeVars
<1> SUFFICES ASSUME PatientInv, [PatientNext]_vars
             PROVE  PatientInv' /\ [StoreProofs!Next /\ StoreProofs!Orderly']_storeVars
  OBVIOUS
<1>1. /\ [Next]_vars /\ Calm' /\ ReadsSucceed'
      /\ StoreProofs!OneCallPerRoom'
  BY PatientSteps
<1>2. PagesSound'
  BY <1>1, NextKeepsPages DEF PatientInv
<1>3. StoreProofs!QuittersAreMembers'
  <2>1. (PagesSound /\ Calm)' => StoreProofs!QuittersAreMembers'
    BY QuittersInside, PTL
  <2>. QED  BY <1>1, <1>2, <2>1
<1>4. [StoreProofs!Next /\ StoreProofs!Orderly']_storeVars
  BY <1>1, <1>3, NextUsesStore DEF PatientInv, PagesSound, StoreProofs!Orderly
<1>5. StoreProofs!OrderlyInv'
  <2>1. [StoreProofs!Next /\ StoreProofs!Orderly']_StoreProofs!storeVars
    BY <1>4 DEF storeVars, StoreProofs!storeVars
  <2>. QED  BY <2>1, StoreAssumed, StoreProofs!OrderlyStep DEF PatientInv
<1>. QED  BY <1>1, <1>2, <1>4, <1>5 DEF PatientInv

LEMMA InitPatient == Init => PatientInv
<1> SUFFICES ASSUME Init PROVE PatientInv
  OBVIOUS
<1>1. PagesSound /\ StoreProofs!Init
  BY InitPages DEF Init, Store!Init, StoreProofs!Init
<1>2. StoreProofs!OrderlyInv
  BY <1>1, StoreAssumed, StoreProofs!OrderlyInit
<1>3. ReadsSucceed
  BY DEF Init, Store!Init, ReadsSucceed
<1>4. Stacked /\ Profiled
  BY DEF Init, Stacked, Profiled
<1>5. ASSUME NEW p \in Players PROVE Phase(p)
  <2>1. NoCallOf(p) /\ NoUpdate(p) /\ currentPage[p] \in Outdoors /\ playerProfile[p] = NoRoom
    BY <1>5 DEF Init, Store!Init, CallOf, NoCallOf, NoUpdate, Outdoors
  <2>2. InOnly(p, NoRoom)
    BY PagesAssumption
       DEF Init, Store!Init, InOnly, In, StoreProofs!InRoom, StoreProofs!Exists, PagesAssumption
  <2>. QED  BY <2>1, <2>2 DEF Phase, Outside
<1>6. Calm
  BY <1>4, <1>5 DEF Calm, Phases
<1>. QED  BY <1>1, <1>2, <1>3, <1>6 DEF PatientInv

LEMMA PatientInvariance == PatientSpec => []PatientInv
BY InitPatient, NextKeepsPatient, PTL DEF PatientSpec

----------------------------------------------------------------------------
(* RoomMembership seen from the pages.                                     *)

\* What RoomMembership sees of the store is the same from here and from the proofs.
LEMMA SameMembership ==
    /\ Store!statusOf = StoreProofs!statusOf /\ Store!membersOf = StoreProofs!membersOf
    /\ Store!ownerOf = StoreProofs!ownerOf /\ Store!runningOf = StoreProofs!runningOf
BY DEF Store!statusOf, StoreProofs!statusOf, Store!membersOf, StoreProofs!membersOf,
       Store!ownerOf, StoreProofs!ownerOf, Store!runningOf, StoreProofs!runningOf,
       Store!Exists, StoreProofs!Exists, Store!Range, StoreProofs!Range

LEMMA SameMembershipInit == StoreProofs!RM!Init => Store!RM!Init
BY SameMembership DEF StoreProofs!RM!Init, Store!RM!Init

\* A step of the one is a step of the other.
LEMMA SameMembershipStep == StoreProofs!RMStep => [Store!RM!Next]_Store!RM!vars
<1>1. Store!statusOf' = StoreProofs!statusOf' /\ Store!membersOf' = StoreProofs!membersOf'
      /\ Store!ownerOf' = StoreProofs!ownerOf' /\ Store!runningOf' = StoreProofs!runningOf'
  BY DEF Store!statusOf, StoreProofs!statusOf, Store!membersOf, StoreProofs!membersOf,
         Store!ownerOf, StoreProofs!ownerOf, Store!runningOf, StoreProofs!runningOf,
         Store!Exists, StoreProofs!Exists, Store!Range, StoreProofs!Range
<1>2. ASSUME NEW r \in RoomIDs,
             \/ \E p \in Players : \/ StoreProofs!RM!Open(r, p) \/ StoreProofs!RM!Enter(r, p)
                                  \/ StoreProofs!RM!Leave(r, p) \/ StoreProofs!RM!Close(r, p)
             \/ StoreProofs!RM!Start(r)
      PROVE  Store!RM!Next
  <2>1. ASSUME NEW p \in Players, StoreProofs!RM!Open(r, p) PROVE Store!RM!Open(r, p)
    BY <1>1, SameMembership, <2>1 DEF StoreProofs!RM!Open, Store!RM!Open
  <2>2. ASSUME NEW p \in Players, StoreProofs!RM!Enter(r, p) PROVE Store!RM!Enter(r, p)
    BY <1>1, SameMembership, <2>2 DEF StoreProofs!RM!Enter, Store!RM!Enter,
       StoreProofs!RM!Cardinality, Store!RM!Cardinality
  <2>3. ASSUME NEW p \in Players, StoreProofs!RM!Leave(r, p) PROVE Store!RM!Leave(r, p)
    BY <1>1, SameMembership, <2>3 DEF StoreProofs!RM!Leave, Store!RM!Leave
  <2>4. ASSUME NEW p \in Players, StoreProofs!RM!Close(r, p) PROVE Store!RM!Close(r, p)
    BY <1>1, SameMembership, <2>4 DEF StoreProofs!RM!Close, Store!RM!Close
  <2>5. ASSUME StoreProofs!RM!Start(r) PROVE Store!RM!Start(r)
    BY <1>1, SameMembership, <2>5 DEF StoreProofs!RM!Start, Store!RM!Start
  <2>. QED  BY <1>2, <2>1, <2>2, <2>3, <2>4, <2>5 DEF Store!RM!Next
<1>3. CASE UNCHANGED <<StoreProofs!statusOf, StoreProofs!membersOf,
                       StoreProofs!ownerOf, StoreProofs!runningOf>>
  BY <1>1, <1>3, SameMembership DEF Store!RM!vars
<1>. QED  BY <1>2, <1>3 DEF StoreProofs!RMStep, StoreProofs!RM!Next

----------------------------------------------------------------------------
(* The theorems.                                                           *)

\* The inductive invariant of the pages and the store holds throughout.
THEOREM PagesInvariance == Spec => []PagesSound
<1>. QED  BY InitPages, NextKeepsPages, PTL DEF Spec

\* Types, for any number of players, rooms and calls under way.
THEOREM PagesTypeCorrect == Spec => []TypeOK
<1>1. PagesSound => TypeOK
  BY DEF PagesSound, PagesInv
<1>. QED  BY <1>1, PagesInvariance, PTL

\* Nobody who has left the wait page and is not in the game can be drawn into a
\* game by detectStartGameUpdate: pages never leave a listener behind.
THEOREM ListenerTheorem == Spec => []NoListenerLeftBehind
<1>1. PagesSound => NoListenerLeftBehind
  BY DEF PagesSound, PagesInv, ListenersTraced, NoListenerLeftBehind, On
<1>. QED  BY <1>1, PagesInvariance, PTL

\* Only a player who created or joined a room has an app that names it: in his
\* profile, on the wait page, in a callback to come or in a listener.
THEOREM KnowledgeTheorem == Spec => []OnlyEntrantsKnow
<1>1. PagesSound => OnlyEntrantsKnow
  BY DEF PagesSound, PagesInv
<1>. QED  BY <1>1, PagesInvariance, PTL

\* The pages implement what GameRoomFirestore.tla assumes of the apps, so that
\* the theorems about the store hold of the apps around it.
THEOREM StoreUsedTheorem == Spec => StoreUsed
<1>1. PagesSound /\ [Next]_vars => [Store!Next]_Store!storeVars
  BY NextUsesStore DEF PagesSound
<1>2. Init => Store!Init
  BY InitPages
<1>. QED  BY <1>1, <1>2, PagesInvariance, PTL DEF Spec, StoreUsed, Store!Spec

\* Whatever patient players do, in any number of rooms: once nothing is under way
\* for a player, his profile, and the document he comes back to, name the room
\* whose list of players he is in, or no room when he is in none.
THEOREM ProfileTheorem == PatientSpec => []ProfileNamesRoom
<1>1. PatientInv => ProfileNamesRoom
  <2> SUFFICES ASSUME PatientInv, NEW p \in Players, Quiet(p)
               PROVE  /\ playerDoc[p] = playerProfile[p]
                      /\ \A r \in RoomIDs :
                            playerProfile[p] = r <=> Store!Exists(r) /\ Store!Member(rooms[r], p)
    BY DEF ProfileNamesRoom
  <2>1. Phases /\ playerDoc = playerProfile
    BY DEF PatientInv, Calm, Profiled
  <2>2. \E s \in RoomIDs \union {NoRoom} : InOnly(p, s) /\ playerProfile[p] = s
    BY <2>1, QuietPhases
  <2>3. \A r \in RoomIDs : playerProfile[p] = r <=> In(p, r)
    BY <2>2 DEF InOnly
  <2>4. \A r \in RoomIDs : In(p, r) <=> Store!Exists(r) /\ Store!Member(rooms[r], p)
    BY DEF In, StoreProofs!InRoom, StoreProofs!Exists, Store!Exists, StoreProofs!Member, Store!Member
  <2>. QED  BY <2>1, <2>3, <2>4
<1>. QED  BY <1>1, PatientInvariance, PTL

\* Patient players get RoomMembership from the apps and the store together: no
\* callback undoes what another one wrote, nobody comes into a game that has
\* begun, the owner who leaves is succeeded by somebody in the room.
THEOREM IndivisibleTheorem == PatientSpec => RoomsIndivisible
<1>1. Init => PatientInv /\ Store!RM!Init
  <2>1. Init => StoreProofs!Init
    BY InitPages DEF Init, Store!Init, StoreProofs!Init
  <2>. QED  BY <2>1, InitPatient, StoreAssumed, StoreProofs!OrderlyInit, SameMembershipInit
<1>2. PatientInv /\ [PatientNext]_vars => PatientInv' /\ [Store!RM!Next]_Store!RM!vars
  <2> SUFFICES ASSUME PatientInv, [PatientNext]_vars
               PROVE  PatientInv' /\ [Store!RM!Next]_Store!RM!vars
    OBVIOUS
  <2>1. PatientInv' /\ [StoreProofs!Next /\ StoreProofs!Orderly']_storeVars
    BY NextKeepsPatient
  <2>2. [StoreProofs!Next /\ StoreProofs!Orderly']_StoreProofs!storeVars
    BY <2>1 DEF storeVars, StoreProofs!storeVars
  <2>3. StoreProofs!RMStep
    BY <2>2, StoreAssumed, StoreProofs!OrderlyStep DEF PatientInv
  <2>. QED  BY <2>1, <2>3, SameMembershipStep
<1>. QED  BY <1>1, <1>2, PTL DEF PatientSpec, RoomsIndivisible, Store!Membership, Store!RM!Spec
=============================================================================
