------------------------ MODULE WaitPageMembers_proofs ------------------------
(***************************************************************************)
(* For any players, any room size and any number of reads under way: a     *)
(* fetch that no other overlaps shows everybody in the room, and does not  *)
(* end the app but for a missing picture.                                  *)
(***************************************************************************)
EXTENDS WaitPageMembers, SequenceTheorems, FiniteSetTheorems, TLAPS

Listed == Range(playerIDs)

----------------------------------------------------------------------------
(* The inductive invariant.                                                *)

\* The fetch under way reads everybody on the list once; those it has read are shown,
\* Me in the first slot and the others one after the other from the second.
Fetching ==
    /\ Me \in Listed
    /\ \A p \in Players : reads[p] \in 0 .. 1 /\ (reads[p] = 1 => p \in Listed)
    /\ IsInjective(players)
    /\ Range(players) = {p \in Listed \ {Me} : reads[p] = 0}
    /\ showPlayers[1] = IF reads[Me] = 0 THEN Me ELSE Nobody
    /\ \A i \in 2 .. Peoples :
          showPlayers[i] = IF i - 1 <= Len(players) THEN players[i - 1] ELSE Nobody

WaitPageInv ==
    /\ TypeOK
    /\ EndsOnlyDisturbed
    /\ ~disturbed /\ ~ended => Fetching

----------------------------------------------------------------------------
(* The lists.                                                              *)

\* A sequence without repetitions is as long as the set of its elements is large.
LEMMA RangeCounts ==
  ASSUME NEW S, NEW seq \in Seq(S), IsInjective(seq)
  PROVE  /\ IsFiniteSet(Range(seq)) /\ Cardinality(Range(seq)) = Len(seq)
         /\ Len(seq) \in Nat
<1>1. Len(seq) \in Nat /\ seq \in [1 .. Len(seq) -> S] /\ DOMAIN seq = 1 .. Len(seq)
  BY LenProperties
<1>2. seq \in Surjection(1 .. Len(seq), Range(seq))
  BY <1>1 DEF Surjection, Range
<1>3. seq \in Injection(1 .. Len(seq), Range(seq))
  BY <1>1, <1>2 DEF Surjection, Injection
<1>4. IsFiniteSet(1 .. Len(seq)) /\ Cardinality(1 .. Len(seq)) = Len(seq)
  BY <1>1, FS_Interval
<1> QED
  BY <1>1, <1>2, <1>3, <1>4, FS_Surjection

\* A list as rooms show them.
LEMMA ListFacts ==
  ASSUME NEW list \in Lists
  PROVE  /\ list \in Seq(Players) /\ IsInjective(list)
         /\ Len(list) \in 1 .. Peoples
         /\ Range(list) \subseteq Players
         /\ IsFiniteSet(Range(list)) /\ Cardinality(Range(list)) = Len(list)
<1>1. PICK n \in 1 .. Peoples : list \in [1 .. n -> Players]
  BY DEF Lists
<1>2. IsInjective(list)
  BY DEF Lists
<1>3. n \in Nat
  BY <1>1, WaitPageAssumption DEF WaitPageAssumption
<1>4. list \in Seq(Players)
  BY <1>1, <1>3, SeqDef
<1>5. Len(list) = n
  BY <1>1, <1>3
<1>6. Range(list) \subseteq Players
  BY <1>1 DEF Range
<1> QED
  BY <1>1, <1>2, <1>4, <1>5, <1>6, RangeCounts

\* One more of the others.
LEMMA AppendFacts ==
  ASSUME NEW p \in Players, players \in Seq(Players), players' = Append(players, p)
  PROVE  /\ players' \in Seq(Players) /\ Len(players') = Len(players) + 1
         /\ Len(players) \in Nat
         /\ \A i \in 1 .. Len(players) : players'[i] = players[i]
         /\ players'[Len(players) + 1] = p
         /\ Range(players') = Range(players) \union {p}
         /\ IsInjective(players) /\ p \notin Range(players) => IsInjective(players')
<1>1. /\ players' \in Seq(Players) /\ Len(players') = Len(players) + 1
      /\ Len(players) \in Nat
      /\ \A i \in 1 .. Len(players) : players'[i] = players[i]
      /\ players'[Len(players) + 1] = p
      /\ DOMAIN players = 1 .. Len(players) /\ DOMAIN players' = 1 .. Len(players) + 1
  BY AppendProperties, LenProperties
<1>2. \A i \in 1 .. Len(players) + 1 : i \in 1 .. Len(players) \/ i = Len(players) + 1
  BY <1>1
<1>3. Range(players') = Range(players) \union {p}
  <2>1. Range(players) = {players[i] : i \in 1 .. Len(players)}
    BY <1>1 DEF Range
  <2>2. Range(players') = {players'[i] : i \in 1 .. Len(players) + 1}
    BY <1>1 DEF Range
  <2> QED
    BY <1>1, <1>2, <2>1, <2>2
<1>4. IsInjective(players) /\ p \notin Range(players) => IsInjective(players')
  <2> SUFFICES ASSUME IsInjective(players), p \notin Range(players),
                      NEW i \in 1 .. Len(players) + 1, NEW j \in 1 .. Len(players) + 1,
                      players'[i] = players'[j]
               PROVE  i = j
    BY <1>1 DEF IsInjective
  <2>1. \A k \in 1 .. Len(players) : players'[k] # p
    BY <1>1 DEF Range
  <2>2. CASE i \in 1 .. Len(players) /\ j \in 1 .. Len(players)
    BY <1>1, <2>2 DEF IsInjective
  <2>3. CASE i = Len(players) + 1 \/ j = Len(players) + 1
    BY <1>1, <1>2, <2>1, <2>3
  <2> QED
    BY <1>2, <2>2, <2>3
<1> QED
  BY <1>1, <1>3, <1>4

\* While somebody else is still to be read, the page has a slot left.
LEMMA SlotLeft ==
  ASSUME TypeOK, Fetching, NEW p \in Players \ {Me}, reads[p] > 0
  PROVE  /\ reads[p] = 1 /\ p \in Listed \ {Me} /\ p \notin Range(players)
         /\ Len(players) + 2 \in 2 .. Peoples
<1>1. reads[p] = 1 /\ p \in Listed \ {Me} /\ p \notin Range(players)
  BY DEF Fetching
<1>2. /\ IsFiniteSet(Listed) /\ Cardinality(Listed) <= Peoples /\ Cardinality(Listed) \in Nat
      /\ Listed \subseteq Players
  BY ListFacts, WaitPageAssumption DEF Listed, TypeOK, WaitPageAssumption
<1>3. /\ IsFiniteSet(Listed \ {Me}) /\ Cardinality(Listed \ {Me}) = Cardinality(Listed) - 1
  BY <1>2, FS_RemoveElement DEF Fetching
<1>4. /\ IsFiniteSet((Listed \ {Me}) \ {p})
      /\ Cardinality((Listed \ {Me}) \ {p}) = Cardinality(Listed) - 2
  <2> DEFINE others == Listed \ {Me}
  <2>1. IsFiniteSet(others) /\ p \in others /\ Cardinality(others) = Cardinality(Listed) - 1
    BY <1>1, <1>3
  <2> HIDE DEF others
  <2>2. IsFiniteSet(others \ {p}) /\ Cardinality(others \ {p}) = Cardinality(others) - 1
    BY <2>1, FS_RemoveElement
  <2>3. Cardinality(others \ {p}) = Cardinality(Listed) - 2
    BY <1>2, <2>1, <2>2
  <2> QED
    BY <2>2, <2>3 DEF others
<1>5. Range(players) \subseteq (Listed \ {Me}) \ {p}
  BY <1>1 DEF Fetching
<1>6. Cardinality(Range(players)) <= Cardinality(Listed) - 2
  BY <1>4, <1>5, FS_Subset
<1>7. Cardinality(Range(players)) = Len(players) /\ Len(players) \in Nat
  BY RangeCounts DEF Fetching, TypeOK
<1> QED
  BY <1>1, <1>2, <1>6, <1>7, WaitPageAssumption DEF WaitPageAssumption

----------------------------------------------------------------------------
(* The steps.                                                              *)

\* The page has just appeared.
LEMMA InitWait == Init => WaitPageInv
<1> SUFFICES ASSUME Init PROVE WaitPageInv
  OBVIOUS
<1>1. 0 \in 0 .. MaxReads
  BY WaitPageAssumption DEF WaitPageAssumption
<1>2. TypeOK
  BY <1>1, EmptySeq DEF Init, TypeOK, NoSlots
<1> QED
  BY <1>2 DEF Init, WaitPageInv, EndsOnlyDisturbed

\* The room is delivered: the page is empty, and everybody is read.
LEMMA FetchInv ==
  ASSUME WaitPageInv, NEW list \in Lists, FetchGameRoomMembers(list)
  PROVE  WaitPageInv'
<1> USE DEF WaitPageInv
<1>1. /\ ~ended /\ ~ended' /\ playerIDs' = list
      /\ players' = <<>> /\ showPlayers' = NoSlots
      /\ reads' = [p \in Players |-> IF p \in Range(list) THEN reads[p] + 1 ELSE reads[p]]
      /\ disturbed' = (~Quiet \/ Me \notin Range(list))
      /\ \A p \in Range(list) : reads[p] < MaxReads
      /\ ended' \in BOOLEAN
  BY DEF FetchGameRoomMembers, AskedFor, RemovePlayers, TypeOK
<1>2. Range(list) \subseteq Players
  BY ListFacts
<1>3. reads' \in [Players -> 0 .. MaxReads]
  <2> SUFFICES ASSUME NEW p \in Players PROVE reads'[p] \in 0 .. MaxReads
    BY <1>1
  <2>1. reads[p] \in 0 .. MaxReads /\ MaxReads \in Nat
    BY WaitPageAssumption DEF TypeOK, WaitPageAssumption
  <2> QED
    BY <1>1, <2>1
<1>4. TypeOK'
  BY <1>1, <1>3, EmptySeq DEF TypeOK, NoSlots
<1>5. ASSUME ~disturbed'
      PROVE  Fetching'
  <2>1. Quiet /\ Me \in Range(list)
    BY <1>1, <1>5
  <2>2. \A p \in Players : reads'[p] = IF p \in Range(list) THEN 1 ELSE 0
    BY <1>1, <2>1 DEF Quiet
  <2>3. Len(players') = 0 /\ DOMAIN players' = {}
    BY <1>1, EmptySeq
  <2>4. IsInjective(players') /\ Range(players') = {}
    BY <2>3 DEF IsInjective, Range
  <2>5. \A i \in 1 .. Peoples : showPlayers'[i] = Nobody
    BY <1>1 DEF NoSlots
  <2>6. showPlayers'[1] = Nobody
    BY <2>5, WaitPageAssumption DEF WaitPageAssumption
  <2>7. \A i \in 2 .. Peoples : showPlayers'[i] = Nobody /\ ~(i - 1 <= Len(players'))
    BY <2>3, <2>5
  <2>8. /\ Me \in Listed' /\ reads'[Me] = 1
        /\ \A p \in Players : reads'[p] \in 0 .. 1 /\ (reads'[p] = 1 => p \in Listed')
        /\ {p \in Listed' \ {Me} : reads'[p] = 0} = {}
    BY <1>1, <1>2, <2>1, <2>2 DEF Listed
  <2> QED
    BY <2>4, <2>6, <2>7, <2>8 DEF Fetching
<1> QED
  BY <1>1, <1>4, <1>5 DEF EndsOnlyDisturbed

\* What every answer does to the reads.
LEMMA AnsweredFacts ==
  ASSUME TypeOK, NEW p \in Players, Answered(p)
  PROVE  /\ ~ended /\ reads[p] > 0
         /\ reads' \in [Players -> 0 .. MaxReads]
         /\ reads'[p] = reads[p] - 1
         /\ \A q \in Players \ {p} : reads'[q] = reads[q]
  BY WaitPageAssumption DEF Answered, TypeOK, WaitPageAssumption

\* An answer that fails, or that ends the app.
LEMMA FailsInv ==
  ASSUME WaitPageInv, NEW p \in Players, ReadFails(p) \/ PictureMissing(p)
  PROVE  WaitPageInv'
<1> USE DEF WaitPageInv
<1>1. /\ ~ended /\ reads[p] > 0
      /\ reads' \in [Players -> 0 .. MaxReads]
      /\ UNCHANGED <<playerIDs, players, showPlayers>>
      /\ \/ disturbed' = TRUE /\ ended' = ended
         \/ ended' = TRUE /\ disturbed' = disturbed /\ p \in Pictureless
  BY AnsweredFacts DEF ReadFails, PictureMissing
<1>2. TypeOK'
  BY <1>1 DEF TypeOK
<1>3. ~disturbed => p \in Range(playerIDs)
  BY <1>1 DEF Fetching, Listed
<1> QED
  BY <1>1, <1>2, <1>3 DEF EndsOnlyDisturbed

\* One's own picture arrives.
LEMMA IAmShownInv ==
  ASSUME WaitPageInv, NEW p \in Players, IAmShown(p)
  PROVE  WaitPageInv'
<1> USE DEF WaitPageInv
<1>1. /\ p = Me /\ ~ended /\ reads[Me] > 0
      /\ reads' \in [Players -> 0 .. MaxReads]
      /\ reads'[Me] = reads[Me] - 1
      /\ \A q \in Players \ {Me} : reads'[q] = reads[q]
      /\ showPlayers' = [showPlayers EXCEPT ![1] = Me]
      /\ UNCHANGED <<playerIDs, players, ended, disturbed>>
  BY AnsweredFacts DEF IAmShown, IsMe
<1>2. /\ showPlayers' \in [1 .. Peoples -> Players \union {Nobody}]
      /\ showPlayers'[1] = Me
      /\ \A i \in 2 .. Peoples : showPlayers'[i] = showPlayers[i]
  BY <1>1, WaitPageAssumption DEF TypeOK, WaitPageAssumption
<1>3. TypeOK'
  BY <1>1, <1>2 DEF TypeOK
<1>4. ASSUME ~disturbed, ~ended
      PROVE  Fetching'
  <2>1. Fetching /\ Listed' = Listed /\ Listed \subseteq Players
    BY <1>1, <1>4, ListFacts DEF Listed, TypeOK
  <2>2. reads[Me] = 1 /\ reads'[Me] = 0
    BY <1>1, <2>1 DEF Fetching
  <2>3. {q \in Listed \ {Me} : reads'[q] = 0} = {q \in Listed \ {Me} : reads[q] = 0}
    BY <1>1, <2>1
  <2> QED
    BY <1>1, <1>2, <2>1, <2>2, <2>3 DEF Fetching
<1> QED
  BY <1>1, <1>3, <1>4 DEF EndsOnlyDisturbed

\* The picture of somebody else arrives.
LEMMA OtherIsShownInv ==
  ASSUME WaitPageInv, NEW p \in Players, OtherIsShown(p)
  PROVE  WaitPageInv'
<1> USE DEF WaitPageInv
<1>1. /\ p # Me /\ ~ended /\ reads[p] > 0
      /\ reads' \in [Players -> 0 .. MaxReads]
      /\ reads'[p] = reads[p] - 1
      /\ \A q \in Players \ {p} : reads'[q] = reads[q]
      /\ players' = Append(players, p)
      /\ UNCHANGED <<playerIDs, disturbed>>
  BY AnsweredFacts DEF OtherIsShown, IsMe
<1>2. /\ players' \in Seq(Players) /\ Len(players') = Len(players) + 1
      /\ Len(players) \in Nat
      /\ \A i \in 1 .. Len(players) : players'[i] = players[i]
      /\ players'[Len(players) + 1] = p
      /\ Range(players') = Range(players) \union {p}
      /\ IsInjective(players) /\ p \notin Range(players) => IsInjective(players')
  BY <1>1, AppendFacts DEF TypeOK
<1>3. CASE Len(players) + 2 \in DOMAIN showPlayers
  <2>1. /\ showPlayers' = [showPlayers EXCEPT ![Len(players) + 2] = p] /\ ended' = ended
        /\ Len(players) + 2 \in 2 .. Peoples
    BY <1>2, <1>3 DEF OtherIsShown, TypeOK
  <2>2. /\ showPlayers' \in [1 .. Peoples -> Players \union {Nobody}]
        /\ showPlayers'[Len(players) + 2] = p
        /\ \A i \in 1 .. Peoples : i # Len(players) + 2 => showPlayers'[i] = showPlayers[i]
    BY <2>1 DEF TypeOK
  <2>3. TypeOK'
    BY <1>1, <1>2, <2>1, <2>2 DEF TypeOK
  <2>4. ASSUME ~disturbed
        PROVE  Fetching'
    <3>1. Fetching /\ Listed' = Listed /\ Listed \subseteq Players
      BY <1>1, <2>4, ListFacts DEF Listed, TypeOK
    <3>2. reads[p] = 1 /\ reads'[p] = 0 /\ p \in Listed \ {Me} /\ p \notin Range(players)
      BY <1>1, <3>1, SlotLeft
    <3>3. {q \in Listed \ {Me} : reads'[q] = 0} = {q \in Listed \ {Me} : reads[q] = 0} \union {p}
      BY <1>1, <3>1, <3>2
    <3>4. showPlayers'[1] = showPlayers[1] /\ reads'[Me] = reads[Me]
      BY <1>1, <1>2, <2>1, <2>2, WaitPageAssumption DEF WaitPageAssumption
    <3>5. \A i \in 2 .. Peoples :
             showPlayers'[i] = IF i - 1 <= Len(players') THEN players'[i - 1] ELSE Nobody
      <4> SUFFICES ASSUME NEW i \in 2 .. Peoples
                   PROVE  showPlayers'[i] = IF i - 1 <= Len(players) + 1
                                            THEN players'[i - 1] ELSE Nobody
        BY <1>2
      <4>1. CASE i = Len(players) + 2
        BY <1>2, <2>2, <4>1
      <4>2. CASE i # Len(players) + 2
        <5>1. showPlayers'[i] = showPlayers[i]
          BY <2>2, <4>2
        <5>2. showPlayers[i] = IF i - 1 <= Len(players) THEN players[i - 1] ELSE Nobody
          BY <3>1 DEF Fetching
        <5> QED
          BY <1>2, <4>2, <5>1, <5>2
      <4> QED
        BY <4>1, <4>2
    <3>6. \A q \in Players : reads'[q] \in 0 .. 1 /\ (reads'[q] = 1 => q \in Listed)
      BY <1>1, <3>1, <3>2 DEF Fetching
    <3> QED
      BY <1>2, <3>1, <3>2, <3>3, <3>4, <3>5, <3>6 DEF Fetching
  <2> QED
    BY <1>1, <2>1, <2>3, <2>4 DEF EndsOnlyDisturbed
<1>4. CASE Len(players) + 2 \notin DOMAIN showPlayers
  <2>1. ended' = TRUE /\ showPlayers' = showPlayers
    BY <1>4 DEF OtherIsShown
  <2>2. TypeOK'
    BY <1>1, <1>2, <2>1 DEF TypeOK
  <2>3. disturbed
    <3> SUFFICES ASSUME ~disturbed PROVE FALSE
      OBVIOUS
    <3>1. Len(players) + 2 \in 2 .. Peoples
      BY <1>1, SlotLeft
    <3> QED
      BY <1>4, <3>1 DEF TypeOK
  <2> QED
    BY <1>1, <2>1, <2>2, <2>3 DEF EndsOnlyDisturbed
<1> QED
  BY <1>3, <1>4

\* Every step keeps the invariant.
LEMMA NextWait == WaitPageInv /\ [Next]_vars => WaitPageInv'
<1> SUFFICES ASSUME WaitPageInv, [Next]_vars PROVE WaitPageInv'
  OBVIOUS
<1>1. ASSUME NEW list \in Lists, FetchGameRoomMembers(list) PROVE WaitPageInv'
  BY <1>1, FetchInv
<1>2. ASSUME NEW p \in Players, Arrives(p) PROVE WaitPageInv'
  BY <1>2, FailsInv, IAmShownInv, OtherIsShownInv DEF Arrives
<1>3. CASE UNCHANGED vars
  BY <1>3 DEF vars, WaitPageInv, TypeOK, EndsOnlyDisturbed, Fetching, Listed
<1> QED
  BY <1>1, <1>2, <1>3 DEF Next

----------------------------------------------------------------------------
(* The theorems.                                                           *)

\* The strengthening holds in every state of every run.
THEOREM WaitPageTheorem == Spec => []WaitPageInv
<1>1. Init => WaitPageInv
  BY InitWait
<1>2. WaitPageInv /\ [Next]_vars => WaitPageInv'
  BY NextWait
<1> QED
  BY <1>1, <1>2, PTL DEF Spec

\* The lists, slots and reads are well formed, with the slots those of the page.
THEOREM WaitPageTypeCorrect == Spec => []TypeOK
<1>1. WaitPageInv => TypeOK
  BY DEF WaitPageInv
<1> QED
  BY <1>1, WaitPageTheorem, PTL

\* A fetch that no other overlaps never asks for a slot past the last one, so that only
\* a missing picture can end the app.
THEOREM EndsTheorem == Spec => []EndsOnlyDisturbed
<1>1. WaitPageInv => EndsOnlyDisturbed
  BY DEF WaitPageInv
<1> QED
  BY <1>1, WaitPageTheorem, PTL

\* Once such a fetch is answered, the page shows everybody in the room, and nobody else.
THEOREM MembersTheorem == Spec => []MembersShown
<1>1. WaitPageInv => MembersShown
  <2> SUFFICES ASSUME WaitPageInv, ~disturbed, Quiet, ~ended
               PROVE  /\ showPlayers[1] = Me
                      /\ {showPlayers[i] : i \in 1 .. Len(playerIDs)} = Listed
                      /\ \A i \in 1 .. Peoples :
                            i > Len(playerIDs) => showPlayers[i] = Nobody
    BY DEF MembersShown, Listed
  <2>1. /\ playerIDs \in Seq(Players) /\ Len(playerIDs) \in 1 .. Peoples
        /\ Listed \subseteq Players
        /\ IsFiniteSet(Listed) /\ Cardinality(Listed) = Len(playerIDs)
    BY ListFacts DEF WaitPageInv, TypeOK, Listed
  <2>2. /\ Me \in Listed /\ IsInjective(players) /\ showPlayers[1] = Me
        /\ Range(players) = Listed \ {Me}
        /\ \A i \in 2 .. Peoples :
              showPlayers[i] = IF i - 1 <= Len(players) THEN players[i - 1] ELSE Nobody
    BY <2>1, WaitPageAssumption DEF WaitPageInv, Fetching, Quiet, WaitPageAssumption
  <2>3. players \in Seq(Players) /\ Peoples \in Nat
    BY WaitPageAssumption DEF WaitPageInv, TypeOK, WaitPageAssumption
  <2>4. Len(players) = Len(playerIDs) - 1 /\ Len(players) \in Nat
    BY <2>1, <2>2, <2>3, RangeCounts, FS_RemoveElement
  <2>5. Range(players) = {players[i] : i \in 1 .. Len(players)}
    BY <2>3, LenProperties DEF Range
  <2>6. \A i \in 1 .. Len(players) : showPlayers[i + 1] = players[i]
    <3>1. \A i \in 1 .. Len(players) :
             i + 1 \in 2 .. Peoples /\ (i + 1) - 1 = i /\ i <= Len(players)
      BY <2>1, <2>3, <2>4
    <3> QED
      BY <2>2, <3>1
  <2>7. {showPlayers[i] : i \in 1 .. Len(playerIDs)} = {Me} \union Range(players)
    <3>1. \A i \in 1 .. Len(playerIDs) : i = 1 \/ i - 1 \in 1 .. Len(players)
      BY <2>1, <2>4
    <3>2. \A i \in 1 .. Len(players) : i + 1 \in 1 .. Len(playerIDs) /\ (i + 1) - 1 = i
      BY <2>1, <2>4
    <3>3. \A i \in 1 .. Len(playerIDs) : showPlayers[i] \in {Me} \union Range(players)
      <4> SUFFICES ASSUME NEW i \in 1 .. Len(playerIDs), i # 1
                   PROVE  showPlayers[i] \in Range(players)
        BY <2>2
      <4>1. i - 1 \in 1 .. Len(players) /\ (i - 1) + 1 = i
        BY <3>1, <2>1
      <4>2. showPlayers[(i - 1) + 1] = players[i - 1]
        BY <2>6, <4>1
      <4> QED
        BY <2>5, <4>1, <4>2
    <3>4. Me \in {showPlayers[i] : i \in 1 .. Len(playerIDs)}
      BY <2>1, <2>2
    <3>5. Range(players) \subseteq {showPlayers[i] : i \in 1 .. Len(playerIDs)}
      BY <2>5, <2>6, <3>2
    <3> QED
      BY <3>3, <3>4, <3>5
  <2>8. \A i \in 1 .. Peoples : i > Len(playerIDs) => showPlayers[i] = Nobody
    BY <2>1, <2>2, <2>3, <2>4
  <2> QED
    BY <2>2, <2>7, <2>8
<1> QED
  BY <1>1, WaitPageTheorem, PTL
=============================================================================
