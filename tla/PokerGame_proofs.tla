---------------------------- MODULE PokerGame_proofs ----------------------------
(***************************************************************************)
(* For any deals and any number of games: a game is paid for once, for who *)
(* was first (SettledOnce), and the lead comes back to its player when all *)
(* others have passed, who then does not pass, if a computer               *)
(* (TurnComesBack).  A game opens with the three of clubs                  *)
(* (OpensWithClubThree), and no card is ever in two places (TypeOK).       *)
(***************************************************************************)
EXTENDS PokerGame, SequenceTheorems, WellFoundedInduction, FiniteSetTheorems, TLAPS

----------------------------------------------------------------------------
(* The rules: who leads has something to play.                             *)

\* What a class of a hand looks like to the order of the classes.
Ranked(k) == k.classing \in 0..7 /\ k.level \in 0..10

\* A set of numbers with a bound has its minimum in it.
LEMMA MinFacts ==
  ASSUME NEW S \in SUBSET Nat, S # {}
  PROVE  Min(S) \in S /\ \A i \in S : Min(S) <= i
<1>1. PICK least \in S : \A i \in S : <<i, least>> \notin OpToRel(<, Nat)
  BY WFMin, NatLessThanWellFounded
<1>2. \A i \in S : least <= i
  <2> SUFFICES ASSUME NEW i \in S PROVE least <= i
    OBVIOUS
  <2>1. ~ (i < least)
    BY <1>1 DEF OpToRel
  <2> QED
    BY <2>1
<1> QED
  BY <1>2 DEF Min

\* The straight flushes are ranked: their level is that of a row.
LEMMA RoyalRanked == ASSUME NEW hand PROVE \A k \in StraightFlushes(hand) : Ranked(k)
<1> SUFFICES ASSUME NEW s \in 0..3,
                    Rows(OfSuit(hand, s), 1..10) # {}
             PROVE  LET S == OfSuit(hand, s)
                        rows == Rows(S, 1..10)
                        row == IF 1 \in rows THEN 1 ELSE IF 10 \in rows THEN 10 ELSE Min(rows)
                    IN  Ranked(Class(InRow(S, row), StraightFlush, Level(row)))
  BY DEF StraightFlushes
<1>1. Rows(OfSuit(hand, s), 1..10) \subseteq 1..10
  BY DEF Rows
<1>2. Min(Rows(OfSuit(hand, s), 1..10)) \in 1..10
  BY <1>1, MinFacts
<1> QED
  BY <1>2 DEF Ranked, Class, StraightFlush, Level

\* So are the straights.
LEMMA StraightsRanked == ASSUME NEW singles PROVE \A k \in Straights(singles) : Ranked(k)
<1>1. \A S : Rows(S, 1..9) \subseteq 1..9
  BY DEF Rows
<1>0. \A S \in SUBSET (1..9) : S # {} => Min(S) \in 1..9
  <2> SUFFICES ASSUME NEW S \in SUBSET (1..9), S # {} PROVE Min(S) \in 1..9
    OBVIOUS
  <2>1. S \in SUBSET Nat
    OBVIOUS
  <2>2. Min(S) \in S
    BY <2>1, MinFacts
  <2> QED
    BY <2>2
<1>2. StraightRows(singles) \subseteq 1..9
  <2> DEFINE first == Rows(singles, 1..9)
             rest == singles \ InRow(singles, Min(first))
             head(i) == IF i = 1 THEN 12 ELSE 13 - i
             below == {n \in Nums(rest) : n < head(Min(first))}
             second == {i \in Rows(rest, 1..9) : head(i) \in below /\ head(i) # Max(below)}
  <2>1. first # {} => Min(first) \in 1..9
    BY <1>1, <1>0
  <2>2. second \subseteq 1..9
    BY <1>1
  <2>3. second # {} => Min(second) \in 1..9
    <3> HIDE DEF second
    <3> QED
      BY <2>2, <1>0
  <2>4. StraightRows(singles) =
          IF first = {} THEN {}
          ELSE {Min(first)} \union (IF second = {} THEN {} ELSE {Min(second)})
    BY DEF StraightRows
  <2> HIDE DEF first, second
  <2>5. CASE first = {}
    BY <2>4, <2>5
  <2>6. CASE first # {} /\ second = {}
    BY <2>1, <2>4, <2>6
  <2>7. CASE first # {} /\ second # {}
    BY <2>1, <2>3, <2>4, <2>7
  <2> QED
    BY <2>5, <2>6, <2>7
<1> QED
  BY <1>2 DEF Straights, Ranked, Class, Straight, Level

\* All classes of a hand are ranked, if it has any.
LEMMA HandRanked ==
  ASSUME NEW hand
  PROVE  \A k \in ClassingPokers(hand) : k = Trap \/ Ranked(k)
<1>1. \A groups, n : n \in 0..7 => \A k \in AllOf(groups, n) : Ranked(k)
  BY DEF AllOf, Ranked, Class
<1> HIDE DEF AllOf
<1> QED
  BY <1>1, RoyalRanked, StraightsRanked
     DEF ClassingPokers, Four, FullHouse, Flush, Triple, Pair, Single

\* Ranked classes have a greatest one.
LEMMA GreatestExists ==
  ASSUME NEW classes, classes # {}, \A k \in classes : Ranked(k)
  PROVE  Greatest(classes) # {}
<1> DEFINE depth(k) == 87 - (11 * k.classing + k.level)
           depths == {depth(k) : k \in classes}
<1>1. depths \in SUBSET Nat /\ depths # {}
  BY DEF Ranked
<1>2. PICK least \in depths : \A d \in depths : <<d, least>> \notin OpToRel(<, Nat)
  BY <1>1, WFMin, NatLessThanWellFounded
<1>3. PICK k \in classes : least = depth(k)
  OBVIOUS
<1>4. \A l \in classes : ~Below(k, l)
  <2> SUFFICES ASSUME NEW l \in classes, Below(k, l) PROVE FALSE
    OBVIOUS
  <2>1. depth(l) \in depths /\ depth(l) \in Nat /\ depth(k) \in Nat
    BY <1>1, <1>3
  <2>2. ~ (depth(l) < depth(k))
    BY <1>2, <1>3, <2>1 DEF OpToRel
  <2> QED
    BY <2>2 DEF Below, Ranked
<1> QED
  BY <1>4 DEF Greatest

\* A computer that leads does not pass.
LEMMA LeadPlays ==
  ASSUME NEW hand, NEW pokers
  PROVE  NoClass \notin ComputerPoker(ClassingPokers(hand), pokers, 1)
<1> DEFINE classes == ClassingPokers(hand)
<1>1. CASE Trap \in classes \/ classes = {}
  <2>1. ComputerPoker(classes, pokers, 1) = {Trap}
    BY <1>1 DEF ComputerPoker
  <2> QED
    BY <2>1 DEF Trap, NoClass, Class
<1>2. CASE Trap \notin classes /\ classes # {}
  <2>1. ComputerPoker(classes, pokers, 1) = OrNoClass(Greatest(classes))
    BY <1>2 DEF ComputerPoker
  <2>2. \A k \in classes : Ranked(k)
    BY <1>2, HandRanked
  <2>3. Greatest(classes) # {} /\ Greatest(classes) \subseteq classes
    BY <1>2, <2>2, GreatestExists DEF Greatest
  <2>4. ~Ranked(NoClass)
    BY DEF Ranked, NoClass, Class
  <2> QED
    BY <2>1, <2>2, <2>3, <2>4 DEF OrNoClass
<1> QED
  BY <1>1, <1>2

\* There are at most four cards of a num.
LEMMA FourOfNum ==
  ASSUME NEW S \in SUBSET ((0..12) \X (0..3)), NEW c \in S
  PROVE  Cardinality(OfNum(S, Num(c))) \in 1..4
<1> DEFINE those == OfNum(S, Num(c))
           bysuit == [d \in those |-> Suit(d)]
<1>1. \A d \in those : d \in (0..12) \X (0..3) /\ d[1] = c[1]
  BY DEF OfNum, Num
<1>2. bysuit \in Injection(those, 0..3)
  <2>1. \A d \in those : d = <<c[1], d[2]>> /\ d[2] \in 0..3
    BY <1>1
  <2> QED
    BY <2>1 DEF Injection, IsInjective, Suit
<1>3. c \in those
  BY DEF OfNum
<1> HIDE DEF those, bysuit
<1>4. IsFiniteSet(0..3) /\ Cardinality(0..3) = 4
  <2>1. 0 \in Int /\ 3 \in Int /\ ~(0 > 3) /\ 3 - 0 + 1 = 4
    OBVIOUS
  <2>2. IsFiniteSet(0..3) /\ Cardinality(0..3) = IF 0 > 3 THEN 0 ELSE 3 - 0 + 1
    BY <2>1, FS_Interval, Zenon
  <2> QED
    BY <2>1, <2>2
<1>5. IsFiniteSet(those) /\ Cardinality(those) <= 4 /\ Cardinality(those) \in Nat
  BY <1>2, <1>4, FS_Injection, FS_CardinalityType
<1>6. Cardinality(those) # 0
  BY <1>3, <1>5, FS_EmptySet
<1> QED
  BY <1>5, <1>6 DEF those

\* Every card of a hand is in one of its classes.
LEMMA HandCovered ==
  ASSUME NEW hand \in SUBSET ((0..12) \X (0..3)), NEW c \in hand,
         Trap \notin ClassingPokers(hand)
  PROVE  \E k \in ClassingPokers(hand) : c \in k.cards
<1> DEFINE royal == StraightFlushes(hand)
           loose == Loose(hand)
           fours == Groups(loose, 4)
           triples == Groups(loose, 3)
           pairs == Groups(loose, 2)
           houses == Houses(triples, pairs)
           singles == UNION Groups(loose, 1)
           flushes == Flushes(singles)
           straights == Straights(singles \ UNION flushes)
           others == singles \ (Cards(straights) \union UNION flushes)
           lone(groups) == {g \in groups : \A h \in houses : ~g \subseteq h}
           alone == {{d} : d \in others}
           classes == royal \union AllOf(fours, Four) \union AllOf(houses, FullHouse)
                      \union AllOf(flushes, Flush) \union straights
                      \union AllOf(lone(triples), Triple) \union AllOf(lone(pairs), Pair)
                      \union AllOf(alone, Single)
<1>1. ClassingPokers(hand) = classes
  <2>1. ~ClassingEnds(singles)
    BY DEF ClassingPokers
  <2> QED
    BY <2>1 DEF ClassingPokers
<1>2. ASSUME NEW groups, NEW n, NEW g \in groups, c \in g
      PROVE  \E k \in AllOf(groups, n) : c \in k.cards
  <2>1. Class(g, n, 0) \in AllOf(groups, n) /\ Class(g, n, 0).cards = g
    BY DEF AllOf, Class
  <2> QED
    BY <1>2, <2>1
<1>3. CASE c \in Cards(royal)
  BY <1>1, <1>3 DEF Cards
<1>4. CASE c \notin Cards(royal)
  <2>1. loose \subseteq hand /\ c \in loose
    BY <1>4 DEF Loose
  <2>2. PICK n \in 1..4 : OfNum(loose, Num(c)) \in Groups(loose, n)
    <3>1. Cardinality(OfNum(loose, Num(c))) \in 1..4 /\ Num(c) \in Nums(loose)
      BY <2>1, FourOfNum DEF Nums
    <3> QED
      BY <3>1 DEF Groups
  <2>3. c \in OfNum(loose, Num(c))
    BY <2>1 DEF OfNum
  <2> HIDE DEF royal, loose, fours, triples, pairs, houses, singles, flushes, straights
  <2>4. CASE n = 4
    <3>1. \E k \in AllOf(fours, Four) : c \in k.cards
      BY <1>2, <2>2, <2>3, <2>4 DEF fours
    <3> QED
      BY <1>1, <3>1
  <2>5. CASE n = 3 \/ n = 2
    <3>1. CASE \E h \in houses : OfNum(loose, Num(c)) \subseteq h
      <4>1. \E k \in AllOf(houses, FullHouse) : c \in k.cards
        BY <1>2, <2>3, <3>1
      <4> QED
        BY <1>1, <4>1
    <3>2. CASE ~\E h \in houses : OfNum(loose, Num(c)) \subseteq h
      <4>1. CASE n = 3
        <5>1. OfNum(loose, Num(c)) \in lone(triples)
          BY <2>2, <3>2, <4>1 DEF triples
        <5> HIDE DEF lone
        <5>2. \E k \in AllOf(lone(triples), Triple) : c \in k.cards
          BY <1>2, <2>3, <5>1
        <5> QED
          BY <1>1, <5>2
      <4>2. CASE n = 2
        <5>1. OfNum(loose, Num(c)) \in lone(pairs)
          BY <2>2, <3>2, <4>2 DEF pairs
        <5> HIDE DEF lone
        <5>2. \E k \in AllOf(lone(pairs), Pair) : c \in k.cards
          BY <1>2, <2>3, <5>1
        <5> QED
          BY <1>1, <5>2
      <4> QED
        BY <2>5, <4>1, <4>2
    <3> QED
      BY <3>1, <3>2
  <2>6. CASE n = 1
    <3>1. c \in singles
      BY <2>2, <2>3, <2>6 DEF singles
    <3>2. CASE c \in UNION flushes
      <4>1. \E k \in AllOf(flushes, Flush) : c \in k.cards
        BY <1>2, <3>2
      <4> QED
        BY <1>1, <4>1
    <3>3. CASE c \in Cards(straights)
      BY <1>1, <3>3 DEF Cards
    <3>4. CASE c \in others
      <4>1. {c} \in alone /\ c \in {c}
        BY <3>4
      <4> HIDE DEF alone
      <4>2. \E k \in AllOf(alone, Single) : c \in k.cards
        BY <1>2, <4>1
      <4> QED
        BY <1>1, <4>2
    <3> QED
      BY <3>1, <3>2, <3>3, <3>4 DEF others
  <2> QED
    BY <2>2, <2>4, <2>5, <2>6
<1> QED
  BY <1>3, <1>4

\* Who holds the three of clubs and has to open with it does not pass.
LEMMA OpenPlays ==
  ASSUME NEW hand \in SUBSET ((0..12) \X (0..3)), ClubThree \in hand, NEW pokers
  PROVE  NoClass \notin ComputerPoker(ClassingPokers(hand), pokers, 0)
<1> DEFINE classes == ClassingPokers(hand)
           plays == {k \in classes : ClubThree \in k.cards}
<1>1. CASE Trap \in classes
  <2>1. ComputerPoker(classes, pokers, 0) = {Trap}
    BY <1>1 DEF ComputerPoker
  <2> QED
    BY <2>1 DEF Trap, NoClass, Class
<1>2. CASE Trap \notin classes
  <2>1. ComputerPoker(classes, pokers, 0) = OrNoClass(plays)
    BY <1>2 DEF ComputerPoker
  <2>2. plays # {}
    BY <1>2, HandCovered
  <2>3. ClubThree \notin NoClass.cards
    BY DEF NoClass, Class
  <2> QED
    BY <2>1, <2>2, <2>3 DEF OrNoClass
<1> QED
  BY <1>1, <1>2

\* What opens a game has the three of clubs.
LEMMA OpensWithIt ==
  ASSUME NEW classes, NEW pokers,
         NEW play \in ComputerPoker(classes, pokers, 0) \ {NoClass, Trap}
  PROVE  ClubThree \in play.cards
  BY DEF ComputerPoker, OrNoClass

----------------------------------------------------------------------------
(* The inductive invariant.                                                *)

Typed ==
    /\ page \in {"HomePage", "GamePage", "ended"}
    /\ DOMAIN cards = Players
    /\ playersPassed \in [Players -> BOOLEAN]
    /\ winnerRank \in Seq(Players)
    /\ currentPlay \in Players
    /\ userCoin \in Int
    /\ firsts \in [human : Int, others : Int]
    /\ leader \in Players \union {NoOne}

\* What the games so far have left of the coins, and what this one will change.
Total == 50 + 50 * firsts.human - 30 * firsts.others
Stake == IF winnerRank[1] = Human THEN 50 ELSE -30

AllOut == Players \subseteq Winned

\* A game that has a first player is owed for until it is over; it is then over for
\* good, since the buttons are disabled until the score page covers them.
Settling ==
    /\ page = "HomePage" =>
          ~playing /\ ~showScorePage /\ ~activeShowScorePage /\ userCoin = Total
    /\ page = "GamePage" =>
          /\ userCoin = IF winnerRank = <<>> \/ (~playing /\ AllOut)
                        THEN Total ELSE Total - Stake
          /\ playing => passConfirmable
          /\ ~playing => currentPlay = Human /\ (Human \in Winned => AllOut)
          /\ ~playing /\ AllOut => showScorePage \/ (passConfirmable /\ activeShowScorePage)
          /\ activeShowScorePage \/ showScorePage => ~playing /\ AllOut
          /\ ~(activeShowScorePage /\ showScorePage)

\* How many turns after the leader's a player's is.
After(p) == (p - leader + 3) % 4

\* Whose turn was since the lead has passed, or has no cards left.
Turning ==
    /\ \A p \in Winned : playersPassed[p]
    /\ leader # NoOne =>
          \A p \in Players : After(p) < After(currentPlay) => playersPassed[p]
    /\ leader # NoOne /\ leader # Human /\ leader \notin Winned => ~playersPassed[leader]

\* Every hand a computer can have has been classified.
Dealt == page = "GamePage" => \A p \in Players \ {Human} : cards[p] \in Hands

PokerInv == Typed /\ Settling /\ Turning /\ Dealt

\* Until somebody plays or the human passes, it is the turn of who holds the three of
\* clubs, or the human's.
Opening ==
    page = "GamePage" /\ leader = NoOne /\ ~playersPassed[Human] =>
        /\ currentAct = 0 /\ winnerRank = <<>>
        /\ \A p \in Players : ~playersPassed[p]
        /\ currentPlay # Human => ClubThree \in cards[currentPlay]

----------------------------------------------------------------------------
(* The steps.                                                              *)

\* Appending a player to the rank.
LEMMA RankFacts ==
  ASSUME NEW p \in Players, winnerRank \in Seq(Players), winnerRank' = Append(winnerRank, p)
  PROVE  /\ winnerRank' \in Seq(Players)
         /\ winnerRank' # <<>>
         /\ Winned' = Winned \union {p}
         /\ winnerRank'[1] = IF winnerRank = <<>> THEN p ELSE winnerRank[1]
<1>1. /\ winnerRank' \in Seq(Players) /\ winnerRank' # <<>>
      /\ Len(winnerRank') = Len(winnerRank) + 1 /\ Len(winnerRank) \in Nat
      /\ \A i \in 1..Len(winnerRank) : winnerRank'[i] = winnerRank[i]
      /\ winnerRank'[Len(winnerRank) + 1] = p
      /\ DOMAIN winnerRank = 1..Len(winnerRank)
      /\ DOMAIN winnerRank' = 1..Len(winnerRank')
  BY AppendProperties, LenProperties
<1>2. Winned' = Winned \union {p}
  <2>1. Winned' = {winnerRank'[i] : i \in 1..(Len(winnerRank) + 1)}
    BY <1>1 DEF Winned
  <2>2. Winned = {winnerRank[i] : i \in 1..Len(winnerRank)}
    BY <1>1 DEF Winned
  <2>3. \A i \in 1..(Len(winnerRank) + 1) : i \in 1..Len(winnerRank) \/ i = Len(winnerRank) + 1
    BY <1>1
  <2> QED
    BY <1>1, <2>1, <2>2, <2>3
<1>3. winnerRank'[1] = IF winnerRank = <<>> THEN p ELSE winnerRank[1]
  <2>1. CASE winnerRank = <<>>
    BY <1>1, <2>1
  <2>2. CASE winnerRank # <<>>
    BY <1>1, <2>2
  <2> QED
    BY <2>1, <2>2
<1> QED
  BY <1>1, <1>2, <1>3

\* Nobody is in an empty rank, and players only in any.
LEMMA WinnedFacts ==
  ASSUME winnerRank \in Seq(Players)
  PROVE  Winned \subseteq Players /\ (Winned = {} <=> winnerRank = <<>>)
<1>1. DOMAIN winnerRank = 1..Len(winnerRank) /\ Len(winnerRank) \in Nat
      /\ \A i \in 1..Len(winnerRank) : winnerRank[i] \in Players
  BY LenProperties
<1>2. Winned = {} <=> DOMAIN winnerRank = {}
  BY DEF Winned
<1>3. DOMAIN winnerRank = {} <=> winnerRank = <<>>
  <2>1. CASE winnerRank = <<>>
    BY <1>1, <2>1, EmptySeq
  <2>2. CASE winnerRank # <<>>
    <3>1. Len(winnerRank) \in Nat \ {0}
      BY <2>2, EmptySeq
    <3>2. 1 \in 1..Len(winnerRank)
      BY <3>1
    <3> QED
      BY <1>1, <2>2, <3>2
  <2> QED
    BY <2>1, <2>2
<1> QED
  BY <1>1, <1>2, <1>3 DEF Winned

\* The classes of a hand are those in the table.
LEMMA ClassesFacts == ASSUME NEW hand \in Hands PROVE Classes[hand] = ClassingPokers(hand)
<1>1. Classes = [h \in Hands |-> ClassingPokers(h)]
  BY DEF Classes
<1> QED
  BY <1>1

\* A new game begins, its page where the coins are in order.
LEMMA GameBegins ==
  ASSUME initialGame, gamePlay, page' = "GamePage",
         userCoin' = Total', userCoin' \in Int, firsts' \in [human : Int, others : Int],
         ~showScorePage', ~activeShowScorePage'
  PROVE  PokerInv'
<1>1. PICK deal \in Deals :
        cards' = deal /\ currentPlay' = CHOOSE p \in Players : ClubThree \in deal[p]
  BY DEF initialGame
<1>2. DOMAIN deal = Players /\ currentPlay' \in Players
  BY <1>1, DealsAssumption
<1>3. winnerRank' = <<>> /\ winnerRank' \in Seq(Players) /\ Winned' = {}
  BY DEF initialGame, Winned
<1>4. Typed'
  BY <1>1, <1>2, <1>3 DEF Typed, initialGame, NoFlags
<1>5. Settling'
  BY <1>3 DEF Settling, AllOut, Players, gamePlay, Human
<1>6. Turning'
  BY <1>3 DEF Turning, initialGame
<1>7. Dealt'
  <2> SUFFICES ASSUME NEW p \in Players PROVE cards'[p] \in Hands
    BY DEF Dealt, Hands
  <2>1. cards'[p] \in SUBSET deal[p]
    BY <1>1
  <2> QED
    BY <2>1 DEF Hands
<1> QED
  BY <1>4, <1>5, <1>6, <1>7 DEF PokerInv

\* The turn goes on: everybody's place after the leader.
LEMMA AfterFacts ==
  ASSUME NEW l \in Players, NEW c \in Players
  PROVE  /\ (c + 1) % 4 \in Players
         /\ c # l => (((c + 1) % 4) - l + 3) % 4 = ((c - l + 3) % 4) + 1
         /\ c = l => (((c + 1) % 4) - l + 3) % 4 = 0
         /\ (c - l + 3) % 4 \in 0..3
         /\ \A p \in Players : (p - l + 3) % 4 = (c - l + 3) % 4 => p = c
         /\ (l - l + 3) % 4 = 3
<1>1. (l - l + 3) % 4 = 3
  BY DEF Players
<1> QED
  BY <1>1 DEF Players

\* The next turn leaves Turning as it is, once the player whose turn it was has
\* passed or is out.
LEMMA TurnPasses ==
  ASSUME Typed, Turning, Advance, leader' = leader, winnerRank' = winnerRank,
         playersPassed' = [playersPassed EXCEPT ![currentPlay] = TRUE],
         leader = currentPlay => leader \in {NoOne, Human} \/ leader \in Winned
  PROVE  Turning' /\ currentPlay' \in Players
<1>1. /\ Winned' = Winned /\ Winned \subseteq Players
      /\ currentPlay' = (currentPlay + 1) % 4 /\ currentPlay' \in Players
      /\ \A p \in Players : playersPassed'[p] = (playersPassed[p] \/ p = currentPlay)
  <2>1. Winned' = Winned /\ Winned \subseteq Players
    BY WinnedFacts DEF Typed, Winned
  <2>2. currentPlay' = (currentPlay + 1) % 4 /\ currentPlay' \in Players
    BY DEF Typed, Advance, Players
  <2>3. \A p \in Players : playersPassed'[p] = (playersPassed[p] \/ p = currentPlay)
    BY Zenon DEF Typed
  <2> QED
    BY <2>1, <2>2, <2>3
<1>2. \A p \in Winned' : playersPassed'[p]
  BY <1>1 DEF Turning
<1>3. ASSUME leader # NoOne, NEW p \in Players, (After(p) < After(currentPlay))'
      PROVE  playersPassed'[p]
  <2>1. leader \in Players
    BY <1>3 DEF Typed
  <2>2. After(p)' = After(p) /\ After(p) \in 0..3 /\ After(currentPlay) \in 0..3
    BY <2>1, <1>3, AfterFacts DEF After, Typed
  <2>3. After(currentPlay)' = IF currentPlay = leader THEN 0 ELSE After(currentPlay) + 1
    BY <1>1, <2>1, AfterFacts DEF After, Typed
  <2>4. After(p) < After(currentPlay) \/ After(p) = After(currentPlay)
    BY <1>3, <2>2, <2>3
  <2>5. CASE After(p) < After(currentPlay)
    BY <1>1, <1>3, <2>5 DEF Turning
  <2>6. CASE After(p) = After(currentPlay)
    <3>1. p = currentPlay
      BY <1>3, <2>1, <2>6, AfterFacts DEF After, Typed
    <3> QED
      BY <1>1, <3>1
  <2> QED
    BY <2>4, <2>5, <2>6
<1>4. leader # NoOne /\ leader # Human /\ leader \notin Winned => ~playersPassed'[leader]
  BY <1>1 DEF Turning, Typed
<1> QED
  BY <1>1, <1>2, <1>3, <1>4 DEF Turning

\* Whoever plays leads, with nobody's turn since.
LEMMA PlayLeads ==
  ASSUME Typed, Turning, NEW play, NEW left, Played(play, left), currentPlay \notin Winned
  PROVE  /\ Turning' /\ currentPlay' \in Players
         /\ leader' \in Players /\ playersPassed' \in [Players -> BOOLEAN]
         /\ winnerRank' \in Seq(Players) /\ firsts' \in [human : Int, others : Int]
<1>1. /\ leader' = currentPlay /\ leader' \in Players
      /\ currentPlay' = (currentPlay + 1) % 4 /\ currentPlay' \in Players
  BY DEF Typed, Played, Advance, Players
<1>2. /\ playersPassed' \in [Players -> BOOLEAN]
      /\ playersPassed'[currentPlay] = (left = {})
      /\ \A p \in Players \ {currentPlay} : playersPassed'[p] = playersPassed[p]
  BY Zenon DEF Typed, Played
<1>5. winnerRank' \in Seq(Players) /\ firsts' \in [human : Int, others : Int]
  BY RankFacts DEF Typed, Played
<1>6. \A p \in Winned' : playersPassed'[p]
  <2>1. CASE left = {}
    <3>1. Winned' = Winned \union {currentPlay}
      BY <2>1, RankFacts DEF Typed, Played
    <3> QED
      BY <1>2, <2>1, <3>1, WinnedFacts DEF Turning, Typed
  <2>2. CASE left # {}
    <3>1. Winned' = Winned
      BY <2>2 DEF Played, Winned
    <3> QED
      BY <1>2, <3>1, WinnedFacts DEF Turning, Typed
  <2> QED
    BY <2>1, <2>2
<1>7. \A p \in Players : ~(After(p) < After(currentPlay))'
  <2>1. After(currentPlay)' = 0
    BY <1>1, AfterFacts DEF After, Typed
  <2>2. \A p \in Players : After(p)' \in 0..3
    BY <1>1, AfterFacts DEF After, Typed
  <2> QED
    BY <2>1, <2>2
<1>8. leader' \notin Winned' => ~playersPassed'[leader']
  <2>1. CASE left = {}
    BY <1>1, <2>1, RankFacts DEF Typed, Played
  <2>2. CASE left # {}
    BY <1>1, <1>2, <2>2
  <2> QED
    BY <2>1, <2>2
<1> QED
  BY <1>1, <1>2, <1>5, <1>6, <1>7, <1>8 DEF Turning

\* The first to have no cards is owed for from then on.
LEMMA PlayOwes ==
  ASSUME Typed, Settling, NEW play, NEW left, Played(play, left), currentPlay \notin Winned,
         page = "GamePage", page' = page, playing' = TRUE, passConfirmable' = TRUE,
         UNCHANGED <<userCoin, activeShowScorePage, showScorePage>>
  PROVE  Settling'
<1>1. ~AllOut /\ ~activeShowScorePage /\ ~showScorePage
  BY DEF Settling, AllOut, Typed
<1>2. userCoin = IF winnerRank = <<>> THEN Total ELSE Total - Stake
  BY <1>1 DEF Settling
<1>3. firsts.human \in Int /\ firsts.others \in Int /\ Total \in Int
  BY DEF Typed, Total
<1>4. CASE left # {}
  BY <1>1, <1>2, <1>4 DEF Settling, Played, Total, Stake
<1>5. CASE left = {} /\ winnerRank # <<>>
  <2>1. winnerRank' # <<>> /\ winnerRank'[1] = winnerRank[1] /\ firsts' = firsts
    BY <1>5, RankFacts DEF Typed, Played
  <2>2. userCoin = Total - Stake /\ Total' = Total /\ Stake' = Stake
    BY <1>2, <1>5, <2>1 DEF Total, Stake
  <2> QED
    BY <1>1, <2>1, <2>2 DEF Settling
<1>6. CASE left = {} /\ winnerRank = <<>>
  <2>1. winnerRank' # <<>> /\ winnerRank'[1] = currentPlay
    BY <1>6, RankFacts DEF Typed, Played
  <2>2. firsts' = IF currentPlay = Human THEN [firsts EXCEPT !.human = @ + 1]
                  ELSE [firsts EXCEPT !.others = @ + 1]
    BY <1>6 DEF Played
  <2>3. Stake' = IF currentPlay = Human THEN 50 ELSE -30
    BY <2>1 DEF Stake
  <2>4. Total' = Total + Stake'
    <3>1. CASE currentPlay = Human
      <4>1. firsts'.human = firsts.human + 1 /\ firsts'.others = firsts.others
        BY <2>2, <3>1 DEF Typed
      <4> QED
        BY <1>3, <2>3, <3>1, <4>1 DEF Total
    <3>2. CASE currentPlay # Human
      <4>1. firsts'.others = firsts.others + 1 /\ firsts'.human = firsts.human
        BY <2>2, <3>2 DEF Typed
      <4> QED
        BY <1>3, <2>3, <3>2, <4>1 DEF Total
    <3> QED
      BY <3>1, <3>2
  <2>5. userCoin' = Total' - Stake'
    BY <1>2, <1>3, <1>6, <2>3, <2>4
  <2> QED
    BY <1>1, <2>1, <2>5 DEF Settling
<1> QED
  BY <1>4, <1>5, <1>6

\* What is left of a hand is one of Hands.
LEMMA HandsClosed ==
  ASSUME NEW hand \in Hands, NEW left \in SUBSET hand
  PROVE  left \in Hands
<1>1. PICK deal \in Deals, p \in Players : hand \in SUBSET deal[p]
  BY DEF Hands
<1>2. left \in SUBSET deal[p]
  BY <1>1
<1> QED
  BY <1>2 DEF Hands

\* At the beginning no game is owed for.
LEMMA InitInv == Init => PokerInv
<1> SUFFICES ASSUME Init PROVE PokerInv
  OBVIOUS
<1>1. Winned = {} /\ winnerRank \in Seq(Players)
  BY DEF Init, Winned
<1>2. Typed
  BY <1>1 DEF Init, Typed, NoCards, NoFlags, NoFirsts, Players, Human
<1>3. Settling /\ Turning /\ Dealt
  BY <1>1 DEF Init, Settling, Turning, Dealt, Total, NoFirsts
<1> QED
  BY <1>2, <1>3 DEF PokerInv

\* Steps of gamePlay.
LEMMA ProceedsInv ==
  ASSUME PokerInv, Proceeds
  PROVE  PokerInv'
<1> USE DEF PokerInv
<1>1. CASE SkipWinner
  <2>1. playersPassed' = [playersPassed EXCEPT ![currentPlay] = TRUE]
    BY <1>1 DEF SkipWinner, Typed, Turning
  <2>2. Turning' /\ currentPlay' \in Players
    BY <1>1, <2>1, TurnPasses DEF SkipWinner, table
  <2>3. Typed' /\ Dealt'
    BY <1>1, <2>2 DEF SkipWinner, table, view, Typed, Dealt
  <2>4. Settling'
    BY <1>1 DEF SkipWinner, ComputersTurn, table, view, Settling, Total, Stake, AllOut, Winned
  <2> QED
    BY <2>2, <2>3, <2>4
<1>2. CASE ComputerPasses
  <2>1. leader = currentPlay => leader \in Winned
    <3> SUFFICES ASSUME leader = currentPlay, leader \notin Winned PROVE FALSE
      OBVIOUS
    <3>1. currentPlay \in Players \ {Human} /\ leader # NoOne
      BY <1>2 DEF ComputerPasses, ComputersTurn, Typed, Players, NoOne
    <3>2. othersPassed(currentPlay)
      <4> SUFFICES ASSUME NEW p \in Players \ {currentPlay} PROVE playersPassed[p]
        BY DEF othersPassed
      <4>1. After(p) < After(currentPlay)
        BY <3>1, AfterFacts DEF After
      <4> QED
        BY <3>1, <4>1 DEF Turning
    <3>3. cards[currentPlay] \in Hands
      BY <1>2, <3>1 DEF ComputerPasses, ComputersTurn, Dealt
    <3>4. Classes[cards[currentPlay]] = ClassingPokers(cards[currentPlay])
      BY <3>3, ClassesFacts
    <3>5. NoClass \notin Plays
      BY <3>2, <3>4, LeadPlays DEF Plays, Act
    <3> QED
      BY <1>2, <3>5 DEF ComputerPasses
  <2>2. Turning' /\ currentPlay' \in Players
    BY <1>2, <2>1, TurnPasses DEF ComputerPasses, Passed, table
  <2>3. Typed' /\ Dealt'
    BY <1>2, <2>2 DEF ComputerPasses, Passed, table, view, Typed, Dealt
  <2>4. Settling'
    BY <1>2 DEF ComputerPasses, ComputersTurn, Passed, table, view, Settling, Total, Stake,
                AllOut, Winned
  <2> QED
    BY <2>2, <2>3, <2>4
<1>3. CASE ComputerPlays
  <2>1. /\ page = "GamePage" /\ playing /\ currentPlay \in Players \ {Human}
        /\ currentPlay \notin Winned
        /\ UNCHANGED <<page, userCoin, activeShowScorePage, showScorePage, playing,
                       passConfirmable>>
    BY <1>3 DEF ComputerPlays, ComputersTurn, view, Typed
  <2>2. PICK play : /\ Played(play, cards[currentPlay] \ play.cards)
                    /\ cards' = [cards EXCEPT ![currentPlay] = cards[currentPlay] \ play.cards]
    BY <1>3 DEF ComputerPlays
  <2>3. /\ Turning' /\ currentPlay' \in Players
        /\ leader' \in Players /\ playersPassed' \in [Players -> BOOLEAN]
        /\ winnerRank' \in Seq(Players) /\ firsts' \in [human : Int, others : Int]
    BY <2>1, <2>2, PlayLeads
  <2>4. playing' = TRUE /\ passConfirmable' = TRUE
    <3>1. playing = TRUE /\ passConfirmable = TRUE
      BY <2>1 DEF Settling, Typed
    <3> QED
      BY <2>1, <3>1
  <2>5. Settling'
    BY <2>1, <2>2, <2>4, PlayOwes
  <2>6. Typed'
    BY <2>1, <2>2, <2>3 DEF Typed
  <2>7. Dealt'
    <3> SUFFICES ASSUME NEW p \in Players \ {Human} PROVE cards'[p] \in Hands
      BY DEF Dealt, Hands
    <3>1. cards[p] \in Hands
      BY <2>1 DEF Dealt
    <3>2. cards'[p] \subseteq cards[p]
      BY <2>2 DEF Typed
    <3> QED
      BY <3>1, <3>2, HandsClosed
  <2> QED
    BY <2>3, <2>5, <2>6, <2>7
<1>4. CASE ComputerTraps
  <2>1. page' = "ended" /\ UNCHANGED <<table, turn, userCoin>>
    BY <1>4 DEF ComputerTraps, AppEnds
  <2> QED
    BY <2>1 DEF table, turn, Typed, Settling, Turning, After, Winned, Dealt
<1>5. CASE RoundEnds
  <2>1. /\ page = "GamePage" /\ playing /\ currentPlay = Human
        /\ UNCHANGED <<page, leader, playersPassed, winnerRank, firsts, showScorePage>>
    BY <1>5 DEF RoundEnds
  <2>2. Winned' = Winned /\ Winned \subseteq Players /\ passConfirmable
        /\ ~activeShowScorePage /\ ~showScorePage
        /\ userCoin = (IF winnerRank = <<>> THEN Total ELSE Total - Stake)
    BY <2>1, WinnedFacts DEF Winned, Typed, Settling
  <2>3. CASE /\ Human \in Winned /\ ~(Players \ {Human} \subseteq Winned)
             /\ Advance /\ gamePlay
             /\ UNCHANGED <<cards, userCoin, activeShowScorePage>>
    <3>1. playersPassed' = [playersPassed EXCEPT ![currentPlay] = TRUE]
      BY <2>1, <2>3 DEF Typed, Turning
    <3>2. Turning' /\ currentPlay' \in Players
      BY <2>1, <2>3, <3>1, TurnPasses
    <3>3. Typed' /\ Dealt'
      BY <2>1, <2>3, <3>2 DEF Typed, Dealt
    <3>4. Settling'
      BY <2>1, <2>2, <2>3 DEF Settling, gamePlay, Total, Stake
    <3> QED
      BY <3>2, <3>3, <3>4
  <2>4. CASE /\ AllOut
             /\ cards' = [cards EXCEPT ![1] = {}, ![2] = {}, ![3] = {}]
             /\ userCoin' = IF winnerRank[1] = Human THEN userCoin + 50 ELSE userCoin - 30
             /\ activeShowScorePage' = TRUE
             /\ playing' = FALSE
             /\ UNCHANGED <<currentAct, currentPlay, passConfirmable>>
    <3>1. winnerRank # <<>>
      BY <2>4, WinnedFacts DEF AllOut, Typed, Players
    <3>2. userCoin' = Total /\ Total' = Total /\ Total \in Int
      BY <2>1, <2>2, <2>4, <3>1 DEF Typed, Total, Stake
    <3>3. Settling'
      BY <2>1, <2>2, <2>4, <3>2 DEF Settling, AllOut
    <3>4. Turning'
      BY <2>1, <2>2, <2>4 DEF Turning, After
    <3>5. Typed'
      BY <2>1, <2>4, <3>2 DEF Typed
    <3>6. Dealt'
      <4> SUFFICES ASSUME NEW p \in Players \ {Human} PROVE cards'[p] \in Hands
        BY DEF Dealt, Hands
      <4>1. cards'[p] = {} /\ cards[p] \in Hands
        BY <2>1, <2>4 DEF Dealt, Typed, Players, Human
      <4> QED
        BY <4>1, HandsClosed
    <3> QED
      BY <3>3, <3>4, <3>5, <3>6
  <2>5. CASE /\ Human \notin Winned
             /\ playing' = FALSE
             /\ UNCHANGED <<cards, userCoin, activeShowScorePage, currentAct, currentPlay,
                            passConfirmable>>
    <3>1. ~AllOut
      BY <2>5 DEF AllOut, Players, Human
    <3>2. Settling'
      BY <2>1, <2>2, <2>5, <3>1 DEF Settling, AllOut, Total, Stake
    <3>3. Turning' /\ Typed' /\ Dealt'
      BY <2>1, <2>2, <2>5 DEF Turning, After, Typed, Dealt
    <3> QED
      BY <3>2, <3>3
  <2> QED
    BY <1>5, <2>3, <2>4, <2>5 DEF RoundEnds, AllOut
<1> QED
  BY <1>1, <1>2, <1>3, <1>4, <1>5 DEF Proceeds

\* Play, Next Game and Reset Game: the coins are in order, and the score page is gone.
LEMMA BeginsInv ==
  ASSUME PokerInv, OnAppear \/ NextGame \/ ResetGame
  PROVE  PokerInv'
<1> USE DEF PokerInv
<1>1. /\ initialGame /\ gamePlay /\ page' = "GamePage"
      /\ ~showScorePage' /\ ~activeShowScorePage'
      /\ \/ userCoin' = userCoin /\ firsts' = firsts /\ userCoin = Total
         \/ userCoin' = 50 /\ firsts' = NoFirsts
  <2>1. CASE OnAppear
    BY <2>1 DEF OnAppear, Settling
  <2>2. CASE NextGame
    BY <2>2 DEF NextGame, Settling
  <2>3. CASE ResetGame
    BY <2>3 DEF ResetGame, Settling
  <2> QED
    BY <2>1, <2>2, <2>3
<1>2. userCoin' = Total' /\ userCoin' \in Int /\ firsts' \in [human : Int, others : Int]
  BY <1>1 DEF Typed, Total, NoFirsts
<1> QED
  BY <1>1, <1>2, GameBegins

\* The page is left, or the score page comes up with the last closure of a chain.
LEMMA PagesInv ==
  ASSUME PokerInv, Menu \/ ChainEnds
  PROVE  PokerInv'
<1> USE DEF PokerInv
<1>1. CASE Menu
  <2>1. /\ page' = "HomePage" /\ ~playing' /\ ~showScorePage' /\ ~activeShowScorePage'
        /\ cards' = NoCards /\ playersPassed' = NoFlags /\ winnerRank' = <<>>
        /\ currentPlay' = Human /\ userCoin' = 50 /\ firsts' = NoFirsts /\ leader' = NoOne
    BY <1>1 DEF Menu
  <2>2. Winned' = {} /\ winnerRank' \in Seq(Players)
    BY <2>1 DEF Winned
  <2>3. Typed'
    BY <2>1, <2>2 DEF Typed, NoCards, NoFlags, NoFirsts, Players, Human
  <2> QED
    BY <2>1, <2>2, <2>3 DEF Settling, Turning, Dealt, Total, NoFirsts
<1>2. CASE ChainEnds
  <2>1. /\ page = "GamePage" /\ ~playing /\ ~activeShowScorePage'
        /\ showScorePage' = (showScorePage \/ activeShowScorePage)
        /\ UNCHANGED <<page, cards, leader, playersPassed, winnerRank, currentPlay,
                       userCoin, firsts, playing>>
    BY <1>2 DEF ChainEnds, table, turn
  <2>2. Typed' /\ Turning' /\ Dealt'
    BY <2>1 DEF Typed, Turning, After, Winned, Dealt
  <2>3. Settling'
    BY <2>1 DEF Settling, Total, Stake, AllOut, Winned
  <2> QED
    BY <2>2, <2>3
<1> QED
  BY <1>1, <1>2

\* A card is selected or put back.
LEMMA SelectInv ==
  ASSUME PokerInv, NEW c, Select(c) \/ Deselect(c)
  PROVE  PokerInv'
<1> USE DEF PokerInv
<1>1. /\ DOMAIN cards' = DOMAIN cards
      /\ \A p \in Players \ {Human} : cards'[p] = cards[p]
      /\ UNCHANGED <<page, leader, playersPassed, winnerRank, currentPlay, userCoin, firsts,
                     playing, passConfirmable, activeShowScorePage, showScorePage>>
  BY DEF Select, Deselect, turn, view, Typed
<1>2. Typed' /\ Turning' /\ Dealt'
  BY <1>1 DEF Typed, Turning, After, Winned, Dealt
<1>3. Settling'
  BY <1>1 DEF Settling, Total, Stake, AllOut, Winned
<1> QED
  BY <1>2, <1>3

\* When the buttons are enabled, the human has cards, and it is the human's turn.
LEMMA EnabledFacts ==
  ASSUME PokerInv, ButtonsEnabled
  PROVE  page = "GamePage" /\ ~playing /\ currentPlay = Human /\ Human \notin Winned
  BY DEF PokerInv, ButtonsEnabled, OnPage, Settling

\* The human passes, plays, or is refused.
LEMMA ButtonsInv ==
  ASSUME PokerInv, Pass \/ Confirm \/ ConfirmRefused \/ ConfirmTraps
  PROVE  PokerInv'
<1> USE DEF PokerInv
<1>1. /\ page = "GamePage" /\ ~playing /\ currentPlay = Human /\ Human \notin Winned
      /\ ~AllOut
  <2>1. ButtonsEnabled
    BY DEF Pass, Confirm, ConfirmRefused, ConfirmTraps
  <2> QED
    BY <2>1, EnabledFacts DEF AllOut, Players, Human
<1>2. CASE Pass
  <2>1. /\ Passed(2) /\ gamePlay
        /\ UNCHANGED <<page, cards, leader, userCoin, activeShowScorePage, showScorePage>>
    BY <1>2 DEF Pass, table, view
  <2>2. Turning' /\ currentPlay' \in Players
    BY <1>1, <2>1, TurnPasses DEF Passed
  <2>3. Typed' /\ Dealt'
    BY <2>1, <2>2 DEF Passed, Typed, Dealt
  <2>4. Settling'
    BY <1>1, <2>1 DEF Passed, gamePlay, Settling, Total, Stake, AllOut, Winned
  <2> QED
    BY <2>2, <2>3, <2>4
<1>3. CASE Confirm
  <2>1. PICK play : Played(play, cards[Human] \union (userPreDeskCards \ play.cards))
    BY <1>3 DEF Confirm
  <2>2. /\ playing' = TRUE /\ passConfirmable' = TRUE
        /\ UNCHANGED <<page, cards, userCoin, activeShowScorePage, showScorePage>>
    BY <1>3 DEF Confirm, gamePlay, view
  <2>3. /\ Turning' /\ currentPlay' \in Players
        /\ leader' \in Players /\ playersPassed' \in [Players -> BOOLEAN]
        /\ winnerRank' \in Seq(Players) /\ firsts' \in [human : Int, others : Int]
    BY <1>1, <2>1, PlayLeads
  <2>4. Settling'
    BY <1>1, <2>1, <2>2, PlayOwes
  <2>5. Typed' /\ Dealt'
    BY <2>2, <2>3 DEF Typed, Dealt
  <2> QED
    BY <2>3, <2>4, <2>5
<1>4. CASE ConfirmRefused
  <2>1. UNCHANGED <<page, cards, leader, playersPassed, winnerRank, currentPlay, userCoin,
                    firsts, playing, passConfirmable, activeShowScorePage, showScorePage>>
    BY <1>4 DEF ConfirmRefused, table, view
  <2> QED
    BY <2>1 DEF Typed, Settling, Turning, After, Dealt, Total, Stake, AllOut, Winned
<1>5. CASE ConfirmTraps
  <2>1. page' = "ended" /\ UNCHANGED <<table, turn, userCoin>>
    BY <1>5 DEF ConfirmTraps, AppEnds
  <2> QED
    BY <2>1 DEF table, turn, Typed, Settling, Turning, After, Winned, Dealt
<1> QED
  BY <1>2, <1>3, <1>4, <1>5

\* Every step keeps the invariant.
LEMMA NextInv == PokerInv /\ [Next]_vars => PokerInv'
<1> SUFFICES ASSUME PokerInv, [Next]_vars PROVE PokerInv'
  OBVIOUS
<1>1. CASE OnAppear \/ NextGame \/ ResetGame
  BY <1>1, BeginsInv
<1>2. CASE Menu \/ ChainEnds
  BY <1>2, PagesInv
<1>3. CASE Proceeds
  BY <1>3, ProceedsInv
<1>4. CASE \E c : Select(c) \/ Deselect(c)
  BY <1>4, SelectInv
<1>5. CASE Pass \/ Confirm \/ ConfirmRefused \/ ConfirmTraps
  BY <1>5, ButtonsInv
<1>6. CASE UNCHANGED vars
  BY <1>6 DEF vars, PokerInv, Typed, Settling, Turning, After, Dealt, Total, Stake, AllOut,
              Winned
<1> QED
  BY <1>1, <1>2, <1>3, <1>4, <1>5, <1>6 DEF Next

----------------------------------------------------------------------------
(* The theorems.                                                           *)

\* The strengthening holds in every state of every run.
THEOREM InvariantTheorem == Spec => []PokerInv
<1>1. Init => PokerInv
  BY InitInv
<1>2. PokerInv /\ [Next]_vars => PokerInv'
  BY NextInv
<1> QED
  BY <1>1, <1>2, PTL DEF Spec

\* A game is paid for once, and for who was first, whatever is pressed and whichever
\* chain of closures ends after its end.
THEOREM SettledTheorem == Spec => []SettledOnce
<1>1. PokerInv => SettledOnce
  <2> SUFFICES ASSUME PokerInv, page = "GamePage", ~playing, Winned \in {{}, Players}
               PROVE  userCoin = Total
    BY DEF SettledOnce, Total
  <2>1. CASE Winned = {}
    BY <2>1, WinnedFacts DEF PokerInv, Typed, Settling
  <2>2. CASE Winned = Players
    BY <2>2 DEF PokerInv, Settling, AllOut
  <2> QED
    BY <2>1, <2>2
<1> QED
  BY <1>1, InvariantTheorem, PTL

\* The lead comes back to whoever made the last play: all others are marked as having
\* passed by then, and a computer does not pass on its own lead.
THEOREM LeadTheorem == Spec => []TurnComesBack
<1>1. PokerInv => TurnComesBack
  <2> SUFFICES ASSUME PokerInv, leader # NoOne, leader \notin Winned
               PROVE  /\ leader = currentPlay => othersPassed(currentPlay)
                      /\ leader # Human => ~playersPassed[leader]
    BY DEF TurnComesBack
  <2>1. leader # Human => ~playersPassed[leader]
    BY DEF PokerInv, Turning
  <2>2. ASSUME leader = currentPlay, NEW p \in Players \ {currentPlay}
        PROVE  playersPassed[p]
    <3>1. leader \in Players
      BY <2>2 DEF PokerInv, Typed
    <3>2. After(p) < After(currentPlay)
      BY <2>2, <3>1, AfterFacts DEF After
    <3> QED
      BY <3>2 DEF PokerInv, Turning
  <2> QED
    BY <2>1, <2>2 DEF othersPassed
<1> QED
  BY <1>1, InvariantTheorem, PTL

----------------------------------------------------------------------------
(* The opening.                                                            *)

\* Every step keeps Opening, and opens a game as it should.
LEMMA OpeningKept ==
  ASSUME PokerInv, Opening, [Next]_vars
  PROVE  /\ Opening'
         /\ leader = NoOne /\ leader' # NoOne => ClubThree \in desk'.cards \/ playersPassed[Human]
<1> DEFINE unopened == page = "GamePage" /\ leader = NoOne /\ ~playersPassed[Human]
<1> USE DEF Opening
<1>1. CASE OnAppear \/ NextGame \/ ResetGame
  <2>1. initialGame
    BY <1>1 DEF OnAppear, NextGame, ResetGame
  <2>2. PICK deal \in Deals :
          cards' = deal /\ currentPlay' = CHOOSE p \in Players : ClubThree \in deal[p]
    BY <2>1 DEF initialGame
  <2>3. ClubThree \in deal[currentPlay']
    <3>1. \E p \in Players : ClubThree \in deal[p]
      BY DealsAssumption
    <3> QED
      BY <2>2, <3>1
  <2>4. /\ currentAct' = 0 /\ winnerRank' = <<>> /\ leader' = NoOne
        /\ \A p \in Players : ~playersPassed'[p]
    BY <2>1 DEF initialGame, NoFlags
  <2> QED
    BY <2>2, <2>3, <2>4
<1>2. CASE Menu
  BY <1>2 DEF Menu
<1>3. CASE SkipWinner
  <2>1. UNCHANGED <<page, leader, playersPassed>> /\ page = "GamePage" /\ winnerRank # <<>>
    BY <1>3, WinnedFacts DEF SkipWinner, ComputersTurn, table, view, PokerInv, Typed
  <2> QED
    BY <2>1
<1>4. CASE ComputerPasses
  <2>1. ~unopened
    <3> SUFFICES ASSUME unopened PROVE FALSE
      OBVIOUS
    <3>1. /\ currentPlay \in Players \ {Human} /\ ClubThree \in cards[currentPlay]
          /\ cards[currentPlay] \in Hands
      BY <1>4 DEF ComputerPasses, ComputersTurn, PokerInv, Typed, Dealt
    <3>2. cards[currentPlay] \in SUBSET ((0..12) \X (0..3))
      BY <3>1, DealsAssumption DEF Hands
    <3>3. Act = 0
      BY <3>1 DEF Act, othersPassed, Human, Players
    <3>4. Classes[cards[currentPlay]] = ClassingPokers(cards[currentPlay])
      BY <3>1, ClassesFacts
    <3>5. NoClass \notin Plays
      BY <3>1, <3>2, <3>3, <3>4, OpenPlays DEF Plays
    <3> QED
      BY <1>4, <3>5 DEF ComputerPasses
  <2>2. /\ UNCHANGED <<page, leader>> /\ page = "GamePage" /\ currentPlay # Human
        /\ playersPassed' = [playersPassed EXCEPT ![currentPlay] = TRUE]
    BY <1>4 DEF ComputerPasses, ComputersTurn, Passed, table, view
  <2>3. playersPassed'[Human] = playersPassed[Human]
    <3>1. playersPassed \in [Players -> BOOLEAN] /\ Human \in Players
      BY DEF PokerInv, Typed, Players, Human
    <3> QED
      BY <2>2, <3>1, Zenon
  <2> QED
    BY <2>1, <2>2, <2>3
<1>5. CASE ComputerPlays
  <2>1. PICK play \in Plays \ {NoClass, Trap} : Played(play, cards[currentPlay] \ play.cards)
    BY <1>5 DEF ComputerPlays
  <2>2. leader' = currentPlay /\ desk' = play /\ leader' # NoOne /\ page = "GamePage"
    BY <1>5, <2>1 DEF Played, ComputerPlays, ComputersTurn, PokerInv, Typed, Players, NoOne
  <2>3. unopened => ClubThree \in play.cards
    <3> SUFFICES ASSUME unopened PROVE ClubThree \in play.cards
      OBVIOUS
    <3>1. Act = 0
      BY <1>5 DEF Act, othersPassed, ComputerPlays, ComputersTurn, Human, Players
    <3> QED
      BY <2>1, <3>1, OpensWithIt DEF Plays
  <2> QED
    BY <2>2, <2>3
<1>6. CASE ComputerTraps \/ ConfirmTraps
  BY <1>6 DEF ComputerTraps, ConfirmTraps, AppEnds, table
<1>7. CASE RoundEnds
  <2>1. UNCHANGED <<page, leader, playersPassed, winnerRank>> /\ page = "GamePage"
        /\ currentPlay = Human
    BY <1>7 DEF RoundEnds
  <2>2. unopened => Winned = {}
    BY WinnedFacts DEF PokerInv, Typed
  <2>3. unopened => currentAct' = currentAct /\ currentPlay' = currentPlay
    BY <1>7, <2>2 DEF RoundEnds, Players
  <2> QED
    BY <2>1, <2>3
<1>8. CASE ChainEnds \/ \E c : Select(c) \/ Deselect(c)
  <2>1. /\ UNCHANGED <<page, leader, playersPassed, winnerRank, currentAct, currentPlay>>
        /\ \A p \in Players \ {Human} : cards'[p] = cards[p]
    BY <1>8 DEF ChainEnds, Select, Deselect, table, turn, view, PokerInv, Typed
  <2> QED
    BY <2>1 DEF PokerInv, Typed
<1>9. CASE Pass
  <2>1. page = "GamePage" /\ currentPlay = Human
    BY <1>9, EnabledFacts DEF Pass
  <2>2. leader' = leader /\ playersPassed' = [playersPassed EXCEPT ![Human] = TRUE]
    BY <1>9, <2>1 DEF Pass, Passed, table
  <2>3. playersPassed'[Human]
    <3>1. playersPassed \in [Players -> BOOLEAN] /\ Human \in Players
      BY DEF PokerInv, Typed, Players, Human
    <3> QED
      BY <2>2, <3>1, Zenon
  <2> QED
    BY <2>2, <2>3
<1>10. CASE Confirm
  <2>1. page = "GamePage" /\ currentPlay = Human
    BY <1>10, EnabledFacts DEF Confirm
  <2>2. PICK play \in Selected \ {NoClass, Trap} :
          Played(play, cards[Human] \union (userPreDeskCards \ play.cards))
    BY <1>10 DEF Confirm
  <2>3. leader' = Human /\ desk' = play /\ leader' # NoOne
    BY <2>1, <2>2 DEF Played, Human, NoOne
  <2>4. unopened => ClubThree \in play.cards
    <3> SUFFICES ASSUME unopened PROVE ClubThree \in play.cards
      OBVIOUS
    <3>1. Act = 0
      BY <2>1 DEF Act, othersPassed, Human, Players
    <3> QED
      BY <2>2, <3>1, OpensWithIt DEF Selected
  <2> QED
    BY <2>1, <2>3, <2>4
<1>11. CASE ConfirmRefused
  <2>1. page = "GamePage" /\ currentPlay = Human
    BY <1>11, EnabledFacts DEF ConfirmRefused
  <2>2. UNCHANGED <<page, leader, playersPassed, winnerRank, currentPlay>> /\ currentAct' = Act
    BY <1>11 DEF ConfirmRefused, table, view
  <2>3. unopened => Act = 0
    BY <2>1 DEF Act, othersPassed, Human, Players
  <2> QED
    BY <2>1, <2>2, <2>3
<1>12. CASE UNCHANGED vars
  BY <1>12 DEF vars
<1> QED
  BY <1>1, <1>2, <1>3, <1>4, <1>5, <1>6, <1>7, <1>8, <1>9, <1>10, <1>11, <1>12
     DEF Next, Proceeds

\* Every game opens with the three of clubs, unless the human holds it and passes: every
\* card of a hand is in a class, so that a computer that holds it does not pass.
THEOREM OpeningTheorem == Spec => OpensWithClubThree
<1>1. Init => Opening
  BY DEF Init, Opening
<1>2. PokerInv /\ Opening /\ [Next]_vars => Opening'
  BY OpeningKept
<1>3. PokerInv /\ Opening /\ [Next]_vars =>
        [leader = NoOne /\ leader' # NoOne =>
            ClubThree \in desk'.cards \/ playersPassed[Human]]_vars
  BY OpeningKept
<1> QED
  BY <1>1, <1>2, <1>3, InvariantTheorem, PTL DEF Spec, OpensWithClubThree

----------------------------------------------------------------------------
(* Where the cards are.                                                    *)

Deck == (0..12) \X (0..3)

StrictOrder(R, S) ==
    /\ \A c \in S : <<c, c>> \notin R
    /\ \A c, d \in S : c # d => <<c, d>> \in R \/ <<d, c>> \in R
    /\ \A c, d, e \in S : <<c, d>> \in R /\ <<d, e>> \in R => <<c, e>> \in R

\* In a finite set with a strict order, every place up to the last is somebody's.
LEMMA RankOnto ==
  ASSUME NEW S, IsFiniteSet(S), NEW R, StrictOrder(R, S),
         NEW n \in 0..(Cardinality(S) - 1)
  PROVE  \E c \in S : Cardinality({d \in S : <<d, c>> \in R}) = n
<1> DEFINE over(c) == {d \in S : <<d, c>> \in R}
           size == Cardinality(S)
           rank == [c \in S |-> Cardinality(over(c))]
<1>1. size \in Nat
  BY FS_CardinalityType
<1>2. ASSUME NEW c \in S
      PROVE  IsFiniteSet(over(c)) /\ Cardinality(over(c)) \in 0..(size - 1)
  <2>1. over(c) \in SUBSET S /\ c \notin over(c)
    BY DEF StrictOrder
  <2> HIDE DEF over
  <2>2. /\ IsFiniteSet(over(c)) /\ Cardinality(over(c)) <= size
        /\ size = Cardinality(over(c)) => S = over(c)
    BY <2>1, FS_Subset
  <2>3. Cardinality(over(c)) \in Nat
    BY <2>2, FS_CardinalityType
  <2> HIDE DEF size
  <2> QED
    BY <1>1, <2>1, <2>2, <2>3
<1>3. ASSUME NEW c \in S, NEW d \in S, <<c, d>> \in R
      PROVE  Cardinality(over(c)) < Cardinality(over(d))
  <2>1. over(c) \in SUBSET over(d) /\ c \in over(d) /\ c \notin over(c)
    BY <1>3 DEF StrictOrder
  <2> HIDE DEF over
  <2>2. /\ Cardinality(over(c)) <= Cardinality(over(d))
        /\ Cardinality(over(d)) = Cardinality(over(c)) => over(d) = over(c)
    BY <1>2, <2>1, FS_Subset
  <2>3. Cardinality(over(c)) \in Nat /\ Cardinality(over(d)) \in Nat
    BY <1>2, FS_CardinalityType
  <2> QED
    BY <2>1, <2>2, <2>3
<1> HIDE DEF over
<1>4. rank \in Injection(S, 0..(size - 1))
  <2>1. rank \in [S -> 0..(size - 1)]
    BY <1>2
  <2>2. ASSUME NEW c \in S, NEW d \in S, rank[c] = rank[d] PROVE c = d
    <3>1. rank[c] = Cardinality(over(c)) /\ rank[d] = Cardinality(over(d))
      OBVIOUS
    <3> HIDE DEF rank
    <3>2. Cardinality(over(c)) \in Nat /\ Cardinality(over(c)) = Cardinality(over(d))
      BY <1>2, <2>2, <3>1, FS_CardinalityType
    <3>3. <<c, d>> \notin R /\ <<d, c>> \notin R
      BY <1>3, <3>2
    <3> QED
      BY <3>3 DEF StrictOrder
  <2> QED
    BY <2>1, <2>2 DEF Injection, IsInjective
<1>5. IsFiniteSet(0..(size - 1)) /\ Cardinality(0..(size - 1)) = size
  <2>1. 0 \in Int /\ size - 1 \in Int /\ (0 > size - 1 => size = 0) /\ size - 1 - 0 + 1 = size
    BY <1>1
  <2>2. /\ IsFiniteSet(0..(size - 1))
        /\ Cardinality(0..(size - 1)) = IF 0 > size - 1 THEN 0 ELSE size - 1 - 0 + 1
    BY <2>1, FS_Interval, Zenon
  <2> QED
    BY <2>1, <2>2
<1> HIDE DEF rank, size
<1>6. rank \in Surjection(S, 0..(size - 1))
  BY <1>4, <1>5, FS_Injection DEF size
<1>7. PICK c \in S : rank[c] = n
  BY <1>6 DEF Surjection, size
<1>8. rank[c] = Cardinality({d \in S : <<d, c>> \in R})
  BY DEF rank, over
<1> QED
  BY <1>7, <1>8

LEMMA DeckFinite == IsFiniteSet(Deck)
<1>1. 0 \in Int /\ 12 \in Int /\ 3 \in Int
  OBVIOUS
<1>2. IsFiniteSet(0..12) /\ IsFiniteSet(0..3)
  BY <1>1, FS_Interval, Zenon
<1> QED
  BY <1>2, FS_Product DEF Deck

\* A card that is looked up by its place is one of the cards.
LEMMA NthLowestFacts ==
  ASSUME NEW S \in SUBSET Deck, NEW n \in 0..(Cardinality(S) - 1)
  PROVE  NthLowest(S, n) \in S
<1> DEFINE R == {pair \in S \X S : Above(pair[2], pair[1])}
<1>1. IsFiniteSet(S)
  BY DeckFinite, FS_Subset
<1>2. \A c \in S : c = <<c[1], c[2]>> /\ c[1] \in Int /\ c[2] \in Int
  BY DEF Deck
<1>3. \A c, d \in S : <<c, d>> \in R <=> Above(d, c)
  OBVIOUS
<1>4. /\ \A c \in S : ~Above(c, c)
      /\ \A c, d \in S : c # d => Above(c, d) \/ Above(d, c)
      /\ \A c, d, e \in S : Above(c, d) /\ Above(d, e) => Above(c, e)
  BY <1>2 DEF Above, Num, Suit
<1> HIDE DEF R
<1>5. \E c \in S : Cardinality({d \in S : <<d, c>> \in R}) = n
  <2>1. StrictOrder(R, S)
    BY <1>3, <1>4 DEF StrictOrder
  <2> QED
    BY <1>1, <2>1, RankOnto
<1>6. \A c \in S : {d \in S : <<d, c>> \in R} = {d \in S : Above(c, d)}
  BY <1>3
<1>7. \E c \in S : Cardinality({d \in S : Above(c, d)}) = n
  BY <1>5, <1>6
<1> QED
  BY <1>7 DEF NthLowest

LEMMA HighestFacts ==
  ASSUME NEW S \in SUBSET Deck, S # {}
  PROVE  Highest(S) \in S
<1>1. IsFiniteSet(S)
  BY DeckFinite, FS_Subset
<1>2. Cardinality(S) \in Nat \ {0}
  BY <1>1, FS_CardinalityType, FS_EmptySet
<1>3. Cardinality(S) - 1 \in 0..(Cardinality(S) - 1)
  BY <1>2
<1> QED
  BY <1>3, NthLowestFacts DEF Highest

\* So is a group by its place among the groups.
LEMMA NthGroupFacts ==
  ASSUME NEW S \in SUBSET Deck, NEW m, NEW n \in 0..(Cardinality(Groups(S, m)) - 1)
  PROVE  NthGroup(Groups(S, m), n) \in Groups(S, m)
<1> DEFINE groups == Groups(S, m)
           higher(g, h) == Above(Highest(g), Highest(h))
           R == {pair \in groups \X groups : higher(pair[1], pair[2])}
<1>1. IsFiniteSet(groups)
  <2>1. IsFiniteSet(SUBSET Deck)
    BY DeckFinite, FS_SUBSET
  <2>2. groups \in SUBSET SUBSET Deck
    BY DEF Groups, OfNum
  <2> QED
    BY <2>1, <2>2, FS_Subset
<1>2. ASSUME NEW g \in groups
      PROVE  /\ g = OfNum(S, Num(Highest(g))) /\ Num(Highest(g)) \in Int
  <2>1. PICK num \in Nums(S) : g = OfNum(S, num)
    BY DEF Groups
  <2>2. g \in SUBSET Deck /\ g # {} /\ \A c \in g : Num(c) = num
    BY <2>1 DEF OfNum, Nums
  <2>3. Highest(g) \in g
    BY <2>2, HighestFacts
  <2> QED
    BY <2>1, <2>2, <2>3 DEF Deck, Num
<1>3. /\ \A g \in groups : ~higher(g, g)
      /\ \A g, h \in groups : g # h => higher(g, h) \/ higher(h, g)
      /\ \A g, h, i \in groups : higher(g, h) /\ higher(h, i) => higher(g, i)
  <2> DEFINE num(g) == Num(Highest(g))
  <2>1. \A g \in groups : num(g) \in Int
    BY <1>2
  <2>2. \A g, h \in groups : num(g) = num(h) => g = h
    BY <1>2
  <2>3. \A g, h \in groups : g # h => (higher(g, h) <=> num(g) > num(h))
    BY <2>1, <2>2 DEF Above
  <2>4. \A g \in groups : ~higher(g, g)
    <3> SUFFICES ASSUME NEW g \in groups PROVE ~higher(g, g)
      OBVIOUS
    <3>1. PICK x \in Nums(S) : g = OfNum(S, x)
      BY DEF Groups
    <3>2. g \in SUBSET Deck /\ g # {}
      BY <3>1 DEF OfNum, Nums
    <3>3. Highest(g) \in Deck
      BY <3>2, HighestFacts
    <3>4. Num(Highest(g)) \in Int /\ Suit(Highest(g)) \in Int
      BY <3>3 DEF Deck, Num, Suit
    <3> QED
      BY <3>4 DEF Above
  <2> HIDE DEF higher, num, groups
  <2>5. \A g, h \in groups : g # h => num(g) # num(h)
    BY <2>2
  <2> QED
    BY <2>1, <2>3, <2>4, <2>5
<1> HIDE DEF higher
<1>4. \A g, h \in groups : <<g, h>> \in R <=> higher(g, h)
  OBVIOUS
<1> HIDE DEF R, groups
<1>5. \E g \in groups : Cardinality({h \in groups : <<h, g>> \in R}) = n
  <2>1. StrictOrder(R, groups)
    BY <1>3, <1>4 DEF StrictOrder
  <2>2. n \in 0..(Cardinality(groups) - 1)
    BY DEF groups
  <2> QED
    BY <1>1, <2>1, <2>2, RankOnto
<1>6. \A g \in groups : {h \in groups : <<h, g>> \in R} = {h \in groups : higher(h, g)}
  BY <1>4
<1>7. \E g \in groups : Cardinality({h \in groups : higher(h, g)}) = n
  BY <1>5, <1>6
<1> QED
  BY <1>7 DEF NthGroup, higher, groups

\* A full house is of groups of the hand.
LEMMA HousesWithin ==
  ASSUME NEW S \in SUBSET Deck
  PROVE  \A h \in Houses(Groups(S, 3), Groups(S, 2)) : h \subseteq S
<1> DEFINE a == Cardinality(Groups(S, 3))
           b == Cardinality(Groups(S, 2))
<1>1. \A m : IsFiniteSet(Groups(S, m)) /\ Groups(S, m) \in SUBSET SUBSET S
  <2> SUFFICES ASSUME NEW m PROVE IsFiniteSet(Groups(S, m)) /\ Groups(S, m) \in SUBSET SUBSET S
    OBVIOUS
  <2>1. IsFiniteSet(SUBSET Deck)
    BY DeckFinite, FS_SUBSET
  <2>2. Groups(S, m) \in SUBSET SUBSET S
    BY DEF Groups, OfNum
  <2>3. Groups(S, m) \in SUBSET SUBSET Deck
    BY <2>2
  <2> QED
    BY <2>1, <2>2, <2>3, FS_Subset
<1>2. a \in Nat /\ b \in Nat
  BY <1>1, FS_CardinalityType
<1> HIDE DEF a, b
<1>3. ASSUME NEW n \in 0..(Min({a, b}) - 1) PROVE n \in 0..(a - 1) /\ n \in 0..(b - 1)
  <2>1. {a, b} \in SUBSET Nat /\ {a, b} # {} /\ a \in {a, b} /\ b \in {a, b}
    BY <1>2
  <2>2. Min({a, b}) \in Nat /\ Min({a, b}) <= a /\ Min({a, b}) <= b
    BY <2>1, MinFacts
  <2> QED
    BY <1>2, <2>2
<1> SUFFICES ASSUME NEW n \in 0..(Min({a, b}) - 1)
             PROVE  NthGroup(Groups(S, 3), n) \union NthGroup(Groups(S, 2), n) \subseteq S
  BY DEF Houses, a, b
<1>4. NthGroup(Groups(S, 3), n) \in Groups(S, 3) /\ NthGroup(Groups(S, 2), n) \in Groups(S, 2)
  BY <1>3, NthGroupFacts DEF a, b
<1> QED
  BY <1>1, <1>4

\* The cards of a class are cards of the hand.
LEMMA ClassesWithin ==
  ASSUME NEW hand \in SUBSET Deck
  PROVE  \A k \in ClassingPokers(hand) : k.cards \subseteq hand
<1> DEFINE royal == StraightFlushes(hand)
           loose == Loose(hand)
           fours == Groups(loose, 4)
           triples == Groups(loose, 3)
           pairs == Groups(loose, 2)
           houses == Houses(triples, pairs)
           singles == UNION Groups(loose, 1)
           flushes == Flushes(singles)
           straights == Straights(singles \ UNION flushes)
           others == singles \ (Cards(straights) \union UNION flushes)
<1>1. loose \in SUBSET hand /\ loose \in SUBSET Deck
  BY DEF Loose
<1>2. \A m : Groups(loose, m) \in SUBSET SUBSET hand
  BY <1>1 DEF Groups, OfNum
<1>3. \A groups, n : groups \in SUBSET SUBSET hand =>
          \A k \in AllOf(groups, n) : k.cards \subseteq hand
  BY DEF AllOf, Class
<1>4. \A k \in royal : k.cards \subseteq hand
  <2> SUFFICES ASSUME NEW s \in 0..3, NEW row
               PROVE  Class(InRow(OfSuit(hand, s), row), StraightFlush, Level(row)).cards
                        \subseteq hand
    BY DEF StraightFlushes
  <2> QED
    BY DEF Class, InRow, OfSuit
<1>5. houses \in SUBSET SUBSET hand
  BY <1>1, HousesWithin
<1>6. singles \in SUBSET hand
  BY <1>2
<1>7. flushes \in SUBSET SUBSET singles
  <2> HIDE DEF singles
  <2> SUFFICES ASSUME NEW f \in flushes PROVE f \subseteq singles
    OBVIOUS
  <2>1. PICK s \in 0..3 :
          LET S == OfSuit(singles, s)
          IN  f \in {{c \in S : Cardinality({d \in S : Above(d, c)}) \in (5 * i)..(5 * i + 4)}
                        : i \in 0..(Cardinality(S) \div 5 - 1)}
    BY Zenon DEF Flushes
  <2>2. f \subseteq OfSuit(singles, s)
    BY <2>1
  <2> QED
    BY <2>2 DEF OfSuit
<1>8. \A k \in straights : k.cards \subseteq singles
  BY DEF Straights, Class, InRow
<1> HIDE DEF royal, loose, fours, houses, singles, flushes, straights
<1>9. {g \in triples : \A h \in houses : ~g \subseteq h} \in SUBSET SUBSET hand
      /\ {g \in pairs : \A h \in houses : ~g \subseteq h} \in SUBSET SUBSET hand
      /\ {{c} : c \in others} \in SUBSET SUBSET hand
  BY <1>2, <1>6
<1>10. fours \in SUBSET SUBSET hand /\ flushes \in SUBSET SUBSET hand
       /\ \A k \in straights : k.cards \subseteq hand
  BY <1>2, <1>6, <1>7, <1>8 DEF fours
<1> SUFFICES ASSUME NEW k \in ClassingPokers(hand) PROVE k.cards \subseteq hand
  OBVIOUS
<1>11. \/ k = Trap
       \/ k \in royal \/ k \in straights
       \/ k \in AllOf(fours, Four) \/ k \in AllOf(houses, FullHouse)
       \/ k \in AllOf(flushes, Flush)
       \/ k \in AllOf({g \in triples : \A h \in houses : ~g \subseteq h}, Triple)
       \/ k \in AllOf({g \in pairs : \A h \in houses : ~g \subseteq h}, Pair)
       \/ k \in AllOf({{c} : c \in others}, Single)
  BY Zenon DEF ClassingPokers, royal, loose, fours, houses, singles, flushes, straights
<1>12. Trap.cards = {}
  BY DEF Trap, Class
<1> HIDE DEF triples, pairs, others
<1> QED
  BY <1>3, <1>4, <1>5, <1>9, <1>10, <1>11, <1>12

\* What is played is of the player's cards.
LEMMA PlayFacts ==
  ASSUME NEW hand \in Hands, NEW pokers, NEW action \in 0..2,
         NEW play \in ComputerPoker(Classes[hand], pokers, action) \ {NoClass, Trap}
  PROVE  play.cards \subseteq hand /\ play.classing \in 0..7
<1> DEFINE classes == ClassingPokers(hand)
<1>1. hand \in SUBSET Deck
  <2>1. PICK deal \in Deals, p \in Players : hand \in SUBSET deal[p]
    BY DEF Hands
  <2> QED
    BY <2>1, DealsAssumption DEF Deck
<1>2. play \in classes
  <2>1. play \in ComputerPoker(classes, pokers, action)
    BY ClassesFacts
  <2> HIDE DEF classes
  <2> QED
    BY <2>1 DEF ComputerPoker, OrNoClass, Greatest, Least
<1>3. play.cards \subseteq hand
  BY <1>1, <1>2, ClassesWithin
<1>4. Ranked(play)
  BY <1>2, HandRanked
<1> QED
  BY <1>3, <1>4 DEF Ranked

\* The bounds of the variables.
Bounded ==
    /\ page \in {"HomePage", "GamePage", "ended"}
    /\ desk.classing \in -1..7
    /\ playersPassed \in [Players -> BOOLEAN]
    /\ currentAct \in 0..2 /\ currentPlay \in Players
    /\ {playing, passConfirmable, activeShowScorePage, showScorePage} \subseteq BOOLEAN
    /\ leader \in Players \union {NoOne} /\ chains \in Nat /\ games \in 0..MaxGames

\* Every card is in one place, and who is in the rank has none.
Placed ==
    /\ \A p, q \in Players : p # q => cards[p] \intersect cards[q] = {}
    /\ \A p \in Players : cards[p] \intersect userPreDeskCards = {}
    /\ leader # NoOne =>
           desk.cards \intersect (userPreDeskCards \union UNION {cards[p] : p \in Players}) = {}
    /\ \A p \in Winned : cards[p] = {} /\ (p = Human => userPreDeskCards = {})

\* The human's cards, selected or not, are of those that were dealt.
Held == page = "GamePage" => cards[Human] \union userPreDeskCards \in Hands

PlaceInv == Bounded /\ Placed /\ Held

LEMMA TypeSplit == TypeOK <=> Bounded /\ Placed
  BY DEF TypeOK, Bounded, Placed

\* The action is one of ComputerPoker's.
LEMMA ActFacts == ASSUME Bounded PROVE Act \in 0..2
  BY DEF Bounded, Act

\* What a computer plays is of its cards.
LEMMA ComputerPlayFacts ==
  ASSUME PokerInv, PlaceInv, ComputersTurn, NEW play \in Plays \ {NoClass, Trap}
  PROVE  /\ currentPlay \in Players \ {Human}
         /\ play.cards \subseteq cards[currentPlay] /\ play.classing \in 0..7
<1>1. currentPlay \in Players \ {Human} /\ page = "GamePage"
  BY DEF ComputersTurn, PokerInv, Typed
<1>2. cards[currentPlay] \in Hands
  BY <1>1 DEF PokerInv, Dealt
<1>3. play \in ComputerPoker(Classes[cards[currentPlay]], desk, Act) \ {NoClass, Trap}
  BY DEF Plays
<1>4. Act \in 0..2
  BY ActFacts DEF PlaceInv
<1> QED
  BY <1>1, <1>2, <1>3, <1>4, PlayFacts

\* What the human plays is of the selection.
LEMMA SelectedFacts ==
  ASSUME PokerInv, PlaceInv, ButtonsEnabled, NEW play \in Selected \ {NoClass, Trap}
  PROVE  play.cards \subseteq userPreDeskCards /\ play.classing \in 0..7
<1>1. cards[Human] \union userPreDeskCards \in Hands
  BY DEF PlaceInv, Held, ButtonsEnabled, OnPage
<1>2. userPreDeskCards \in Hands
  BY <1>1, HandsClosed
<1>3. play \in ComputerPoker(Classes[userPreDeskCards], desk, Act) \ {NoClass, Trap}
  BY DEF Selected
<1>4. Act \in 0..2
  BY ActFacts DEF PlaceInv
<1> QED
  BY <1>2, <1>3, <1>4, PlayFacts

\* Who plays all the cards is in the rank from then on, and nobody else is.
LEMMA PlayedRank ==
  ASSUME PokerInv, NEW play, NEW left, Played(play, left)
  PROVE  /\ desk' = play /\ leader' = currentPlay /\ currentAct' = 2
         /\ \A p \in Winned' : p \in Winned \/ (p = currentPlay /\ left = {})
<1>1. desk' = play /\ leader' = currentPlay /\ currentAct' = 2
  BY DEF Played
<1>2. CASE left = {}
  <2>1. Winned' = Winned \union {currentPlay}
    BY <1>2, RankFacts DEF Played, PokerInv, Typed
  <2> QED
    BY <1>1, <1>2, <2>1
<1>3. CASE left # {}
  <2>1. Winned' = Winned
    BY <1>3 DEF Played, Winned
  <2> QED
    BY <1>1, <2>1
<1> QED
  BY <1>2, <1>3

\* A step that moves no card and ranks nobody.
LEMMA PlacesKept ==
  ASSUME Placed, Held, UNCHANGED <<table, winnerRank>>, page' = page \/ page' # "GamePage"
  PROVE  Placed' /\ Held'
<1>1. UNCHANGED <<cards, userPreDeskCards, desk, leader>> /\ Winned' = Winned
  BY DEF table, Winned
<1> QED
  BY <1>1 DEF Placed, Held

\* The deal puts every card in one place.
LEMMA DealPlaces ==
  ASSUME initialGame
  PROVE  Placed' /\ Held' /\ currentAct' = 0 /\ games' = games + 1 /\ games < MaxGames
<1>1. PICK deal \in Deals : cards' = deal
  BY DEF initialGame
<1>2. /\ userPreDeskCards' = {} /\ winnerRank' = <<>> /\ leader' = NoOne /\ currentAct' = 0
      /\ games' = games + 1 /\ games < MaxGames
  BY DEF initialGame
<1>3. Winned' = {}
  BY <1>2 DEF Winned
<1>4. \A p, q \in Players : p # q => deal[p] \intersect deal[q] = {}
  BY DealsAssumption
<1>5. Placed'
  BY <1>1, <1>2, <1>3, <1>4 DEF Placed
<1>6. cards'[Human] \union userPreDeskCards' \in Hands
  <2>1. cards'[Human] \union userPreDeskCards' = deal[Human] /\ Human \in Players
    BY <1>1, <1>2 DEF Human, Players
  <2>2. ASSUME NEW p \in Players PROVE deal[p] \in Hands
    <3>1. deal[p] \in SUBSET deal[p]
      OBVIOUS
    <3> QED
      BY <3>1 DEF Hands
  <2> QED
    BY <2>1, <2>2
<1> QED
  BY <1>2, <1>5, <1>6 DEF Held

LEMMA InitPlaces == ASSUME Init PROVE PlaceInv
<1>1. Winned = {}
  BY DEF Init, Winned
<1>2. Bounded
  BY BoundAssumption DEF Init, Bounded, NoClass, Class, NoFlags, Players, Human, NoOne
<1>3. Placed
  BY <1>1 DEF Init, Placed, NoCards
<1>4. Held
  BY DEF Init, Held
<1> QED
  BY <1>2, <1>3, <1>4 DEF PlaceInv

\* What a step may change besides the cards, the rank and the lead stays in bounds.
LEMMA BoundsKept ==
  ASSUME PokerInv', Bounded,
         {playing', passConfirmable', activeShowScorePage', showScorePage'} \subseteq BOOLEAN,
         desk' = desk \/ desk'.classing \in -1..7,
         currentAct' = currentAct \/ currentAct' \in 0..2,
         chains' \in Nat,
         games' = games \/ (games' = games + 1 /\ games < MaxGames)
  PROVE  Bounded'
<1>1. /\ page' \in {"HomePage", "GamePage", "ended"} /\ playersPassed' \in [Players -> BOOLEAN]
      /\ currentPlay' \in Players /\ leader' \in Players \union {NoOne}
  BY DEF PokerInv, Typed
<1>2. desk'.classing \in -1..7 /\ currentAct' \in 0..2 /\ games' \in 0..MaxGames
  BY BoundAssumption DEF Bounded
<1> QED
  BY <1>1, <1>2 DEF Bounded

\* Play, Next Game and Reset Game deal.
LEMMA BeginsPlaces ==
  ASSUME PokerInv', PlaceInv, OnAppear \/ NextGame \/ ResetGame
  PROVE  PlaceInv'
<1>1. initialGame /\ gamePlay /\ UNCHANGED <<desk, activeShowScorePage, chains>>
      /\ (showScorePage' = showScorePage \/ showScorePage' = FALSE)
  BY DEF OnAppear, NextGame, ResetGame
<1>2. Placed' /\ Held' /\ currentAct' = 0 /\ games' = games + 1 /\ games < MaxGames
  BY <1>1, DealPlaces
<1>3. playing' = TRUE /\ passConfirmable' = TRUE
  BY <1>1 DEF gamePlay
<1>4. Bounded'
  <2>1. Bounded /\ chains' \in Nat
    BY <1>1 DEF PlaceInv, Bounded
  <2>2. {playing', passConfirmable', activeShowScorePage', showScorePage'} \subseteq BOOLEAN
    BY <1>1, <1>3, <2>1 DEF Bounded
  <2> QED
    BY <1>1, <1>2, <2>1, <2>2, BoundsKept
<1> QED
  BY <1>2, <1>4 DEF PlaceInv

\* The page is left with its cards, or a chain of closures ends.
LEMMA PagesPlaces ==
  ASSUME PokerInv', PlaceInv, Menu \/ ChainEnds
  PROVE  PlaceInv'
<1>1. CASE Menu
  <2>1. /\ page' = "HomePage" /\ cards' = NoCards /\ userPreDeskCards' = {} /\ desk' = NoClass
        /\ leader' = NoOne /\ winnerRank' = <<>> /\ currentAct' = 0 /\ chains' = 0
        /\ passConfirmable' = FALSE /\ activeShowScorePage' = FALSE
        /\ UNCHANGED <<playing, showScorePage, games>>
    BY <1>1 DEF Menu
  <2>2. Winned' = {}
    BY <2>1 DEF Winned
  <2>3. Placed' /\ Held'
    <3>1. \A p \in Players : cards'[p] = {}
      BY <2>1 DEF NoCards
    <3>2. Placed'
      BY <2>1, <2>2, <3>1 DEF Placed
    <3>3. Held'
      BY <2>1 DEF Held
    <3> QED
      BY <3>2, <3>3
  <2>4. desk'.classing \in -1..7
    BY <2>1 DEF NoClass, Class
  <2>5. Bounded'
    <3>1. {playing', passConfirmable', activeShowScorePage', showScorePage'} \subseteq BOOLEAN
      BY <2>1 DEF PlaceInv, Bounded
    <3> QED
      BY <2>1, <2>4, <3>1, BoundsKept DEF PlaceInv
  <2> QED
    BY <2>3, <2>5 DEF PlaceInv
<1>2. CASE ChainEnds
  <2>1. /\ chains > 0 /\ chains' = chains - 1
        /\ passConfirmable' = FALSE /\ activeShowScorePage' = FALSE
        /\ showScorePage' = (showScorePage \/ activeShowScorePage)
        /\ UNCHANGED <<table, winnerRank, currentAct, page, games, playing, desk>>
    BY <1>2 DEF ChainEnds, table, turn
  <2>2. Placed' /\ Held'
    BY <2>1, PlacesKept DEF PlaceInv
  <2>3. Bounded'
    <3>1. chains' \in Nat /\ {playing, showScorePage'} \subseteq BOOLEAN
      BY <2>1 DEF PlaceInv, Bounded
    <3> QED
      BY <2>1, <3>1, BoundsKept DEF PlaceInv
  <2> QED
    BY <2>2, <2>3 DEF PlaceInv
<1> QED
  BY <1>1, <1>2

\* A card moves between the hand and the selection.
LEMMA SelectPlaces ==
  ASSUME PokerInv, PokerInv', PlaceInv,
         (\E c \in cards[Human] : Select(c)) \/ (\E c \in userPreDeskCards : Deselect(c))
  PROVE  PlaceInv'
<1> DEFINE hand == cards[Human]
           others == Players \ {Human}
<1>1. /\ UNCHANGED <<page, desk, leader, winnerRank, currentAct>>
      /\ UNCHANGED <<playing, passConfirmable, activeShowScorePage, showScorePage, chains, games>>
  BY DEF Select, Deselect, turn, view
<1>2. Human \in Players /\ DOMAIN cards = Players /\ DOMAIN cards' = Players
  BY DEF PokerInv, Typed, Human, Players
<1>3. /\ \A p \in others : cards'[p] = cards[p]
      /\ cards'[Human] \intersect userPreDeskCards' = {}
      /\ cards'[Human] \union userPreDeskCards' = hand \union userPreDeskCards
      /\ hand \union userPreDeskCards # {}
  <2>1. hand \intersect userPreDeskCards = {}
    BY <1>2 DEF PlaceInv, Placed
  <2>2. CASE \E c \in hand : Select(c)
    BY <1>2, <2>1, <2>2 DEF Select
  <2>3. CASE \E c \in userPreDeskCards : Deselect(c)
    BY <1>2, <2>1, <2>3 DEF Deselect
  <2> QED
    BY <2>2, <2>3
<1>4. Placed'
  <2>1. Winned' = Winned /\ Human \notin Winned
    BY <1>1, <1>3 DEF Winned, PlaceInv, Placed
  <2>2. \A p \in others : cards'[p] \intersect (cards'[Human] \union userPreDeskCards') = {}
    BY <1>2, <1>3 DEF PlaceInv, Placed
  <2>3. \A p, q \in Players : p # q => cards'[p] \intersect cards'[q] = {}
    BY <1>3, <2>2 DEF PlaceInv, Placed
  <2>4. \A p \in Players : cards'[p] \intersect userPreDeskCards' = {}
    BY <1>3, <2>2
  <2>5. userPreDeskCards' \union UNION {cards'[p] : p \in Players}
          = userPreDeskCards \union UNION {cards[p] : p \in Players}
    <3>1. \A c : (\E p \in Players : c \in cards[p])
                   <=> c \in hand \/ \E p \in others : c \in cards[p]
      BY <1>2
    <3>2. \A c : (\E p \in Players : c \in cards'[p])
                   <=> c \in cards'[Human] \/ \E p \in others : c \in cards[p]
      BY <1>2, <1>3
    <3> QED
      BY <1>3, <3>1, <3>2
  <2>6. \A p \in Winned' : cards'[p] = {} /\ (p = Human => userPreDeskCards' = {})
    <3>1. Winned \subseteq Players
      BY WinnedFacts DEF PokerInv, Typed
    <3> QED
      BY <1>3, <2>1, <3>1 DEF PlaceInv, Placed
  <2>7. leader' # NoOne =>
          desk'.cards \intersect (userPreDeskCards' \union UNION {cards'[p] : p \in Players}) = {}
    BY <1>1, <2>5 DEF PlaceInv, Placed
  <2> QED
    BY <2>3, <2>4, <2>6, <2>7 DEF Placed
<1>5. Held'
  BY <1>1, <1>3 DEF PlaceInv, Held
<1>6. Bounded'
  BY <1>1, BoundsKept DEF PlaceInv, Bounded
<1> QED
  BY <1>4, <1>5, <1>6 DEF PlaceInv

\* Cards only go, and whoever is in the rank has none left.
LEMMA PlacesShrink ==
  ASSUME Placed, \A p \in Players : cards'[p] \subseteq cards[p],
         userPreDeskCards' \subseteq userPreDeskCards,
         \/ UNCHANGED <<desk, leader>>
         \/ /\ desk'.cards \intersect userPreDeskCards' = {}
            /\ \A p \in Players : desk'.cards \intersect cards'[p] = {},
         Winned' \subseteq Players,
         \A p \in Winned' :
             p \in Winned \/ (cards'[p] = {} /\ (p = Human => userPreDeskCards' = {}))
  PROVE  Placed'
<1>1. /\ \A p, q \in Players : p # q => cards'[p] \intersect cards'[q] = {}
      /\ \A p \in Players : cards'[p] \intersect userPreDeskCards' = {}
  BY DEF Placed
<1>2. ASSUME leader' # NoOne
      PROVE  desk'.cards \intersect
               (userPreDeskCards' \union UNION {cards'[p] : p \in Players}) = {}
  <2>1. CASE UNCHANGED <<desk, leader>>
    BY <1>2, <2>1 DEF Placed
  <2>2. CASE /\ desk'.cards \intersect userPreDeskCards' = {}
             /\ \A p \in Players : desk'.cards \intersect cards'[p] = {}
    BY <2>2
  <2> QED
    BY <2>1, <2>2
<1>3. \A p \in Winned' : cards'[p] = {} /\ (p = Human => userPreDeskCards' = {})
  BY DEF Placed
<1> QED
  BY <1>1, <1>2, <1>3 DEF Placed

\* Steps of gamePlay.
LEMMA ProceedsPlaces ==
  ASSUME PokerInv, PokerInv', PlaceInv, Proceeds
  PROVE  PlaceInv'
<1>1. Placed /\ Held /\ Bounded /\ DOMAIN cards = Players /\ winnerRank' \in Seq(Players)
  BY DEF PlaceInv, PokerInv, Typed
<1>2. Winned' \subseteq Players
  BY <1>1, WinnedFacts DEF Winned
<1>3. CASE SkipWinner \/ ComputerPasses \/ ComputerTraps
  <2>1. /\ UNCHANGED <<table, winnerRank, desk, chains, games>>
        /\ UNCHANGED <<playing, passConfirmable, activeShowScorePage, showScorePage>>
        /\ currentAct' = currentAct \/ currentAct' = Act
        /\ page' = page \/ page' # "GamePage"
    BY <1>3 DEF SkipWinner, ComputerPasses, ComputerTraps, AppEnds, Passed, table, turn, view
  <2>2. Placed' /\ Held'
    BY <1>1, <2>1, PlacesKept
  <2>3. currentAct' = currentAct \/ currentAct' \in 0..2
    BY <1>1, <2>1, ActFacts
  <2>4. Bounded'
    BY <1>1, <2>1, <2>3, BoundsKept DEF Bounded
  <2> QED
    BY <2>2, <2>4 DEF PlaceInv
<1>4. CASE ComputerPlays
  <2>1. /\ ComputersTurn
        /\ UNCHANGED <<page, userPreDeskCards, chains, games, playing, passConfirmable>>
        /\ UNCHANGED <<activeShowScorePage, showScorePage>>
    BY <1>4 DEF ComputerPlays, view
  <2>2. PICK play \in Plays \ {NoClass, Trap} :
          /\ Played(play, cards[currentPlay] \ play.cards)
          /\ cards' = [cards EXCEPT ![currentPlay] = cards[currentPlay] \ play.cards]
    BY <1>4 DEF ComputerPlays
  <2>3. /\ currentPlay \in Players \ {Human}
        /\ play.cards \subseteq cards[currentPlay] /\ play.classing \in 0..7
    BY <2>1, ComputerPlayFacts
  <2>4. /\ desk' = play /\ leader' = currentPlay /\ currentAct' = 2
        /\ \A p \in Winned' : \/ p \in Winned
                              \/ p = currentPlay /\ cards[currentPlay] \ play.cards = {}
    BY <2>2, PlayedRank
  <2>5. /\ cards'[currentPlay] = cards[currentPlay] \ play.cards
        /\ \A p \in Players \ {currentPlay} : cards'[p] = cards[p]
    BY <1>1, <2>2, <2>3
  <2>6. /\ desk'.cards \intersect userPreDeskCards' = {}
        /\ \A p \in Players : desk'.cards \intersect cards'[p] = {}
    BY <1>1, <2>1, <2>3, <2>4, <2>5 DEF Placed
  <2>7. \A p \in Winned' :
             p \in Winned \/ (cards'[p] = {} /\ (p = Human => userPreDeskCards' = {}))
    BY <2>3, <2>4, <2>5
  <2>8. Placed'
    BY <1>1, <1>2, <2>1, <2>5, <2>6, <2>7, PlacesShrink
  <2>9. Held'
    <3>1. cards'[Human] = cards[Human]
      BY <2>3, <2>5 DEF Human, Players
    <3> QED
      BY <1>1, <2>1, <3>1 DEF Held
  <2>10. Bounded'
    BY <1>1, <2>1, <2>3, <2>4, BoundsKept DEF Bounded
  <2> QED
    BY <2>8, <2>9, <2>10 DEF PlaceInv
<1>5. CASE RoundEnds
  <2>1. /\ UNCHANGED <<page, userPreDeskCards, desk, leader, winnerRank, showScorePage, games>>
        /\ chains' = chains + 1 /\ Winned' = Winned
    BY <1>5 DEF RoundEnds, Winned
  <2>2. /\ cards' = cards \/ cards' = [cards EXCEPT ![1] = {}, ![2] = {}, ![3] = {}]
        /\ currentAct' = currentAct \/ currentAct' = 2
        /\ activeShowScorePage' = activeShowScorePage \/ activeShowScorePage' = TRUE
        /\ playing' = FALSE \/ playing' = TRUE
        /\ passConfirmable' = passConfirmable \/ passConfirmable' = TRUE
    BY <1>5 DEF RoundEnds, gamePlay
  <2>3. cards'[Human] = cards[Human] /\ \A p \in Players : cards'[p] \subseteq cards[p]
    BY <1>1, <2>2 DEF Human, Players
  <2>4. Placed'
    BY <1>1, <1>2, <2>1, <2>3, PlacesShrink
  <2>5. Held'
    BY <1>1, <2>1, <2>3 DEF Held
  <2>6. Bounded'
    <3>1. {playing', passConfirmable', activeShowScorePage', showScorePage'} \subseteq BOOLEAN
      BY <1>1, <2>1, <2>2 DEF Bounded
    <3>2. chains' \in Nat
      BY <1>1, <2>1 DEF Bounded
    <3> QED
      BY <1>1, <2>1, <2>2, <3>1, <3>2, BoundsKept
  <2> QED
    BY <2>4, <2>5, <2>6 DEF PlaceInv
<1> QED
  BY <1>3, <1>4, <1>5 DEF Proceeds

\* The human's buttons.
LEMMA ButtonsPlaces ==
  ASSUME PokerInv, PokerInv', PlaceInv, Pass \/ Confirm \/ ConfirmRefused \/ ConfirmTraps
  PROVE  PlaceInv'
<1>1. Placed /\ Held /\ Bounded /\ winnerRank' \in Seq(Players)
  BY DEF PlaceInv, PokerInv, Typed
<1>2. Winned' \subseteq Players
  BY <1>1, WinnedFacts DEF Winned
<1>3. CASE Pass \/ ConfirmRefused \/ ConfirmTraps
  <2>1. /\ UNCHANGED <<table, winnerRank, desk, chains, games>>
        /\ UNCHANGED <<activeShowScorePage, showScorePage>>
        /\ playing' = playing \/ playing' = TRUE
        /\ passConfirmable' = passConfirmable \/ passConfirmable' = TRUE
        /\ currentAct' = currentAct \/ currentAct' = Act \/ currentAct' = 2
        /\ page' = page \/ page' # "GamePage"
    BY <1>3 DEF Pass, ConfirmRefused, ConfirmTraps, AppEnds, Passed, gamePlay, table, turn, view
  <2>2. Placed' /\ Held'
    BY <1>1, <2>1, PlacesKept
  <2>3. currentAct' = currentAct \/ currentAct' \in 0..2
    BY <1>1, <2>1, ActFacts
  <2>4. {playing', passConfirmable', activeShowScorePage', showScorePage'} \subseteq BOOLEAN
    BY <1>1, <2>1 DEF Bounded
  <2>5. chains' \in Nat
    BY <1>1, <2>1 DEF Bounded
  <2>6. Bounded'
    BY <1>1, <2>1, <2>3, <2>4, <2>5, BoundsKept
  <2> QED
    BY <2>2, <2>6 DEF PlaceInv
<1>4. CASE Confirm
  <2>1. /\ ButtonsEnabled /\ UNCHANGED <<page, cards, chains, games>>
        /\ UNCHANGED <<activeShowScorePage, showScorePage>>
        /\ playing' = TRUE /\ passConfirmable' = TRUE
    BY <1>4 DEF Confirm, gamePlay, view
  <2>2. PICK play \in Selected \ {NoClass, Trap} :
          /\ Played(play, cards[Human] \union (userPreDeskCards \ play.cards))
          /\ userPreDeskCards' = userPreDeskCards \ play.cards
    BY <1>4 DEF Confirm
  <2>3. play.cards \subseteq userPreDeskCards /\ play.classing \in 0..7
    BY <2>1, SelectedFacts
  <2>4. currentPlay = Human
    BY <2>1, EnabledFacts
  <2>5. /\ desk' = play /\ leader' = currentPlay /\ currentAct' = 2
        /\ \A p \in Winned' :
              \/ p \in Winned
              \/ p = Human /\ cards[Human] \union (userPreDeskCards \ play.cards) = {}
    BY <2>2, <2>4, PlayedRank
  <2>6. /\ desk'.cards \intersect userPreDeskCards' = {}
        /\ \A p \in Players : desk'.cards \intersect cards'[p] = {}
    BY <1>1, <2>1, <2>2, <2>3, <2>5 DEF Placed
  <2>7. \A p \in Winned' :
             p \in Winned \/ (cards'[p] = {} /\ (p = Human => userPreDeskCards' = {}))
    BY <2>1, <2>2, <2>5
  <2>8. Placed'
    BY <1>1, <1>2, <2>1, <2>2, <2>6, <2>7, PlacesShrink
  <2>9. Held'
    <3>1. cards[Human] \union userPreDeskCards' \in SUBSET (cards[Human] \union userPreDeskCards)
      BY <2>2
    <3>2. page = "GamePage" => cards[Human] \union userPreDeskCards' \in Hands
      BY <1>1, <3>1, HandsClosed DEF Held
    <3>3. page' = page /\ cards' = cards /\ Hands' = Hands
      BY <2>1 DEF Hands
    <3> QED
      BY <3>2, <3>3 DEF Held
  <2>10. Bounded'
    <3>1. /\ {playing', passConfirmable', activeShowScorePage', showScorePage'} \subseteq BOOLEAN
          /\ chains' \in Nat
      BY <1>1, <2>1 DEF Bounded
    <3> QED
      BY <1>1, <2>1, <2>3, <2>5, <3>1, BoundsKept
  <2> QED
    BY <2>8, <2>9, <2>10 DEF PlaceInv
<1> QED
  BY <1>3, <1>4

LEMMA StutterPlaces == ASSUME PlaceInv, UNCHANGED vars PROVE PlaceInv'
  BY DEF vars, PlaceInv, Bounded, Placed, Held, Winned

\* No card is in two places, nobody plays a card that is not his, and who is in the rank
\* has none, in any game of any deals: after Menu, after a game that followed another,
\* and whatever part of the selection a play leaves where it is.
THEOREM PlacesTheorem == Spec => []TypeOK
<1>1. Init => PlaceInv
  BY InitPlaces
<1>2. ASSUME PokerInv, PokerInv', PlaceInv, [Next]_vars PROVE PlaceInv'
  <2>1. CASE OnAppear \/ NextGame \/ ResetGame
    BY <1>2, <2>1, BeginsPlaces
  <2>2. CASE Menu \/ ChainEnds
    BY <1>2, <2>2, PagesPlaces
  <2>3. CASE Proceeds
    BY <1>2, <2>3, ProceedsPlaces
  <2>4. CASE (\E c \in cards[Human] : Select(c)) \/ (\E c \in userPreDeskCards : Deselect(c))
    BY <1>2, <2>4, SelectPlaces
  <2>5. CASE Pass \/ Confirm \/ ConfirmRefused \/ ConfirmTraps
    BY <1>2, <2>5, ButtonsPlaces
  <2>6. CASE UNCHANGED vars
    BY <1>2, <2>6, StutterPlaces
  <2> QED
    BY <1>2, <2>1, <2>2, <2>3, <2>4, <2>5, <2>6 DEF Next
<1>3. PlaceInv => TypeOK
  BY TypeSplit DEF PlaceInv
<1> QED
  BY <1>1, <1>2, <1>3, InvariantTheorem, PTL DEF Spec
=============================================================================
