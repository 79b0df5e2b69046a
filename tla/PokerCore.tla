------------------------------- MODULE PokerCore -------------------------------
(***************************************************************************)
(* The rules of Big Two as pokerCore.swift has them: how a hand is split   *)
(* into classes (ClassingPokers), which class beats which, and what a      *)
(* player can play (ComputerPoker), the human's selection included.        *)
(*                                                                         *)
(* A card is <<num, suit>>: num 0 is the 3 and 12 the 2, suit 0 to 3 are   *)
(* clubs, diamonds, hearts and spades.  Hands and classes are sets of      *)
(* cards.  Equal classes are sorted in an order that Swift leaves open, so *)
(* ComputerPoker gives the set of the plays it may choose.                 *)
(***************************************************************************)
EXTENDS Integers, FiniteSets, FiniteSetsExt, SequencesExt

Num(c) == c[1]
Suit(c) == c[2]

ClubThree == <<0, 0>>

\* The orders of cards: poker's >, which is PokerNumCompare, and PokerSuitCompare.
Above(c, d) == Num(c) > Num(d) \/ (Num(c) = Num(d) /\ Suit(c) > Suit(d))

\* The card of S with n below it in the order of poker's <.
NthLowest(S, n) == CHOOSE c \in S : Cardinality({d \in S : Above(c, d)}) = n
Lowest(S) == NthLowest(S, 0)
Highest(S) == NthLowest(S, Cardinality(S) - 1)

Nums(S) == {Num(c) : c \in S}
OfSuit(S, s) == {c \in S : Suit(c) = s}
OfNum(S, n) == {c \in S : Num(c) = n}

----------------------------------------------------------------------------
(* Classes.                                                                *)

Single == 0
Pair == 1
Triple == 2
Straight == 3
Flush == 4
FullHouse == 5
Four == 6
StraightFlush == 7

\* pokerClass() is the empty one; a level tells straights apart.
Class(pokers, classing, level) == [cards |-> pokers, classing |-> classing, level |-> level]
NoClass == Class({}, -1, 0)

\* Stands for an index out of range, which ends the app.
Trap == Class({}, -2, 0)

\* SHUNZI, its ten rows as sets of nums.  Row 1 is 2-3-4-5-6 and row 10 A-2-3-4-5.
SHUNZI == [i \in 1..10 |->
    IF i = 1 THEN {12, 3, 2, 1, 0}
    ELSE IF i = 10 THEN {12, 11, 2, 1, 0}
    ELSE (9 - i)..(13 - i)]

Level(row) == 11 - row

Rows(S, rows) == {i \in rows : SHUNZI[i] \subseteq Nums(S)}
InRow(S, row) == {c \in S : Num(c) \in SHUNZI[row]}

\* At most one straight flush of a suit: that of the highest card, row 1 before row 10.
StraightFlushes(hand) ==
    UNION {LET S == OfSuit(hand, s)
               rows == Rows(S, 1..10)
               row == IF 1 \in rows THEN 1 ELSE IF 10 \in rows THEN 10 ELSE Min(rows)
           IN  IF rows = {} THEN {} ELSE {Class(InRow(S, row), StraightFlush, Level(row))}
           : s \in 0..3}

Cards(classes) == UNION {k.cards : k \in classes}

\* The cards of every num of which S has exactly n.
Groups(S, n) == {OfNum(S, m) : m \in {m \in Nums(S) : Cardinality(OfNum(S, m)) = n}}

\* The group with n higher ones, by num.
NthGroup(groups, n) ==
    CHOOSE g \in groups :
        Cardinality({h \in groups : Above(Highest(h), Highest(g))}) = n

\* Full houses of the highest triples with the highest pairs.
Houses(triples, pairs) ==
    {NthGroup(triples, n) \union NthGroup(pairs, n)
        : n \in 0..(Min({Cardinality(triples), Cardinality(pairs)}) - 1)}

\* Flushes of the single cards, five at a time from the highest.
Flushes(singles) ==
    UNION {LET S == OfSuit(singles, s)
           IN  {{c \in S : Cardinality({d \in S : Above(d, c)}) \in (5 * i)..(5 * i + 4)}
                   : i \in 0..(Cardinality(S) \div 5 - 1)}
           : s \in 0..3}

\* After a flush at the front of the cards sorted by suit, the loop looks before the
\* first card when more than four are left.
ClassingEnds(singles) ==
    /\ Cardinality(singles) > 9
    /\ Cardinality(OfSuit(singles, Max({Suit(c) : c \in singles}))) > 4

\* Straights of the single cards, row 10 never among them: the scan has tried row 1
\* with the 2 and gone on.  After a straight it skips the next card as a first one.
StraightRows(singles) ==
    LET first == Rows(singles, 1..9)
        row == Min(first)
        rest == singles \ InRow(singles, row)
        head(i) == IF i = 1 THEN 12 ELSE 13 - i
        below == {n \in Nums(rest) : n < head(row)}
        second == {i \in Rows(rest, 1..9) :
                      head(i) \in below /\ head(i) # Max(below)}
    IN  IF first = {} THEN {}
        ELSE {row} \union (IF second = {} THEN {} ELSE {Min(second)})

Straights(singles) ==
    {Class(InRow(singles, row), Straight, Level(row)) : row \in StraightRows(singles)}

AllOf(groups, classing) == {Class(g, classing, 0) : g \in groups}

\* What is left of the hand when the straight flushes are out.
Loose(hand) == hand \ Cards(StraightFlushes(hand))

\* The classes of a hand, each of its cards in one of them.
ClassingPokers(hand) ==
    LET royal == StraightFlushes(hand)
        loose == Loose(hand)
        fours == Groups(loose, 4)
        triples == Groups(loose, 3)
        pairs == Groups(loose, 2)
        houses == Houses(triples, pairs)
        singles == UNION Groups(loose, 1)
        flushes == Flushes(singles)
        straights == Straights(singles \ UNION flushes)
        others == singles \ (Cards(straights) \union UNION flushes)
    IN  IF ClassingEnds(singles) THEN {Trap} ELSE
        royal \union AllOf(fours, Four) \union AllOf(houses, FullHouse)
        \union AllOf(flushes, Flush) \union straights
        \union AllOf({g \in triples : \A h \in houses : ~g \subseteq h}, Triple)
        \union AllOf({g \in pairs : \A h \in houses : ~g \subseteq h}, Pair)
        \union AllOf({{c} : c \in others}, Single)

----------------------------------------------------------------------------
(* What can be played.                                                     *)

\* The cards of two flushes are compared by num from the lowest.
FirstDifference(k, d) ==
    {n \in 0..4 : /\ Num(NthLowest(k.cards, n)) # Num(NthLowest(d.cards, n))
                  /\ \A i \in 0..(n - 1) :
                         Num(NthLowest(k.cards, i)) = Num(NthLowest(d.cards, i))}

\* The scan of a full house stops at its fourth card, whichever group that is of.
BeatsOfItsClass(k, d) ==
    CASE d.classing \in {Straight, StraightFlush} ->
            \/ k.level > d.level
            \/ k.level = d.level /\ Suit(Lowest(k.cards)) > Suit(Lowest(d.cards))
      [] d.classing = FullHouse -> Above(NthLowest(k.cards, 3), NthLowest(d.cards, 3))
      [] d.classing = Flush ->
            \E n \in FirstDifference(k, d) :
                Num(NthLowest(k.cards, n)) > Num(NthLowest(d.cards, n))
      [] OTHER -> Above(Highest(k.cards), Highest(d.cards))

Beats(k, d) ==
    \/ d.classing > Triple /\ k.classing > d.classing
    \/ k.classing = d.classing /\ BeatsOfItsClass(k, d)

\* Two flushes of the same nums: the comparison looks for a sixth card.
Overruns(k, d) ==
    k.classing = Flush /\ d.classing = Flush /\ FirstDifference(k, d) = {}

\* The order of pokerClass, in which the classes are sorted; the least of classes
\* are those that may come first.
Below(k, l) ==
    k.classing < l.classing \/ (k.classing = l.classing /\ k.level < l.level)

Least(classes) == {k \in classes : \A l \in classes : ~Below(l, k)}
Greatest(classes) == {k \in classes : \A l \in classes : ~Below(k, l)}

OrNoClass(plays) == IF plays = {} THEN {NoClass} ELSE plays

\* The plays that ComputerPoker may return, from the classes of the cards: with action
\* 0 that with the three of clubs, with 1 the last one, with 2 the first that beats
\* the desk.
ComputerPoker(classes, pokers, action) ==
    IF Trap \in classes \/ (classes = {} /\ action = 1) THEN {Trap}
    ELSE OrNoClass(
        CASE action = 0 -> {k \in classes : ClubThree \in k.cards}
          [] action = 1 -> Greatest(classes)
          [] action = 2 -> {IF Overruns(k, pokers) THEN Trap ELSE k :
                k \in Least({k \in classes : Beats(k, pokers) \/ Overruns(k, pokers)})})
=============================================================================
