------------------------------ MODULE PokerGame ------------------------------
(***************************************************************************)
(* Games of Big Two on GamePage.swift: one human, player 0, and three      *)
(* computer players.                                                       *)
(*                                                                         *)
(* A call of gamePlay lets the computers play until it is the human's      *)
(* turn, all in one go; its steps here are those of its loop, and nothing  *)
(* else moves meanwhile (playing).  It leaves a chain of delayed closures  *)
(* behind that shows the turns, and gives the buttons back at its end.     *)
(* The page's state outlives a game: what initialGame does not set anew is *)
(* what the game before left.                                              *)
(***************************************************************************)
EXTENDS PokerCore

CONSTANTS
    Deals,      \* the deals of assignPoker: hands of players 0 to 3
    MaxGames    \* bound on the games that are begun

Human == 0
Players == 0..3
NoOne == -1

ASSUME DealsAssumption ==
    \A deal \in Deals :
        /\ DOMAIN deal = Players
        /\ ClubThree \in UNION {deal[p] : p \in Players}
        /\ \A p \in Players : deal[p] \subseteq (0..12) \X (0..3)
        /\ \A p, q \in Players : p # q => deal[p] \intersect deal[q] = {}

ASSUME BoundAssumption == MaxGames \in Nat

VARIABLES
    page,                 \* "HomePage", "GamePage", or "ended": the app has
    cards,                \* the players' cards; the human's are userPlayerCards
    userPreDeskCards,     \* the human's selection
    desk,                 \* desk.desk: the last play
    playersPassed,
    winnerRank,           \* the players without cards, first the first; winnedPlayer
    currentAct,
    currentPlay,
    userCoin,
    playing,              \* gamePlay runs
    passConfirmable,      \* the buttons are disabled
    activeShowScorePage,
    showScorePage,
    chains,               \* chains of delayed closures that have not ended
    games,                \* games begun
    leader,               \* who made the last play of this game
    firsts                \* since the coins were set: games the human left
                          \* first, and games somebody else did

table == <<cards, userPreDeskCards, desk, leader>>
turn == <<playersPassed, winnerRank, currentAct, currentPlay, firsts>>
view == <<page, userCoin, activeShowScorePage, showScorePage, games>>
vars == <<page, cards, userPreDeskCards, desk, playersPassed, winnerRank,
          currentAct, currentPlay, userCoin, playing, passConfirmable,
          activeShowScorePage, showScorePage, chains, games, leader, firsts>>

NoCards == [p \in Players |-> {}]
NoFlags == [p \in Players |-> FALSE]
NoFirsts == [human |-> 0, others |-> 0]

Winned == {winnerRank[i] : i \in DOMAIN winnerRank}

othersPassed(current) == \A p \in Players \ {current} : playersPassed[p]

\* The hands and selections there can be, and the classes of each.  The choice is of
\* the only one: TLC works a function out when it compares it, and keeps it.
Hands == UNION {SUBSET deal[p] : deal \in Deals, p \in Players}

Classes ==
    LET all == [hand \in Hands |-> ClassingPokers(hand)]
    IN  CHOOSE classes \in {all} : classes = all

Act == IF othersPassed(currentPlay) THEN 1 ELSE currentAct

Advance == currentPlay' = (currentPlay + 1) % 4

\* Variant: the buttons stay as they are.
ButtonsLeft == playing' = TRUE /\ UNCHANGED passConfirmable

\* The head of gamePlay: the buttons are disabled and the loop begins.
gamePlay == playing' = TRUE /\ passConfirmable' = TRUE

----------------------------------------------------------------------------
(* Games.                                                                  *)

\* Variant: currentAct is not set anew.
ActLeft ==
    /\ games < MaxGames /\ games' = games + 1
    /\ \E deal \in Deals :
        /\ cards' = deal
        /\ currentPlay' = CHOOSE p \in Players : ClubThree \in deal[p]
    /\ userPreDeskCards' = {}
    /\ playersPassed' = NoFlags
    /\ winnerRank' = <<>>
    /\ UNCHANGED currentAct
    /\ leader' = NoOne

\* initialGame: neither desk.desk nor activeShowScorePage is set.
initialGame ==
    /\ games < MaxGames /\ games' = games + 1
    /\ \E deal \in Deals :
        /\ cards' = deal
        /\ currentPlay' = CHOOSE p \in Players : ClubThree \in deal[p]
    /\ userPreDeskCards' = {}
    /\ playersPassed' = NoFlags
    /\ winnerRank' = <<>>
    /\ currentAct' = 0
    /\ leader' = NoOne

\* Play on the home page: a page appears.
OnAppear ==
    /\ page = "HomePage" /\ page' = "GamePage"
    /\ initialGame /\ gamePlay
    /\ UNCHANGED <<desk, userCoin, firsts, activeShowScorePage, showScorePage, chains>>

\* Next Game of the score page.
NextGame ==
    /\ page = "GamePage" /\ showScorePage /\ userCoin > 0
    /\ initialGame /\ gamePlay
    /\ showScorePage' = FALSE
    /\ UNCHANGED <<page, desk, userCoin, activeShowScorePage, chains, firsts>>

\* Reset Game of the page that is shown instead when the coins are gone.
ResetGame ==
    /\ page = "GamePage" /\ showScorePage /\ userCoin <= 0
    /\ initialGame /\ gamePlay
    /\ userCoin' = 50 /\ firsts' = NoFirsts
    /\ showScorePage' = FALSE
    /\ UNCHANGED <<page, desk, activeShowScorePage, chains>>

\* MENU and the alert's Menu: the page is gone, with its state and its closures; the
\* next one begins with state of its own.
Menu ==
    /\ page = "GamePage" /\ ~playing /\ ~showScorePage
    /\ page' = "HomePage"
    /\ cards' = NoCards /\ userPreDeskCards' = {} /\ desk' = NoClass /\ leader' = NoOne
    /\ playersPassed' = NoFlags /\ winnerRank' = <<>>
    /\ currentAct' = 0 /\ currentPlay' = Human
    /\ userCoin' = 50 /\ firsts' = NoFirsts
    /\ passConfirmable' = FALSE /\ activeShowScorePage' = FALSE /\ chains' = 0
    /\ UNCHANGED <<playing, showScorePage, games>>

----------------------------------------------------------------------------
(* Turns.                                                                  *)

\* A player's play is on the desk; left: what the player keeps.
Played(play, left) ==
    /\ desk' = play /\ leader' = currentPlay
    /\ currentAct' = 2
    /\ playersPassed' = [playersPassed EXCEPT ![currentPlay] = left = {}]
    /\ winnerRank' = IF left = {} THEN Append(winnerRank, currentPlay) ELSE winnerRank
    /\ firsts' = IF left # {} \/ winnerRank # <<>> THEN firsts
                 ELSE IF currentPlay = Human
                 THEN [firsts EXCEPT !.human = @ + 1]
                 ELSE [firsts EXCEPT !.others = @ + 1]
    /\ Advance

\* Variant: a pass is not remembered.
PassedSilently(act) ==
    /\ currentAct' = act
    /\ Advance
    /\ UNCHANGED <<playersPassed, winnerRank, firsts>>

\* A pass, the human's or a computer's.
Passed(act) ==
    /\ currentAct' = act
    /\ playersPassed' = [playersPassed EXCEPT ![currentPlay] = TRUE]
    /\ Advance
    /\ UNCHANGED <<winnerRank, firsts>>

ComputersTurn == page = "GamePage" /\ playing /\ currentPlay # Human

Plays == ComputerPoker(Classes[cards[currentPlay]], desk, Act)

SkipWinner ==
    /\ ComputersTurn /\ currentPlay \in Winned
    /\ Advance
    /\ UNCHANGED <<table, view, playersPassed, winnerRank, currentAct, firsts, playing,
                   passConfirmable, chains>>

ComputerPasses ==
    /\ ComputersTurn /\ currentPlay \notin Winned
    /\ NoClass \in Plays
    /\ Passed(Act)
    /\ UNCHANGED <<table, view, playing, passConfirmable, chains>>

ComputerPlays ==
    /\ ComputersTurn /\ currentPlay \notin Winned
    /\ \E play \in Plays \ {NoClass, Trap} :
        LET last == cards[currentPlay] \ play.cards
        IN  Played(play, last) /\ cards' = [cards EXCEPT ![currentPlay] = last]
    /\ UNCHANGED <<userPreDeskCards, view, playing, passConfirmable, chains>>

\* An index out of range.
AppEnds ==
    /\ page' = "ended"
    /\ UNCHANGED <<table, turn, userCoin, activeShowScorePage, showScorePage, games,
                   playing, passConfirmable, chains>>

ComputerTraps ==
    /\ ComputersTurn /\ currentPlay \notin Winned
    /\ Trap \in Plays
    /\ AppEnds

\* After the loop.  While the others play on without the human, gamePlay calls itself.
RoundEnds ==
    /\ page = "GamePage" /\ playing /\ currentPlay = Human
    /\ chains' = chains + 1
    /\ \/ /\ Human \in Winned /\ ~(Players \ {Human} \subseteq Winned)
          /\ currentAct' = 2
          /\ Advance
          /\ gamePlay
          /\ UNCHANGED <<cards, userCoin, activeShowScorePage>>
       \/ /\ Players \subseteq Winned
          /\ cards' = [cards EXCEPT ![1] = {}, ![2] = {}, ![3] = {}]
          /\ userCoin' = IF winnerRank[1] = Human THEN userCoin + 50 ELSE userCoin - 30
          /\ activeShowScorePage' = TRUE
          /\ playing' = FALSE
          /\ UNCHANGED <<currentAct, currentPlay, passConfirmable>>
       \/ /\ Human \notin Winned
          /\ playing' = FALSE
          /\ UNCHANGED <<cards, userCoin, activeShowScorePage, currentAct, currentPlay,
                         passConfirmable>>
    /\ UNCHANGED <<page, userPreDeskCards, desk, leader, playersPassed, winnerRank,
                   firsts, showScorePage, games>>

\* Variant: the page is shown only by a chain that need not give the buttons back.
ButtonsOrPage ==
    /\ page = "GamePage" /\ ~playing /\ chains > 0
    /\ chains' = chains - 1
    /\ passConfirmable' = FALSE
    /\ activeShowScorePage' = (passConfirmable /\ activeShowScorePage)
    /\ showScorePage' = (showScorePage \/ (activeShowScorePage /\ ~passConfirmable))
    /\ UNCHANGED <<table, turn, page, userCoin, games, playing>>

\* The last closure of a chain, of whichever call of gamePlay.
ChainEnds ==
    /\ page = "GamePage" /\ ~playing /\ chains > 0
    /\ chains' = chains - 1
    /\ passConfirmable' = FALSE
    /\ activeShowScorePage' = FALSE
    /\ showScorePage' = (showScorePage \/ activeShowScorePage)
    /\ UNCHANGED <<table, turn, page, userCoin, games, playing>>

----------------------------------------------------------------------------
(* The human.                                                              *)

OnPage == page = "GamePage" /\ ~playing /\ ~showScorePage

ButtonsEnabled == OnPage /\ ~passConfirmable

\* A tap on a card of the hand, also while the buttons are disabled.
Select(c) ==
    /\ OnPage /\ c \in cards[Human] /\ Cardinality(userPreDeskCards) < 5
    /\ userPreDeskCards' = userPreDeskCards \union {c}
    /\ cards' = [cards EXCEPT ![Human] = @ \ {c}]
    /\ UNCHANGED <<desk, leader, turn, view, playing, passConfirmable, chains>>

\* Variant: the card stays in the selection.
DeselectCopies(c) ==
    /\ OnPage /\ c \in userPreDeskCards
    /\ Cardinality(userPreDeskCards) < 6 /\ Cardinality(cards[Human]) < 13
    /\ cards' = [cards EXCEPT ![Human] = @ \union {c}]
    /\ UNCHANGED <<userPreDeskCards, desk, leader, turn, view, playing, passConfirmable,
                   chains>>

Deselect(c) ==
    /\ OnPage /\ c \in userPreDeskCards
    /\ Cardinality(userPreDeskCards) < 6 /\ Cardinality(cards[Human]) < 13
    /\ userPreDeskCards' = userPreDeskCards \ {c}
    /\ cards' = [cards EXCEPT ![Human] = @ \union {c}]
    /\ UNCHANGED <<desk, leader, turn, view, playing, passConfirmable, chains>>

Pass ==
    /\ ButtonsEnabled
    /\ Passed(2)
    /\ gamePlay
    /\ UNCHANGED <<table, view, chains>>

Selected == ComputerPoker(Classes[userPreDeskCards], desk, Act)

\* The play may leave a part of the selection where it is.
Confirm ==
    /\ ButtonsEnabled /\ userPreDeskCards # {}
    /\ \E play \in Selected \ {NoClass, Trap} :
        LET left == userPreDeskCards \ play.cards
        IN  Played(play, cards[Human] \union left) /\ userPreDeskCards' = left
    /\ gamePlay
    /\ UNCHANGED <<cards, view, chains>>

\* The alert; currentAct keeps that the player leads.
ConfirmRefused ==
    /\ ButtonsEnabled /\ userPreDeskCards # {}
    /\ NoClass \in Selected
    /\ currentAct' = Act
    /\ UNCHANGED <<table, view, playersPassed, winnerRank, currentPlay, firsts, playing,
                   passConfirmable, chains>>

\* An index out of range on confirm.
ConfirmTraps ==
    /\ ButtonsEnabled /\ userPreDeskCards # {}
    /\ Trap \in Selected
    /\ AppEnds

----------------------------------------------------------------------------

Init ==
    /\ page = "HomePage"
    /\ cards = NoCards /\ userPreDeskCards = {} /\ desk = NoClass /\ leader = NoOne
    /\ playersPassed = NoFlags /\ winnerRank = <<>>
    /\ currentAct = 0 /\ currentPlay = Human
    /\ userCoin = 50 /\ firsts = NoFirsts
    /\ playing = FALSE /\ passConfirmable = FALSE
    /\ activeShowScorePage = FALSE /\ showScorePage = FALSE
    /\ chains = 0 /\ games = 0

\* gamePlay's own steps.
Proceeds == SkipWinner \/ ComputerPasses \/ ComputerPlays \/ ComputerTraps \/ RoundEnds

Next ==
    \/ OnAppear \/ NextGame \/ ResetGame \/ Menu
    \/ Proceeds \/ ChainEnds
    \/ \E c \in cards[Human] : Select(c)
    \/ \E c \in userPreDeskCards : Deselect(c)
    \/ Pass \/ Confirm \/ ConfirmRefused \/ ConfirmTraps

\* gamePlay runs on, and the main queue runs every closure.
Fairness == WF_vars(Proceeds) /\ WF_vars(ChainEnds)

Spec == Init /\ [][Next]_vars /\ Fairness

----------------------------------------------------------------------------

\* Type correctness; no card is in two places, and who is in the rank has none.
TypeOK ==
    /\ page \in {"HomePage", "GamePage", "ended"}
    /\ desk.classing \in -1..7
    /\ playersPassed \in [Players -> BOOLEAN]
    /\ currentAct \in 0..2 /\ currentPlay \in Players
    /\ {playing, passConfirmable, activeShowScorePage, showScorePage} \subseteq BOOLEAN
    /\ leader \in Players \union {NoOne} /\ chains \in Nat /\ games \in 0..MaxGames
    /\ \A p, q \in Players : p # q => cards[p] \intersect cards[q] = {}
    /\ \A p \in Players : cards[p] \intersect userPreDeskCards = {}
    /\ leader # NoOne =>
           desk.cards \intersect (userPreDeskCards \union UNION {cards[p] : p \in Players}) = {}
    /\ \A p \in Winned : cards[p] = {} /\ (p = Human => userPreDeskCards = {})

\* Whoever made the last play and still has cards need not beat it: when the turn
\* comes back, gamePlay and the confirm button find that all others have passed,
\* those without cards too.  A computer never passes on its own lead.
TurnComesBack ==
    leader # NoOne /\ leader \notin Winned =>
        /\ leader = currentPlay => othersPassed(currentPlay)
        /\ leader # Human => ~playersPassed[leader]

\* A game is paid for once, and for who was first: between games the coins are those of
\* the games won and lost, whichever chains end and buttons are pressed after the end.
SettledOnce ==
    page = "GamePage" /\ ~playing /\ Winned \in {{}, Players} =>
        userCoin = 50 + 50 * firsts.human - 30 * firsts.others

\* Every game opens with the three of clubs, unless the human holds it and passes.
OpensWithClubThree ==
    [][leader = NoOne /\ leader' # NoOne =>
           ClubThree \in desk'.cards \/ playersPassed[Human]]_vars

\* Once the human has no cards left, the computers play to the end and the score page
\* is shown, if neither the page is left nor the app has ended.
ScoreShown == Human \in Winned ~> showScorePage \/ page # "GamePage"

=============================================================================
