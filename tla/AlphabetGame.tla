---------------------------- MODULE AlphabetGame ----------------------------
(***************************************************************************)
(* GamePage of the Alphabet game: one word after the other, whose letters  *)
(* are dragged onto their circles against a clock, with what the main      *)
(* queue still has to run: the closure that goes on to the next word two   *)
(* seconds after a word is solved, the one that shows it 0.8 seconds later, *)
(* the one that leaves the page, and the repeating timer of the clock.     *)
(*                                                                         *)
(* The closures may run late, so no order among them is taken for granted. *)
(***************************************************************************)
EXTENDS Integers, Sequences, FiniteSets

CONSTANTS Words,        \* vocabularyDataSet: sequences of letters
          TimeMax,      \* the clock at the start, in half seconds
          TimerIDs,     \* handles Timer.scheduledTimer may return
          NoTimer       \* timer = nil

VARIABLES currentPage,      \* "HomePage" or "GamePage"
          savePhotos,       \* does the home page offer the photos?
          vocabularyOrder,  \* the words to come, in any order: they are shuffled
          currentVoca,      \* the word on the page
          ansCorrect,       \* its letters that are in their places
          quesCorrect,      \* its circles that hold a letter
          dragging,         \* its letters being dragged
          roundChanging,    \* is the next round being announced?
          timeClock,        \* the time left
          timer,            \* the handle of the timer
          running,          \* the timers not invalidated
          showScorePage,    \* is the cover to be presented?
          cover,            \* what is presented over the page
          pending           \* closure -> how often the main queue will run it

roundVars == <<currentVoca, ansCorrect, quesCorrect, dragging>>
pageVars == <<currentPage, savePhotos, showScorePage, cover>>
vars == <<pageVars, vocabularyOrder, roundVars, roundChanging, timeClock, timer, running, pending>>

Closures == {"gamePlay", "nextRound", "home"}

AlphabetAssumption ==
    /\ Words # {}
    /\ \A word \in Words : Len(word) \in Nat \ {0} /\ DOMAIN word = 1 .. Len(word)
    /\ TimeMax \in Nat \ {0}
    /\ NoTimer \notin TimerIDs

ASSUME AlphabetAssumption

Solved == ansCorrect = DOMAIN currentVoca

Later(c) == pending' = [pending EXCEPT ![c] = @ + 1]

Runs(c) == pending[c] > 0

----------------------------------------------------------------------------
(* The timer and the rounds.                                               *)

\* timer?.invalidate()
InvalidateTimer == running' = running \ {timer} /\ UNCHANGED timer

ScheduleTimer ==
    \E t \in TimerIDs \ running : timer' = t /\ running' = running \union {t}

\* timerController, with roundChanging already set to changing.
TimerController(changing) ==
    IF changing \/ timeClock = 0 THEN InvalidateTimer ELSE ScheduleTimer

\* nextRoundDelay and initialRound for one of the words left.
InitialRound(left, word) ==
    /\ vocabularyOrder' = left \ {word}
    /\ currentVoca' = word
    /\ ansCorrect' = {} /\ quesCorrect' = {} /\ dragging' = {}
    /\ roundChanging' = TRUE

\* Play on the home page: the game page appears, and initialGame runs.
Play ==
    /\ currentPage = "HomePage"
    /\ currentPage' = "GamePage"
    /\ \E word \in Words : InitialRound(Words, word)
    /\ timeClock' = TimeMax
    /\ timer' = NoTimer
    /\ showScorePage' = FALSE
    /\ pending' = [c \in Closures |-> IF c = "nextRound" THEN 1 ELSE 0]
    /\ UNCHANGED <<running, cover, savePhotos>>

\* gamePlay, two seconds after a word was solved: the next word, or the end.
GamePlay ==
    /\ Runs("gamePlay")
    /\ \/ /\ vocabularyOrder = {}
          /\ showScorePage' = TRUE
          /\ pending' = [pending EXCEPT !["gamePlay"] = @ - 1]
          /\ UNCHANGED <<vocabularyOrder, roundVars, roundChanging, timer, running>>
       \/ /\ \E word \in vocabularyOrder : InitialRound(vocabularyOrder, word)
          /\ TimerController(TRUE)
          /\ pending' = [pending EXCEPT !["gamePlay"] = @ - 1, !["nextRound"] = @ + 1]
          /\ UNCHANGED showScorePage
    /\ UNCHANGED <<currentPage, savePhotos, cover, timeClock>>

\* The closure of nextRoundDelay: the word is shown, and the clock goes on.
NextRound ==
    /\ Runs("nextRound")
    /\ pending' = [pending EXCEPT !["nextRound"] = @ - 1]
    /\ roundChanging' = FALSE
    /\ TimerController(FALSE)
    /\ UNCHANGED <<pageVars, vocabularyOrder, roundVars, timeClock>>

\* Variant: the clock is not looked at.
AlwaysCounts == TRUE

\* self.timeClock <= 0 is not so
Counts == timeClock > 0

\* Variant: the clock stops at zero, and that is all.
StopsAtZero == UNCHANGED showScorePage

\* The time is up.
TimeUp == showScorePage' = TRUE

\* The timer fires: half a second less, or the time is up.
Tick ==
    /\ running # {}
    /\ \/ Counts /\ timeClock' = timeClock - 1 /\ UNCHANGED showScorePage
       \/ ~Counts /\ TimeUp /\ UNCHANGED timeClock
    /\ UNCHANGED <<currentPage, savePhotos, cover, vocabularyOrder, roundVars, roundChanging,
                   timer, running, pending>>

----------------------------------------------------------------------------
(* The letters.                                                            *)

\* A letter of the word on the page is taken up.
DragBegins(i) ==
    /\ currentPage = "GamePage" /\ cover = "none" /\ ~roundChanging
    /\ i \notin ansCorrect \union dragging
    /\ dragging' = dragging \union {i}
    /\ UNCHANGED <<pageVars, vocabularyOrder, currentVoca, ansCorrect, quesCorrect, roundChanging,
                   timeClock, timer, running, pending>>

\* Variant: a circle that holds a letter takes another.
AnyCircle(i) == {j \in DOMAIN currentVoca : currentVoca[j] = currentVoca[i]}

\* The circles that take the letter.
Circles(i) == {j \in DOMAIN currentVoca : currentVoca[j] = currentVoca[i] /\ j \notin quesCorrect}

\* Variant: the clock goes on.
PassOnly == Later("gamePlay") /\ UNCHANGED <<timer, running>>

\* The word is solved.
Pass == Later("gamePlay") /\ InvalidateTimer

\* The letter is dropped near enough to one of its circles.
DragHits(i) ==
    /\ i \in dragging
    /\ dragging' = dragging \ {i}
    /\ ansCorrect' = ansCorrect \union {i}
    /\ \E j \in Circles(i) : quesCorrect' = quesCorrect \union {j}
    /\ IF ansCorrect' = DOMAIN currentVoca THEN Pass ELSE UNCHANGED <<pending, timer, running>>
    /\ UNCHANGED <<pageVars, vocabularyOrder, currentVoca, roundChanging, timeClock>>

\* It is dropped elsewhere and goes back to where it came from.
DragMisses(i) ==
    /\ i \in dragging
    /\ dragging' = dragging \ {i}
    /\ UNCHANGED <<pageVars, vocabularyOrder, currentVoca, ansCorrect, quesCorrect, roundChanging,
                   timeClock, timer, running, pending>>

----------------------------------------------------------------------------
(* The end of a game.                                                      *)

\* Variant: the clock is not looked at.
SelectByWords == IF vocabularyOrder = {} THEN "score" ELSE "over"

\* Which of ScorePage and GameOverView the cover shows.
ScorePageSelect == IF vocabularyOrder = {} /\ timeClock > 0 THEN "score" ELSE "over"

\* The cover is presented; it will lead home.
CoverAppears ==
    /\ currentPage = "GamePage" /\ showScorePage /\ cover = "none"
    /\ cover' = ScorePageSelect
    /\ savePhotos' = (savePhotos \/ cover' = "score")
    /\ InvalidateTimer
    /\ Later("home")
    /\ UNCHANGED <<currentPage, showScorePage, vocabularyOrder, roundVars, roundChanging, timeClock>>

\* The page is left, and its onDisappear stops the timer.
Home ==
    /\ Runs("home")
    /\ pending' = [pending EXCEPT !["home"] = @ - 1]
    /\ currentPage' = "HomePage"
    /\ showScorePage' = FALSE
    /\ cover' = "none"
    /\ dragging' = {}
    /\ InvalidateTimer
    /\ UNCHANGED <<savePhotos, vocabularyOrder, currentVoca, ansCorrect, quesCorrect, roundChanging, timeClock>>

----------------------------------------------------------------------------

Init ==
    /\ currentPage = "HomePage" /\ savePhotos = FALSE
    /\ showScorePage = FALSE /\ cover = "none"
    /\ vocabularyOrder = {} /\ currentVoca = <<>>
    /\ ansCorrect = {} /\ quesCorrect = {} /\ dragging = {}
    /\ roundChanging = FALSE
    /\ timeClock = 0
    /\ timer = NoTimer /\ running = {}
    /\ pending = [c \in Closures |-> 0]

\* What the phone does by itself.
Proceeds == GamePlay \/ NextRound \/ Tick \/ CoverAppears \/ Home

Next ==
    \/ Play
    \/ Proceeds
    \/ \E i \in DOMAIN currentVoca : DragBegins(i) \/ DragHits(i) \/ DragMisses(i)

\* The main queue runs every closure, the timer fires, and the cover is drawn.
Fairness == WF_vars(GamePlay) /\ WF_vars(NextRound) /\ WF_vars(Tick)
            /\ WF_vars(CoverAppears) /\ WF_vars(Home)

Spec == Init /\ [][Next]_vars /\ Fairness

----------------------------------------------------------------------------

\* Type correctness; no closure is ever under way twice.
TypeOK ==
    /\ currentPage \in {"HomePage", "GamePage"} /\ savePhotos \in BOOLEAN
    /\ showScorePage \in BOOLEAN /\ cover \in {"none", "score", "over"}
    /\ vocabularyOrder \subseteq Words /\ currentVoca \in Words \union {<<>>}
    /\ ansCorrect \subseteq DOMAIN currentVoca
    /\ quesCorrect \subseteq DOMAIN currentVoca
    /\ dragging \subseteq DOMAIN currentVoca
    /\ roundChanging \in BOOLEAN
    /\ timeClock \in 0 .. TimeMax
    /\ timer \in TimerIDs \union {NoTimer} /\ running \subseteq TimerIDs
    /\ pending \in [Closures -> 0 .. 1]

\* The clock runs only while there is a word on the page to be solved, and no
\* timer is left without its handle, whichever closures are still to run.
ClockRunsInPlay ==
    /\ running \subseteq {timer}
    /\ running # {} => /\ currentPage = "GamePage" /\ cover = "none"
                       /\ ~roundChanging /\ ~Solved

\* The page of the winner is for who has solved every word with time left, each circle
\* of the last one filled, also when letters occur twice; and nothing that still runs
\* under the cover changes what it shows.
ScoreEarned ==
    /\ cover = "score" => /\ vocabularyOrder = {} /\ timeClock > 0
                          /\ Solved /\ quesCorrect = DOMAIN currentVoca
    /\ cover # "none" => cover = ScorePageSelect

\* A word is on the page, the time is up and no timer is left to say so: it was
\* up when the word before was solved.
Untimed == timeClock = 0 /\ running = {} /\ ~showScorePage

\* Every game ends, whatever the player does, but for the untimed ones.
GameEnds == currentPage = "GamePage" ~> currentPage = "HomePage" \/ Untimed

=============================================================================
