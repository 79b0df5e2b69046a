-------------------------- MODULE AlphabetGame_proofs --------------------------
(***************************************************************************)
(* For any words, any time and any handles of timers: the clock runs only  *)
(* while a word is to be solved, and the page of the winner is earned.     *)
(***************************************************************************)
EXTENDS AlphabetGame, FiniteSetTheorems, TLAPS

----------------------------------------------------------------------------
(* The inductive invariant.                                                *)

\* A letter is put on its place once, each in a circle of its own.
Placed ==
    /\ dragging \intersect ansCorrect = {}
    /\ Cardinality(quesCorrect) = Cardinality(ansCorrect)

\* The closures that go on: to the next word once one is solved, and to its letters
\* once it is announced.  The clock stands still meanwhile.
GoesOn ==
    /\ pending["gamePlay"] = 1 =>
          Solved /\ running = {} /\ pending["nextRound"] = 0 /\ currentVoca \in Words
    /\ pending["nextRound"] = 1 =>
          /\ roundChanging /\ running = {} /\ currentVoca \in Words
          /\ ansCorrect = {} /\ dragging = {}

\* Nothing will go on: the last word is solved.
AllSolved ==
    /\ vocabularyOrder = {} /\ Solved /\ running = {}
    /\ pending["gamePlay"] = 0 /\ pending["nextRound"] = 0

\* Once a game is over its time is up, or its words are solved; what still runs can
\* neither start the clock again nor take back what the cover says.
Over ==
    /\ showScorePage \/ cover # "none" \/ currentPage = "HomePage" => timeClock = 0 \/ AllSolved
    /\ cover # "none" => cover = IF timeClock > 0 THEN "score" ELSE "over"
    /\ pending["home"] = 1 => cover # "none"
    /\ currentPage = "HomePage" => cover = "none"

AlphabetInv == TypeOK /\ ClockRunsInPlay /\ Placed /\ GoesOn /\ Over

----------------------------------------------------------------------------
(* The steps.                                                              *)

\* Only the timer that has the handle runs, so that to invalidate it stops the clock.
LEMMA TimerStops == ClockRunsInPlay /\ InvalidateTimer => running' = {} /\ timer' = timer
  BY DEF ClockRunsInPlay, InvalidateTimer

\* The words have letters, and the page that has shown none has no word.
LEMMA WordFacts ==
  ASSUME currentVoca \in Words \union {<<>>}
  PROVE  /\ IsFiniteSet(DOMAIN currentVoca)
         /\ DOMAIN currentVoca # {} <=> currentVoca \in Words
<1>1. CASE currentVoca \in Words
  <2>1. Len(currentVoca) \in Nat \ {0} /\ DOMAIN currentVoca = 1 .. Len(currentVoca)
    BY <1>1, AlphabetAssumption DEF AlphabetAssumption
  <2>2. IsFiniteSet(1 .. Len(currentVoca))
    BY <2>1, FS_Interval
  <2>3. 1 \in DOMAIN currentVoca
    BY <2>1
  <2> QED
    BY <1>1, <2>1, <2>2, <2>3
<1>2. CASE currentVoca = <<>>
  <2>1. DOMAIN currentVoca = {}
    BY <1>2
  <2>2. currentVoca \notin Words
    <3> SUFFICES ASSUME currentVoca \in Words PROVE FALSE
      OBVIOUS
    <3>1. Len(currentVoca) \in Nat \ {0} /\ DOMAIN currentVoca = 1 .. Len(currentVoca)
      BY AlphabetAssumption DEF AlphabetAssumption
    <3> QED
      BY <2>1, <3>1
  <2> QED
    BY <2>1, <2>2, FS_EmptySet
<1> QED
  BY <1>1, <1>2

\* A word is announced: nothing is solved, and nothing is dragged.
LEMMA RoundFacts ==
  ASSUME NEW left, left \subseteq Words, NEW word \in left, InitialRound(left, word)
  PROVE  /\ vocabularyOrder' \subseteq Words /\ currentVoca' \in Words
         /\ ansCorrect' = {} /\ quesCorrect' = {} /\ dragging' = {} /\ roundChanging'
         /\ roundChanging' \in BOOLEAN
         /\ Placed'
  BY DEF InitialRound, Placed

\* At the start the home page is shown, and nothing runs.
LEMMA InitAlphabet == Init => AlphabetInv
<1> SUFFICES ASSUME Init PROVE AlphabetInv
  OBVIOUS
<1>1. TypeOK
  <2>1. 0 \in 0 .. TimeMax
    BY AlphabetAssumption DEF AlphabetAssumption
  <2>2. pending \in [Closures -> 0 .. 1]
    BY DEF Init
  <2> QED
    BY <2>1, <2>2 DEF Init, TypeOK
<1>2. ClockRunsInPlay /\ Placed /\ GoesOn /\ Over
  BY DEF Init, ClockRunsInPlay, Placed, GoesOn, Over, Closures
<1> QED
  BY <1>1, <1>2 DEF AlphabetInv

\* A game begins.  The clock of the one before has been stopped.
LEMMA PlayInv == AlphabetInv /\ Play => AlphabetInv'
<1> SUFFICES ASSUME AlphabetInv, Play PROVE AlphabetInv'
  OBVIOUS
<1> USE DEF AlphabetInv
<1>1. PICK word \in Words : InitialRound(Words, word)
  BY DEF Play
<1>2. /\ vocabularyOrder' \subseteq Words /\ currentVoca' \in Words
      /\ ansCorrect' = {} /\ quesCorrect' = {} /\ dragging' = {} /\ roundChanging'
      /\ roundChanging' \in BOOLEAN
      /\ Placed'
  BY <1>1, RoundFacts
<1>3. /\ currentPage' = "GamePage" /\ timeClock' = TimeMax /\ timer' = NoTimer
      /\ running' = {} /\ cover' = "none" /\ savePhotos' = savePhotos
      /\ showScorePage' = FALSE
      /\ pending' = [c \in Closures |-> IF c = "nextRound" THEN 1 ELSE 0]
  BY DEF Play, ClockRunsInPlay, Over
<1>4. /\ pending'["gamePlay"] = 0 /\ pending'["home"] = 0
      /\ pending' \in [Closures -> 0 .. 1]
  BY <1>3 DEF Closures
<1>5. TypeOK'
  <2>1. TimeMax \in 0 .. TimeMax
    BY AlphabetAssumption DEF AlphabetAssumption
  <2>2. savePhotos \in BOOLEAN
    BY DEF TypeOK
  <2> QED
    BY <1>2, <1>3, <1>4, <2>1, <2>2 DEF TypeOK
<1>6. ClockRunsInPlay' /\ GoesOn' /\ Over'
  BY <1>2, <1>3, <1>4 DEF ClockRunsInPlay, GoesOn, Over
<1> QED
  BY <1>2, <1>5, <1>6

\* The next word is announced, or the game is over.
LEMMA GamePlayInv == AlphabetInv /\ GamePlay => AlphabetInv'
<1> SUFFICES ASSUME AlphabetInv, GamePlay PROVE AlphabetInv'
  OBVIOUS
<1> USE DEF AlphabetInv
<1>1. /\ pending \in [Closures -> 0 .. 1] /\ pending["gamePlay"] = 1
      /\ Solved /\ running = {} /\ pending["nextRound"] = 0 /\ currentVoca \in Words
      /\ UNCHANGED <<currentPage, savePhotos, cover, timeClock>>
  BY DEF GamePlay, Runs, TypeOK, GoesOn, Closures
<1>2. CASE /\ vocabularyOrder = {} /\ showScorePage' = TRUE
           /\ pending' = [pending EXCEPT !["gamePlay"] = @ - 1]
           /\ UNCHANGED <<vocabularyOrder, roundVars, roundChanging, timer, running>>
  <2>1. /\ pending' \in [Closures -> 0 .. 1] /\ pending'["gamePlay"] = 0
        /\ pending'["nextRound"] = 0 /\ pending'["home"] = pending["home"]
    BY <1>1, <1>2 DEF Closures
  <2>2. TypeOK' /\ Placed'
    BY <1>1, <1>2, <2>1 DEF TypeOK, Placed, roundVars
  <2>3. AllSolved'
    BY <1>1, <1>2, <2>1 DEF AllSolved, Solved, roundVars
  <2>4. ClockRunsInPlay' /\ GoesOn' /\ Over'
    BY <1>1, <1>2, <2>1, <2>3 DEF ClockRunsInPlay, GoesOn, Over
  <2> QED
    BY <2>2, <2>4
<1>3. CASE /\ \E word \in vocabularyOrder : InitialRound(vocabularyOrder, word)
           /\ TimerController(TRUE)
           /\ pending' = [pending EXCEPT !["gamePlay"] = @ - 1, !["nextRound"] = @ + 1]
           /\ UNCHANGED showScorePage
  <2>1. /\ pending' \in [Closures -> 0 .. 1] /\ pending'["gamePlay"] = 0
        /\ pending'["nextRound"] = 1 /\ pending'["home"] = pending["home"]
    BY <1>1, <1>3 DEF Closures
  <2>2. running' = {} /\ timer' = timer
    BY <1>3, TimerStops DEF TimerController
  <2>3. /\ vocabularyOrder' \subseteq Words /\ currentVoca' \in Words
        /\ ansCorrect' = {} /\ quesCorrect' = {} /\ dragging' = {} /\ roundChanging'
        /\ roundChanging' \in BOOLEAN
        /\ Placed'
    BY <1>3, RoundFacts DEF TypeOK
  <2>4. TypeOK'
    BY <1>1, <1>3, <2>1, <2>2, <2>3 DEF TypeOK
  <2>5. showScorePage \/ cover # "none" \/ currentPage = "HomePage" => timeClock = 0
    BY <1>1 DEF Over, AllSolved
  <2>6. ClockRunsInPlay' /\ GoesOn' /\ Over'
    BY <1>1, <1>3, <2>1, <2>2, <2>3, <2>5 DEF ClockRunsInPlay, GoesOn, Over
  <2> QED
    BY <2>3, <2>4, <2>6
<1> QED
  BY <1>2, <1>3 DEF GamePlay

\* The word is shown, and the clock goes on unless the time is up: it is when the
\* game is over or the page has been left.
LEMMA NextRoundInv == AlphabetInv /\ NextRound => AlphabetInv'
<1> SUFFICES ASSUME AlphabetInv, NextRound PROVE AlphabetInv'
  OBVIOUS
<1> USE DEF AlphabetInv
<1>1. /\ pending \in [Closures -> 0 .. 1] /\ pending["nextRound"] = 1
      /\ pending["gamePlay"] = 0 /\ running = {} /\ currentVoca \in Words
      /\ ansCorrect = {} /\ dragging = {}
  BY DEF NextRound, Runs, TypeOK, GoesOn, Closures
<1>2. /\ UNCHANGED <<pageVars, vocabularyOrder, roundVars, timeClock>>
      /\ roundChanging' = FALSE
      /\ pending' \in [Closures -> 0 .. 1] /\ pending'["nextRound"] = 0
      /\ pending'["gamePlay"] = 0 /\ pending'["home"] = pending["home"]
  BY <1>1 DEF NextRound, Closures
<1>3. showScorePage \/ cover # "none" \/ currentPage = "HomePage" => timeClock = 0
  BY <1>1 DEF Over, AllSolved
<1>4. ~Solved'
  BY <1>1, <1>2, WordFacts DEF Solved, roundVars
<1>5. Placed' /\ GoesOn' /\ Over'
  BY <1>2, <1>3 DEF Placed, GoesOn, Over, roundVars, pageVars
<1>6. CASE timeClock = 0
  <2>1. running' = {} /\ timer' = timer
    BY <1>6, TimerStops DEF NextRound, TimerController
  <2> QED
    BY <1>2, <1>5, <2>1 DEF TypeOK, ClockRunsInPlay, roundVars, pageVars
<1>7. CASE timeClock # 0
  <2>1. timer' \in TimerIDs /\ running' = {timer'}
    BY <1>1, <1>7 DEF NextRound, TimerController, ScheduleTimer
  <2>2. currentPage' = "GamePage" /\ cover' = "none"
    BY <1>2, <1>3, <1>7 DEF pageVars, TypeOK
  <2>3. TypeOK'
    BY <1>2, <2>1 DEF TypeOK, roundVars, pageVars
  <2>4. ClockRunsInPlay'
    BY <1>2, <1>4, <2>1, <2>2 DEF ClockRunsInPlay
  <2> QED
    BY <1>5, <2>3, <2>4
<1> QED
  BY <1>6, <1>7

\* The timer fires.
LEMMA TickInv == AlphabetInv /\ Tick => AlphabetInv'
<1> SUFFICES ASSUME AlphabetInv, Tick PROVE AlphabetInv'
  OBVIOUS
<1> USE DEF AlphabetInv
<1>1. /\ running # {} /\ currentPage = "GamePage" /\ cover = "none"
      /\ UNCHANGED <<currentPage, savePhotos, cover, vocabularyOrder, roundVars, roundChanging,
                     timer, running, pending>>
  BY DEF Tick, ClockRunsInPlay
<1>2. showScorePage => timeClock = 0
  BY <1>1 DEF Over, AllSolved
<1>3. Placed' /\ GoesOn' /\ ClockRunsInPlay'
  BY <1>1 DEF Placed, GoesOn, ClockRunsInPlay, Solved, roundVars
<1>4. CASE Counts /\ timeClock' = timeClock - 1 /\ UNCHANGED showScorePage
  <2>1. timeClock > 0 /\ timeClock' \in 0 .. TimeMax
    BY <1>4, AlphabetAssumption DEF Counts, TypeOK, AlphabetAssumption
  <2>2. TypeOK'
    BY <1>1, <1>4, <2>1 DEF TypeOK, roundVars
  <2>3. Over'
    BY <1>1, <1>2, <1>4, <2>1 DEF Over
  <2> QED
    BY <1>3, <2>2, <2>3
<1>5. CASE ~Counts /\ TimeUp /\ UNCHANGED timeClock
  <2>1. timeClock = 0
    BY <1>5 DEF Counts, TypeOK
  <2> QED
    BY <1>1, <1>3, <1>5, <2>1 DEF TimeUp, TypeOK, Over, roundVars
<1> QED
  BY <1>4, <1>5 DEF Tick

\* A letter is taken up or goes back.
LEMMA DragInv ==
  ASSUME AlphabetInv, NEW i \in DOMAIN currentVoca, DragBegins(i) \/ DragMisses(i)
  PROVE  AlphabetInv'
<1> USE DEF AlphabetInv
<1>1. /\ UNCHANGED <<pageVars, vocabularyOrder, currentVoca, ansCorrect, quesCorrect,
                     roundChanging, timeClock, timer, running, pending>>
      /\ \/ dragging' = dragging \union {i} /\ ~roundChanging /\ i \notin ansCorrect
         \/ dragging' = dragging \ {i} /\ i \in dragging
  BY DEF DragBegins, DragMisses
<1>2. TypeOK' /\ ClockRunsInPlay' /\ Over'
  BY <1>1 DEF TypeOK, ClockRunsInPlay, Over, AllSolved, Solved, pageVars
<1>3. Placed' /\ GoesOn'
  BY <1>1 DEF Placed, GoesOn, Solved
<1> QED
  BY <1>2, <1>3

\* A letter is placed in a circle that was empty.  The word was not solved, so that
\* nothing was to go on; the letter may solve it.
LEMMA DragHitsInv ==
  ASSUME AlphabetInv, NEW i \in DOMAIN currentVoca, DragHits(i)
  PROVE  AlphabetInv'
<1> USE DEF AlphabetInv
<1>1. PICK j \in DOMAIN currentVoca \ quesCorrect : quesCorrect' = quesCorrect \union {j}
  BY DEF DragHits, Circles
<1>2. /\ i \in dragging /\ i \notin ansCorrect /\ dragging' = dragging \ {i}
      /\ ansCorrect' = ansCorrect \union {i}
      /\ UNCHANGED <<pageVars, vocabularyOrder, currentVoca, roundChanging, timeClock>>
  BY DEF DragHits, Placed
<1>3. ~Solved /\ pending["gamePlay"] = 0 /\ pending["nextRound"] = 0
  BY <1>2 DEF Solved, GoesOn, TypeOK, Closures
<1>4. showScorePage \/ cover # "none" \/ currentPage = "HomePage" => timeClock = 0
  BY <1>3 DEF Over, AllSolved
<1>5. Placed'
  <2>1. IsFiniteSet(ansCorrect) /\ IsFiniteSet(quesCorrect)
    BY WordFacts, FS_Subset DEF TypeOK
  <2>2. Cardinality(ansCorrect') = Cardinality(ansCorrect) + 1
    BY <1>2, <2>1, FS_AddElement
  <2>3. Cardinality(quesCorrect') = Cardinality(quesCorrect) + 1
    BY <1>1, <2>1, FS_AddElement
  <2> QED
    BY <1>2, <2>2, <2>3 DEF Placed
<1>6. /\ ansCorrect' \subseteq DOMAIN currentVoca' /\ quesCorrect' \subseteq DOMAIN currentVoca'
      /\ dragging' \subseteq DOMAIN currentVoca'
  BY <1>1, <1>2 DEF TypeOK
<1>7. CASE Solved'
  <2>1. Pass
    BY <1>2, <1>7 DEF DragHits, Solved
  <2>2. /\ running' = {} /\ timer' = timer
        /\ pending' \in [Closures -> 0 .. 1] /\ pending'["gamePlay"] = 1
        /\ pending'["nextRound"] = 0 /\ pending'["home"] = pending["home"]
    BY <1>3, <2>1, TimerStops DEF Pass, Later, TypeOK, Closures
  <2>3. currentVoca' \in Words
    BY <1>2, WordFacts DEF TypeOK
  <2>4. TypeOK'
    BY <1>2, <1>6, <2>2 DEF TypeOK, pageVars
  <2>5. ClockRunsInPlay' /\ GoesOn' /\ Over'
    BY <1>2, <1>4, <1>7, <2>2, <2>3 DEF ClockRunsInPlay, GoesOn, Over, pageVars
  <2> QED
    BY <1>5, <2>4, <2>5
<1>8. CASE ~Solved'
  <2>1. UNCHANGED <<pending, timer, running>>
    BY <1>2, <1>8 DEF DragHits, Solved
  <2>2. TypeOK'
    BY <1>2, <1>6, <2>1 DEF TypeOK, pageVars
  <2>3. ClockRunsInPlay' /\ GoesOn' /\ Over'
    BY <1>2, <1>3, <1>4, <1>8, <2>1 DEF ClockRunsInPlay, GoesOn, Over, pageVars
  <2> QED
    BY <1>5, <2>2, <2>3
<1> QED
  BY <1>7, <1>8

\* The cover is presented, and the page is left.
LEMMA EndInv == AlphabetInv /\ (CoverAppears \/ Home) => AlphabetInv'
<1> SUFFICES ASSUME AlphabetInv, CoverAppears \/ Home PROVE AlphabetInv'
  OBVIOUS
<1> USE DEF AlphabetInv
<1>1. running' = {} /\ timer' = timer
  BY TimerStops DEF CoverAppears, Home
<1>2. CASE CoverAppears
  <2>1. /\ showScorePage /\ cover = "none" /\ cover' = ScorePageSelect
        /\ savePhotos' \in BOOLEAN
        /\ UNCHANGED <<currentPage, showScorePage, vocabularyOrder, roundVars, roundChanging,
                       timeClock>>
        /\ currentPage = "GamePage"
    BY <1>2 DEF CoverAppears, TypeOK
  <2>2. /\ pending' \in [Closures -> 0 .. 1] /\ pending'["gamePlay"] = pending["gamePlay"]
        /\ pending'["nextRound"] = pending["nextRound"]
    BY <1>2, <2>1 DEF CoverAppears, Later, Over, TypeOK, Closures
  <2>3. TypeOK'
    BY <1>1, <2>1, <2>2 DEF TypeOK, ScorePageSelect, roundVars
  <2>4. Placed' /\ GoesOn' /\ ClockRunsInPlay'
    BY <1>1, <2>1, <2>2 DEF Placed, GoesOn, ClockRunsInPlay, Solved, roundVars
  <2>5. timeClock = 0 \/ (AllSolved /\ timeClock > 0)
    BY <2>1 DEF Over, TypeOK
  <2>6. cover' = (IF timeClock' > 0 THEN "score" ELSE "over") /\ cover' # "none"
    BY <2>1, <2>5 DEF ScorePageSelect, AllSolved
  <2>7. timeClock' = 0 \/ AllSolved'
    BY <1>1, <2>1, <2>2, <2>5 DEF AllSolved, Solved, roundVars
  <2>8. Over'
    BY <2>1, <2>6, <2>7 DEF Over
  <2> QED
    BY <2>3, <2>4, <2>8
<1>3. CASE Home
  <2>1. /\ currentPage' = "HomePage" /\ showScorePage' = FALSE /\ cover' = "none"
        /\ dragging' = {} /\ pending["home"] = 1
        /\ UNCHANGED <<savePhotos, vocabularyOrder, currentVoca, ansCorrect, quesCorrect,
                       roundChanging, timeClock>>
    BY <1>3 DEF Home, Runs, TypeOK, Closures
  <2>2. /\ pending' \in [Closures -> 0 .. 1] /\ pending'["gamePlay"] = pending["gamePlay"]
        /\ pending'["nextRound"] = pending["nextRound"] /\ pending'["home"] = 0
    BY <1>3, <2>1 DEF Home, TypeOK, Closures
  <2>3. TypeOK'
    BY <1>1, <2>1, <2>2 DEF TypeOK
  <2>4. Placed' /\ GoesOn' /\ ClockRunsInPlay'
    BY <1>1, <2>1, <2>2 DEF Placed, GoesOn, ClockRunsInPlay, Solved
  <2>5. timeClock' = 0 \/ AllSolved'
    BY <1>1, <2>1, <2>2 DEF Over, AllSolved, Solved
  <2>6. Over'
    BY <2>1, <2>2, <2>5 DEF Over
  <2> QED
    BY <2>3, <2>4, <2>6
<1> QED
  BY <1>2, <1>3

\* Every step keeps the invariant.
LEMMA NextAlphabet == AlphabetInv /\ [Next]_vars => AlphabetInv'
<1> SUFFICES ASSUME AlphabetInv, [Next]_vars PROVE AlphabetInv'
  OBVIOUS
<1>1. ASSUME NEW i \in DOMAIN currentVoca, DragBegins(i) \/ DragHits(i) \/ DragMisses(i)
      PROVE  AlphabetInv'
  BY <1>1, DragInv, DragHitsInv
<1>2. CASE Proceeds
  BY <1>2, GamePlayInv, NextRoundInv, TickInv, EndInv DEF Proceeds
<1>3. CASE UNCHANGED vars
  BY <1>3 DEF vars, pageVars, roundVars, AlphabetInv, TypeOK, ClockRunsInPlay, Placed,
              GoesOn, Over, AllSolved, Solved
<1> QED
  BY <1>1, <1>2, <1>3, PlayInv DEF Next

----------------------------------------------------------------------------
(* The theorems.                                                           *)

\* The strengthening holds in every state of every run.
THEOREM AlphabetTheorem == Spec => []AlphabetInv
<1>1. Init => AlphabetInv
  BY InitAlphabet
<1>2. AlphabetInv /\ [Next]_vars => AlphabetInv'
  BY NextAlphabet
<1> QED
  BY <1>1, <1>2, PTL DEF Spec

\* No closure is ever under way twice, and the state is well formed.
THEOREM AlphabetTypeCorrect == Spec => []TypeOK
<1>1. AlphabetInv => TypeOK
  BY DEF AlphabetInv
<1> QED
  BY <1>1, AlphabetTheorem, PTL

\* The clock runs only while there is a word on the page to be solved.
THEOREM ClockTheorem == Spec => []ClockRunsInPlay
<1>1. AlphabetInv => ClockRunsInPlay
  BY DEF AlphabetInv
<1> QED
  BY <1>1, AlphabetTheorem, PTL

\* The winner's page is for who has solved every word in time, and keeps being so.
THEOREM ScoreTheorem == Spec => []ScoreEarned
<1>1. AlphabetInv => ScoreEarned
  <2> SUFFICES ASSUME AlphabetInv, cover # "none" PROVE ScoreEarned
    BY DEF ScoreEarned
  <2>1. cover = (IF timeClock > 0 THEN "score" ELSE "over") /\ (timeClock = 0 \/ AllSolved)
        /\ timeClock \in Nat
    BY DEF AlphabetInv, Over, TypeOK
  <2>2. Solved => quesCorrect = DOMAIN currentVoca
    <3>1. /\ IsFiniteSet(DOMAIN currentVoca) /\ quesCorrect \subseteq DOMAIN currentVoca
          /\ Cardinality(quesCorrect) = Cardinality(ansCorrect)
      BY WordFacts DEF AlphabetInv, TypeOK, Placed
    <3> QED
      BY <3>1, FS_Subset DEF Solved
  <2> QED
    BY <2>1, <2>2 DEF ScoreEarned, ScorePageSelect, AllSolved
<1> QED
  BY <1>1, AlphabetTheorem, PTL
=============================================================================
