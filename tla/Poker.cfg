SPECIFICATION Spec
CONSTANTS
  Deals <- MCDeals
  MaxGames = 3
CHECK_DEADLOCK FALSE
INVARIANTS TypeOK TurnComesBack SettledOnce
PROPERTIES OpensWithClubThree ScoreShown
