SPECIFICATION Spec
CONSTANTS
  Words <- MCWords
  TimeMax = 3
  TimerIDs = {1, 2}
  NoTimer = 0
INVARIANTS TypeOK ClockRunsInPlay ScoreEarned
PROPERTY GameEnds
