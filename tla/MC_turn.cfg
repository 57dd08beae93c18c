SPECIFICATION FairSpec
CONSTANTS
  c1 = c1
  Calls <- MCOneCall
  MaxSteps = 2
  MaxTurns = 3
  MaxProbes = 1
INVARIANTS TurnAccounting
PROPERTIES TurnsEnd TeardownEnds CancelEndsRun
CHECK_DEADLOCK FALSE
