CONSTANTS
  t1 = t1
  t2 = t2
  Topics <- MCTopics
  Unstamped <- MCUnstamped
  MaxBatches = 1
  MaxBytes = 1
  Puller = Puller
  User = User
  Poller = Poller
  Watchdog = Watchdog
  None = None
SPECIFICATION Spec
CHECK_DEADLOCK FALSE
INVARIANTS NoDeadCall ReportedOnce CutIsNotAnError FinishedIsShown SuccessIsUncut
PROPERTIES BracketKept StopEnds
