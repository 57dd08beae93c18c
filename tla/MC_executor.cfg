SPECIFICATION FairSpec
CONSTANTS
  c1 = c1
  c2 = c2
  c3 = c3
  Calls <- MCCalls
  MaxSteps = 2
INVARIANTS ExecutedOnce AnswersAreTrue NoWorkAfterAnswer ShutdownReleases
PROPERTY CallsReturn
CHECK_DEADLOCK FALSE
