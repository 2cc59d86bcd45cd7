SPECIFICATION FairSpec
CONSTANTS
  MaxRestarts = 1
  MaxCrashes = 2
  LossyCommands = TRUE
INVARIANTS
  VerdictHasEvidence
  EachStageSettledOnce
  RestartsCapped
PROPERTIES
  AbortWins
  TestNotRestarted
  EventuallyTerminal
  AbortTakesEffect
CHECK_DEADLOCK FALSE
