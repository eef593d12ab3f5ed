SPECIFICATION FairSpec
CONSTANTS
  IdleTimeout = 2
  OutageTimeout = 2
  FinalChecks = 3
  MaxGap = 2
  DryRun = FALSE
  Armed = TRUE
INVARIANTS
  StopJustified
  RestartJustified
  NobodyDropped
PROPERTIES
  IdleHostSleeps
  ServerReturns
CHECK_DEADLOCK FALSE
