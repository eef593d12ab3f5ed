SPECIFICATION HostSpec
CONSTANTS
  IdleTimeout = 1
  OutageTimeout = 1
  FinalChecks = 2
  MaxGap = 1
  DryRun = FALSE
  Armed = TRUE
  Kills = FALSE
PROPERTIES
  RecoveryRestarts
CHECK_DEADLOCK FALSE
