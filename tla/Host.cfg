SPECIFICATION HostFairSpec
CONSTANTS
  IdleTimeout = 2
  OutageTimeout = 2
  FinalChecks = 2
  MaxGap = 1
  DryRun = FALSE
  Armed = TRUE
  Kills = TRUE
INVARIANTS
  HostTypeOK
  Apart
  PowerOffClean
  DownUntilStarted
PROPERTIES
  WatchKept
  LifecycleLockReleased
  WatchedHostSleeps
CHECK_DEADLOCK FALSE
