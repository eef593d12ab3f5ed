SPECIFICATION Spec
CONSTANTS
  TickSeconds = 5
INVARIANTS
  ExitHonest
  KilledOnlyIfMissed
CHECK_DEADLOCK FALSE
