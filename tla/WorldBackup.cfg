SPECIFICATION Spec
CONSTANTS
  Retention = 3
  MaxShelf = 5
INVARIANTS
  Retained
  OutcomeHonest
PROPERTY
  PrunedForComplete
CHECK_DEADLOCK FALSE
