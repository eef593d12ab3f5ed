SPECIFICATION Spec
CONSTANTS
  Commit = {c1, c2, c3}
  None = None
  Partial = Partial
INVARIANTS
  WholeWithoutMarker
  PreviousPreserved
PROPERTIES
  CandidateGuarded
CHECK_DEADLOCK FALSE
