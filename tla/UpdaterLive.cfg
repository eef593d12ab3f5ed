SPECIFICATION LiveSpec
CONSTANTS
  Release = {1, 2, 3, 4}
  None = None
  Build = {1, 2, 3}
  Incompatible = {2}
  Policies = {"stable-on-start"}
  Environment = "aws"
  ExecUpdate = TRUE
  HostReplacement = FALSE
  MaxEvents = 4
PROPERTIES
  LockReleased
  CandidateSettles
  RetriesUnlessDangling
CHECK_DEADLOCK FALSE
