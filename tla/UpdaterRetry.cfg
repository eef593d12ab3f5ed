SPECIFICATION LiveSpec
CONSTANTS
  Release = {1, 2, 3, 4}
  None = None
  Build = {1, 2, 3}
  Incompatible = {}
  Policies = {"stable-on-start"}
  Environment = "aws"
  ExecUpdate = FALSE
  HostReplacement = FALSE
  MaxEvents = 3
PROPERTY
  Retries
CHECK_DEADLOCK FALSE
