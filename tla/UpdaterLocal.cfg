SPECIFICATION Spec
CONSTANTS
  r1 = r1
  r2 = r2
  r3 = r3
  r4 = r4
  Release = {r1, r2, r3, r4}
  None = None
  Build = {1, 2}
  Incompatible = {}
  Policies = {"stable-on-start", "manual", "blocked-mods"}
  Environment = "local"
  ExecUpdate = TRUE
  HostReplacement = FALSE
SYMMETRY Symmetry
PROPERTIES
  NoWorldDowngrade
  FailedStaysSelected
  SelectionSettled
CHECK_DEADLOCK FALSE
