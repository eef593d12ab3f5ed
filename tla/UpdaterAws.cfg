SPECIFICATION Spec
CONSTANTS
  r1 = r1
  r2 = r2
  r3 = r3
  r4 = r4
  Release = {r1, r2, r3, r4}
  None = None
  Build = {1, 2, 3}
  Incompatible = {2}
  Policies = {"stable-on-start", "manual", "blocked-mods"}
  Environment = "aws"
  ExecUpdate = FALSE
  HostReplacement = TRUE
SYMMETRY Symmetry
INVARIANTS
  TypeOK
  ActiveLaunchable
  CandidateSelected
  ServerCrossedBoundary
  TwoReleases
  FallbackKept
  NoLeakedRelease
  NoStagingUnderServer
  SInv
PROPERTIES
  ArchivedBeforeMigration
  KeepsPromise
CHECK_DEADLOCK FALSE
