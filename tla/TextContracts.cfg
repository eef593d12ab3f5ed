SPECIFICATION Spec
CONSTANT MaxEdits = 2
INVARIANTS
  MetadataRead
  LaunchContract
  CountKept
CHECK_DEADLOCK FALSE
