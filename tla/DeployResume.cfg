SPECIFICATION Spec
CONSTANTS
  Commit = {c1, c2}
  None = None
  Partial = Partial
INVARIANT Resumes
CHECK_DEADLOCK FALSE
