SPECIFICATION Spec
CONSTANTS
  Project = {p1, p2}
  MAX_CONCURRENT_CLONES = 1
  MAX_PROJECTS = 2
  MaxRetries = 2
  Busy = {p1}
  MaxCrashes = 1
INVARIANTS DeletedIsGone

CHECK_DEADLOCK FALSE
