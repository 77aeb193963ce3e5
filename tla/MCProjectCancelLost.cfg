SPECIFICATION Spec
CONSTANTS
  Project = {p1, p2}
  MAX_CONCURRENT_CLONES = 2
  MAX_PROJECTS = 2
  MaxRetries = 1
  Busy = {}
  MaxCrashes = 0
INVARIANTS CancelIsObeyed

CHECK_DEADLOCK FALSE
