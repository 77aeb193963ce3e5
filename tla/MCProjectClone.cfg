SPECIFICATION FairSpec
CONSTANTS
  Project = {p1, p2}
  MAX_CONCURRENT_CLONES = 2
  MAX_PROJECTS = 2
  MaxRetries = 1
  Busy = {p1}
  MaxCrashes = 1
INVARIANTS CloningIsBacked OneWriter SlotsAreExact ReadyIsOnDisk ActiveTaskHasProject CancelledIsNotCloned
PROPERTIES CloneEnds
CHECK_DEADLOCK FALSE
