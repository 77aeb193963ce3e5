\* Violated, both: what a task that is over may leave behind.
SPECIFICATION Spec
CONSTANTS
  Sandboxes = {s1}
  ReconcileOnBoot = TRUE
  MaxVersion = 13
  MaxCrashes = 0
INVARIANTS
  FailedOccupiesNothing
  RetainedDirectoryExists
CHECK_DEADLOCK FALSE
