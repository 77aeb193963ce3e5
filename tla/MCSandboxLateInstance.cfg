SPECIFICATION Spec
CONSTANTS
  Sandboxes = {s1}
  ReconcileOnBoot = TRUE
  MaxVersion = 13
  MaxCrashes = 0
INVARIANT DestroyedHasNoInstance
CHECK_DEADLOCK FALSE
