SPECIFICATION RestartSpec
CONSTANTS
  Sandboxes = {s1}
  ReconcileOnBoot = FALSE
  MaxVersion = 6
  MaxCrashes = 1
PROPERTY KeptDirectoryPickedUp
CHECK_DEADLOCK FALSE
