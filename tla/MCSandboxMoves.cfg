SPECIFICATION Spec
CONSTANTS
  Sandboxes = {s1}
  ReconcileOnBoot = TRUE
  MaxVersion = 13
  MaxCrashes = 1
INVARIANTS
  KeptArtifactIsRegistered
PROPERTIES
  RowFollowsLifecycle
  SessionOnlyWhileStarting
  ProvisionFailureSurvives
CHECK_DEADLOCK FALSE
