SPECIFICATION FairSpec
CONSTANTS
  Sandboxes = {s1}
  ReconcileOnBoot = TRUE
  MaxVersion = 11
  MaxCrashes = 1
INVARIANTS
  InstanceIsOwned
  UncancelledWorkflowIsCurrent
  LiveInstanceHoldsQuota
  PromptAtMostOnce
PROPERTIES
  TeardownSettles
  CleanupEnds
CHECK_DEADLOCK FALSE
