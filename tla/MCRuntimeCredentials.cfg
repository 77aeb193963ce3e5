\* Two credentials after one another, one sandbox, two restarts.
SPECIFICATION FairSpec
CONSTANTS
  b1 = b1
  Sandbox = {b1}
  MaxCredentials = 2
  REFRESH_FAILURE_LIMIT = 2
  MaxCrashes = 2
INVARIANTS
  SecretsAreAccounted
PROPERTY RevokedIsRemoved
CHECK_DEADLOCK FALSE
