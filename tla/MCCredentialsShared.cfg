\* Further: two sandboxes share the credentials.
SPECIFICATION Spec
CONSTANTS
  b1 = b1
  b2 = b2
  Sandbox = {b1, b2}
  MaxCredentials = 2
  REFRESH_FAILURE_LIMIT = 1
  MaxCrashes = 1
SYMMETRY BoxSymmetry
INVARIANT SecretsAreAccounted
CHECK_DEADLOCK FALSE
