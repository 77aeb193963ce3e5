\* Further: a claim of the code that fails, of an instance no row names.
SPECIFICATION Spec
CONSTANTS
  b1 = b1
  Sandbox = {b1}
  MaxCredentials = 1
  REFRESH_FAILURE_LIMIT = 1
  MaxCrashes = 1
INVARIANT ClearedIsTornDown
CHECK_DEADLOCK FALSE
