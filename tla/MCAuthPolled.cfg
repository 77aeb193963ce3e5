\* Violated: a poll answers success although the store has failed.
SPECIFICATION Spec
CONSTANTS
  x1 = x1
  x2 = x2
  Login = {x1, x2}
  DeviceLogin = {x1}
  AUTH_SESSION_MAX = 1
INVARIANT SuccessIsStored
CHECK_DEADLOCK FALSE
