\* Two logins after one another, one session at a time.
SPECIFICATION FairSpec
CONSTANTS
  x1 = x1
  x2 = x2
  Login = {x1, x2}
  DeviceLogin = {x1}
  AUTH_SESSION_MAX = 1
INVARIANTS
  HelpersAreBounded
  LoginIsHonest
PROPERTY HelperIsClosed
CHECK_DEADLOCK FALSE
