\* Violated: a version deactivated or deleted while it is validated is active again.
SPECIFICATION Spec
CONSTANTS
  platform = platform
  other = other
  user = user
  base = base
  child = child
  stranger = stranger
  v1 = v1
  c1 = c1
  NoConfig = NoConfig
  NoLineage = NoLineage
  s1 = s1
  Repo = {platform, user}
  Builtin = {platform}
  Tag = {v1}
  DefaultTag = v1
  Digest = {base, child, stranger}
  Layers <- MCLayers
  Config = {c1}
  Sandbox = {s1}
  MaxRows = 3
  MaxCalls = 1
  MaxCrashes = 1
PROPERTY OnlyRequestsChange
CHECK_DEADLOCK FALSE
