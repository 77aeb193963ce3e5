\* Violated: a user may register the image of the second provider before the seeder.
SPECIFICATION Spec
CONSTANTS
  platform = platform
  other = other
  user = user
  base = base
  child = child
  stranger = stranger
  v1 = v1
  c1 = c1
  NoConfig = NoConfig
  NoLineage = NoLineage
  s1 = s1
  Repo = {platform, other}
  Builtin = {platform, other}
  Tag = {v1}
  DefaultTag = v1
  Digest = {base, child, stranger}
  Layers <- MCLayers
  Config = {c1}
  Sandbox = {s1}
  MaxRows = 3
  MaxCalls = 1
  MaxCrashes = 1
INVARIANT SeedIsBuiltin
CHECK_DEADLOCK FALSE
