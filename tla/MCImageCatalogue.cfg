\* One image of the platform and one of a user, three bits.
SPECIFICATION Spec
CONSTANTS
  platform = platform
  other = other
  user = user
  base = base
  child = child
  stranger = stranger
  v1 = v1
  c1 = c1
  NoConfig = NoConfig
  NoLineage = NoLineage
  s1 = s1
  Repo = {platform, user}
  Builtin = {platform}
  Tag = {v1}
  DefaultTag = v1
  Digest = {base, child, stranger}
  Layers <- MCLayers
  Config = {c1}
  Sandbox = {s1}
  MaxRows = 3
  MaxCalls = 1
  MaxCrashes = 1
INVARIANTS
  CatalogueIsConsistent
  TaskHasImage
  VersionTellsTheTruth
CHECK_DEADLOCK FALSE
