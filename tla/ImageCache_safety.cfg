SPECIFICATION Spec
CONSTANTS
  c1 = c1
  c2 = c2
  b1 = b1
  b2 = b2
  base = base
  built = built
  i0 = i0
  i1 = i1
  i2 = i2
  NoImage = NoImage
  NoReference = NoReference
  Nobody = Nobody
  Creators <- MCOneCreator
  Builders <- MCBuilders
  Tags <- MCTags
  References <- MCJustBuilt
  Images <- MCBuiltImages
  ImagesOf <- MCRebuilt
  Inventories <- MCBuildInventories
  MinFree = 1
  TargetFree = 2
  FreeBytes <- MCFreeBytes
  MinAge = 1
  MaxTime = 2
  MaxRestarts = 1
  MaxExternal = 2
SYMMETRY MCSymmetry
INVARIANTS
  TypeOK
  NoDuplicateBuild
PROPERTIES
  BuildsNotCollected
  GraceKept
CHECK_DEADLOCK FALSE
