SPECIFICATION Spec
CONSTANTS
  c1 = c1
  c2 = c2
  b1 = b1
  b2 = b2
  base = base
  built = built
  i0 = i0
  i1 = i1
  i2 = i2
  NoImage = NoImage
  NoReference = NoReference
  Nobody = Nobody
  Creators <- MCCreators
  Builders <- MCNoBuilders
  Tags <- MCNoTags
  References <- MCJustBase
  Images <- MCImages
  ImagesOf <- MCImagesOfBase
  Inventories <- MCOneRecord
  MinFree = 1
  TargetFree = 2
  FreeBytes <- MCFreeBytes
  MinAge = 1
  MaxTime = 1
  MaxRestarts = 0
  MaxExternal = 0
INVARIANTS
  ResolvedImageIsThere
CHECK_DEADLOCK FALSE
