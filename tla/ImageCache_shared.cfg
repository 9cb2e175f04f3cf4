SPECIFICATION Spec
CONSTANTS
  c1 = c1
  c2 = c2
  b1 = b1
  b2 = b2
  base = base
  built = built
  i0 = i0
  i1 = i1
  i2 = i2
  NoImage = NoImage
  NoReference = NoReference
  Nobody = Nobody
  Creators <- MCCreators
  Builders <- MCOneBuilder
  Tags <- MCTags
  References <- MCReferences
  Images <- MCImages
  ImagesOf <- MCImagesOf
  Inventories <- MCInventories
  MinFree = 1
  TargetFree = 2
  FreeBytes <- MCFreeBytes
  MinAge = 1
  MaxTime = 1
  MaxRestarts = 0
  MaxExternal = 1
SYMMETRY MCSymmetry
INVARIANTS
  OwnedIsTracked
  ReservationsExact
PROPERTIES
  ReservedNotCollected
CHECK_DEADLOCK FALSE
