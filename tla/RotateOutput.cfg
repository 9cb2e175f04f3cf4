SPECIFICATION WrappingSpec
CONSTANTS
  l1 = l1
  l2 = l2
  given = given
  Launchers <- MCLaunchers
  Given <- MCGiven
  Wrapped <- MCWrapped
  Nothing = Nothing
INVARIANTS
  WrappingTypeOK
  ServingIsExposed
  OneToken
  EnvOnlyWhileServing
  ReturnsLast
PROPERTIES
  TokenStable
  SignalEnds
CHECK_DEADLOCK FALSE
