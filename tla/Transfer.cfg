SPECIFICATION Spec
CONSTANTS
  c1 = c1
  c2 = c2
  Nothing = Nothing
  Calls <- MCCalls
SYMMETRY MCSymmetry
INVARIANTS
  TypeOK
  DeliveredWhole
  LeftoversExplained
CHECK_DEADLOCK FALSE
