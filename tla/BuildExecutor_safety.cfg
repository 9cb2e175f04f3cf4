SPECIFICATION Spec
CONSTANTS
  r1 = r1
  r2 = r2
  r3 = r3
  r4 = r4
  Requests <- MCRequests
  Size <- MCSize
  NumWorkers = 2
  QueueSize = 1
  MaxBytes = 3
SYMMETRY MCSymmetry
INVARIANTS
  TypeOK
  CountsExact
  TotalsExact
  WithinLimits
  ShutdownDrains
PROPERTIES
  NoOvertaking
  ImplementsAdmission
CHECK_DEADLOCK FALSE
