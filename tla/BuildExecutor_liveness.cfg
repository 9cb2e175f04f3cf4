SPECIFICATION FairSpec
CONSTANTS
  r1 = r1
  r2 = r2
  r3 = r3
  r4 = r4
  Requests <- MCRequests
  Size <- MCSizeLarge
  NumWorkers = 1
  QueueSize = 2
  MaxBytes = 3
PROPERTIES
  EveryBuildEnds
  CloseCompletes
CHECK_DEADLOCK FALSE
