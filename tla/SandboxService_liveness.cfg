SPECIFICATION FairSpec
CONSTANTS
  s1 = s1
  s2 = s2
  d1 = d1
  d2 = d2
  Sweeper = sweeper
  NoSandbox = NoSandbox
  Sandboxes <- MCSandboxes
  Stuck <- MCStuckOne
  Deleters <- MCOneDeleter
  TTLs <- MCTTLs
  DefaultTTL = 1
  MaxTime = 1
  MaxRestarts = 1
PROPERTIES
  ExpiredReclaimed
