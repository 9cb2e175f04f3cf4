SPECIFICATION Spec
CONSTANTS
  s1 = s1
  s2 = s2
  d1 = d1
  d2 = d2
  Sweeper = sweeper
  NoSandbox = NoSandbox
  Sandboxes <- MCSandboxes
  Stuck <- MCNoStuck
  Deleters <- MCDeleters
  TTLs <- MCTTLs
  DefaultTTL = 0
  MaxTime = 1
  MaxRestarts = 0
PROPERTIES
  NextListingOmits
