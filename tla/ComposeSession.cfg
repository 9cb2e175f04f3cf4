SPECIFICATION ComposeSpec
CONSTANTS
  s1 = s1
  s2 = s2
  direct = direct
  compose = compose
  backend = backend
  NoSandbox = NoSandbox
  Sandboxes <- MCSandboxes
  Environments <- MCEnvironments
  Composes <- MCComposes
  Backends <- MCBackends
SYMMETRY MCSymmetry
INVARIANTS
  ComposeTypeOK
  ConnectionsMatch
  ProjectMatches
PROPERTIES
  LeftOnlyToTheSweep
