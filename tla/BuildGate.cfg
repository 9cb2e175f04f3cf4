SPECIFICATION FairSpec
CONSTANTS
  c1 = c1
  c2 = c2
  c3 = c3
  ref1 = ref1
  ref2 = ref2
  g1 = g1
  g2 = g2
  g3 = g3
  NoReference = NoReference
  NoGate = NoGate
  NoCaller = NoCaller
  Callers <- MCCallers
  References <- MCReferences
  Gates <- MCGates
INVARIANTS
  TypeOK
  ExactExclusion
  EntryIffUsed
PROPERTIES
  ImplementsRefMutex
CHECK_DEADLOCK FALSE
