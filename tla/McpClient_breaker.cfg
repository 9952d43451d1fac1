SPECIFICATION Spec
CONSTANTS
  t1 = t1
  t2 = t2
  t3 = t3
  Threads <- ThreeThreads
  Threshold = 2
  Recovery = 2
  MaxCalls = 6
  MaxTime = 4
SYMMETRY Interchangeable
INVARIANTS
  ModeRespected
  SearchesDegrade
  FallbackReported
  OpenLetsNobodyIn
PROPERTY
  ImplementsBreakers
