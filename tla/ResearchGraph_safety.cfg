SPECIFICATION Spec
CONSTANTS
  b1 = b1
  b2 = b2
  b3 = b3
  Branches <- ThreeBranches
  Limits <- ShortLoops
  RecursionLimit = 15
SYMMETRY Interchangeable
INVARIANTS
  DeliveredWasJudged
  StatusHonest
  NoEvidenceFailsClosed
  BranchLedger
  WithinRecursionLimit
