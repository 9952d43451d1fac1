SPECIFICATION Spec
CONSTANTS
  r1 = r1
  r2 = r2
  r3 = r3
  Runs <- ThreeRuns
  Crashes = TRUE
SYMMETRY Interchangeable
INVARIANTS
  ResumedWhole
  LostOnlyInARace
