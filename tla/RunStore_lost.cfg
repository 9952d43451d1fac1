SPECIFICATION Spec
CONSTANTS
  r1 = r1
  r2 = r2
  r3 = r3
  Runs <- TwoRuns
  Crashes = FALSE
SYMMETRY Interchangeable
INVARIANT RegisteredStays
