SPECIFICATION Spec
CONSTANTS
  b1 = b1
  b2 = b2
  b3 = b3
  Branches <- TwoBranches
  Limits <- NoLoop
  RecursionLimit = 25
INVARIANT CorrectorAsksModel
