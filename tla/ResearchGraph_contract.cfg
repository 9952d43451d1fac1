SPECIFICATION FairSpec
CONSTANTS
  b1 = b1
  b2 = b2
  b3 = b3
  Branches <- TwoBranches
  Limits <- OneLoop
  RecursionLimit = 13
PROPERTIES
  ImplementsReview
  Termination
