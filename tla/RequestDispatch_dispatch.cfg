SPECIFICATION FrontSpec
CONSTANTS
  r1 = r1
  r2 = r2
  Requests <- TwoRequests
  Tiers = {"free", "pro"}
  DefaultTier = "free"
  MaxSearches = 3
INVARIANTS
  StrictDistributed
  SecondRunExplained
  PageFollowsLatest
PROPERTIES
  Answered
  SearchEnds
  ImplementsContract
