SPECIFICATION Spec
CONSTANTS
  t1 = t1
  t2 = t2
  m1 = m1
  m2 = m2
  m3 = m3
  d1 = d1
  d2 = d2
  b1 = b1
  b2 = b2
  Callers <- TwoThreads
  Capacity = 1
  RefillTicks = 2
  MaxRetries = 1
  TextQueries = 2
  Remembered <- ThreeRuns
  MaxCuts = 2
  Docs <- TwoDocs
  Doubtful <- OneDoc
  TopTier <- OneDoc
  Branches <- TwoBranches
  Numbers <- OneTwoOrOneOne
  Threshold = 85
  Order <- ShortOrder
  Insisted <- Essential
  MinSections <- TwoEach
  OtherHeadings = {}
  MaxSections = 3
  MaxRounds = 1
CHECK_DEADLOCK FALSE
INVARIANTS
  RateKept
  DegradationReported
  CutWritesExplain
  StaleExplained
  PassedMeansOpen
  CitationsFaithful
  FailedCountExplained
  FormatSettles
  TextKept
  
  RoutedAsConfigured
PROPERTY
  EveryCallAnswered
