SPECIFICATION Spec
CONSTANTS
  k1 = k1
  k2 = k2
  Managed = TRUE
  Calls <- TwoCalls
  Called = {"web"}
  CallTimeout = 1
  Margin = 1
  MaxMishaps = 1
SYMMETRY Interchangeable
INVARIANTS
  SessionsApart
  GivenUpForAReason
  CloseExplained
