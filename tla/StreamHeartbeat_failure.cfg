SPECIFICATION Spec
CONSTANTS
  Stages <- TwoStages
  Planning = "planning"
  IdleSeconds <- IdleLimits
  WarnPercent = 150
  Interval = 1
  MaxRuntimes = {0, 5}
  MaxEvents = 3
  Patience = 4
INVARIANT FailureReported
