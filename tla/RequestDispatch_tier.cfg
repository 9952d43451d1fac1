SPECIFICATION Spec
CONSTANTS
  r1 = r1
  r2 = r2
  Requests <- OneRequest
  Tiers = {"free", "pro"}
  DefaultTier = "free"
INVARIANT TierKept
