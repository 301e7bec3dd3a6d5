\* A mirrored response loaded under a verdict.
CONSTANTS
  d1 = d1
  d2 = d2
  c1 = c1
  c2 = c2
  Docs <- TwoDocs
  Contexts <- OneContext
  Empty = Empty
  MaxRuns = 2
  MaxLoads = 1
  MaxMounts = 2
SPECIFICATION Spec
INVARIANTS NoVerdictStands
CHECK_DEADLOCK FALSE
