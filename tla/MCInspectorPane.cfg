\* One payload in its two spellings, two settings, two analyses, a load, a remount.
CONSTANTS
  d1 = d1
  d2 = d2
  c1 = c1
  c2 = c2
  Docs <- OneDoc
  Contexts <- TwoContexts
  Empty = Empty
  MaxRuns = 2
  MaxLoads = 1
  MaxMounts = 2
SPECIFICATION FairSpec
INVARIANT VerdictIsForPane
PROPERTIES EvidenceTravels NoAnalysisLost AnalysisEnds
CHECK_DEADLOCK FALSE
