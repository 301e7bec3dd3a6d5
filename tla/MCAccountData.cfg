\* Any three requests of one account, in any overlap, with one erasure.
CONSTANTS
  r1 = r1
  r2 = r2
  r3 = r3
  Requests <- ThreeRequests
  DialectIds <- TwoIds
  MappingIds <- TwoIds
  DialectCap = 2
  MappingCap = 2
  FlushTimeout = 2
  Settle = 2
SPECIFICATION Spec
SYMMETRY Alike
INVARIANTS ErasedStaysErased AnalyzeSeesSaved LibraryInOrder
PROPERTIES SecondDefaultIsStaleEdit
CHECK_DEADLOCK FALSE
