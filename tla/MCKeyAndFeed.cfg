\* Two tabs of one browser, two password changes, two keys; three frames of two
\* fixtures, a table of two rows, a ring of one, one slot, one call for grades.
CONSTANTS
  t1 = t1
  t2 = t2
  b1 = b1
  Tabs <- TwoTabs
  Browsers <- OneBrowser
  BrowserOf <- Shared
  MaxHash = 3
  MaxKeys = 2
  Corpus = 2
  Dirty = {1}
  RingMax = 1
  ReplayMax = 1
  StoreMax = 1
  EvictCount = 1
  SlotLimit = 1
  Ids = {1, 2}
  MaxRows = 2
  SeenMax = 2
  BatchMax = 1
  CallBudget = 1
  MaxFrames = 3
  MaxProbes = 1
SPECIFICATION BothSpec
SYMMETRY Symmetry
CONSTRAINT OverlapFree
INVARIANTS WrapsMatchAccount LibraryReadable TableIsFeed SlotsAreViewers
PROPERTIES ResetKeepsKeys
