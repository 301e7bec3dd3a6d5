\* Two accounts, one read of the session at a time and two forms or requests at a time.
CONSTANTS
  ann = ann
  bob = bob
  b1 = b1
  b2 = b2
  Shared = b1
  j1 = j1
  j2 = j2
  Users <- TwoUsers
  None = None
  Boots <- OneBoot
  Jobs <- TwoJobs
  Open = Open
SPECIFICATION Spec
SYMMETRY Symmetry
INVARIANTS UserStands KeyIsUsers
CHECK_DEADLOCK FALSE
