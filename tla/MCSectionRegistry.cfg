\* A section, one that paints late, a landing page, four navigations.
CONSTANTS
  s1 = s1
  s2 = s2
  s3 = s3
  Sections <- LatePair
  Late <- OneLate
  Landing = Landing
  Unknown = Unknown
  Nowhere = Nowhere
  MaxAttempts = 4
SPECIFICATION FairSpec
INVARIANTS OneLiveSection UrlIsShown NothingLeftBehind
PROPERTIES EditorSurvives AttemptsEnd
CHECK_DEADLOCK FALSE
