\* Two concurrent requests, two sessions and one of an old release, one account, a journal of one entry, restarts and failures throughout.
CONSTANTS
  t1 = t1
  t2 = t2
  old = old
  r1 = r1
  r2 = r2
  u1 = u1
  Users <- OneUser
  Tokens <- WithLegacy
  Legacy <- OldTokens
  Requests <- TwoRequests
  Nobody = Nobody
  MaxEntries = 1
  Ttl = 1
  MaxHash = 2
  MaxClock = 2
SPECIFICATION Spec
SYMMETRY Symmetry
INVARIANTS RevokedStaysDead SessionMatchesPassword CleanIsAccounted AcceptedIsDurable
PROPERTIES ProofsAreCurrent CleanRestartKeepsSessions PromiseKept
