--------------------------- MODULE MCAuthSessions ---------------------------
(* AuthSessions on small instances.                                        *)
EXTENDS AuthSessions, TLC

CONSTANTS t1, t2, old, r1, r2, u1

WithLegacy  == {t1, t2, old}
OldTokens   == {old}
TwoRequests == {r1, r2}
OneUser     == {u1}

Symmetry ==
  Permutations({t1, t2}) \cup Permutations({r1, r2}) \cup Permutations(Users)
=============================================================================
