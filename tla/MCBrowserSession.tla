-------------------------- MODULE MCBrowserSession --------------------------
(* BrowserSession on small instances.                                      *)
EXTENDS BrowserSession, TLC

CONSTANTS ann, bob, b1, b2, j1, j2

TwoUsers == {ann, bob}
OneBoot  == {b1}
TwoBoots == {b1, b2}
OneJob   == {j1}
TwoJobs  == {j1, j2}

Symmetry == Permutations(Users) \cup Permutations(Jobs)
=============================================================================
