--------------------------- MODULE MCAccountCrypto ---------------------------
(* AccountCrypto on small instances.                                       *)
EXTENDS AccountCrypto, TLC

CONSTANTS t1, t2, b1

TwoTabs    == {t1, t2}
OneBrowser == {b1}
Shared     == [t \in TwoTabs |-> b1]

Symmetry == Permutations(TwoTabs)

\* Every property of this run is about accounts whose bootstrap overlapped
\* nothing: what follows an overlap need not be explored.
OverlapFree == ~stale
=============================================================================
