------------------------------ MODULE Listing ------------------------------
(***************************************************************************)
(* A finite set as a sequence, in a given order, and a sequence without    *)
(* some of its elements: what packages/core does with filter and sort.     *)
(***************************************************************************)
EXTENDS Naturals, Sequences, FiniteSets

\* Array.prototype.sort: S in the order of R, a set of pairs <<earlier, later>>.
Preceding(x, S, R) == {y \in S : <<y, x>> \in R}
Places(S, R) == [x \in S |-> Cardinality(Preceding(x, S, R))]
InOrder(S, R) ==
  LET place == Places(S, R)
  IN [k \in 1..Cardinality(S) |-> CHOOSE x \in S : place[x] = k - 1]

\* Array.prototype.filter: the elements of s at the indices in `at'.
Ascending(at) == {p \in at \X at : p[1] < p[2]}
KeptAt(s, at) == [k \in 1..Cardinality(at) |-> s[InOrder(at, Ascending(at))[k]]]
=============================================================================
