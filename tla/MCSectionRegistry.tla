-------------------------- MODULE MCSectionRegistry --------------------------
(* SectionRegistry on small instances.                                     *)
EXTENDS SectionRegistry, TLC

CONSTANTS s1, s2, s3

TwoSections   == {s1, s2}
ThreeSections == {s1, s2, s3}
LatePair      == {s1, s3}
NoLate        == {}
OneLate       == {s3}

Symmetry == Permutations({s1, s2})
=============================================================================
