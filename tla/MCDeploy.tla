------------------------------ MODULE MCDeploy ------------------------------
(* Deploy on small instances.                                              *)
EXTENDS Deploy, TLC

CONSTANTS i1, i2, i3, s1, s2, s3

TwoImages    == {i1, i2}
ThreeImages  == {i1, i2, i3}
TwoScripts   == {s1, s2}
ThreeScripts == {s1, s2, s3}

Symmetry == Permutations(Images) \cup Permutations(Scripts)
=============================================================================
