--------------------------- MODULE MCInspectorPane ---------------------------
(* InspectorPane on small instances.                                       *)
EXTENDS InspectorPane, TLC

CONSTANTS d1, d2, c1, c2

OneDoc      == {d1}
TwoDocs     == {d1, d2}
OneContext  == {c1}
TwoContexts == {c1, c2}

=============================================================================
