---------------------------- MODULE MCValidator ----------------------------
(***************************************************************************)
(* Two kinds of job.  Every object shape is sent alone and judged with no  *)
(* fault and no finding of a rule, for the detectors.  A few pairs, one of *)
(* each kind of pane, are judged under every filter with up to two         *)
(* findings and two families that throw, for the report.                   *)
(***************************************************************************)
EXTENDS Validator

CONSTANTS MayFind, MayThrow   \* the budget of a job of the second kind

Plain == [root |-> "object", imp |-> FALSE, seat |-> "none", env |-> "none",
          item |-> "none", marks |-> "none", other |-> "none"]
NoPane == [Plain EXCEPT !.root = "absent"]
Rooted(r) == [Plain EXCEPT !.root = r]

Objects == {p \in Shapes : p.root = "object"}
Roots == {Rooted(r) : r \in {"array", "scalar", "url", "refused", "text"}}

Everything == [disabled |-> {}, strictness |-> "pedantic"]

Lone == [request : (Objects \cup Roots), response : {NoPane}, pin : {None},
         opts : {Everything}, mayFind : {0}, mayThrow : {0}]
        \cup
        [request : {NoPane}, response : {p \in Objects : p.marks = "none"} \cup Roots,
         pin : {"2.6"}, opts : {Everything}, mayFind : {0}, mayThrow : {0}]

Filters(levels) == [disabled : {{}, {"internal.rule_family_failed"},
                                {"rule.a_error", "payload.invalid_root"}},
                    strictness : levels]

Pairs == {<<[Plain EXCEPT !.imp = TRUE, !.marks = "2.6-many"],
            [Plain EXCEPT !.seat = "30"]>>,
          <<NoPane, [Plain EXCEPT !.env = "response"]>>,
          <<[Plain EXCEPT !.env = "request"], Rooted("scalar")>>,
          <<Rooted("url"), Rooted("array")>>}

JobsOf(panes, filters) ==
  {[request |-> r[1], response |-> r[2], pin |-> None, opts |-> o,
    mayFind |-> MayFind, mayThrow |-> MayThrow] : r \in panes, o \in filters}

\* The route's jobs, and calls of validate() with a strictness of their own.
Judged == JobsOf(Pairs, Filters({"pedantic"}))
          \cup JobsOf({<<r[1], NoPane>> : r \in {q \in Pairs : q[1] # NoPane}}
                        \cup {<<NoPane, r[2]>> : r \in Pairs},
                      Filters({"lax", "normal"}))

AllJobs == Lone \cup Judged
=============================================================================
