------------------------------ MODULE Validator ------------------------------
(***************************************************************************)
(* The core validator as the analyze route uses it                         *)
(* (packages/core/index.js, detect.js, findings.js, rules/index.js,        *)
(* modules/analyze/handler.js) and the shape test of the auction view,     *)
(* which is a second hand-written copy of the detector for the browser.    *)
(*                                                                         *)
(* A job is one POST /api/analyze.  Each pane that was sent is validated:  *)
(* its type and version are detected, the families of rules these call for *)
(* run one after another, each caught on its own when it throws, and       *)
(* finalizeResult filters, deduplicates and sorts what was found.  The     *)
(* route then unites the panes, recomputes the status and the              *)
(* completeness.  It leaves the strictness at its default: a job with      *)
(* another one is a call of the package's own validate(), and ends when    *)
(* its pane is judged.                                                     *)
(*                                                                         *)
(* Abstractions.  A payload is its shape: which of the members the         *)
(* detector reads are there.  A family finds any findings of a small pool  *)
(* (every level, two paths) or throws, as often as the job's budget        *)
(* allows; what a rule looks for is left out.  Confidence is folded into   *)
(* `marks', how many version markers the payload carries.  Messages,       *)
(* locations, categories, formats and the crosscheck list are left out.    *)
(***************************************************************************)
EXTENDS Naturals, Sequences, SequencesExt, Listing

CONSTANT Jobs   \* the requests the route may be sent, with a fault budget each

None == "none"

TypeNames == {"BidRequest", "BidResponse", "VendorFeed", "VendorRequest",
              "JsonFeed", "UrlRequest", "unknown"}
Pinnable == {"2.5", "2.6", "3.0"}

\* A payload.  root: not sent, an object, an array, a scalar, or a string that is
\* a feed URL some decoder reads, one the decoders refuse, or plain text.
\* seat: no seatbid[]; one whose bids name an impid or nothing ("2x"); one
\* whose bids carry 3.0's item or media and no impid ("30").
\* env: the openrtb member: absent, empty, with ver only, with one child, both.
\* item: a root item[] of objects, or with something else among them.
\* other: the first of the remaining markers, in the order detectType tries them.
Shapes == [root : {"absent", "object", "array", "scalar", "url", "refused", "text"},
           imp : BOOLEAN,
           seat : {"none", "2x", "30"},
           env : {"none", "bare", "ver", "request", "response", "both"},
           item : {"none", "objects", "mixed"},
           marks : {"none", "2.5", "2.6-one", "2.6-many"},
           other : {"none", "feed", "jsonfeed", "exads", "single", "site", "reply"}]

IsObject(p) == p.root = "object"
IsString(p) == p.root \in {"url", "refused", "text"}

VARIABLES job,      \* the request under analysis
          side,     \* the pane being validated: "request", "response"; or "none"
                    \* before the request arrives, "done" when the panes are judged
          queue,    \* the families of that pane still to run
          raw,      \* what they have found so far, in order
          failed,   \* the families that threw
          spent,    \* faults and findings used of the job's budget
          emitted,  \* history: every finding raised, with its pane
          sides,    \* the result of each pane finished so far
          report    \* the answer of the route

vars == <<job, side, queue, raw, failed, spent, emitted, sides, report>>

-----------------------------------------------------------------------------
(* Detection.                                                              *)

Has2x(p) == p.imp \/ p.seat # "none"
HasEnvelope(p) == p.env # "none"

\* detect.js:looksLike30Envelope.  A bare item[] is no envelope beside 2.x arrays.
LooksLike30Envelope(p) ==
  /\ IsObject(p)
  /\ IF HasEnvelope(p) THEN p.env # "bare" \/ ~Has2x(p)
     ELSE p.item = "objects" /\ ~Has2x(p)

\* detect.js:detect30ResponseSignals
Speaks30(p) == IsObject(p) /\ p.seat = "30"

OtherType(p) ==
  CASE p.other = "feed" -> "VendorFeed"
    [] p.other = "jsonfeed" -> "JsonFeed"
    [] p.other = "exads" -> "VendorRequest"
    [] p.other = "single" -> "VendorFeed"
    [] p.other = "site" -> "BidRequest"
    [] p.other = "reply" -> "BidResponse"
    [] OTHER -> "unknown"

DetectType(p) ==
  IF p.root \in {"url", "refused"} THEN "UrlRequest"
  ELSE IF p.root \in {"text", "scalar"} THEN "unknown"
  ELSE IF p.root = "array" THEN "VendorFeed"
  ELSE IF LooksLike30Envelope(p)
  THEN IF p.env \in {"response", "both"} THEN "BidResponse" ELSE "BidRequest"
  ELSE IF p.imp THEN "BidRequest"
  ELSE IF p.seat # "none" THEN "BidResponse" ELSE OtherType(p)

DetectVersion(p) ==
  IF ~IsObject(p) THEN IF p.root = "array" THEN "2.5" ELSE "unknown"
  ELSE IF LooksLike30Envelope(p) \/ Speaks30(p) THEN "3.0"
  ELSE IF p.marks \in {"2.6-one", "2.6-many"} THEN "2.6" ELSE "2.5"

\* auction-view.js:classifyAuctionPayload, with its own copies of both tests.
Classify(p) ==
  IF ~IsObject(p) THEN [kind |-> "unknown", v30 |-> FALSE]
  ELSE IF /\ IF HasEnvelope(p) THEN p.env # "bare" \/ ~Has2x(p)
             ELSE p.item = "objects" /\ ~Has2x(p)
  THEN [kind |-> CASE p.env \in {"none", "request"} -> "req"
                   [] p.env = "response" -> "res"
                   [] OTHER -> "unknown",
        v30 |-> TRUE]
  ELSE [kind |-> IF p.imp = (p.seat # "none") THEN "unknown"
                 ELSE IF p.imp THEN "req" ELSE "res",
        v30 |-> p.seat = "30"]

-----------------------------------------------------------------------------
(* Dispatch: the families a payload is judged by, in the order they run.   *)

OnEveryObject == <<"unknown-fields", "consent", "tcf-permission">>

\* runRulePlugins: the registered plugins that apply to the side.
Plugins(t) == IF t = "BidRequest" THEN <<"plugin.schain", "plugin.currency">>
              ELSE <<"plugin.currency", "plugin.price-floor">>

TypedFamilies(p) ==
  LET t == DetectType(p)
      v30 == DetectVersion(p) = "3.0"
  IN CASE t = "BidRequest" /\ v30 ->
            <<"request.3.0">>
            \o IF p.env = "request"
               THEN Plugins(t) \o <<"consent", "tcf-permission">> ELSE <<>>
       [] t = "BidRequest" /\ ~v30 -> <<"request.2x">> \o Plugins(t)
       [] t = "BidResponse" /\ v30 ->
            <<"response.3.0">>
            \o IF p.env \in {"none", "response", "both"} THEN Plugins(t) ELSE <<>>
       [] t = "BidResponse" /\ ~v30 -> <<"response.2x">> \o Plugins(t)
       [] t = "VendorRequest" -> <<"request.exads">>
       [] t = "VendorFeed" -> <<"response.feed">>
       [] p.root = "url" -> <<"request.url">>
       [] OTHER -> <<>>

Families(p) == <<"raw-json">>
               \o (IF IsObject(p) THEN OnEveryObject ELSE <<>>)
               \o TypedFamilies(p)

-----------------------------------------------------------------------------
(* Findings.                                                               *)

\* Every id validate() itself emits and, for the rules, two ids that are errors
\* and one of each other level, in the order of the ids.
IdOrder == <<"internal.rule_family_failed", "jsonfeed.not_validated",
             "payload.ambiguous_both_sides", "payload.ambiguous_envelope",
             "payload.invalid_root", "payload.unknown_type", "request.url.refused",
             "rule.a_error", "rule.b_info", "rule.c_question", "rule.d_warning",
             "rule.e_error", "version.assumed", "version.mismatch", "version.single_marker">>
Ids == ToSet(IdOrder)
IdRank(id) == CHOOSE n \in DOMAIN IdOrder : IdOrder[n] = id

LevelOf(id) ==
  CASE id \in {"payload.invalid_root", "payload.unknown_type",
               "request.url.refused", "rule.a_error", "rule.e_error"} -> "error"
    [] id \in {"internal.rule_family_failed", "payload.ambiguous_both_sides",
               "payload.ambiguous_envelope", "rule.d_warning",
               "version.mismatch"} -> "warning"
    [] id = "rule.c_question" -> "question"
    [] OTHER -> "info"

SevRank(level) == CASE level = "error" -> 0 [] level = "warning" -> 1
                    [] level = "info" -> 2 [] OTHER -> 3

Finding(id, path) == [id |-> id, path |-> path]
Pool == [id : {"rule.a_error", "rule.b_info", "rule.c_question", "rule.d_warning",
               "rule.e_error"},
         path : {1, 2}]

\* findings.js:applyDisabledRules; `disabled' is the ids its patterns match.
ApplyDisabledRules(fs, disabled) == KeptAt(fs, {i \in DOMAIN fs : fs[i].id \notin disabled})

\* findings.js:dedupFindings: the first finding of an (id, path) stays.
DedupFindings(fs) ==
  KeptAt(fs, {i \in DOMAIN fs : \A j \in 1..(i - 1) : fs[j] # fs[i]})

\* The order of findings: severity, then path, then id.
Before(f, g) ==
  LET key(h) == <<SevRank(LevelOf(h.id)), h.path, IdRank(h.id)>>
  IN \E i \in 1..3 : /\ \A j \in 1..(i - 1) : key(f)[j] = key(g)[j]
                     /\ key(f)[i] < key(g)[i]

SortFindings(fs) ==
  InOrder(ToSet(fs), {p \in ToSet(fs) \X ToSet(fs) : Before(p[1], p[2])})

Shown(strictness) ==
  CASE strictness = "lax" -> {"error"}
    [] strictness = "normal" -> {"error", "warning", "question"}
    [] OTHER -> {"error", "warning", "info", "question"}

ApplyStrictness(fs, strictness) ==
  KeptAt(fs, {i \in DOMAIN fs : LevelOf(fs[i].id) \in Shown(strictness)})

\* findings.js:rollupStatus: questions and infos do not count.
RollupStatus(fs) ==
  LET levels == {LevelOf(f.id) : f \in ToSet(fs)}
  IN CASE "error" \in levels -> "errors"
       [] "error" \notin levels /\ "warning" \in levels -> "warnings"
       [] OTHER -> "clean"

-----------------------------------------------------------------------------
(* validate(): the findings it adds of its own, then finalizeResult.       *)

Ortb(p) == DetectType(p) \in {"BidRequest", "BidResponse"}

OwnFindings(p, pin) ==
  LET v == DetectVersion(p)
      say(cond, id) == IF cond THEN <<Finding(id, 0)>> ELSE <<>>
  IN say(p.root \in {"text", "scalar"}, "payload.invalid_root")
     \o say(p.root = "refused", "request.url.refused")
     \o say(DetectType(p) = "JsonFeed", "jsonfeed.not_validated")
     \o say(IsObject(p) /\ DetectType(p) = "unknown", "payload.unknown_type")
     \o say(Ortb(p) /\ p.imp /\ p.seat # "none", "payload.ambiguous_both_sides")
     \o say(Ortb(p) /\ HasEnvelope(p) /\ Has2x(p), "payload.ambiguous_envelope")
     \o say(Ortb(p) /\ pin = None /\ v = "2.5" /\ p.marks = "none", "version.assumed")
     \o say(Ortb(p) /\ pin = None /\ v = "2.6" /\ p.marks = "2.6-one",
            "version.single_marker")
     \o say(Ortb(p) /\ pin \in Pinnable /\ v # pin, "version.mismatch")

\* A string or a scalar that cannot be read overrides the rolled-up status.
StatusOverride(p) == p.root \in {"text", "scalar"}

\* index.js:finalizeResult
FinalizeResult(p, found, broken, opts) ==
  LET fs == ApplyStrictness(SortFindings(DedupFindings(
                ApplyDisabledRules(found, opts.disabled))), opts.strictness)
      status == IF StatusOverride(p) THEN "invalid" ELSE RollupStatus(fs)
  IN [type |-> DetectType(p),
      version |-> IF Ortb(p) THEN DetectVersion(p) ELSE "unknown",
      findings |-> fs,
      failed |-> broken,
      status |-> IF broken # {} /\ status = "clean" THEN "warnings" ELSE status]

-----------------------------------------------------------------------------
(* The route.                                                              *)

\* handleAnalyze takes any string or object as the request, and any value at
\* all as the response; with neither it answers 400 and validates nothing.
Sent(j, s) == j[s].root \notin IF s = "request" THEN {"absent", "scalar"} ELSE {"absent"}
FirstSide(j) == IF Sent(j, "request") THEN "request" ELSE "response"

NoReport == [status |-> None, failed |-> {}, findings |-> <<>>]

Init ==
  /\ job \in Jobs /\ side = None
  /\ queue = <<>> /\ raw = <<>> /\ failed = {}
  /\ spent = [found |-> 0, thrown |-> 0] /\ emitted = {}
  /\ sides = <<>>
  /\ report = NoReport

Receive ==
  /\ side = None
  /\ Sent(job, "request") \/ Sent(job, "response")
  /\ side' = FirstSide(job)
  /\ queue' = Families(job[FirstSide(job)])
  /\ UNCHANGED <<job, raw, failed, spent, emitted, sides, report>>

Raised(fs) == emitted' = emitted \cup {<<side, f>> : f \in ToSet(fs)}

Panes == {"request", "response"}
Finished == DOMAIN sides
Pane == job[side]

\* index.js:runFamily, runRulePlugins: what the family finds is kept ...
FamilyFinds(fs) ==
  /\ side \in Panes /\ queue # <<>>
  /\ spent.found + Len(fs) <= job.mayFind
  /\ raw' = raw \o fs /\ Raised(fs)
  /\ spent' = [spent EXCEPT !.found = @ + Len(fs)]
  /\ queue' = Tail(queue)
  /\ UNCHANGED <<job, side, failed, sides, report>>

\* ... and when it throws, its own findings are lost, one warning is left in
\* their place and the family is recorded.
FamilyThrows ==
  /\ side \in Panes /\ queue # <<>>
  /\ spent.thrown < job.mayThrow
  /\ spent' = [spent EXCEPT !.thrown = @ + 1]
  /\ raw' = Append(raw, Finding("internal.rule_family_failed", 0))
  /\ Raised(<<Finding("internal.rule_family_failed", 0)>>)
  /\ failed' = failed \cup {Head(queue)}
  /\ queue' = Tail(queue)
  /\ UNCHANGED <<job, side, sides, report>>

\* The end of validate(), and the next pane if there is one.
FinishSide ==
  /\ side \in Panes /\ queue = <<>>
  /\ LET more == side = "request" /\ Sent(job, "response")
         found == raw \o OwnFindings(Pane, job.pin)
     IN /\ sides' = [s \in Finished \cup {side} |->
                       IF s = side THEN FinalizeResult(Pane, found, failed, job.opts)
                       ELSE sides[s]]
        /\ Raised(found)
        /\ side' = IF more THEN "response" ELSE "done"
        /\ queue' = IF more THEN Families(job["response"]) ELSE <<>>
  /\ raw' = <<>> /\ failed' = {}
  /\ UNCHANGED <<job, spent, report>>

United ==
  (IF "request" \in Finished THEN sides["request"].findings ELSE <<>>)
  \o (IF "response" \in Finished THEN sides["response"].findings ELSE <<>>)

Incomplete == UNION {sides[s].failed : s \in Finished}

Routed == job.opts.strictness = "pedantic"

AnswerFromFirst ==
  /\ side = "done" /\ report = NoReport /\ Routed
  /\ report' = [status |-> IF Sent(job, "request") /\ sides["request"].failed # {}
                              /\ RollupStatus(United) = "clean"
                           THEN "warnings" ELSE RollupStatus(United),
                failed |-> IF Sent(job, "request") THEN sides["request"].failed
                           ELSE Incomplete,
                findings |-> United]
  /\ UNCHANGED <<job, side, queue, raw, failed, spent, emitted, sides>>

\* The rest of handleAnalyze: the panes' findings united, the status rolled up
\* again, completeness recomputed from both panes.
Answer ==
  /\ side = "done" /\ report = NoReport /\ Routed
  /\ report' = [status |-> IF Incomplete # {} /\ RollupStatus(United) = "clean"
                           THEN "warnings" ELSE RollupStatus(United),
                failed |-> Incomplete,
                findings |-> United]
  /\ UNCHANGED <<job, side, queue, raw, failed, spent, emitted, sides>>

Next ==
  \/ Receive
  \/ \E fs \in {<<>>} \cup {<<f>> : f \in Pool} : FamilyFinds(fs)
  \/ FamilyThrows
  \/ FinishSide
  \/ Answer

Spec == Init /\ [][Next]_vars

-----------------------------------------------------------------------------
(* Properties.                                                             *)

\* An analysis in which a family of rules threw is never called clean, not
\* for its pane and not in the answer, whatever the caller filtered out and
\* however few findings are left; and the answer names every family that threw.
\* (specs/032: "incomplete analysis cannot report clean and remains visible".)
CleanIsComplete ==
  /\ \A s \in Finished : sides[s].failed # {} => sides[s].status # "clean"
  /\ report # NoReport =>
       /\ report.status = "clean" => spent.thrown = 0
       /\ spent.thrown > 0 => report.failed # {}
       /\ report.failed = UNION {sides[s].failed : s \in Finished}

\* No error gets lost between the rule that raised it and the answer: unless
\* the caller disabled its id, it is in its pane's list and the status is
\* "errors" - through the deduplication, the strictness filter, the sort and
\* the union of the panes, and also for a pane whose own status was "invalid".
ErrorsAreSaid ==
  \A e \in emitted :
    e[1] \in Finished /\ LevelOf(e[2].id) = "error" /\ e[2].id \notin job.opts.disabled
      => /\ e[2] \in ToSet(sides[e[1]].findings)
         /\ sides[e[1]].status \in {"errors", "invalid"}
         /\ report # NoReport => report.status = "errors"

\* Each pane's list keeps the public contract: no id and path twice, nothing
\* that was disabled or filtered, and the one order severity, path, id that
\* callers rely on.
ReportIsCanonical ==
  \A s \in Finished :
    LET fs == sides[s].findings
    IN /\ \A i, j \in DOMAIN fs : i < j => Before(fs[i], fs[j])
       /\ \A f \in ToSet(fs) : /\ f.id \notin job.opts.disabled
                              /\ LevelOf(f.id) \in Shown(job.opts.strictness)
       /\ {e[2] : e \in {x \in emitted : x[1] = s}} \cap
            {f \in [id : Ids \ job.opts.disabled, path : 0..2] :
               LevelOf(f.id) \in Shown(job.opts.strictness)} = ToSet(fs)

\* The detector and the auction view's copy of it agree on every payload: when
\* the view commits to a side the validator judged it as that side, and both
\* call the same payloads 3.0.
DetectorsAgree ==
  \A s \in Finished :
    LET p == job[s]
    IN /\ Classify(p).kind = "req" => sides[s].type = "BidRequest"
       /\ Classify(p).kind = "res" => sides[s].type = "BidResponse"
       /\ sides[s].version = "3.0" <=> Classify(p).v30
=============================================================================
