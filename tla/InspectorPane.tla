---------------------------- MODULE InspectorPane ----------------------------
(***************************************************************************)
(* The Inspector's editor and the analysis shown for it: runAnalysis and   *)
(* the authority that decides which run may still paint                    *)
(* (modules/inspector/analysis-run.js), everything that writes the editor, *)
(* and the language switch, which tears the Inspector down and mounts it   *)
(* again.                                                                  *)
(*                                                                         *)
(* Analysing pretty-prints the editor, which erases duplicate keys and     *)
(* long integers; what was there before is kept beside it and is what the  *)
(* server gets.  One action is the code between two awaits.                *)
(*                                                                         *)
(* Abstractions: the request and the response pane are one, as every       *)
(* loader writes both in one task and each keeps its own bytes the same    *)
(* way.  A text is a document and whether it is spelled as JSON.stringify  *)
(* would; Empty is also the null of the variables that hold a text.  The   *)
(* two awaits of a saved load check the same and are one.  Left out: URL   *)
(* requests, the panels' content, toasts, the ?saved= deep link, and which *)
(* sample the next save would update.                                      *)
(***************************************************************************)
EXTENDS Naturals

CONSTANTS
  Docs,      \* payloads
  Empty,     \* no text, and null
  Contexts,  \* settings of the inspection that travel with a payload
  MaxRuns,   \* bound: analyses
  MaxLoads,  \* bound: loads from elsewhere
  MaxMounts  \* bound: mounts of the Inspector

ASSUME DataAssumption == Docs # {} /\ Contexts # {} /\ Empty \notin [doc : Docs, pretty : BOOLEAN]
ASSUME BoundAssumption == MaxRuns \in Nat /\ MaxLoads \in Nat /\ MaxMounts \in Nat \ {0}

VARIABLES
  text,           \* what the editor holds
  rawBefore,      \* _rawBeforePretty
  prettyPrinted,  \* _prettyPrintedReq
  context,        \* inspection.getContext(), the dialect and the pinned version
  run,            \* the analyses
  current,        \* the run that may paint, 0 for null
  state,          \* what the authority reports
  panel,          \* the run whose verdict or failure is on screen, 0 for none
  analyzed,       \* _analyzedSnapshot
  load,           \* the loads
  mounts,         \* mounts so far
  ready,          \* kt:inspector-ready has fired for this mount
  parked,         \* _ot_restore_bidReq in sessionStorage
  entered,        \* history: the bytes last put into the editor
  respelled,      \* history: a pretty-print was put there since, past setEditorValue
  crossed         \* history: a writer past setEditorValue wrote under a run or a verdict

pane    == <<text, rawBefore, prettyPrinted>>
verdict == <<run, current, state, panel, analyzed, crossed>>
shell   == <<mounts, ready, parked>>
history == <<entered, respelled>>
vars    == <<pane, context, verdict, load, shell, history>>

Texts   == [doc : Docs, pretty : BOOLEAN]
Runs    == 1 .. MaxRuns
Loads   == 1 .. MaxLoads
Stages  == {"unused", "probe", "fetch", "intel", "over"}
Kinds   == {"saved", "demo", "handoff", "link"}
NoRun   == [at |-> "unused", text |-> Empty, sent |-> Empty, hist |-> FALSE, context |-> Empty]
NoLoad  == [at |-> "unused", kind |-> "saved", before |-> Empty, fresh |-> FALSE, seen |-> {}]

\* JSON.stringify(JSON.parse(x), null, 2)
Formatted(x) == IF x = Empty THEN Empty ELSE [x EXCEPT !.pretty = TRUE]

-----------------------------------------------------------------------------
\* ++_savedLoadGeneration: no load asked for before may land any more.
Outdated(ls) == [l \in Loads |-> [ls[l] EXCEPT !.fresh = FALSE, !.before = Empty]]

\* analysisRun.invalidate and the empty panels: clearResultsForEmpty.
ClearResults ==
  /\ current' = 0 /\ state' = "idle" /\ panel' = 0 /\ analyzed' = Empty /\ crossed' = FALSE
  /\ UNCHANGED run

IfAnalyzed(x) == analyzed # Empty /\ x # analyzed

\* invalidateIfPayloadChanged, when the editor is about to hold x.
Invalidates(x) ==
  \/ state \in {"pending", "error"}
  \/ analyzed # Empty /\ x # analyzed

InvalidateIfChanged(x) == IF Invalidates(x) THEN ClearResults ELSE UNCHANGED verdict
LoadsAfter(x)          == IF Invalidates(x) THEN Outdated(load) ELSE load

Enter(x) == entered' = x /\ respelled' = FALSE

\* setEditorValue from anywhere but the pretty-print.
SetEditorValue(x) ==
  /\ text' = x /\ prettyPrinted' = Empty
  /\ UNCHANGED rawBefore
  /\ Enter(x)

KeepProvenance(x) ==
  /\ text' = x
  /\ UNCHANGED <<rawBefore, prettyPrinted>>
  /\ Enter(x)

\* An input event: typing, pasting, and every writer that dispatches one.
Input(x) ==
  /\ text' = x /\ prettyPrinted' = Empty /\ rawBefore' = Empty
  /\ Enter(x)

-----------------------------------------------------------------------------
EditorBytes(x) == x

\* The bytes that travel: what the operator pasted, if the editor still holds
\* the pretty-print that replaced it.
RawBytes(x) == IF prettyPrinted # Empty /\ x = prettyPrinted THEN rawBefore ELSE x

Started == {r \in Runs : run[r].at # "unused"}

\* runAnalysis(fromHist) up to its first await, for the text x: whatever was
\* on screen goes, and there is nothing to analyse in an empty editor.
StartRun(x, sent, hist) ==
  IF x = Empty THEN ClearResults
  ELSE \E r \in Runs \ Started :
    /\ \A q \in 1 .. (r - 1) : q \in Started
    /\ run' = [run EXCEPT ![r] = [NoRun EXCEPT !.at = "probe", !.text = x, !.sent = sent, !.hist = hist]]
    /\ current' = r /\ state' = "pending" /\ panel' = 0 /\ analyzed' = Empty /\ crossed' = FALSE

\* The button (disabled while a run is pending), Ctrl-Enter, a change of the
\* version pin.
Analyze ==
  /\ StartRun(text, RawBytes(text), FALSE)
  /\ load' = Outdated(load)
  /\ UNCHANGED <<pane, context, shell, history>>

\* change-dialect, which analyses at once.
ChangeDialect(c) ==
  /\ context' = c
  /\ IF text = Empty
       THEN UNCHANGED <<verdict, load>>
       ELSE StartRun(text, RawBytes(text), FALSE) /\ load' = Outdated(load)
  /\ UNCHANGED <<pane, shell, history>>

\* The inspection dialog: onContextChange clears what the old context gave.
ApplyContext(c) ==
  /\ context' = c
  /\ ClearResults
  /\ load' = Outdated(load)
  /\ UNCHANGED <<pane, shell, history>>

\* loadFromHistory: an entry holds what was analysed, pretty-printed.
LoadFromHistory(d) ==
  LET entry == [doc |-> d, pretty |-> TRUE] IN
  /\ SetEditorValue(entry)
  /\ StartRun(entry, entry, TRUE)
  /\ load' = Outdated(load)
  /\ UNCHANGED <<context, shell>>

Type(x) ==
  /\ Input(x)
  /\ InvalidateIfChanged(x)
  /\ load' = LoadsAfter(x)
  /\ UNCHANGED <<context, shell>>

\* Format, and the templates of the vendor reference.
Paste(d) ==
  /\ SetEditorValue([doc |-> d, pretty |-> TRUE])
  /\ InvalidateIfChanged(text')
  /\ load' = LoadsAfter(text')
  /\ UNCHANGED <<context, shell>>

ClearInput ==
  /\ SetEditorValue(Empty)
  /\ ClearResults
  /\ load' = Outdated(load)
  /\ UNCHANGED <<context, shell>>

-----------------------------------------------------------------------------
PaintAnyway(r) == TRUE

\* isCurrent: the mount is alive and nothing has invalidated the run.
IsCurrent(r) == current = r

NoFinish(outcome) == state

\* finish(run, outcome)
Finished(outcome) == outcome

\* An outdated run returns; finish() then has no effect.
Drop(r) ==
  /\ run' = [run EXCEPT ![r] = [NoRun EXCEPT !.at = "over"]]
  /\ UNCHANGED <<current, state, panel, analyzed, crossed, pane>>

\* clearResultsForError in the panels, then finish(run, "error").
Fail(r) ==
  /\ run' = [run EXCEPT ![r].at = "over"]
  /\ current' = 0 /\ state' = Finished("error") /\ panel' = r
  /\ UNCHANGED <<analyzed, crossed, pane>>

\* snapshotAnalyzedPayload, the panels, and finish(run, "success").
Succeed(r) ==
  /\ run' = [run EXCEPT ![r].at = "over"]
  /\ current' = 0 /\ state' = Finished("success") /\ panel' = r /\ analyzed' = text
  /\ UNCHANGED <<crossed, pane>>

\* The probe source is there: parse, pretty-print the editor, and send.
ProbeDone(r) ==
  /\ run[r].at = "probe"
  /\ IF ~IsCurrent(r) THEN Drop(r)
     ELSE \/ Fail(r)
          \/ /\ run' = [run EXCEPT ![r] = [NoRun EXCEPT !.at = "fetch", !.text = run[r].text, !.context = context]]
             /\ IF run[r].hist THEN UNCHANGED pane
                ELSE /\ rawBefore' = run[r].sent
                     /\ text' = Formatted(run[r].text)
                     /\ prettyPrinted' = Formatted(run[r].text)
             /\ UNCHANGED <<current, state, panel, analyzed, crossed>>
  /\ UNCHANGED <<context, load, shell, history>>

\* The server answers, or refuses, or cannot be reached.  Under a custom
\* dialect its rules are applied next, in another await.
FetchDone(r) ==
  /\ run[r].at = "fetch"
  /\ IF ~IsCurrent(r) THEN Drop(r)
     ELSE \/ Fail(r)
          \/ Succeed(r)
          \/ /\ run' = [run EXCEPT ![r].at = "intel"]
             /\ UNCHANGED <<current, state, panel, analyzed, crossed, pane>>
  /\ UNCHANGED <<context, load, shell, history>>

IntelDone(r) ==
  /\ run[r].at = "intel"
  /\ IF IsCurrent(r) THEN Succeed(r) ELSE Drop(r)
  /\ UNCHANGED <<context, load, shell, history>>

-----------------------------------------------------------------------------
\* What a saved load remembers of the moment it was asked for; "seen" is
\* history.  The others remember nothing.
Ask(kind) ==
  IF kind = "saved"
    THEN [at |-> "asked", kind |-> kind, before |-> text, fresh |-> TRUE, seen |-> Started]
    ELSE [NoLoad EXCEPT !.at = "asked", !.kind = kind]

\* loadSample and loadDemoSample up to their fetch.  A new saved load makes
\* the older ones stale.
AskLoad(kind) ==
  \E l \in Loads :
    /\ load[l].at = "unused"
    /\ load' = [(IF kind = "saved" THEN Outdated(load) ELSE load) EXCEPT ![l] = Ask(kind)]
    /\ UNCHANGED <<pane, context, verdict, shell, history>>

\* Sign-out, or another account: what was asked for the old one is stale.
OnSessionChange ==
  /\ load' = Outdated(load)
  /\ load' # load
  /\ UNCHANGED <<pane, context, verdict, shell, history>>

TextOnly(l) == load[l].kind = "saved" => text = load[l].before

\* current() of a saved load; the others look at their mount at most.
MayLand(l) == load[l].kind = "saved" => load[l].fresh /\ text = load[l].before

Answered(ls, l) == [ls EXCEPT ![l] = [NoLoad EXCEPT !.at = "over"]]

\* The payload arrives: setEditorValue, an input event, or for a shared link
\* an input event and an analysis.
Land(l, d) ==
  LET raw == [doc |-> d, pretty |-> FALSE]  pretty == [doc |-> d, pretty |-> TRUE] IN
  /\ load[l].at = "asked" /\ MayLand(l)
  /\ CASE load[l].kind = "saved" -> \E x \in {raw, pretty} :
            /\ SetEditorValue(x) /\ InvalidateIfChanged(x)
            /\ load' = Answered(LoadsAfter(x), l)
       [] load[l].kind = "demo" ->
            /\ SetEditorValue(pretty) /\ InvalidateIfChanged(pretty)
            /\ load' = Answered(LoadsAfter(pretty), l)
       [] load[l].kind = "handoff" ->
            /\ Input(pretty) /\ InvalidateIfChanged(pretty)
            /\ load' = Answered(LoadsAfter(pretty), l)
       [] load[l].kind = "link" -> \E x \in {raw, pretty} :
            /\ Input(x) /\ StartRun(x, x, FALSE)
            /\ load' = Answered(Outdated(load), l)
  /\ UNCHANGED <<context, shell>>

\* It fails, is aborted with its mount, or is no longer wanted.
Miss(l) ==
  /\ load[l].at = "asked"
  /\ load' = Answered(load, l)
  /\ UNCHANGED <<pane, context, verdict, shell, history>>

-----------------------------------------------------------------------------
\* switchLang parks the text; the Inspector that is still mounted analyses it
\* again, from the editor, as it does for an entry of its history.
SwitchLanguage ==
  /\ parked' = text
  /\ IF text = Empty
       THEN UNCHANGED <<verdict, load, respelled>>
       ELSE /\ StartRun(text, text, TRUE)
            /\ load' = Outdated(load)
            /\ respelled' = TRUE
  /\ UNCHANGED <<pane, context, mounts, ready, entered>>

\* The registry unmounts the Inspector and mounts it again, with empty panes.
\* What a shared link is loading knows nothing of mounts.
Remount ==
  /\ mounts < MaxMounts
  /\ mounts' = mounts + 1 /\ ready' = FALSE
  /\ text' = Empty /\ rawBefore' = Empty /\ prettyPrinted' = Empty
  /\ ClearResults
  /\ load' = [l \in Loads |-> IF load[l].at = "asked" /\ load[l].kind # "link"
                              THEN [NoLoad EXCEPT !.at = "over"] ELSE load[l]]
  /\ entered' = Empty /\ respelled' = FALSE
  /\ UNCHANGED <<context, parked>>

\* A value written into the editor past setEditorValue.
WriteValue(x) ==
  /\ text' = x
  /\ entered' = x /\ respelled' = TRUE
  /\ crossed' = (crossed \/ current # 0 \/ panel # 0)
  /\ UNCHANGED <<rawBefore, prettyPrinted, run, current, state, panel, analyzed>>

\* mirror-load in the modal: what the mirror answered, pretty-printed.
MirrorLoad(d) ==
  /\ WriteValue([doc |-> d, pretty |-> TRUE])
  /\ UNCHANGED <<context, load, shell>>

\* mountInspector has returned, after the session and the partners were
\* fetched: the parked text is written into the editor.  A ?sample= or, for the
\* first mount, a shared link begins to load.
Ready ==
  /\ ~ready /\ ready' = TRUE
  /\ parked' = Empty
  /\ IF parked = Empty
       THEN UNCHANGED <<pane, verdict, history>>
       ELSE WriteValue(parked)
  /\ load' \in {load} \cup
       {[load EXCEPT ![l] = Ask(kind)] :
          l \in {k \in Loads : load[k].at = "unused"},
          kind \in IF mounts = 1 THEN {"handoff", "link"} ELSE {"handoff"}}
  /\ UNCHANGED <<context, mounts>>

-----------------------------------------------------------------------------
\* The first mount of a document, which a language switch by full navigation
\* may have left a text for.
Init ==
  /\ text = Empty /\ rawBefore = Empty /\ prettyPrinted = Empty
  /\ context \in Contexts
  /\ run = [r \in Runs |-> NoRun] /\ current = 0 /\ state = "idle" /\ panel = 0
  /\ analyzed = Empty /\ load = [l \in Loads |-> NoLoad]
  /\ mounts = 1 /\ ready = FALSE /\ parked \in Texts \cup {Empty}
  /\ entered = Empty /\ respelled = FALSE /\ crossed = FALSE

RunStep(r) == ProbeDone(r) \/ FetchDone(r) \/ IntelDone(r)

Operator ==
  \/ Analyze \/ ClearInput \/ SwitchLanguage
  \/ \E x \in Texts : Type(x)
  \/ \E d \in Docs : Paste(d) \/ LoadFromHistory(d) \/ MirrorLoad(d)
  \/ \E c \in Contexts : ChangeDialect(c) \/ ApplyContext(c)
  \/ \E kind \in {"saved", "demo"} : AskLoad(kind)

Next ==
  \/ Operator \/ OnSessionChange \/ Remount \/ Ready
  \/ \E r \in Runs : RunStep(r)
  \/ \E l \in Loads : Miss(l) \/ \E d \in Docs : Land(l, d)

Spec == Init /\ [][Next]_vars

\* The browser ends every fetch one way or the other.
FairSpec == Spec /\ \A r \in Runs : WF_vars(RunStep(r))

-----------------------------------------------------------------------------
\* Types; only text is ever analysed.
TypeOK ==
  /\ {text, rawBefore, prettyPrinted, analyzed, parked, entered} \subseteq Texts \cup {Empty}
  /\ context \in Contexts
  /\ run \in [Runs -> [at : Stages, text : Texts \cup {Empty}, sent : Texts \cup {Empty},
                       hist : BOOLEAN, context : Contexts \cup {Empty}]]
  /\ \A r \in Runs : run[r].at = "probe" => run[r].text # Empty /\ run[r].sent # Empty
  /\ current \in {0} \cup Runs /\ panel \in {0} \cup Runs
  /\ state \in {"idle", "pending", "success", "error"}
  /\ load \in [Loads -> [at : {"unused", "asked", "over"}, kind : Kinds, before : Texts \cup {Empty},
                         fresh : BOOLEAN, seen : SUBSET Runs]]
  /\ mounts \in 1 .. MaxMounts /\ {ready, respelled, crossed} \subseteq BOOLEAN

\* The text and the settings a run was started with, and none other, are on
\* screen.
IsFor(r) ==
  text \in {run[r].text, Formatted(run[r].text)} /\ run[r].context \in {Empty, context}

\* A verdict or a failure on screen, and a run that may still paint one, is
\* about the payload and the settings on screen: no late answer, load, edit or
\* change of settings leaves a claim about other bytes standing.  What the
\* writers past setEditorValue do is excepted, until the verdict goes.
VerdictIsForPane == \A r \in {panel, current} \ {0} : crossed \/ IsFor(r)

\* What setEditorValue says of itself: "The one way to put text into an editor
\* from code", mirror included, so that a new loader cannot forget to
\* invalidate.
NoVerdictStands == \A r \in {panel, current} \ {0} : IsFor(r)

\* The server gets the bytes last put into the editor, however often they were
\* pretty-printed on the way (rawReqBytes), unless a language switch or the
\* mirror has respelled them.
EvidenceTravels ==
  [][\A r \in Runs : run[r].at = "unused" /\ run'[r].at # "unused" /\ ~respelled'
       => run'[r].sent = entered']_vars

\* A saved sample never lands on an analysis that was started after it was
\* asked for, whatever became of the text in between.
NoAnalysisLost ==
  [][\A l \in Loads :
       /\ load[l].kind = "saved" /\ load[l].at = "asked" /\ load'[l].at = "over"
       /\ entered' # entered /\ mounts' = mounts
       => Started \subseteq load[l].seen]_vars

\* A pending analysis ends, and the button is given back.
AnalysisEnds == state = "pending" ~> state # "pending"
=============================================================================
