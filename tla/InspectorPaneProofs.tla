----------------------- MODULE InspectorPaneProofs -----------------------
(***************************************************************************)
(* What the result panel says is about the text in the editor, and the     *)
(* server got the bytes last put there, for any number of payloads,        *)
(* analyses, loads and mounts.  The argument: a run is current or on       *)
(* screen only as long as nobody has changed the text it was started with, *)
(* but for the run's own pretty-print, whose original is kept beside it.   *)
(***************************************************************************)
EXTENDS InspectorPane, TLAPS

USE DataAssumption, BoundAssumption

Strings == Texts \cup {Empty}
RunType == [at : Stages, text : Strings, sent : Strings, hist : BOOLEAN,
            context : Contexts \cup {Empty}]
LoadType == [at : {"unused", "asked", "over"}, kind : Kinds, before : Strings,
             fresh : BOOLEAN, seen : SUBSET Runs]

\* The run that may paint is under way, for some text.
Underway ==
  current # 0 => /\ run[current].at \in {"probe", "fetch", "intel"}
                 /\ run[current].text # Empty /\ text # Empty

\* What is on screen is over, and knows what it was about.
OnScreen ==
  /\ analyzed # Empty => panel # 0
  /\ panel # 0 => /\ current = 0 /\ run[panel].text # Empty /\ run[panel].at = "over"
                  /\ state = "error" \/ analyzed # Empty

Snapshot == ~crossed /\ analyzed # Empty => text = analyzed

\* What would be sent now, and what a run about to send will send.
Bytes ==
  /\ prettyPrinted # Empty => rawBefore # Empty
  /\ ~respelled =>
    /\ RawBytes(text) = entered
    /\ current # 0 /\ run[current].at = "probe" /\ ~run[current].hist
         => run[current].sent = entered

\* A saved load that may still land has seen every run there is.
FreshSeen ==
  \A l \in Loads : load[l].at = "asked" /\ load[l].kind = "saved" /\ load[l].fresh
                     => Started \subseteq load[l].seen

Pending == state = "pending" <=> current # 0

IInv ==
  /\ TypeOK /\ Pending
  /\ Underway /\ OnScreen /\ Snapshot /\ VerdictIsForPane /\ Bytes /\ FreshSeen

LEMMA FormattedType ==
  \A x \in Strings : /\ Formatted(x) \in Strings
                     /\ x # Empty => Formatted(x) # Empty
                     /\ Formatted(Formatted(x)) = Formatted(x)
<1> SUFFICES ASSUME NEW x \in Strings
             PROVE  /\ Formatted(x) \in Strings
                    /\ x # Empty => Formatted(x) # Empty
                    /\ Formatted(Formatted(x)) = Formatted(x)
  OBVIOUS
<1>1. CASE x = Empty
  BY <1>1 DEF Formatted
<1>2. CASE x # Empty
  <2>1. x \in [doc : Docs, pretty : BOOLEAN]
    BY <1>2 DEF Strings, Texts
  <2>2. [x EXCEPT !.pretty = TRUE] \in [doc : Docs, pretty : BOOLEAN]
    BY <2>1
  <2>3. [x EXCEPT !.pretty = TRUE] # Empty
    BY <2>2
  <2>4. [[x EXCEPT !.pretty = TRUE] EXCEPT !.pretty = TRUE] = [x EXCEPT !.pretty = TRUE]
    BY <2>1
  <2> QED
    BY <1>2, <2>2, <2>3, <2>4 DEF Formatted, Strings, Texts
<1> QED
  BY <1>1, <1>2

LEMMA Records ==
  /\ NoRun \in RunType /\ NoLoad \in LoadType
  /\ \A kind \in Kinds : TypeOK => Ask(kind) \in LoadType
  /\ TypeOK => Started \subseteq Runs
BY DEF NoRun, NoLoad, RunType, LoadType, Stages, Strings, Kinds, Ask, Started, TypeOK

\* Only the loads' own fields change when they are outdated.
LEMMA OutdatedFacts ==
  ASSUME NEW ls \in [Loads -> LoadType]
  PROVE  /\ Outdated(ls) \in [Loads -> LoadType]
         /\ \A l \in Loads : /\ ~Outdated(ls)[l].fresh
                             /\ Outdated(ls)[l].at = ls[l].at /\ Outdated(ls)[l].kind = ls[l].kind
                             /\ Outdated(ls)[l].seen = ls[l].seen
<1> SUFFICES ASSUME NEW l \in Loads
             PROVE  LET m == [ls[l] EXCEPT !.fresh = FALSE, !.before = Empty] IN
                    /\ m \in LoadType /\ ~m.fresh
                    /\ m.at = ls[l].at /\ m.kind = ls[l].kind /\ m.seen = ls[l].seen
  BY DEF Outdated
<1>1. ls[l] \in LoadType
  OBVIOUS
<1> QED
  BY <1>1 DEF LoadType, Strings

LEMMA LoadsAfterType ==
  ASSUME TypeOK, NEW x
  PROVE  LoadsAfter(x) \in [Loads -> LoadType]
BY OutdatedFacts DEF LoadsAfter, TypeOK, LoadType, Strings

LEMMA AnsweredFacts ==
  ASSUME NEW ls \in [Loads -> LoadType], NEW l \in Loads
  PROVE  /\ Answered(ls, l) \in [Loads -> LoadType]
         /\ \A m \in Loads : Answered(ls, l)[m] = IF m = l THEN [NoLoad EXCEPT !.at = "over"] ELSE ls[m]
         /\ Answered(ls, l)[l].at = "over"
<1>1. [NoLoad EXCEPT !.at = "over"] \in LoadType /\ [NoLoad EXCEPT !.at = "over"].at = "over"
  BY Records DEF LoadType, NoLoad, Strings
<1> QED
  BY <1>1 DEF Answered

LEMMA StartCrossed ==
  ASSUME NEW x, NEW sent, NEW hist, StartRun(x, sent, hist)
  PROVE  crossed' = FALSE
BY DEF StartRun, ClearResults

\* A new run is a record of its kind, and the only thing that changes.
LEMMA StartFacts ==
  ASSUME TypeOK, NEW x \in Strings, NEW sent \in Strings, NEW hist \in BOOLEAN,
         x # Empty => sent # Empty,
         StartRun(x, sent, hist)
  PROVE  /\ run' \in [Runs -> RunType] /\ current' \in {0} \cup Runs
         /\ panel' = 0 /\ analyzed' = Empty
         /\ state' \in {"idle", "pending"} /\ (state' = "pending" <=> current' # 0)
         /\ \A r \in Runs : run[r].at # "unused" => run'[r] = run[r]
         /\ \A r \in Runs : run[r].at = "unused" /\ run'[r].at # "unused" => r = current'
         /\ \A r \in Runs : run'[r].at = "probe" => run'[r].text # Empty /\ run'[r].sent # Empty
         /\ current' # 0 =>
              /\ x # Empty /\ run[current'].at = "unused"
              /\ run'[current'].at = "probe" /\ run'[current'].text = x
              /\ run'[current'].sent = sent /\ run'[current'].hist = hist
              /\ run'[current'].context = Empty
         /\ current' = 0 => run' = run
<1>0. run \in [Runs -> RunType]
      /\ \A r \in Runs : run[r].at = "probe" => run[r].text # Empty /\ run[r].sent # Empty
  BY DEF TypeOK, RunType, Strings
<1>1. CASE x = Empty
  BY <1>0, <1>1 DEF StartRun, ClearResults
<1>2. CASE x # Empty
  <2>1. PICK r \in Runs \ Started :
          /\ run' = [run EXCEPT ![r] = [NoRun EXCEPT !.at = "probe", !.text = x,
                                                     !.sent = sent, !.hist = hist]]
          /\ current' = r /\ state' = "pending" /\ panel' = 0 /\ analyzed' = Empty
    BY <1>2 DEF StartRun
  <2> DEFINE new == [NoRun EXCEPT !.at = "probe", !.text = x, !.sent = sent, !.hist = hist]
  <2>2. /\ new \in RunType /\ new.at = "probe" /\ new.text = x /\ new.sent = sent
        /\ new.hist = hist /\ new.context = Empty
    BY Records DEF RunType, Stages, NoRun
  <2>3. run' \in [Runs -> RunType] /\ \A q \in Runs : run'[q] = IF q = r THEN new ELSE run[q]
    <3> HIDE DEF new
    <3> QED
      BY <1>0, <2>1, <2>2 DEF new
  <2>4. r # 0 /\ run[r].at = "unused"
    BY DEF Runs, Started
  <2> HIDE DEF new
  <2> QED
    BY <1>0, <1>2, <2>1, <2>2, <2>3, <2>4
<1> QED
  BY <1>1, <1>2

-----------------------------------------------------------------------------
\* The part of the types that is not about runs.
PaneType ==
  /\ {text, rawBefore, prettyPrinted, parked, entered} \subseteq Strings
  /\ context \in Contexts /\ load \in [Loads -> LoadType]
  /\ mounts \in 1 .. MaxMounts /\ {ready, respelled} \subseteq BOOLEAN

BytesNow ==
  /\ prettyPrinted # Empty => rawBefore # Empty
  /\ ~respelled => RawBytes(text) = entered

LEMMA TypeSplit ==
  TypeOK <=> /\ PaneType /\ analyzed \in Strings
             /\ run \in [Runs -> RunType]
             /\ \A r \in Runs : run[r].at = "probe" => run[r].text # Empty /\ run[r].sent # Empty
             /\ current \in {0} \cup Runs /\ panel \in {0} \cup Runs
             /\ state \in {"idle", "pending", "success", "error"} /\ crossed \in BOOLEAN
BY DEF TypeOK, PaneType, RunType, LoadType, Strings

LEMMA TypeJoin ==
  ASSUME PaneType', analyzed' \in Strings, run' \in [Runs -> RunType],
         \A r \in Runs : run'[r].at = "probe" => run'[r].text # Empty /\ run'[r].sent # Empty,
         current' \in {0} \cup Runs, panel' \in {0} \cup Runs,
         state' \in {"idle", "pending", "success", "error"}, crossed' \in BOOLEAN
  PROVE  TypeOK'
BY DEF TypeOK, PaneType, RunType, LoadType, Strings

\* The three things that happen to a verdict when the editor or the settings
\* change: it is cleared,
LEMMA ClearInv ==
  ASSUME IInv, ClearResults, PaneType', BytesNow', FreshSeen'
  PROVE  IInv'
<1>1. TypeOK'
  BY TypeSplit, TypeJoin DEF IInv, ClearResults, Strings
<1>2. Pending' /\ Underway' /\ OnScreen' /\ Snapshot' /\ VerdictIsForPane'
  BY DEF ClearResults, Pending, Underway, OnScreen, Snapshot, VerdictIsForPane, IsFor
<1>3. Bytes'
  BY DEF ClearResults, Bytes, BytesNow
<1> QED
  BY <1>1, <1>2, <1>3 DEF IInv

\* a new run takes its place,
LEMMA StartInv ==
  ASSUME IInv, PaneType', BytesNow', FreshSeen',
         NEW sent \in Strings, NEW hist \in BOOLEAN,
         StartRun(text', sent, hist),
         text' # Empty => sent # Empty,
         hist \/ respelled' \/ sent = entered'
  PROVE  IInv'
<1>1. text' \in Strings
  BY DEF PaneType
<1>2. TypeOK
  BY DEF IInv
<1>3. /\ run' \in [Runs -> RunType] /\ current' \in {0} \cup Runs
      /\ panel' = 0 /\ analyzed' = Empty
      /\ state' \in {"idle", "pending"} /\ (state' = "pending" <=> current' # 0)
      /\ \A r \in Runs : run'[r].at = "probe" => run'[r].text # Empty /\ run'[r].sent # Empty
      /\ current' # 0 =>
           /\ text' # Empty
           /\ run'[current'].at = "probe" /\ run'[current'].text = text'
           /\ run'[current'].sent = sent /\ run'[current'].hist = hist
           /\ run'[current'].context = Empty
  BY <1>1, <1>2, StartFacts
<1>4. TypeOK'
  <2>1. crossed' \in BOOLEAN
    BY StartCrossed
  <2> QED
    BY <1>3, <2>1, TypeJoin DEF Strings
<1>5. Pending' /\ Underway' /\ OnScreen' /\ Snapshot'
  BY <1>3 DEF Pending, Underway, OnScreen, Snapshot
<1>6. VerdictIsForPane'
  BY <1>3 DEF VerdictIsForPane, IsFor
<1>7. Bytes'
  BY <1>3 DEF Bytes, BytesNow
<1> QED
  BY <1>4, <1>5, <1>6, <1>7 DEF IInv

\* or it stays, because the text it is about stays.
LEMMA KeepInv ==
  ASSUME IInv, UNCHANGED verdict, PaneType', Bytes', FreshSeen',
         UNCHANGED context,
         UNCHANGED text \/ (current = 0 /\ (crossed \/ (panel = 0 /\ analyzed = Empty)))
  PROVE  IInv'
<1>1. TypeOK'
  BY TypeSplit, TypeJoin DEF IInv, verdict
<1>2. Pending' /\ Underway' /\ OnScreen'
  BY DEF IInv, verdict, Pending, Underway, OnScreen
<1>3. VerdictIsForPane'
  BY DEF IInv, verdict, VerdictIsForPane, IsFor
<1>4. Snapshot'
  BY DEF IInv, verdict, Snapshot
<1> QED
  BY <1>1, <1>2, <1>3, <1>4 DEF IInv

-----------------------------------------------------------------------------
\* Loads that were outdated, or answered, are no fresher than before.
LEMMA OutdatedFresh ==
  ASSUME TypeOK, load' = Outdated(load)
  PROVE  load' \in [Loads -> LoadType] /\ FreshSeen'
<1>1. load \in [Loads -> LoadType]
  BY TypeSplit DEF PaneType
<1> QED
  BY <1>1, OutdatedFacts DEF FreshSeen

LEMMA AnsweredFresh ==
  ASSUME TypeOK, FreshSeen, NEW ls \in [Loads -> LoadType], NEW l \in Loads,
         load' = Answered(ls, l),
         \/ \A m \in Loads : ~ls[m].fresh
         \/ ls = load /\ UNCHANGED run
  PROVE  load' \in [Loads -> LoadType] /\ FreshSeen'
<1>1. \A m \in Loads : m # l => load'[m] = ls[m]
  BY AnsweredFacts
<1>2. load'[l].at = "over" /\ load' \in [Loads -> LoadType]
  BY AnsweredFacts
<1> QED
  BY <1>1, <1>2 DEF FreshSeen, Started

LEMMA LoadsAfterFresh ==
  ASSUME TypeOK, FreshSeen, NEW x, InvalidateIfChanged(x)
  PROVE  /\ LoadsAfter(x) \in [Loads -> LoadType]
         /\ UNCHANGED run
         /\ \/ \A m \in Loads : ~LoadsAfter(x)[m].fresh
            \/ LoadsAfter(x) = load
BY TypeSplit, OutdatedFacts
   DEF PaneType, LoadsAfter, InvalidateIfChanged, ClearResults, verdict

\* Whatever is put into the editor by a writer that tells the authority.
LEMMA PutInv ==
  ASSUME IInv, PaneType', NEW x \in Strings, text' = x, entered' = x, prettyPrinted' = Empty,
         UNCHANGED context, InvalidateIfChanged(x), FreshSeen'
  PROVE  IInv'
<1>1. RawBytes(text)' = entered'
  BY DEF RawBytes
<1>2. CASE Invalidates(x)
  BY <1>1, <1>2, ClearInv DEF InvalidateIfChanged, BytesNow
<1>3. CASE ~Invalidates(x)
  <2>1. UNCHANGED verdict /\ current = 0
    BY <1>3 DEF InvalidateIfChanged, Invalidates, IInv, Pending
  <2>2. crossed \/ UNCHANGED text \/ (panel = 0 /\ analyzed = Empty)
    BY <1>3 DEF Invalidates, IInv, Snapshot, OnScreen
  <2>3. Bytes'
    BY <1>1, <2>1 DEF Bytes, verdict
  <2> QED
    BY <2>1, <2>2, <2>3, KeepInv
<1> QED
  BY <1>2, <1>3

LEMMA PutTypes ==
  ASSUME TypeOK, NEW x \in Strings, SetEditorValue(x) \/ Input(x)
  PROVE  /\ {text, rawBefore, prettyPrinted, entered}' \subseteq Strings
         /\ respelled' = FALSE
         /\ text' = x /\ entered' = x /\ prettyPrinted' = Empty
BY TypeSplit DEF PaneType, SetEditorValue, Input, Enter, Strings

\* Whatever is put there past setEditorValue.
LEMMA WriteInv ==
  ASSUME IInv, NEW x \in Texts, WriteValue(x), PaneType', FreshSeen', UNCHANGED context
  PROVE  IInv'
<1>1. x # Empty
  BY DEF Texts
<1>2. crossed' = (crossed \/ current # 0 \/ panel # 0)
  BY DEF WriteValue
<1>3. crossed' \in BOOLEAN /\ (crossed' <=> crossed \/ current # 0 \/ panel # 0)
  BY <1>2, Zenon
<1>4. /\ text' = x /\ respelled' = TRUE
      /\ UNCHANGED <<rawBefore, prettyPrinted, run, current, state, panel, analyzed>>
  BY DEF WriteValue
<1>5. TypeOK'
  BY <1>3, <1>4, TypeSplit, TypeJoin DEF IInv
<1>6. Pending' /\ Underway' /\ OnScreen'
  BY <1>1, <1>4 DEF IInv, Pending, Underway, OnScreen
<1>7. Snapshot' /\ VerdictIsForPane'
  BY <1>3, <1>4 DEF IInv, OnScreen, Snapshot, VerdictIsForPane
<1>8. Bytes'
  BY <1>4 DEF IInv, Bytes
<1> QED
  BY <1>5, <1>6, <1>7, <1>8 DEF IInv

LEMMA InitInv == Init => IInv
<1> SUFFICES ASSUME Init PROVE IInv
  OBVIOUS
<1>1a. load \in [Loads -> LoadType]
  BY Records DEF Init
<1>1b. 1 \in 1 .. MaxMounts
  OBVIOUS
<1>1. PaneType
  BY <1>1a, <1>1b DEF Init, PaneType, Strings
<1>2. /\ analyzed \in Strings /\ current \in {0} \cup Runs /\ panel \in {0} \cup Runs
      /\ state \in {"idle", "pending", "success", "error"} /\ crossed \in BOOLEAN
  BY DEF Init, Strings
<1>3. run \in [Runs -> RunType] /\ \A r \in Runs : run[r].at # "probe"
  BY Records DEF Init, NoRun
<1>4. TypeOK
  BY <1>1, <1>2, <1>3, TypeSplit
<1>5. Pending /\ Underway /\ OnScreen /\ Snapshot /\ VerdictIsForPane
  BY DEF Init, Pending, Underway, OnScreen, Snapshot, VerdictIsForPane, IsFor
<1>6. Bytes
  BY DEF Init, Bytes, RawBytes
<1>7. FreshSeen
  BY DEF Init, FreshSeen, NoLoad
<1> QED
  BY <1>4, <1>5, <1>6, <1>7 DEF IInv

\* What the operator does.
LEMMA OperatorInv ==
  ASSUME IInv, Operator
  PROVE  IInv'
<1>0. /\ TypeOK /\ PaneType /\ text \in Strings /\ rawBefore \in Strings /\ entered \in Strings
      /\ FreshSeen
  BY TypeSplit DEF IInv, PaneType
<1>1. RawBytes(text) \in Strings /\ (~respelled => RawBytes(text) = entered)
  BY <1>0 DEF RawBytes, IInv, Bytes
<1>2. text # Empty => RawBytes(text) # Empty
  BY DEF RawBytes, IInv, Bytes
<1>3. ASSUME NEW x \in Strings, SetEditorValue(x) \/ Input(x), UNCHANGED <<context, shell>>,
             InvalidateIfChanged(x), load' = LoadsAfter(x)
      PROVE  IInv'
  <2>1. load' \in [Loads -> LoadType] /\ FreshSeen'
    BY <1>0, <1>3, LoadsAfterFresh DEF FreshSeen, Started
  <2>2. PaneType'
    BY <1>0, <1>3, <2>1, PutTypes DEF PaneType, shell
  <2> QED
    BY <1>0, <1>3, <2>1, <2>2, PutInv, PutTypes
<1>4. ASSUME NEW sent \in Strings, NEW hist \in BOOLEAN, StartRun(text', sent, hist),
             load' = Outdated(load), PaneType' \/ UNCHANGED <<pane, shell, entered>>,
             context' \in Contexts, respelled' \in BOOLEAN,
             BytesNow', text' # Empty => sent # Empty, hist \/ respelled' \/ sent = entered'
      PROVE  IInv'
  <2>1. load' \in [Loads -> LoadType] /\ FreshSeen'
    BY <1>0, <1>4, OutdatedFresh
  <2>2. PaneType'
    BY <1>0, <1>4, <2>1 DEF PaneType, pane, shell
  <2> QED
    BY <1>4, <2>1, <2>2, StartInv
<1>5. BytesNow
  BY <1>1 DEF BytesNow, IInv, Bytes
<1>6. CASE Analyze
  BY <1>0, <1>1, <1>2, <1>4, <1>5, <1>6
     DEF Analyze, pane, history, BytesNow, RawBytes, PaneType
<1>7. CASE ClearInput
  <2>1. load' \in [Loads -> LoadType] /\ FreshSeen'
    BY <1>0, <1>7, OutdatedFresh DEF ClearInput
  <2>2. PaneType'
    BY <1>0, <1>7, <2>1, PutTypes DEF ClearInput, PaneType, shell, Strings
  <2>3. BytesNow'
    BY <1>7 DEF ClearInput, SetEditorValue, Enter, BytesNow, RawBytes
  <2> QED
    BY <1>7, <2>1, <2>2, <2>3, ClearInv DEF ClearInput
<1>8. CASE SwitchLanguage
  <2>1. CASE text = Empty
    <3>1. PaneType' /\ FreshSeen'
      BY <1>0, <1>8, <2>1 DEF SwitchLanguage, PaneType, pane, FreshSeen, Started, verdict
    <3>2. Bytes'
      BY <1>8, <2>1 DEF SwitchLanguage, IInv, Bytes, RawBytes, pane, verdict
    <3> QED
      BY <1>8, <2>1, <3>1, <3>2, KeepInv DEF SwitchLanguage, pane
  <2>2. CASE text # Empty
    <3>1. load' \in [Loads -> LoadType] /\ FreshSeen'
      BY <1>0, <1>8, <2>2, OutdatedFresh DEF SwitchLanguage
    <3>2. PaneType'
      BY <1>0, <1>8, <2>2, <3>1 DEF SwitchLanguage, PaneType, pane
    <3>3. BytesNow' /\ text' = text /\ respelled'
      BY <1>5, <1>8, <2>2 DEF SwitchLanguage, BytesNow, RawBytes, pane
    <3> QED
      BY <1>0, <1>8, <2>2, <3>1, <3>2, <3>3, StartInv DEF SwitchLanguage
  <2> QED
    BY <2>1, <2>2
<1>9. ASSUME NEW x \in Texts, Type(x) PROVE IInv'
  BY <1>3, <1>9 DEF Type, Strings
<1>10. ASSUME NEW d \in Docs, Paste(d) PROVE IInv'
  <2>1. [doc |-> d, pretty |-> TRUE] \in Strings
    BY DEF Strings, Texts
  <2>2. text' = [doc |-> d, pretty |-> TRUE]
    BY <1>10 DEF Paste, SetEditorValue
  <2> QED
    BY <1>3, <1>10, <2>1, <2>2 DEF Paste
<1>11. ASSUME NEW d \in Docs, LoadFromHistory(d) PROVE IInv'
  <2> DEFINE e == [doc |-> d, pretty |-> TRUE]
  <2>0. e \in [doc : Docs, pretty : BOOLEAN]
    OBVIOUS
  <2>1. e \in Strings /\ e # Empty
    BY <2>0 DEF Strings, Texts
  <2>2. load' \in [Loads -> LoadType] /\ FreshSeen'
    BY <1>0, <1>11, OutdatedFresh DEF LoadFromHistory
  <2>3. SetEditorValue(e) /\ StartRun(e, e, TRUE) /\ UNCHANGED <<context, shell>>
    BY <1>11 DEF LoadFromHistory
  <2> HIDE DEF e
  <2>4. PaneType' /\ text' = e
    BY <1>0, <2>1, <2>2, <2>3, PutTypes DEF PaneType, shell
  <2>5. BytesNow'
    BY <2>3 DEF SetEditorValue, Enter, BytesNow, RawBytes
  <2> QED
    BY <2>1, <2>2, <2>3, <2>4, <2>5, StartInv
<1>12. ASSUME NEW c \in Contexts, ChangeDialect(c) PROVE IInv'
  <2>1. CASE text = Empty
    <3>1. PaneType' /\ FreshSeen' /\ Bytes'
      BY <1>0, <1>12, <2>1
         DEF ChangeDialect, PaneType, pane, shell, history, FreshSeen, Started, verdict,
             IInv, Bytes, RawBytes
    <3>2. current = 0 /\ (panel # 0 => panel \in Runs /\ run[panel].text # Empty)
      BY <1>0, <2>1, TypeSplit DEF IInv, Underway, OnScreen
    <3>2a. panel # 0 => run[panel].text \in Strings /\ Formatted(run[panel].text) # Empty
      BY <1>0, <3>2, FormattedType, TypeSplit DEF RunType
    <3>3. crossed \/ (current = 0 /\ panel = 0)
      BY <2>1, <3>2, <3>2a DEF IInv, VerdictIsForPane, IsFor
    <3>4. TypeOK'
      BY <1>0, <1>12, <2>1, <3>1, TypeSplit, TypeJoin DEF ChangeDialect, verdict
    <3>5. Pending' /\ Underway' /\ OnScreen' /\ Snapshot' /\ VerdictIsForPane'
      BY <1>12, <2>1, <3>3
         DEF ChangeDialect, verdict, pane, history, IInv, Pending, Underway, OnScreen, Snapshot,
             VerdictIsForPane, IsFor
    <3> QED
      BY <3>1, <3>4, <3>5 DEF IInv
  <2>2. CASE text # Empty
    <3>1. /\ StartRun(text, RawBytes(text), FALSE) /\ load' = Outdated(load)
          /\ context' = c /\ UNCHANGED <<pane, shell, history>>
      BY <1>12, <2>2 DEF ChangeDialect
    <3>2. BytesNow' /\ text' = text
      BY <1>5, <3>1 DEF BytesNow, RawBytes, pane, history
    <3>3. UNCHANGED <<entered, respelled>>
      BY <3>1 DEF history
    <3> QED
      BY <1>0, <1>1, <1>2, <1>4, <3>1, <3>2, <3>3 DEF PaneType
  <2> QED
    BY <2>1, <2>2
<1>13. ASSUME NEW c \in Contexts, ApplyContext(c) PROVE IInv'
  <2>1. load' \in [Loads -> LoadType] /\ FreshSeen'
    BY <1>0, <1>13, OutdatedFresh DEF ApplyContext
  <2>2. PaneType' /\ BytesNow'
    BY <1>0, <1>5, <1>13, <2>1 DEF ApplyContext, PaneType, pane, shell, history, BytesNow, RawBytes
  <2> QED
    BY <1>13, <2>1, <2>2, ClearInv DEF ApplyContext
<1>14. ASSUME NEW kind \in {"saved", "demo"}, AskLoad(kind) PROVE IInv'
  <2>1. PICK l \in Loads :
          /\ load' = [(IF kind = "saved" THEN Outdated(load) ELSE load) EXCEPT ![l] = Ask(kind)]
          /\ UNCHANGED <<pane, context, verdict, shell, history>>
    BY <1>14 DEF AskLoad
  <2>2. Ask(kind) \in LoadType /\ (Ask(kind).kind = "saved" => Ask(kind).seen = Started)
    BY <1>0, Records DEF Kinds, Ask, NoLoad
  <2>3. /\ load' \in [Loads -> LoadType]
        /\ \A m \in Loads : \/ m = l /\ load'[m] = Ask(kind)
                            \/ load'[m] = load[m] \/ ~load'[m].fresh
    BY <1>0, <2>1, <2>2, OutdatedFacts DEF PaneType
  <2>4. FreshSeen' /\ PaneType'
    BY <1>0, <2>1, <2>2, <2>3 DEF FreshSeen, Started, PaneType, pane, shell, history, verdict
  <2>5. Bytes'
    BY <2>1 DEF IInv, Bytes, RawBytes, pane, history, verdict
  <2> QED
    BY <2>1, <2>4, <2>5, KeepInv DEF pane, history
<1>15. ASSUME NEW d \in Docs, MirrorLoad(d) PROVE IInv'
  <2>1. WriteValue([doc |-> d, pretty |-> TRUE]) /\ UNCHANGED <<context, load, shell>>
    BY <1>15 DEF MirrorLoad
  <2>2. [doc |-> d, pretty |-> TRUE] \in Texts
    BY DEF Texts
  <2>3. PaneType'
    BY <1>0, <2>1, <2>2 DEF PaneType, WriteValue, shell, Strings
  <2>4. FreshSeen'
    BY <1>0, <2>1 DEF FreshSeen, Started, WriteValue
  <2> QED
    BY <2>1, <2>2, <2>3, <2>4, WriteInv
<1> QED
  BY <1>6, <1>7, <1>8, <1>9, <1>10, <1>11, <1>12, <1>13, <1>14, <1>15 DEF Operator

-----------------------------------------------------------------------------
\* What the shell and the session do.
LEMMA RemountInv ==
  ASSUME IInv, Remount
  PROVE  IInv'
<1>1. PaneType /\ FreshSeen /\ TypeOK
  BY TypeSplit DEF IInv
<1>2. [NoLoad EXCEPT !.at = "over"] \in LoadType /\ [NoLoad EXCEPT !.at = "over"].at = "over"
  BY Records DEF LoadType, NoLoad, Strings
<1>3. /\ load' \in [Loads -> LoadType]
      /\ \A l \in Loads : load'[l] = load[l] \/ load'[l].at = "over"
  BY <1>1, <1>2 DEF Remount, PaneType
<1>4. FreshSeen'
  BY <1>1, <1>3 DEF FreshSeen, Remount, ClearResults, Started
<1>5a. mounts' \in 1 .. MaxMounts
  BY <1>1 DEF Remount, PaneType
<1>5. PaneType'
  BY <1>1, <1>3, <1>5a DEF Remount, PaneType, Strings
<1>6. BytesNow'
  BY DEF Remount, BytesNow, RawBytes
<1> QED
  BY <1>4, <1>5, <1>6, ClearInv DEF Remount

LEMMA ReadyInv ==
  ASSUME IInv, Ready
  PROVE  IInv'
<1>1. PaneType /\ FreshSeen /\ TypeOK /\ UNCHANGED run
  BY TypeSplit DEF IInv, Ready, WriteValue, verdict
<1>2. /\ load' \in [Loads -> LoadType]
      /\ \A l \in Loads : load'[l] = load[l] \/ load'[l].kind # "saved"
  <2>1. CASE load' = load
    BY <1>1, <2>1 DEF PaneType
  <2>2. CASE load' # load
    <3>1. PICK l \in Loads, kind \in {"handoff", "link"} : load' = [load EXCEPT ![l] = Ask(kind)]
      BY <2>2 DEF Ready
    <3>2. Ask(kind) \in LoadType /\ Ask(kind).kind # "saved"
      BY <1>1, Records DEF Kinds, Ask, NoLoad
    <3> QED
      BY <1>1, <3>1, <3>2 DEF PaneType
  <2> QED
    BY <2>1, <2>2
<1>3. FreshSeen'
  BY <1>1, <1>2 DEF FreshSeen, Started
<1>4. CASE parked = Empty
  <2>1. PaneType'
    BY <1>1, <1>2, <1>4 DEF Ready, PaneType, pane, history, Strings
  <2>2. Bytes'
    BY <1>1, <1>4 DEF Ready, IInv, Bytes, RawBytes, pane, history, verdict
  <2> QED
    BY <1>1, <1>3, <1>4, <2>1, <2>2, KeepInv DEF Ready, pane, history
<1>5. CASE parked # Empty
  <2>1. WriteValue(parked) /\ parked \in Texts
    BY <1>1, <1>5 DEF Ready, PaneType, Strings
  <2>2. PaneType'
    BY <1>1, <1>2, <2>1 DEF Ready, WriteValue, PaneType, Strings
  <2> QED
    BY <1>3, <2>1, <2>2, WriteInv DEF Ready
<1> QED
  BY <1>4, <1>5

LEMMA OnSessionChangeInv ==
  ASSUME IInv, OnSessionChange
  PROVE  IInv'
<1>1. load' \in [Loads -> LoadType] /\ FreshSeen'
  BY OutdatedFresh DEF IInv, OnSessionChange
<1>2. PaneType'
  BY <1>1, TypeSplit DEF IInv, OnSessionChange, PaneType, pane, shell, history
<1>3. Bytes'
  BY DEF OnSessionChange, IInv, Bytes, RawBytes, pane, history, verdict
<1> QED
  BY <1>1, <1>2, <1>3, KeepInv DEF OnSessionChange, pane, history

\* A load that lands or misses.
LEMMA MissInv ==
  ASSUME IInv, NEW l \in Loads, Miss(l)
  PROVE  IInv'
<1>1. load' \in [Loads -> LoadType] /\ FreshSeen'
  BY TypeSplit, AnsweredFresh DEF IInv, Miss, PaneType, verdict
<1>2. PaneType'
  BY <1>1, TypeSplit DEF IInv, Miss, PaneType, pane, shell, history
<1>3. Bytes'
  BY DEF Miss, IInv, Bytes, RawBytes, pane, history, verdict
<1> QED
  BY <1>1, <1>2, <1>3, KeepInv DEF Miss, pane, history

LEMMA LandInv ==
  ASSUME IInv, NEW l \in Loads, NEW d \in Docs, Land(l, d)
  PROVE  IInv'
<1> DEFINE raw == [doc |-> d, pretty |-> FALSE]
           pretty == [doc |-> d, pretty |-> TRUE]
<1>1. /\ raw \in [doc : Docs, pretty : BOOLEAN] /\ pretty \in [doc : Docs, pretty : BOOLEAN]
  OBVIOUS
<1>2. raw \in Strings /\ pretty \in Strings /\ raw # Empty /\ pretty # Empty
  BY <1>1 DEF Strings, Texts
<1>3. PaneType /\ TypeOK /\ FreshSeen
  BY TypeSplit DEF IInv
<1>4. load[l].kind \in Kinds /\ UNCHANGED <<context, shell>>
  BY <1>3 DEF PaneType, LoadType, Land
<1>5. ASSUME NEW x \in Strings, SetEditorValue(x) \/ Input(x), InvalidateIfChanged(x),
             load' = Answered(LoadsAfter(x), l)
      PROVE  IInv'
  <2>1. load' \in [Loads -> LoadType] /\ FreshSeen'
    BY <1>3, <1>5, LoadsAfterFresh, AnsweredFresh
  <2>2. PaneType'
    BY <1>3, <1>4, <1>5, <2>1, PutTypes DEF PaneType, shell
  <2> QED
    BY <1>3, <1>4, <1>5, <2>1, <2>2, PutInv, PutTypes
<1>6. ASSUME NEW x \in {raw, pretty}, Input(x), StartRun(x, x, FALSE),
             load' = Answered(Outdated(load), l)
      PROVE  IInv'
  <2>1. x \in Strings /\ x # Empty
    BY <1>2, <1>6
  <2> HIDE DEF raw, pretty
  <2>2. load' \in [Loads -> LoadType] /\ FreshSeen'
    BY <1>3, <1>6, OutdatedFacts, AnsweredFresh DEF PaneType
  <2>3. PaneType' /\ text' = x /\ entered' = x
    BY <1>3, <1>4, <1>6, <2>1, <2>2, PutTypes DEF PaneType, shell
  <2>4. BytesNow'
    BY <1>6, <2>3 DEF Input, Enter, BytesNow, RawBytes
  <2> QED
    BY <1>6, <2>1, <2>2, <2>3, <2>4, StartInv
<1>7. CASE load[l].kind = "saved"
  <2>1. PICK x \in {raw, pretty} : /\ SetEditorValue(x) /\ InvalidateIfChanged(x)
                                   /\ load' = Answered(LoadsAfter(x), l)
    BY <1>7 DEF Land
  <2> QED
    BY <1>2, <1>5, <2>1
<1>8. CASE load[l].kind = "demo"
  BY <1>2, <1>5, <1>8 DEF Land
<1>9. CASE load[l].kind = "handoff"
  BY <1>2, <1>5, <1>9 DEF Land
<1>10. CASE load[l].kind = "link"
  <2>1. PICK x \in {raw, pretty} : /\ Input(x) /\ StartRun(x, x, FALSE)
                                   /\ load' = Answered(Outdated(load), l)
    BY <1>10 DEF Land
  <2> QED
    BY <1>6, <2>1
<1> QED
  BY <1>4, <1>7, <1>8, <1>9, <1>10 DEF Kinds

-----------------------------------------------------------------------------
\* A step of a run.
LEMMA RunInv ==
  ASSUME IInv, NEW r \in Runs, RunStep(r)
  PROVE  IInv'
<1>1. /\ PaneType /\ TypeOK /\ FreshSeen /\ run \in [Runs -> RunType]
      /\ \A q \in Runs : run[q].at = "probe" => run[q].text # Empty /\ run[q].sent # Empty
  BY TypeSplit DEF IInv
<1>2. /\ UNCHANGED <<context, load, shell, history>>
      /\ run[r].at \in {"probe", "fetch", "intel"}
  BY DEF RunStep, ProbeDone, FetchDone, IntelDone
<1>2a. r # 0
  BY DEF Runs
<1>2b. r # panel
  BY <1>2, <1>2a DEF IInv, OnScreen
<1>3. ASSUME NEW new \in RunType, run' = [run EXCEPT ![r] = new], new.at # "unused"
      PROVE  /\ run' \in [Runs -> RunType] /\ run'[r] = new
             /\ \A q \in Runs : q # r => run'[q] = run[q]
             /\ FreshSeen'
  <2>1. run' \in [Runs -> RunType] /\ run'[r] = new /\ \A q \in Runs : q # r => run'[q] = run[q]
    BY <1>1, <1>3
  <2>2. Started' = Started
    BY <1>2, <1>3, <2>1 DEF Started
  <2> QED
    BY <1>1, <1>2, <2>1, <2>2 DEF FreshSeen
<1>4. \A at \in {"intel", "over"} :
        /\ [run[r] EXCEPT !.at = at] \in RunType /\ [run[r] EXCEPT !.at = at].at = at
        /\ [run[r] EXCEPT !.at = at].text = run[r].text
        /\ [run[r] EXCEPT !.at = at].context = run[r].context
  BY <1>1 DEF RunType, Stages
<1>5. CASE Drop(r) /\ ~IsCurrent(r)
  <2>1. [NoRun EXCEPT !.at = "over"] \in RunType /\ [NoRun EXCEPT !.at = "over"].at = "over"
    BY Records DEF RunType, Stages, NoRun
  <2>2. /\ run' \in [Runs -> RunType] /\ run'[r].at = "over" /\ FreshSeen'
        /\ \A q \in Runs : q # r => run'[q] = run[q]
    BY <1>3, <1>5, <2>1 DEF Drop
  <2>3. UNCHANGED <<current, state, panel, analyzed, crossed, pane>> /\ r # current
    BY <1>5 DEF Drop, IsCurrent
  <2>4. PaneType'
    BY <1>1, <1>2, <2>3 DEF PaneType, pane, shell, history
  <2>5. TypeOK'
    BY <1>1, <2>2, <2>3, <2>4, TypeSplit, TypeJoin
  <2>6. \A q \in {panel, current} \ {0} : q \in Runs /\ run'[q] = run[q]
    BY <1>2b, <2>2, <2>3, <1>1, TypeSplit
  <2>7. Pending' /\ Underway' /\ OnScreen' /\ Snapshot' /\ VerdictIsForPane'
    BY <1>2, <2>3, <2>6
       DEF IInv, Pending, Underway, OnScreen, Snapshot, VerdictIsForPane, IsFor, pane, history
  <2>8. Bytes'
    BY <1>2, <2>3, <2>6 DEF IInv, Bytes, RawBytes, pane, history
  <2> QED
    BY <2>2, <2>5, <2>7, <2>8 DEF IInv
<1>6. ASSUME current = r
      PROVE  /\ panel = 0 /\ analyzed = Empty /\ text # Empty
             /\ run[r].text \in Strings /\ run[r].text # Empty
  <2>1. run[r] \in RunType
    BY <1>1
  <2> QED
    BY <2>1, <1>2a, <1>6 DEF IInv, OnScreen, Underway, RunType
<1>7. CASE current = r /\ (Fail(r) \/ Succeed(r))
  <2>1. /\ run' \in [Runs -> RunType] /\ FreshSeen' /\ run'[r].at = "over"
        /\ run'[r].text = run[r].text /\ run'[r].context = run[r].context
        /\ \A q \in Runs : q # r => run'[q] = run[q]
    <3> DEFINE new == [run[r] EXCEPT !.at = "over"]
    <3>1. /\ new \in RunType /\ new.at = "over"
          /\ new.text = run[r].text /\ new.context = run[r].context
      BY <1>4
    <3>2. run' = [run EXCEPT ![r] = new]
      BY <1>7 DEF Fail, Succeed
    <3> HIDE DEF new
    <3> QED
      BY <1>3, <3>1, <3>2
  <2>2. /\ current' = 0 /\ panel' = r /\ UNCHANGED <<crossed, pane>>
        /\ \/ state' = "error" /\ analyzed' = Empty
           \/ state' = "success" /\ analyzed' = text
    BY <1>6, <1>7 DEF Fail, Succeed, Finished
  <2>3. UNCHANGED <<text, rawBefore, prettyPrinted, context, respelled, entered, crossed>>
    BY <1>2, <2>2 DEF pane, history
  <2>4. PaneType' /\ analyzed' \in Strings
    BY <1>1, <1>2, <2>2 DEF PaneType, pane, shell, history, Strings
  <2>5. \A q \in Runs : run'[q].at = "probe" => run'[q].text # Empty /\ run'[q].sent # Empty
    BY <1>1, <2>1
  <2>6. TypeOK'
    <3>1. crossed' \in BOOLEAN
      BY <1>1, <2>3, TypeSplit
    <3> QED
      BY <1>1, <2>1, <2>2, <2>4, <2>5, <3>1, TypeJoin
  <2>7. Pending' /\ Underway' /\ Snapshot'
    BY <1>2a, <2>2, <2>3 DEF Pending, Underway, Snapshot
  <2>8. OnScreen'
    BY <1>6, <1>7, <1>2a, <2>1, <2>2 DEF OnScreen
  <2>9. VerdictIsForPane'
    BY <1>2a, <1>7, <2>1, <2>2, <2>3 DEF IInv, VerdictIsForPane, IsFor
  <2>10. Bytes'
    BY <2>2, <2>3 DEF IInv, Bytes, RawBytes
  <2> QED
    BY <2>1, <2>6, <2>7, <2>8, <2>9, <2>10 DEF IInv
<1>8. ASSUME current = r, NEW new \in RunType, run' = [run EXCEPT ![r] = new],
             new.at \in {"fetch", "intel"}, new.text = run[r].text,
             new.context \in {run[r].context, context},
             UNCHANGED <<current, state, panel, analyzed, crossed>>,
             {text', rawBefore', prettyPrinted'} \subseteq Strings,
             \/ UNCHANGED pane
             \/ text' = Formatted(run[r].text),
             BytesNow'
      PROVE  IInv'
  <2>1. /\ run' \in [Runs -> RunType] /\ run'[r] = new
        /\ \A q \in Runs : q # r => run'[q] = run[q]
        /\ FreshSeen'
    BY <1>3, <1>8
  <2>2. UNCHANGED <<context, respelled, entered, crossed>>
    BY <1>2, <1>8 DEF history
  <2>3. PaneType'
    BY <1>1, <1>2, <1>8 DEF PaneType, shell, history
  <2>4. \A q \in Runs : run'[q].at = "probe" => run'[q].text # Empty /\ run'[q].sent # Empty
    BY <1>1, <1>8, <2>1
  <2>5. TypeOK'
    BY <1>1, <1>8, <2>1, <2>3, <2>4, TypeSplit, TypeJoin
  <2>6. Formatted(run[r].text) # Empty
    BY <1>6, <1>8, FormattedType
  <2>7. Pending' /\ Underway' /\ OnScreen' /\ Snapshot'
    BY <1>2a, <1>6, <1>8, <2>1, <2>6
       DEF IInv, Pending, Underway, OnScreen, Snapshot, pane
  <2>8. \/ text' = text
        \/ text' = Formatted(run[r].text)
    BY <1>8 DEF pane
  <2>9. VerdictIsForPane'
    BY <1>2a, <1>6, <1>8, <2>1, <2>2, <2>8 DEF IInv, VerdictIsForPane, IsFor
  <2>10. Bytes'
    BY <1>8, <2>1 DEF Bytes, BytesNow
  <2> QED
    BY <2>1, <2>5, <2>7, <2>9, <2>10 DEF IInv
<1>9. BytesNow /\ {text, rawBefore, prettyPrinted} \subseteq Strings
  BY <1>1 DEF IInv, Bytes, BytesNow, PaneType
<1>10. CASE current = r /\ ProbeDone(r) /\ ~Fail(r)
  <2> DEFINE new == [NoRun EXCEPT !.at = "fetch", !.text = run[r].text, !.context = context]
  <2>1. /\ new \in RunType /\ new.at = "fetch" /\ new.text = run[r].text /\ new.context = context
    BY <1>1, <1>6, <1>10, Records DEF RunType, Stages, NoRun, PaneType
  <2>2. /\ run' = [run EXCEPT ![r] = new] /\ run[r].at = "probe"
        /\ UNCHANGED <<current, state, panel, analyzed, crossed>>
    BY <1>10 DEF ProbeDone, IsCurrent
  <2> HIDE DEF new
  <2>3. CASE run[r].hist
    <3>1. UNCHANGED <<text, rawBefore, prettyPrinted, entered, respelled>> /\ UNCHANGED pane
      BY <1>2, <1>10, <2>3 DEF ProbeDone, IsCurrent, pane, history
    <3>2. BytesNow'
      BY <1>9, <3>1 DEF BytesNow, RawBytes
    <3> QED
      BY <1>8, <1>9, <1>10, <2>1, <2>2, <3>1, <3>2
  <2>4. CASE ~run[r].hist
    <3>1. /\ rawBefore' = run[r].sent /\ text' = Formatted(run[r].text)
          /\ prettyPrinted' = text' /\ UNCHANGED <<entered, respelled>>
      BY <1>2, <1>10, <2>4 DEF ProbeDone, IsCurrent, history
    <3>2. run[r].sent # Empty /\ run[r] \in RunType
      BY <1>1, <2>2
    <3>3. text' \in Strings /\ text' # Empty /\ rawBefore' \in Strings
      BY <1>6, <1>10, <3>1, <3>2, FormattedType DEF RunType
    <3>4. ~respelled => run[r].sent = entered
      BY <1>2a, <1>10, <2>2, <2>4 DEF IInv, Bytes
    <3>5. BytesNow'
      BY <3>1, <3>2, <3>3, <3>4 DEF BytesNow, RawBytes
    <3> QED
      BY <1>8, <1>10, <2>1, <2>2, <3>1, <3>3, <3>5
  <2> QED
    BY <2>3, <2>4
<1>11. CASE current = r /\ FetchDone(r) /\ ~Fail(r) /\ ~Succeed(r)
  <2> DEFINE new == [run[r] EXCEPT !.at = "intel"]
  <2>1. /\ new \in RunType /\ new.at = "intel" /\ new.text = run[r].text
        /\ new.context = run[r].context
    BY <1>4
  <2>2. /\ run' = [run EXCEPT ![r] = new]
        /\ UNCHANGED <<current, state, panel, analyzed, crossed, pane>>
    BY <1>11 DEF FetchDone, IsCurrent
  <2>3. UNCHANGED <<text, rawBefore, prettyPrinted, entered, respelled>>
    BY <1>2, <2>2 DEF pane, history
  <2>4. BytesNow'
    BY <1>9, <2>3 DEF BytesNow, RawBytes
  <2> HIDE DEF new
  <2> QED
    BY <1>8, <1>9, <1>11, <2>1, <2>2, <2>3, <2>4
<1>12. CASE current # r
  BY <1>5, <1>12 DEF RunStep, ProbeDone, FetchDone, IntelDone, IsCurrent
<1>13. CASE current = r
  BY <1>7, <1>10, <1>11, <1>13 DEF RunStep, FetchDone, IntelDone, IsCurrent
<1> QED
  BY <1>12, <1>13

LEMMA NextInv ==
  IInv /\ [Next]_vars => IInv'
<1> SUFFICES ASSUME IInv, [Next]_vars PROVE IInv'
  OBVIOUS
<1>1. CASE UNCHANGED vars
  <2>1. PaneType' /\ FreshSeen'
    BY <1>1, TypeSplit
       DEF vars, IInv, PaneType, pane, shell, history, verdict, FreshSeen, Started
  <2>2. Bytes'
    BY <1>1 DEF vars, IInv, Bytes, RawBytes, pane, history, verdict
  <2> QED
    BY <1>1, <2>1, <2>2, KeepInv DEF vars, pane, history
<1>2. CASE Next
  BY <1>2, OperatorInv, OnSessionChangeInv, RemountInv, ReadyInv, RunInv, MissInv, LandInv DEF Next
<1> QED
  BY <1>1, <1>2

\* The inductive invariant holds of every behaviour of the editor.
THEOREM PaneInvariant == Spec => []IInv
<1> QED
  BY InitInv, NextInv, PTL DEF Spec

\* Every state of the editor is well formed.
THEOREM TypeCorrect == Spec => []TypeOK
<1>1. IInv => TypeOK
  BY DEF IInv
<1> QED
  BY <1>1, PaneInvariant, PTL

\* What is on screen, or may still come on screen, is about the payload and
\* the settings on screen.
THEOREM VerdictTheorem == Spec => []VerdictIsForPane
<1>1. IInv => VerdictIsForPane
  BY DEF IInv
<1> QED
  BY <1>1, PaneInvariant, PTL

-----------------------------------------------------------------------------
\* Only these start an analysis, and each names the bytes it sends.
LEMMA StartStep ==
  ASSUME IInv, Next, NEW r \in Runs, run[r].at = "unused", run'[r].at # "unused", ~respelled'
  PROVE  run'[r].sent = entered'
<1>1. TypeOK /\ text \in Strings /\ RawBytes(text) \in Strings
  BY TypeSplit DEF IInv, PaneType, RawBytes
<1>2. (text # Empty => RawBytes(text) # Empty) /\ (~respelled => RawBytes(text) = entered)
  BY DEF RawBytes, IInv, Bytes
<1>3. ASSUME NEW x \in Strings, NEW sent \in Strings, NEW hist \in BOOLEAN,
             x # Empty => sent # Empty, StartRun(x, sent, hist)
      PROVE  run'[r].sent = sent
  BY <1>1, <1>3, StartFacts DEF Runs
<1>4. CASE Analyze
  BY <1>1, <1>2, <1>3, <1>4 DEF Analyze, history
<1>5. ASSUME NEW c \in Contexts, ChangeDialect(c) PROVE run'[r].sent = entered'
  BY <1>1, <1>2, <1>3, <1>5 DEF ChangeDialect, history, verdict
<1>6. ASSUME NEW d \in Docs, LoadFromHistory(d) PROVE run'[r].sent = entered'
  <2> DEFINE e == [doc |-> d, pretty |-> TRUE]
  <2>1. e \in [doc : Docs, pretty : BOOLEAN]
    OBVIOUS
  <2>2. e \in Strings /\ e # Empty
    BY <2>1 DEF Strings, Texts
  <2>3. StartRun(e, e, TRUE) /\ entered' = e
    BY <1>6 DEF LoadFromHistory, SetEditorValue, Enter
  <2> HIDE DEF e
  <2> QED
    BY <1>3, <2>2, <2>3
<1>7. ASSUME NEW l \in Loads, NEW d \in Docs, Land(l, d) PROVE run'[r].sent = entered'
  <2>1. ASSUME NEW x, InvalidateIfChanged(x) PROVE FALSE
    BY <2>1 DEF InvalidateIfChanged, ClearResults, verdict
  <2>2. load[l].kind \in Kinds
    BY <1>1, TypeSplit DEF PaneType, LoadType
  <2>3. PICK x \in {[doc |-> d, pretty |-> FALSE], [doc |-> d, pretty |-> TRUE]} :
          Input(x) /\ StartRun(x, x, FALSE)
    BY <1>7, <2>1, <2>2 DEF Land, Kinds
  <2>4. x \in [doc : Docs, pretty : BOOLEAN]
    <3>1. /\ [doc |-> d, pretty |-> FALSE] \in [doc : Docs, pretty : BOOLEAN]
          /\ [doc |-> d, pretty |-> TRUE] \in [doc : Docs, pretty : BOOLEAN]
      OBVIOUS
    <3> QED
      BY <3>1, Zenon
  <2>5. x \in Strings /\ x # Empty /\ entered' = x
    BY <2>3, <2>4 DEF Strings, Texts, Input, Enter
  <2> QED
    BY <1>3, <2>3, <2>5
<1>8. ASSUME ClearResults \/ UNCHANGED run PROVE FALSE
  BY <1>8 DEF ClearResults
<1>9. ASSUME NEW q \in Runs, RunStep(q) PROVE FALSE
  <2>1. run[q].at # "unused" /\ \A p \in Runs : p # q => run'[p] = run[p]
    BY <1>9, <1>1, TypeSplit
       DEF RunStep, ProbeDone, FetchDone, IntelDone, Drop, Fail, Succeed
  <2> QED
    BY <2>1
<1>10. CASE SwitchLanguage
  BY <1>8, <1>10 DEF SwitchLanguage, verdict
<1>11. CASE ClearInput
  BY <1>8, <1>11 DEF ClearInput
<1>12. ASSUME NEW x, InvalidateIfChanged(x) PROVE FALSE
  BY <1>8, <1>12 DEF InvalidateIfChanged, verdict
<1>13. ASSUME NEW x, Type(x) PROVE FALSE
  BY <1>12, <1>13 DEF Type
<1>14. ASSUME NEW d, Paste(d) PROVE FALSE
  BY <1>12, <1>14 DEF Paste
<1>14a. ASSUME NEW d, MirrorLoad(d) PROVE FALSE
  BY <1>8, <1>14a DEF MirrorLoad, WriteValue
<1>15. CASE Operator
  BY <1>4, <1>5, <1>6, <1>8, <1>10, <1>11, <1>13, <1>14, <1>14a, <1>15
     DEF Operator, ApplyContext, AskLoad, verdict
<1>16. CASE OnSessionChange \/ Remount \/ Ready \/ \E l \in Loads : Miss(l)
  BY <1>8, <1>16 DEF OnSessionChange, Remount, Ready, WriteValue, Miss, verdict
<1> QED
  BY <1>7, <1>9, <1>15, <1>16 DEF Next

\* The server gets the bytes last put into the editor.
THEOREM EvidenceTheorem == Spec => EvidenceTravels
<1>1. IInv /\ [Next]_vars =>
        [\A r \in Runs : run[r].at = "unused" /\ run'[r].at # "unused" /\ ~respelled'
           => run'[r].sent = entered']_vars
  BY StartStep
<1> QED
  BY <1>1, PaneInvariant, PTL DEF Spec, EvidenceTravels

\* A saved sample lands only where no analysis was started since.
LEMMA SavedStep ==
  ASSUME IInv, Next, NEW l \in Loads,
         load[l].kind = "saved", load[l].at = "asked", load'[l].at = "over",
         entered' # entered, mounts' = mounts
  PROVE  Started \subseteq load[l].seen
<1>1. load \in [Loads -> LoadType] /\ FreshSeen /\ mounts \in 1 .. MaxMounts
  BY TypeSplit DEF IInv, PaneType
<1>2. \A x : LoadsAfter(x) \in [Loads -> LoadType] /\ LoadsAfter(x)[l].at = "asked"
  BY <1>1, OutdatedFacts DEF LoadsAfter
<1>3. Outdated(load) \in [Loads -> LoadType] /\ Outdated(load)[l].at = "asked"
  BY <1>1, OutdatedFacts
<1>4. ASSUME NEW k \in Loads, NEW d \in Docs, Land(k, d) PROVE Started \subseteq load[l].seen
  <2>1. CASE k = l
    BY <1>1, <1>4, <2>1 DEF Land, MayLand, FreshSeen
  <2>2. CASE k # l
    <3>1. load[k].kind \in Kinds
      BY <1>1 DEF LoadType
    <3>2. \/ load' = Answered(Outdated(load), k)
          \/ \E x : load' = Answered(LoadsAfter(x), k)
      <4>1. CASE load[k].kind = "saved"
        BY <1>4, <4>1 DEF Land
      <4>2. CASE load[k].kind = "demo"
        BY <1>4, <4>2 DEF Land
      <4>3. CASE load[k].kind = "handoff"
        BY <1>4, <4>3 DEF Land
      <4>4. CASE load[k].kind = "link"
        BY <1>4, <4>4 DEF Land
      <4> QED
        BY <3>1, <4>1, <4>2, <4>3, <4>4 DEF Kinds
    <3> QED
      <4>1. PICK ls \in [Loads -> LoadType] : load' = Answered(ls, k) /\ ls[l].at = "asked"
        BY <1>2, <1>3, <3>2
      <4>2. load'[l] = ls[l]
        BY <2>2, <4>1, AnsweredFacts
      <4> QED
        BY <4>1, <4>2
  <2> QED
    BY <2>1, <2>2
<1>5. CASE Remount
  <2>1. mounts' = mounts + 1
    BY <1>5 DEF Remount
  <2> QED
    BY <1>1, <2>1
<1>6. ASSUME load'[l] = load[l] PROVE FALSE
  BY <1>6
<1>7. ASSUME UNCHANGED entered PROVE FALSE
  BY <1>7
<1>8. CASE Operator
  <2>1. \A x : Type(x) => load' = LoadsAfter(x)
    BY DEF Type
  <2>2. \A d : Paste(d) => \E x : load' = LoadsAfter(x)
    BY DEF Paste
  <2>3. \A d : LoadFromHistory(d) => load' = Outdated(load)
    BY DEF LoadFromHistory
  <2>4. ClearInput => load' = Outdated(load)
    BY DEF ClearInput
  <2>5. Analyze \/ SwitchLanguage \/ (\E c : ChangeDialect(c) \/ ApplyContext(c))
          \/ (\E kind : AskLoad(kind)) => UNCHANGED entered
    BY DEF Analyze, SwitchLanguage, ChangeDialect, ApplyContext, AskLoad, history
  <2>6. \A d : MirrorLoad(d) => load' = load
    BY DEF MirrorLoad
  <2> QED
    BY <1>2, <1>3, <1>8, <2>1, <2>2, <2>3, <2>4, <2>5, <2>6 DEF Operator
<1>9. CASE OnSessionChange \/ (\E k \in Loads : Miss(k)) \/ (\E r \in Runs : RunStep(r))
  BY <1>9 DEF OnSessionChange, Miss, RunStep, ProbeDone, FetchDone, IntelDone, history
<1>10. CASE Ready
  <2>1. CASE load' = load
    BY <2>1
  <2>2. CASE load' # load
    <3>1. PICK k \in Loads, kind \in {"handoff", "link"} :
            load[k].at = "unused" /\ load' = [load EXCEPT ![k] = Ask(kind)]
      BY <1>10, <2>2 DEF Ready
    <3> QED
      BY <1>1, <3>1
  <2> QED
    BY <2>1, <2>2
<1> QED
  BY <1>4, <1>5, <1>8, <1>9, <1>10 DEF Next

\* A saved sample never lands on an analysis it has not seen.
THEOREM SavedTheorem == Spec => NoAnalysisLost
<1>1. IInv /\ [Next]_vars =>
        [\A l \in Loads :
           /\ load[l].kind = "saved" /\ load[l].at = "asked" /\ load'[l].at = "over"
           /\ entered' # entered /\ mounts' = mounts
           => Started \subseteq load[l].seen]_vars
  BY SavedStep
<1> QED
  BY <1>1, PaneInvariant, PTL DEF Spec, NoAnalysisLost
=============================================================================
