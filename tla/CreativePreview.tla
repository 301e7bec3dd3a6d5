--------------------------- MODULE CreativePreview ---------------------------
(***************************************************************************)
(* The creative preview of the Inspector: the sandboxed frame, the probe   *)
(* inside it, the messages between them and what the page concludes -- the *)
(* behaviour log and its findings, the ledger of refused resources, the    *)
(* watchdog for a frozen thread -- beside an analysis that replaces the    *)
(* creative, and a batch of remote images that re-points the same frame.   *)
(*                                                                         *)
(* A document is one srcdoc; its number stands for the channel that        *)
(* buildProbedSrcdoc draws for it and for the creative revision that       *)
(* setBehaviorCreativeAdm counts, as both are made once per document.      *)
(* What the hooks of the probe observe is an event with a number; a        *)
(* refusal is a pair (directive, uri).  Time is counted in heartbeats; a   *)
(* frozen thread is a probe that sends nothing.                            *)
(* A render generation is modelled by what it decides: whether a newer     *)
(* render came after the request.  Left out: sizes, labels, notes, the     *)
(* corpus bar, the cover over a creative, and the Native card, which goes  *)
(* the way of a banner.                                                    *)
(***************************************************************************)
EXTENDS Naturals, Sequences, FiniteSets

CONSTANTS
  Banners,      \* creatives shown in a frame
  Texts,        \* creatives shown as inert text
  Assets,       \* the remote images every banner names
  Items,        \* resources a policy may refuse
  LongItems,    \* those of them too long to be listed
  LedgerCap,    \* REFUSAL_CAP
  LogCap,       \* BEHAVIOR_EVENTS_MAX
  FreezeAfter,  \* FROZEN_THRESHOLD_MS, in heartbeats
  MaxRenders,   \* bound on previews shown
  MaxEvents,    \* bound on the events of one document
  MaxRefusals,  \* bound on the resources refused to one document
  MaxMail,      \* bound on the messages on their way
  MaxAsked      \* bound on the requests for findings under way

VARIABLES
  probe,     \* _probeSource: did creative-probe.js load
  rev,       \* _previewRenderRevision
  wanted,    \* _currentPreviewAdm: the creative the operator's last step asked for
  shown,     \* what #creativePreview holds, and _currentProbedIframe / _currentProbeChannel
  page,      \* the document in the frame and its probe
  mail,      \* messages on their way from frames to the page
  behavior,  \* window.__ortbtoolsBehavior
  ledger,    \* _refusals
  watch,     \* _watchdogTimer, _lastHeartbeatAt, _frozenAlerted
  findings,  \* the analysis painted in the Behavior tab
  waiting,   \* the request behind _pendingTimer
  asked,     \* requests to /api/analyze-behavior under way
  offer,     \* the button that loads remote images, with its manifest
  batches    \* clicks on it that have not ended

vars == <<probe, rev, wanted, shown, page, mail, behavior, ledger, watch,
          findings, waiting, asked, offer, batches>>

NoCreative == "nothing shown"
NoBody == [creative |-> NoCreative, loaded |-> {}]
Blank == [frame |-> 0, doc |-> 0, creative |-> NoCreative, loaded |-> {}]
NewLedger == [seen |-> {}, truncated |-> FALSE]
WatchOff == [on |-> FALSE, heard |-> FALSE, lag |-> 0, alerted |-> FALSE]
NoBehavior == [events |-> <<>>, adm |-> NoBody, revision |-> 0]
NewPage == [started |-> FALSE, sent |-> 0,
            refused |-> {}, seen |-> {}, queue |-> {}, truncated |-> FALSE, scheduled |-> FALSE]

Body(s) == [creative |-> s.creative, loaded |-> s.loaded]
Framed == shown.frame # 0

-----------------------------------------------------------------------------
(* The Behavior tab: every render makes the earlier requests stale, and    *)
(* starts the timer again when there is something to analyse.              *)

Outdated(set) == {[r EXCEPT !.latest = FALSE] : r \in set}

RenderBehaviorTab(b) ==
  /\ behavior' = b
  /\ findings' = {}
  /\ asked' = Outdated(asked)
  /\ waiting' = IF b.events = <<>> /\ b.adm = NoBody THEN {}
                ELSE {[events |-> b.events, adm |-> b.adm, revision |-> b.revision, latest |-> TRUE]}

\* The timer of 150 ms ends.
SendAnalysis ==
  /\ waiting # {} /\ Cardinality(asked) < MaxAsked
  /\ asked' = asked \cup waiting
  /\ waiting' = {}
  /\ UNCHANGED <<probe, rev, wanted, shown, page, mail, behavior, ledger, watch,
                 findings, offer, batches>>

MayPaint(r) == r.latest /\ r.revision = behavior.revision

ReceiveAnalysis ==
  \E r \in asked, success \in BOOLEAN :
    /\ asked' = asked \ {r}
    /\ findings' = IF success /\ MayPaint(r) THEN {[events |-> r.events, adm |-> r.adm]}
                   ELSE findings
    /\ UNCHANGED <<probe, rev, wanted, shown, page, mail, behavior, ledger, watch,
                   waiting, offer, batches>>

-----------------------------------------------------------------------------
(* Showing a creative.                                                     *)

Aborted(set) == {[b EXCEPT !.aborted = TRUE] : b \in set}

\* resetBehavior and setBehaviorCreativeAdm, with the two renders they make.
StartBehavior(s) ==
  RenderBehaviorTab(IF s.frame = 0 THEN NoBehavior
                    ELSE [events |-> <<>>, adm |-> Body(s), revision |-> s.doc])

\* setAdPreview: a new analysis, another bid, an edited macro, or nothing to show.
SetAdPreview(c) ==
  /\ rev < MaxRenders
  /\ rev' = rev + 1
  /\ wanted' = c
  /\ shown' = IF c \in Banners
              THEN [frame |-> rev', doc |-> rev', creative |-> c, loaded |-> {}]
              ELSE [Blank EXCEPT !.creative = c]
  /\ offer' = IF c \in Banners /\ Assets # {} THEN {[loaded |-> {}, busy |-> FALSE]} ELSE {}
  /\ batches' = Aborted(batches)
  /\ ledger' = NewLedger
  /\ watch' = WatchOff
  /\ page' = NewPage
  /\ StartBehavior(shown')
  /\ UNCHANGED <<probe, mail>>

Show == \E c \in Banners \cup Texts \cup {NoCreative} : SetAdPreview(c)

-----------------------------------------------------------------------------
(* Inside the frame.                                                       *)

Message(type) == [type |-> type, frame |-> shown.frame, doc |-> shown.doc,
                  n |-> 0, items |-> {}, truncated |-> FALSE]
Post(m) == mail' = Append(mail, m)
Runs == Framed /\ page.started /\ Len(mail) < MaxMail

InsideOnly == UNCHANGED <<probe, rev, wanted, shown, behavior, ledger, watch, findings,
                          waiting, asked, offer, batches>>

\* The last lines of the probe: its script element is gone, the channel is ready.
ProbeReady ==
  /\ probe /\ Framed /\ ~page.started /\ Len(mail) < MaxMail
  /\ page' = [page EXCEPT !.started = TRUE, !.sent = 1]
  /\ Post([Message("event") EXCEPT !.n = 1])
  /\ InsideOnly

\* A hook observes a navigation, a click, a permission request, a heavy load.
Observe ==
  /\ Runs /\ page.sent < MaxEvents
  /\ page' = [page EXCEPT !.sent = @ + 1]
  /\ Post([Message("event") EXCEPT !.n = page.sent + 1])
  /\ InsideOnly

Heartbeat ==
  /\ Runs
  /\ \A i \in DOMAIN mail : mail[i].type # "beat"
  /\ Post(Message("beat"))
  /\ page' = page
  /\ InsideOnly

Fits(item, seen) == item \notin LongItems /\ Cardinality(seen) < LedgerCap

\* securitypolicyviolation: listed once, or one sign that the list is not whole.
Refuse ==
  \E item \in Items :
    /\ Runs /\ (item \in page.refused \/ Cardinality(page.refused) < MaxRefusals)
    /\ LET known == item \in page.seen
           kept == Fits(item, page.seen)
           told == ~known /\ (kept \/ ~page.truncated)
       IN page' = [page EXCEPT
            !.refused = @ \cup {item},
            !.seen = IF ~known /\ kept THEN @ \cup {item} ELSE @,
            !.queue = IF ~known /\ kept THEN @ \cup {item} ELSE @,
            !.truncated = @ \/ (~known /\ ~kept),
            !.scheduled = @ \/ told]
    /\ mail' = mail
    /\ InsideOnly

\* What was scheduled has something to say: a batch, or that the list is not whole.
FlushRefusals ==
  /\ Runs /\ page.scheduled
  /\ page' = [page EXCEPT !.scheduled = FALSE, !.queue = {}]
  /\ Post([Message("refusal") EXCEPT !.items = page.queue, !.truncated = page.truncated])
  /\ InsideOnly

-----------------------------------------------------------------------------
(* The receiver.                                                           *)

\* A message counts when it comes from the frame and from the document in it.
AcceptedFromFrame(m) == Framed /\ probe /\ m.frame = shown.frame
Accepted(m) == Framed /\ probe /\ m.frame = shown.frame /\ m.doc = shown.doc

\* pushBehaviorEvent: the oldest go when the list is full.
Pushed(e) ==
  LET all == Append(behavior.events, e)
      over == IF Len(all) > LogCap THEN Len(all) - LogCap ELSE 0
  IN SubSeq(all, over + 1, Len(all))

\* recordRefusals: the same rules again, on the page's own list.
Recorded(m) ==
  LET short == {i \in m.items : i \notin LongItems}
      fresh == short \ ledger.seen
      room == LedgerCap - Cardinality(ledger.seen)
      kept == {k \in SUBSET fresh :
                 Cardinality(k) = IF Cardinality(fresh) < room THEN Cardinality(fresh) ELSE room}
  IN {[seen |-> ledger.seen \cup k,
       truncated |-> ledger.truncated \/ m.truncated \/ short # m.items \/ k # fresh] : k \in kept}

\* What a message does beside the sign of life it is.
Take(m) ==
  CASE m.type = "event" ->
         /\ RenderBehaviorTab([behavior EXCEPT !.events = Pushed([doc |-> m.doc, n |-> m.n])])
         /\ ledger' = ledger
    [] m.type = "refusal" ->
         /\ ledger' \in Recorded(m)
         /\ UNCHANGED <<behavior, findings, waiting, asked>>
    [] m.type = "beat" -> UNCHANGED <<ledger, behavior, findings, waiting, asked>>

Receive ==
  /\ mail # <<>>
  /\ mail' = Tail(mail)
  /\ IF Accepted(Head(mail))
     THEN /\ watch' = [on |-> TRUE, heard |-> TRUE, lag |-> 0, alerted |-> FALSE]
          /\ Take(Head(mail))
     ELSE UNCHANGED <<watch, ledger, behavior, findings, waiting, asked>>
  /\ UNCHANGED <<probe, rev, wanted, shown, page, offer, batches>>

\* One tick of the watchdog.  The alert carries number 0.
WatchTick ==
  /\ watch.on /\ watch.heard /\ watch.lag <= FreezeAfter
  /\ LET lag == watch.lag + 1
         alert == Framed /\ ~watch.alerted /\ lag > FreezeAfter
     IN /\ watch' = [watch EXCEPT !.lag = lag, !.alerted = @ \/ alert]
        /\ IF alert
           THEN RenderBehaviorTab([behavior EXCEPT !.events = Pushed([doc |-> shown.doc, n |-> 0])])
           ELSE UNCHANGED <<behavior, findings, waiting, asked>>
  /\ UNCHANGED <<probe, rev, wanted, shown, page, mail, ledger, offer, batches>>

-----------------------------------------------------------------------------
(* Loading remote images, one after another, on the operator's click.      *)

LoadAssets ==
  \E o \in offer :
    /\ ~o.busy /\ o.loaded # Assets
    /\ offer' = {[o EXCEPT !.busy = TRUE]}
    /\ batches' = Aborted(batches) \cup
         {[rev |-> rev, frame |-> shown.frame, creative |-> shown.creative,
           todo |-> Assets \ o.loaded, loaded |-> o.loaded, inlined |-> 0, aborted |-> FALSE]}
    /\ UNCHANGED <<probe, rev, wanted, shown, page, mail, behavior, ledger, watch,
                   findings, waiting, asked>>

CancelAssets ==
  /\ \E b \in batches : ~b.aborted
  /\ batches' = Aborted(batches)
  /\ UNCHANGED <<probe, rev, wanted, shown, page, mail, behavior, ledger, watch,
                 findings, waiting, asked, offer>>

FetchAsset ==
  \E b \in batches : \E a \in b.todo, ok \in BOOLEAN :
    /\ ~b.aborted
    /\ batches' = (batches \ {b}) \cup
         {[b EXCEPT !.todo = @ \ {a}, !.loaded = IF ok THEN @ \cup {a} ELSE @,
                    !.inlined = IF ok THEN @ + 1 ELSE @]}
    /\ UNCHANGED <<probe, rev, wanted, shown, page, mail, behavior, ledger, watch,
                   findings, waiting, asked, offer>>

Current(b) == rev = b.rev /\ shown.frame = b.frame

\* The same frame gets the rewritten document; the watchdog keeps its clock.
RePoint(b) ==
  /\ rev' = rev + 1
  /\ shown' = [frame |-> b.frame, doc |-> rev', creative |-> b.creative, loaded |-> b.loaded]
  /\ StartBehavior(shown')
  /\ ledger' = NewLedger
  /\ page' = NewPage

EndBatch ==
  \E b \in batches :
    /\ b.aborted \/ b.todo = {}
    /\ rev < MaxRenders \/ ~Current(b) \/ b.inlined = 0
    /\ batches' = batches \ {b}
    /\ IF Current(b)
       THEN /\ offer' = {[loaded |-> b.loaded, busy |-> FALSE]}
            /\ IF b.inlined > 0 THEN RePoint(b)
               ELSE UNCHANGED <<rev, shown, page, behavior, ledger, findings,
                                waiting, asked>>
       ELSE UNCHANGED <<rev, shown, page, behavior, ledger, findings, waiting,
                        asked, offer>>
    /\ UNCHANGED <<probe, wanted, mail, watch>>

-----------------------------------------------------------------------------

Init ==
  /\ probe \in BOOLEAN
  /\ rev = 0 /\ wanted = NoCreative /\ shown = Blank
  /\ page = NewPage /\ mail = <<>>
  /\ behavior = NoBehavior /\ ledger = NewLedger /\ watch = WatchOff
  /\ findings = {} /\ waiting = {} /\ asked = {}
  /\ offer = {} /\ batches = {}

Next ==
  \/ Show
  \/ ProbeReady \/ Observe \/ Heartbeat \/ Refuse \/ FlushRefusals
  \/ Receive \/ WatchTick
  \/ SendAnalysis \/ ReceiveAnalysis
  \/ LoadAssets \/ CancelAssets \/ FetchAsset \/ EndBatch

Spec == Init /\ [][Next]_vars
-----------------------------------------------------------------------------
(* Properties.                                                             *)

\* The events of the document on screen that are on their way, and those that arrived.
Coming == {i \in DOMAIN mail : mail[i].type = "event" /\ mail[i].doc = shown.doc}
Heard == {n \in 1..page.sent : \A i \in Coming : mail[i].n # n}

\* Where the log has an event of a document, and not an alert of the watchdog.
Logged == {i \in DOMAIN behavior.events : behavior.events[i].n # 0}

\* The log is the newest part of what the document on screen has reported, in its
\* order, whatever earlier documents still have on the way and however much is refused.
LogIsTheTail ==
  /\ \A i \in Logged : /\ behavior.events[i].doc = shown.doc
                       /\ behavior.events[i].n \in Heard
                       /\ \A j \in Logged : i < j => behavior.events[i].n < behavior.events[j].n
  /\ \A n \in Heard :
       (\E i \in Logged : behavior.events[i].n < n) \/ Len(behavior.events) < LogCap
         => \E i \in Logged : behavior.events[i].n = n

\* A document that was heard and then fell silent is called frozen, and nothing hides it.
FreezeIsSaid ==
  Heard # {} /\ watch.lag > FreezeAfter
    => /\ behavior.events # <<>>
       /\ behavior.events[Len(behavior.events)].n = 0

\* The evidence kept of a creative's behaviour is its own, whole up to the cap.
EvidenceIsItsOwn == LogIsTheTail /\ FreezeIsSaid

RefusalsPending == page.scheduled \/ \E i \in DOMAIN mail :
                     mail[i].type = "refusal" /\ mail[i].doc = shown.doc

\* The ledger counts what this document was refused, each once, or says it is not whole.
LedgerIsHonest ==
  /\ ledger.seen \subseteq page.refused
  /\ RefusalsPending \/ ledger.truncated \/ ledger.seen = page.refused

\* The bytes the static rules read are the ones in the frame.
ScanIsShown == behavior.adm = IF Framed THEN Body(shown) ELSE NoBody

\* Findings are painted for the log and the bytes as they are.
FindingsAreCurrent ==
  \A f \in findings : f = [events |-> behavior.events, adm |-> behavior.adm]

\* What is on screen is what was asked for last.
ShownIsWanted == shown.creative = wanted

\* The column describes one document: the one the operator asked for.
ColumnIsOneDocument ==
  LedgerIsHonest /\ ScanIsShown /\ FindingsAreCurrent /\ ShownIsWanted

\* "don't start counting until the probe has at least sent probe_ready": no run checks
\* it, it is false.  A re-pointed frame inherits the clock of the document before it.
AlertIsItsOwn == Heard = {} => \A i \in DOMAIN behavior.events : behavior.events[i].n # 0
=============================================================================
