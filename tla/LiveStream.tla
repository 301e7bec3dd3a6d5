----------------------------- MODULE LiveStream -----------------------------
(***************************************************************************)
(* The live feed: the synthetic generator and its ring, the specimen store *)
(* behind /r/<hash>, the SSE endpoint with its slots for one client        *)
(* address (samples/synthetic-generator.js, server.js,                     *)
(* modules/stream/handler.js, lib/replay.js), and the Streams section that *)
(* reads it (public/modules/stream/index.js): one socket with the          *)
(* browser's retry and its own, the question why it is down, the table of  *)
(* rows, Pause, the filter, and the grades asked for in batches.           *)
(*                                                                         *)
(* A frame is its number, which stands for its hash: an emission draws a   *)
(* new id.  A source is a fixture of the corpus; every frame of a source   *)
(* is graded alike.  Open is the head of an accepted answer, before the    *)
(* frames that are replayed.  Left out: cells, labels and rates, time      *)
(* (backoff, heartbeat, the hour's counter), viewers at other addresses,   *)
(* and the filters that look at what a payload is.                         *)
(***************************************************************************)
EXTENDS Naturals, Sequences, FiniteSets, SequencesExt

CONSTANTS
  Corpus,      \* how many fixtures the generator goes round
  Dirty,       \* those of them with blocking findings
  RingMax,     \* STREAM_BUFFER_MAX
  ReplayMax,   \* STREAM_REPLAY_MAX
  StoreMax,    \* MAX_SPECIMEN_STORE
  EvictCount,  \* a tenth of it
  SlotLimit,   \* MAX_STREAM_CONNS_PER_IP
  Ids,         \* connections the server can tell apart
  MaxRows,     \* MAX_ROWS
  SeenMax,     \* SEEN_MAX
  BatchMax,    \* GRADE_BATCH_MAX
  CallBudget,  \* GRADE_CALL_BUDGET
  MaxFrames,   \* bound on the frames emitted
  MaxProbes    \* bound on the probes under way

VARIABLES
  server,   \* the process: generator, ring, connections; and the table of specimens
  line,     \* the page's socket, its state, the retry and the probes
  table,    \* the rows, what Pause holds back, the filter
  grading   \* the FINDINGS column's cache, queue and request

vars == <<server, line, table, grading>>

Open == 0
NoConn == 0

LastN(n, s) == IF Len(s) <= n THEN s ELSE SubSeq(s, Len(s) - n + 1, Len(s))
FirstN(n, s) == IF Len(s) <= n THEN s ELSE SubSeq(s, 1, n)

-----------------------------------------------------------------------------
(* The server.                                                             *)

\* conns: "gone" is a client that hung up unnoticed, "cleaned" one whose error was
\* handled and whose close is still to come.
Boot == [cursor |-> 0, made |-> <<>>, ring |-> <<>>, store |-> <<>>,
         conns |-> [c \in Ids |-> "free"], slots |-> 0, running |-> FALSE]

Free == {c \in Ids : server.conns[c] = "free"}
NextId == CHOOSE c \in Free : \A d \in Free : c <= d
Room == server.slots < SlotLimit /\ Free # {}
Refusing == server.slots >= SlotLimit

\* handleStream, admitted: the first viewer starts the generator.
Admit(sv, c, kind) ==
  [sv EXCEPT !.conns[c] = kind, !.slots = @ + 1,
             !.running = IF sv.slots = 0 THEN TRUE ELSE @]

HangUp(sv, gone) ==
  [sv EXCEPT !.conns = [c \in Ids |-> IF c \in gone THEN "gone" ELSE @[c]]]

\* cleanup(): the slot goes back, the last viewer stops the generator.
CleanUp(sv) ==
  [sv EXCEPT !.slots = @ - 1, !.running = IF sv.slots = 1 THEN FALSE ELSE @]

\* An error on the request, with its close still to come.
NoticeError(c) ==
  /\ server.conns[c] = "gone"
  /\ server' = [CleanUp(server) EXCEPT !.conns[c] = "cleaned"]
  /\ UNCHANGED <<line, table, grading>>

ClosedAgain(sv, c) == [CleanUp(sv) EXCEPT !.conns[c] = "free"]

\* The close: what the error cleaned up is not cleaned up again.
Closed(sv, c) ==
  LET rest == IF sv.conns[c] = "gone" THEN CleanUp(sv) ELSE sv
  IN [rest EXCEPT !.conns[c] = "free"]

NoticeClose(c) ==
  /\ server.conns[c] \in {"gone", "cleaned"}
  /\ server' = Closed(server, c)
  /\ UNCHANGED <<line, table, grading>>

\* specimenStorePut: over the cap the oldest are deleted.
SpecimenStorePut(s, f) ==
  LET all == Append(s, f)
  IN IF Len(all) > StoreMax THEN SubSeq(all, EvictCount + 1, Len(all)) ELSE all

\* next(): the cursor moves, the frame is stored, pushed to the ring and written to
\* every connection.
Emit ==
  /\ server.running /\ Len(server.made) < MaxFrames
  /\ LET f == Len(server.made) + 1
     IN /\ server' = [server EXCEPT
             !.made = Append(@, server.cursor),
             !.cursor = (@ + 1) % Corpus,
             !.store = SpecimenStorePut(@, f),
             !.ring = LastN(RingMax, Append(@, f))]
        /\ line' = IF line.conn = NoConn THEN line ELSE [line EXCEPT !.wire = Append(@, f)]
  /\ UNCHANGED <<table, grading>>

\* The write to the store throws: the listeners after it are not called, and the frame
\* reaches nobody.
EmitFails ==
  /\ server.running
  /\ server' = [server EXCEPT !.cursor = (@ + 1) % Corpus]
  /\ UNCHANGED <<line, table, grading>>

\* Another tab at the same address.
OtherOpens ==
  /\ Room
  /\ server' = Admit(server, NextId, "other")
  /\ UNCHANGED <<line, table, grading>>

OtherCloses(c) ==
  /\ server.conns[c] = "other"
  /\ server' = HangUp(server, {c})
  /\ UNCHANGED <<line, table, grading>>

-----------------------------------------------------------------------------
(* The socket of the page.                                                 *)

Fresh == [sock |-> "connecting", conn |-> NoConn, wire |-> <<>>, state |-> "connecting",
          ownsRetry |-> FALSE, capped |-> FALSE, timer |-> FALSE, asked |-> 0, refused |-> 0]

\* closeStream, as the server will see it.
CloseStream(sv) == IF line.conn = NoConn THEN sv ELSE HangUp(sv, {line.conn})

Connect(l) ==
  [l EXCEPT !.sock = "connecting", !.conn = NoConn, !.wire = <<>>,
            !.state = "connecting", !.capped = FALSE]

Waiting == line.sock = "connecting" /\ line.conn = NoConn

\* The replay is a snapshot, and the listener for what comes after it is added in the
\* same turn.
Replay == LastN(ReplayMax, server.ring)

Accept ==
  /\ Waiting /\ Room
  /\ server' = Admit(server, NextId, "page")
  /\ line' = [line EXCEPT !.conn = NextId, !.wire = <<Open>> \o Replay]
  /\ UNCHANGED <<table, grading>>

Probing == line.asked + line.refused + Cardinality({c \in Ids : server.conns[c] = "probe"})

\* Any answer but 200 -- 429 from the endpoint, or a gateway's own -- ends the socket
\* for good: the retry is the page's, and the endpoint is asked why.
Refuse(status) ==
  /\ Waiting /\ Probing < MaxProbes
  /\ status = 429 => Refusing
  /\ line' = [line EXCEPT !.sock = "none", !.ownsRetry = TRUE, !.state = "offline",
                          !.timer = TRUE, !.asked = @ + 1]
  /\ UNCHANGED <<server, table, grading>>

\* The network fails: the browser keeps the socket and tries again by itself.
Dropped(l) ==
  [l EXCEPT !.sock = "connecting", !.conn = NoConn, !.wire = <<>>,
            !.ownsRetry = FALSE, !.state = "offline"]

Drop ==
  /\ line.sock # "none"
  /\ server' = CloseStream(server)
  /\ line' = Dropped(line)
  /\ UNCHANGED <<table, grading>>

\* The process goes down and comes back: the ring is empty, the specimens are kept.
Restart ==
  /\ server' = [Boot EXCEPT !.made = server.made, !.store = server.store]
  /\ line' = [IF line.sock = "none" THEN line ELSE Dropped(line) EXCEPT !.asked = 0]
  /\ UNCHANGED <<table, grading>>

TimerFires ==
  /\ line.timer
  /\ server' = CloseStream(server)
  /\ line' = [Connect(line) EXCEPT !.timer = FALSE]
  /\ UNCHANGED <<table, grading>>

\* The button is on screen only while nobody else brings the socket back.
ClickReconnect ==
  /\ ~table.paused /\ line.state = "offline" /\ line.ownsRetry
  /\ server' = CloseStream(server)
  /\ line' = [Connect(line) EXCEPT !.timer = FALSE]
  /\ UNCHANGED <<table, grading>>

OnOpen ==
  /\ line.wire # <<>> /\ Head(line.wire) = Open
  /\ line' = [line EXCEPT !.wire = Tail(@), !.sock = "open", !.state = "streaming",
                          !.capped = FALSE, !.ownsRetry = FALSE]
  /\ UNCHANGED <<server, table, grading>>

\* explainOutage: the probe takes a slot like any viewer ...
ProbeAdmitted ==
  /\ line.asked > 0 /\ Room
  /\ server' = Admit(server, NextId, "probe")
  /\ line' = [line EXCEPT !.asked = @ - 1]
  /\ UNCHANGED <<table, grading>>

\* ... until the page has the status and aborts it;
HearAdmitted(c) ==
  /\ server.conns[c] = "probe"
  /\ server' = HangUp(server, {c})
  /\ line' = [line EXCEPT !.capped = FALSE]
  /\ UNCHANGED <<table, grading>>

\* or it is refused itself, and the page says so whenever it hears it;
ProbeRefused ==
  /\ line.asked > 0 /\ Refusing
  /\ line' = [line EXCEPT !.asked = @ - 1, !.refused = @ + 1]
  /\ UNCHANGED <<server, table, grading>>

HearRefused ==
  /\ line.refused > 0
  /\ line' = [line EXCEPT !.refused = @ - 1, !.capped = TRUE]
  /\ UNCHANGED <<server, table, grading>>

\* or it fails, silently, or with a gateway's answer.
ProbeFails(answered) ==
  /\ line.asked > 0
  /\ line' = [line EXCEPT !.asked = @ - 1, !.capped = IF answered THEN FALSE ELSE @]
  /\ UNCHANGED <<server, table, grading>>

-----------------------------------------------------------------------------
(* The rows and their grades.                                              *)

EmptyTable == [paused |-> FALSE, held |-> <<>>, total |-> 0, seen |-> <<>>,
               rows |-> <<>>, filter |-> "all"]
Ungraded == [cache |-> {}, queue |-> <<>>, timer |-> FALSE, batch |-> {}, calls |-> 0,
             gaveUp |-> FALSE]

Grade(s) == IF s \in Dirty THEN "danger" ELSE "ok"

MatchesFilter(filter, row) == filter = "findings" => row.grade = "danger"

ApplyFilter(t) ==
  LET rows == t.rows
  IN [t EXCEPT !.rows = [i \in DOMAIN rows |->
        [rows[i] EXCEPT !.hidden = ~MatchesFilter(t.filter, rows[i])]]]

ScheduleGrade(g) ==
  IF g.timer \/ g.batch # {} \/ g.gaveUp THEN g ELSE [g EXCEPT !.timer = TRUE]

RequestGrade(g, s) ==
  IF s \in g.cache \/ g.gaveUp THEN g
  ELSE ScheduleGrade([g EXCEPT !.queue = IF s \in ToSet(@) THEN @ ELSE Append(@, s)])

\* addRow: on top, and the oldest falls off; page is a table with its grading.
AddRow(page, f) ==
  LET s == server.made[f]
      row == [frame |-> f, hidden |-> FALSE,
              grade |-> IF s \in page.g.cache THEN Grade(s) ELSE "none"]
  IN [t |-> [page.t EXCEPT !.rows = FirstN(MaxRows, <<row>> \o @)],
      g |-> RequestGrade(page.g, s)]

\* The page after each of them, oldest first.
Adding(page, fs) ==
  LET after[n \in 0 .. Len(fs)] ==
        IF n = 0 THEN page ELSE AddRow(after[n - 1], fs[n])
  IN after

AddRows(page, fs) == Adding(page, fs)[Len(fs)]

Painted(page) ==
  /\ table' = ApplyFilter(page.t)
  /\ grading' = page.g

ClaimAll(t, f) == TRUE

\* claimFrame: a frame is taken once, however often it is replayed.
ClaimFrame(t, f) == f \notin ToSet(t.seen)

OnMessage ==
  /\ line.wire # <<>> /\ Head(line.wire) # Open
  /\ line' = [line EXCEPT !.wire = Tail(@)]
  /\ LET f == Head(line.wire)
         t == [table EXCEPT !.seen = LastN(SeenMax, Append(@, f))]
     IN \/ /\ ~ClaimFrame(table, f)
           /\ UNCHANGED <<table, grading>>
        \/ /\ ClaimFrame(table, f) /\ table.paused
           /\ table' = [t EXCEPT !.total = @ + 1, !.held = LastN(MaxRows, Append(@, f))]
           /\ UNCHANGED grading
        \/ /\ ClaimFrame(table, f) /\ ~table.paused
           /\ Painted(AddRows([t |-> t, g |-> grading], <<f>>))
  /\ UNCHANGED server

Pause ==
  /\ ~table.paused
  /\ table' = [table EXCEPT !.paused = TRUE, !.total = 0]
  /\ UNCHANGED <<server, line, grading>>

\* What was held is added oldest first.
Resume ==
  /\ table.paused
  /\ Painted(AddRows([t |-> [table EXCEPT !.paused = FALSE, !.total = 0, !.held = <<>>],
                      g |-> grading], table.held))
  /\ UNCHANGED <<server, line>>

Filter(name) ==
  /\ table' = ApplyFilter([table EXCEPT !.filter = name])
  /\ UNCHANGED <<server, line, grading>>

FlushGrades ==
  /\ grading.timer
  /\ LET g == [grading EXCEPT !.timer = FALSE]
         batch == ToSet(FirstN(BatchMax, g.queue))
     IN grading' = IF g.batch # {} \/ g.gaveUp \/ batch = {} THEN g
                   ELSE IF g.calls >= CallBudget THEN [g EXCEPT !.gaveUp = TRUE]
                   ELSE [g EXCEPT !.calls = @ + 1, !.batch = batch]
  /\ UNCHANGED <<server, line, table>>

\* What is left of a queue when the sources in done are deleted, one after the other.
Leaving(queue, done) ==
  LET left[n \in 0 .. Len(queue)] ==
        IF n = 0 THEN <<>>
        ELSE IF queue[n] \in done THEN left[n - 1] ELSE Append(left[n - 1], queue[n])
  IN left

Answered(g) ==
  [g EXCEPT !.batch = {}, !.cache = @ \cup g.batch,
            !.queue = Leaving(@, g.batch)[Len(@)]]

\* What was queued while the request was under way gets a request of its own.
AfterGrades(g) == IF g.queue = <<>> THEN g ELSE ScheduleGrade(g)

GradesArrive ==
  /\ grading.batch # {}
  /\ LET rows == table.rows
         graded == Answered(grading)
         source(i) == server.made[rows[i].frame]
     IN Painted([t |-> [table EXCEPT !.rows = [i \in DOMAIN rows |->
                         IF source(i) \in graded.cache
                         THEN [rows[i] EXCEPT !.grade = Grade(source(i))] ELSE rows[i]]],
                 g |-> AfterGrades(graded)])
  /\ UNCHANGED <<server, line>>

\* A refusal or a failure is the end of grading.
GradesFail ==
  /\ grading.batch # {}
  /\ grading' = [grading EXCEPT !.batch = {}, !.gaveUp = TRUE]
  /\ UNCHANGED <<server, line, table>>

\* The section is left and opened again: socket, timers and requests are aborted.
Remount ==
  /\ server' = HangUp(CloseStream(server), {c \in Ids : server.conns[c] = "probe"})
  /\ line' = Fresh /\ table' = EmptyTable /\ grading' = Ungraded

-----------------------------------------------------------------------------

Init == server = Boot /\ line = Fresh /\ table = EmptyTable /\ grading = Ungraded

Next ==
  \/ Emit \/ EmitFails \/ Restart
  \/ OtherOpens
  \/ \E c \in Ids : OtherCloses(c) \/ NoticeError(c) \/ NoticeClose(c) \/ HearAdmitted(c)
  \/ Accept \/ OnOpen \/ OnMessage \/ Drop \/ TimerFires \/ ClickReconnect
  \/ \E status \in {429, 502} : Refuse(status)
  \/ ProbeAdmitted \/ ProbeRefused \/ HearRefused
  \/ \E answered \in BOOLEAN : ProbeFails(answered)
  \/ Pause \/ Resume
  \/ \E name \in {"all", "findings"} : Filter(name)
  \/ FlushGrades \/ GradesArrive \/ GradesFail
  \/ Remount

Spec == Init /\ [][Next]_vars

-----------------------------------------------------------------------------
(* Properties.                                                             *)

Frames(rows) == [i \in DOMAIN rows |-> rows[i].frame]
Viewers == {c \in Ids : server.conns[c] \in {"page", "probe", "other", "gone"}}

\* Reconnections, replays, pauses and evictions leave the feed whole: frames are taken
\* once and in the order of their emission; an admitted socket owes none of those a
\* replay would bring; and the table is the newest of what was taken, newest on top,
\* or, during a pause, the newest of what came since is kept for the resume.
FeedIsWhole ==
  /\ \A i, j \in DOMAIN table.seen : i < j => table.seen[i] < table.seen[j]
  /\ line.conn # NoConn =>
       ToSet(LastN(ReplayMax, server.ring)) \subseteq ToSet(line.wire) \cup ToSet(table.seen)
  /\ ~table.paused => Frames(table.rows) = Reverse(LastN(MaxRows, table.seen))
  /\ table.paused => table.held = LastN(MaxRows, LastN(table.total, table.seen))

\* A slot is held exactly as long as a viewer the server knows of, so the address is
\* never locked out by connections that ended, and the generator runs exactly while
\* there is one; what is in the ring can be opened by its link.
SlotsAreViewers ==
  /\ server.slots = Cardinality(Viewers) /\ server.slots <= SlotLimit
  /\ server.running <=> Viewers # {}
  /\ ToSet(server.ring) \subseteq ToSet(server.store)

\* The filter shows what it says of the grades the page has, also of those that come
\* after the row; a source that is graded is graded on every row; and no row says for
\* ever that it is being checked: a request with its source is under way or due, or
\* the page has given up and says so.
ViewIsGraded ==
  \A i \in DOMAIN table.rows :
    LET row == table.rows[i]
        s == server.made[row.frame]
    IN /\ row.hidden <=> ~MatchesFilter(table.filter, row)
       /\ row.grade = IF s \in grading.cache THEN Grade(s) ELSE "none"
       /\ \/ row.grade # "none"
          \/ grading.gaveUp
          \/ s \in ToSet(grading.queue) /\ (grading.timer \/ grading.batch # {})
=============================================================================
