--------------------------- MODULE SectionRegistry ---------------------------
(***************************************************************************)
(* Navigation in the single-page shell: the section lifecycle of           *)
(* public/core/registry.js as shell-boot.js and lang-switch.js drive it.   *)
(*                                                                         *)
(* Each activate() is an attempt: it loads the section's code, prepares    *)
(* its stylesheet and template, then tears the visible section down and    *)
(* mounts.  Every await can be outlived by a newer attempt.  One action is *)
(* the code between two awaits; what is separated by microtasks only (the  *)
(* teardown, an unmount hook, all of which are empty) is one action too.   *)
(*                                                                         *)
(* Abstractions: an attempt is its number; the cleanups it registered are  *)
(* one flag; a URL is the section it routes to, whatever its locale; what  *)
(* #app-root shows is the URL it is content of and the attempt that        *)
(* painted it.  Left out: titles, CSS caching, registering sections.       *)
(***************************************************************************)
EXTENDS Naturals

CONSTANTS
  Sections,    \* sections rendered in the browser
  Late,        \* those whose mount paints after an await, unguarded
  Landing,     \* pages that exist only as server-rendered HTML
  Unknown,     \* every URL no section is registered for
  Nowhere,     \* the content of an empty root
  MaxAttempts  \* bound: activations in one browser session

ASSUME SectionAssumption ==
  /\ Late \subseteq Sections
  /\ Landing \notin Sections /\ Unknown \notin Sections \cup {Landing}
  /\ Nowhere \notin Sections \cup {Landing, Unknown}
ASSUME BoundAssumption == MaxAttempts \in Nat \ {0}

VARIABLES
  run,         \* the attempts
  activation,  \* number of the newest
  active,      \* the committed one, 0 for null
  pending,     \* the one being prepared, 0 for null
  loaded,      \* sections whose code has been imported
  url,         \* location.pathname
  shown,       \* what #app-root shows
  notice,      \* the attempt #section-load-recovery is about, 0 for none
  crossed      \* history: the URL and the newest attempt have parted

vars == <<run, activation, active, pending, loaded, url, shown, notice, crossed>>

Attempts == 1 .. MaxAttempts
Routes   == Sections \cup {Landing}
Urls     == Routes \cup {Unknown}

Places   == {"unused", "loading", "preparing", "mounting", "painted", "mounted", "over"}
Unused   == [sec |-> Landing, at |-> "unused", aborted |-> FALSE, held |-> FALSE]
Committed == {"mounting", "painted", "mounted"}

Page(u, a) == [url |-> u, by |-> a]

-----------------------------------------------------------------------------
\* controller.abort() and runCleanups, which empties the list.
Aborted(r) == [r EXCEPT !.aborted = TRUE, !.held = FALSE]

\* The attempt of a call to activate(sec), as it stands at its first await.
\* prepare() registers the removal of what it adds to the document.
Launched(sec) ==
  [sec |-> sec, aborted |-> FALSE,
   at |-> IF sec \in loaded THEN "preparing" ELSE "loading",
   held |-> sec \in loaded]

CancelPending(rs) == IF pending = 0 THEN rs ELSE [rs EXCEPT ![pending] = Aborted(@)]

\* activate() up to its first await.
Activate(sec) ==
  /\ activation < MaxAttempts
  /\ activation' = activation + 1
  /\ pending' = activation + 1
  /\ run' = [CancelPending(run) EXCEPT ![activation + 1] = Launched(sec)]

\* activateFromUrl for a URL that no section matches: the root is replaced,
\* the registry is not told.
ShowNotFound ==
  /\ shown' = Page(Unknown, 0)
  /\ UNCHANGED <<run, activation, pending>>

\* location.assign: a new document, whose boot activates its own section.
HardLoad(u) ==
  /\ activation < MaxAttempts
  /\ activation' = activation + 1
  /\ run' = [a \in Attempts |-> IF a = activation + 1
               THEN [sec |-> u, at |-> "loading", aborted |-> FALSE, held |-> FALSE]
               ELSE Unused]
  /\ pending' = activation + 1 /\ active' = 0
  /\ loaded' = {} /\ notice' = 0 /\ crossed' = FALSE
  /\ url' = u /\ shown' = Page(u, 0)

\* navigateTo or popstate, then activateFromUrl.  A landing that is not the
\* first section of the document is loaded from the server.
Navigate(u) ==
  IF u = Landing /\ active # 0
    THEN HardLoad(u)
    ELSE /\ url' = u
         /\ IF u = Unknown THEN ShowNotFound ELSE Activate(u) /\ UNCHANGED shown
         /\ crossed' = (u \in {Unknown, Landing})
         /\ UNCHANGED <<active, loaded, notice>>

\* switchLang: navigateTo the same section under the other locale, and in the
\* same task kt:lang-change, on which the shell re-activates current().  The
\* second call aborts what the first began.
SwitchLanguage ==
  IF url = Landing
    THEN HardLoad(url)
    ELSE /\ IF active = 0
              THEN IF url = Unknown THEN ShowNotFound ELSE Activate(url) /\ UNCHANGED shown
              ELSE /\ Activate(run[active].sec)
                   /\ shown' = IF url = Unknown THEN Page(Unknown, 0) ELSE shown
         /\ crossed' = (crossed \/ (active # 0 /\ run[active].sec # url))
         /\ UNCHANGED <<active, loaded, url, notice>>

-----------------------------------------------------------------------------
NoNotice(a, reported) == notice

\* activateSection reports everything but an AbortError, and the notice of the
\* latest report replaces the one before.
Notice(a, reported) == IF reported THEN a ELSE notice

\* The catch block of activate().
End(a, reported) ==
  /\ run' = [run EXCEPT ![a] = [Aborted(@) EXCEPT !.at = "over"]]
  /\ active' = IF active = a THEN 0 ELSE active
  /\ pending' = IF pending = a THEN 0 ELSE pending
  /\ notice' = Notice(a, reported)

\* import() resolves or rejects; it knows no signal.
LoadDone(a) ==
  /\ run[a].at = "loading"
  /\ IF run[a].aborted
       THEN End(a, FALSE) /\ UNCHANGED loaded
       ELSE /\ loaded' = loaded \cup {run[a].sec}
            /\ run' = [run EXCEPT ![a].at = "preparing", ![a].held = TRUE]
            /\ UNCHANGED <<active, pending, notice>>
  /\ UNCHANGED <<activation, url, shown, crossed>>

LoadFails(a) ==
  /\ run[a].at = "loading"
  /\ End(a, TRUE)
  /\ UNCHANGED <<activation, loaded, url, shown, crossed>>

DeafToAbort(a) ==
  /\ run[a].at = "preparing" /\ ~run[a].aborted
  /\ End(a, TRUE)
  /\ UNCHANGED <<activation, loaded, url, shown, crossed>>

\* The stylesheet or the template cannot be had, or the wait is aborted.
PrepareFails(a) ==
  /\ run[a].at = "preparing"
  /\ End(a, ~run[a].aborted)
  /\ UNCHANGED <<activation, loaded, url, shown, crossed>>

AnyAttempt(a) == TRUE

\* What only an attempt that nobody replaced may do.
NotReplaced(a) == ~run[a].aborted /\ a = activation

\* Everything the section needs is there: deactivateCurrent, then mount up to
\* its first await.  A landing leaves the root as it finds it.
Painting(a) ==
  LET swept == IF active = 0 THEN shown ELSE Page(Nowhere, 0) IN
  IF run[a].sec \in Late \cup {Landing} THEN swept ELSE Page(run[a].sec, a)

Mounting(a) ==
  [run[a] EXCEPT !.at = IF run[a].sec \in Late THEN "mounting" ELSE "painted", !.held = TRUE]

\* deactivateCurrent, of the attempt that was committed before.
NoTeardown(a) == run

Teardown(a) ==
  [b \in Attempts |->
     IF b # active THEN run[b]
     ELSE [Aborted(run[b]) EXCEPT !.at = IF @ = "mounted" THEN "over" ELSE @]]

Commit(a) ==
  /\ run[a].at = "preparing" /\ NotReplaced(a)
  /\ run' = [Teardown(a) EXCEPT ![a] = Mounting(a)]
  /\ active' = a
  /\ pending' = IF pending = a THEN 0 ELSE pending
  /\ shown' = Painting(a)
  /\ UNCHANGED <<activation, loaded, url, notice, crossed>>

\* What a section does after the first await of its mount: it paints, and
\* registers cleanups with its own context whether or not that was aborted.
PaintLate(a) ==
  /\ run[a].at = "mounting"
  /\ shown' = Page(run[a].sec, a)
  /\ run' = [run EXCEPT ![a].at = "painted", ![a].held = TRUE]
  /\ UNCHANGED <<activation, active, pending, loaded, url, notice, crossed>>

\* mount() returned; an attempt torn down meanwhile runs its cleanups again,
\* any other one takes the notice away, whichever failure it is about.
ForgetLateCleanups(a) ==
  /\ run' = [run EXCEPT ![a].at = "over"]
  /\ UNCHANGED <<active, pending, notice>>

EndAborted(a) == End(a, FALSE)

MountDone(a) ==
  /\ run[a].at = "painted"
  /\ IF run[a].aborted
       THEN EndAborted(a)
       ELSE /\ run' = [run EXCEPT ![a].at = "mounted"]
            /\ notice' = 0
            /\ UNCHANGED <<active, pending>>
  /\ crossed' = (crossed \/ (~run[a].aborted /\ notice # 0 /\ a # activation))
  /\ UNCHANGED <<activation, loaded, url, shown>>

\* mount() rejected: a fetch of an aborted attempt quietly, an import aloud.
MountFails(a, reported) ==
  /\ run[a].at \in {"mounting", "painted"}
  /\ ~run[a].aborted => reported
  /\ run[a].aborted /\ run[a].sec \notin Late => ~reported
  /\ End(a, reported)
  /\ UNCHANGED <<activation, loaded, url, shown, crossed>>

-----------------------------------------------------------------------------
\* boot() of the first document.
Init ==
  /\ url \in Routes
  /\ run = [a \in Attempts |-> IF a = 1
              THEN [sec |-> url, at |-> "loading", aborted |-> FALSE, held |-> FALSE]
              ELSE Unused]
  /\ activation = 1 /\ active = 0 /\ pending = 1
  /\ loaded = {} /\ shown = Page(url, 0) /\ notice = 0 /\ crossed = FALSE

AttemptStep(a) ==
  \/ LoadDone(a) \/ LoadFails(a) \/ PrepareFails(a) \/ Commit(a)
  \/ PaintLate(a) \/ MountDone(a) \/ (\E reported \in BOOLEAN : MountFails(a, reported))

Next ==
  \/ \E u \in Urls : Navigate(u)
  \/ SwitchLanguage
  \/ \E a \in Attempts : AttemptStep(a)

Spec == Init /\ [][Next]_vars

\* Imports, fetches and stylesheets of the browser end one way or the other.
FairSpec == Spec /\ \A a \in Attempts : WF_vars(AttemptStep(a))

-----------------------------------------------------------------------------
\* Types.
TypeOK ==
  /\ run \in [Attempts -> [sec : Routes, at : Places, aborted : BOOLEAN, held : BOOLEAN]]
  /\ activation \in Attempts /\ active \in 0 .. MaxAttempts /\ pending \in 0 .. MaxAttempts
  /\ loaded \subseteq Routes /\ url \in Urls
  /\ shown \in [url : Urls \cup {Nowhere}, by : 0 .. MaxAttempts]
  /\ notice \in 0 .. MaxAttempts /\ crossed \in BOOLEAN

\* The contexts that are not aborted are those of the visible section and of
\* the one in preparation, and nothing else: no listener, timer or fetch of a
\* replaced section lives on (activate, deactivateCurrent, the catch block).
OneLiveSection ==
  \A a \in Attempts :
    LET r == run[a] IN
    /\ r.at \in Committed /\ ~r.aborted <=> a = active
    /\ r.at \in {"loading", "preparing"} /\ ~r.aborted <=> a = pending

\* An attempt that has ended holds no resource, also of those it registered
\* after it had been replaced: whatever mount() adds late is cleaned when it
\* returns (activate's catch).
NothingLeftBehind == \A a \in Attempts : run[a].at = "over" => ~run[a].held

\* The visible section's life ends by its own failure, by the commit of a newer
\* attempt that has everything it needs, or with the document: a failed or
\* superseded navigation never costs the open editor (showActivationFailure
\* promises "your open work is still here").
EditorSurvives ==
  [][active # 0 /\ active' # active /\ activation' = activation =>
       \/ run'[active].at = "over" /\ active' = 0
       \/ active' = activation /\ run[active'].at = "preparing"]_vars

\* A replaced section has painted over its successor, as one whose mount paints
\* after an unguarded await may (see the README).
Overpainted == shown.by # 0 /\ run[shown.by].sec \in Late /\ shown.by # active

\* What the root shows was painted by the visible section, once that one has
\* painted, unless it paints nothing (a landing): no replaced section paints
\* over its successor, but for those that are in Late.
ShownIsActive ==
  shown.by # 0 /\ active # 0 /\ run[active].sec # Landing /\ run[active].at # "mounting"
    => shown.by = active \/ Overpainted

\* When nothing is in flight, the root shows the section of the URL or a notice
\* says why not, unless the URL went where the registry was not told (see the
\* README) or a section of Late has painted over it.
UrlIsShown ==
  pending = 0 /\ active # 0 /\ run[active].at = "mounted" /\ notice = 0 /\ ~crossed
    => shown.url = url \/ Overpainted

\* Every attempt ends: mounted, or over.
AttemptsEnd ==
  \A a \in Attempts : run[a].at = "loading" ~> run[a].at \in {"unused", "mounted", "over"}
=============================================================================
