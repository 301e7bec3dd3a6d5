----------------------- MODULE SectionRegistryProofs -----------------------
(***************************************************************************)
(* One section is alive at a time, whatever number of sections, whatever   *)
(* the order in which imports, stylesheets and mounts end.  The argument:  *)
(* a context is spared from abortion only by being active or pending, and  *)
(* what may commit is both unaborted and the newest attempt.  And with     *)
(* nothing in flight the section on screen is the URL's: the newest        *)
(* attempt is for it, or a language switch has crossed it.                 *)
(***************************************************************************)
EXTENDS SectionRegistry, TLAPS

USE SectionAssumption, BoundAssumption

\* Attempts are numbered in the order they begin, and the one in preparation
\* is the newest.
Numbered ==
  /\ \A a \in Attempts : a > activation => run[a].at = "unused"
  /\ pending # 0 => pending = activation

\* Only a section that paints late is ever seen between commit and paint.
LateOnly == \A a \in Attempts : run[a].at = "mounting" => run[a].sec \in Late

IInv == TypeOK /\ OneLiveSection /\ NothingLeftBehind /\ Numbered /\ LateOnly

Record == [sec : Routes, at : Places, aborted : BOOLEAN, held : BOOLEAN]

LEMMA InitInv == Init => IInv
<1> SUFFICES ASSUME Init PROVE IInv
  OBVIOUS
<1> DEFINE first == [sec |-> url, at |-> "loading", aborted |-> FALSE, held |-> FALSE]
<1>1. first \in Record /\ Unused \in Record
  BY DEF Init, Record, Unused, Routes, Places
<1>2. run \in [Attempts -> Record]
      /\ \A a \in Attempts : run[a] = (IF a = 1 THEN first ELSE Unused)
  BY <1>1 DEF Init
<1>2a. shown \in [url : Urls \cup {Nowhere}, by : 0 .. MaxAttempts]
  BY DEF Init, Urls, Page
<1>2b. /\ activation \in Attempts /\ active \in 0 .. MaxAttempts
       /\ pending \in 0 .. MaxAttempts /\ notice \in 0 .. MaxAttempts
  BY DEF Init, Attempts
<1>3. TypeOK
  BY <1>2, <1>2a, <1>2b DEF Init, TypeOK, Record, Urls
<1>3a. \A a \in Attempts : a \in Nat /\ a # 0
  BY DEF Attempts
<1>3b. OneLiveSection
  BY <1>2, <1>3a DEF Init, OneLiveSection, Unused, Committed
<1>3c. NothingLeftBehind /\ LateOnly
  BY <1>2 DEF NothingLeftBehind, LateOnly, Unused
<1>3d. Numbered
  BY <1>2, <1>3a DEF Init, Numbered, Unused
<1>4. OneLiveSection /\ NothingLeftBehind /\ Numbered /\ LateOnly
  BY <1>3b, <1>3c, <1>3d
<1> QED
  BY <1>3, <1>4 DEF IInv

\* The two ways an attempt is touched by others keep it a record of its kind.
LEMMA AbortedType ==
  ASSUME NEW r \in Record
  PROVE  /\ Aborted(r) \in Record
         /\ Aborted(r).sec = r.sec /\ Aborted(r).at = r.at
         /\ Aborted(r).aborted /\ ~Aborted(r).held
BY DEF Aborted, Record

\* What a new activation does to the attempts.
LEMMA ActivateInv ==
  ASSUME IInv, NEW sec \in Routes, Activate(sec),
         active' = active, loaded' = loaded
  PROVE  /\ run' \in [Attempts -> Record]
         /\ activation' \in Attempts /\ pending' \in 0 .. MaxAttempts
         /\ OneLiveSection' /\ NothingLeftBehind' /\ Numbered' /\ LateOnly'
<1> DEFINE n == activation + 1
<1>1. n \in Attempts /\ n # pending /\ n # active
  BY DEF IInv, TypeOK, OneLiveSection, Numbered, Activate, Attempts, Committed
<1>2. Launched(sec) \in Record /\ Launched(sec).at \in {"loading", "preparing"}
      /\ ~Launched(sec).aborted
  BY DEF Launched, Record, Places, IInv, TypeOK
<1>3. CancelPending(run) \in [Attempts -> Record]
  BY AbortedType DEF CancelPending, IInv, TypeOK, Record
<1>4. \A a \in Attempts :
        CancelPending(run)[a] = IF a = pending THEN Aborted(run[a]) ELSE run[a]
  BY DEF CancelPending, IInv, TypeOK, Attempts
<1>5. run' \in [Attempts -> Record]
  BY <1>1, <1>2, <1>3 DEF Activate
<1>6. \A a \in Attempts :
        run'[a] = IF a = n THEN Launched(sec)
                  ELSE IF a = pending THEN Aborted(run[a]) ELSE run[a]
  BY <1>1, <1>3, <1>4 DEF Activate
<1>7. activation' = n /\ pending' = n
  BY DEF Activate
<1>8. \A a \in Attempts : a = pending => run[a].at \in {"loading", "preparing"}
  BY DEF IInv, OneLiveSection
<1>9. run \in [Attempts -> Record] /\ activation \in Attempts
  BY DEF IInv, TypeOK, Record
<1>10. OneLiveSection'
  <2> SUFFICES ASSUME NEW a \in Attempts
               PROVE /\ run'[a].at \in Committed /\ ~run'[a].aborted <=> a = active
                     /\ run'[a].at \in {"loading", "preparing"} /\ ~run'[a].aborted
                          <=> a = n
    BY <1>7 DEF OneLiveSection
  <2>1. CASE a = n
    BY <2>1, <1>1, <1>2, <1>6 DEF Committed
  <2>2. CASE a # n /\ a = pending
    <3>1. run'[a].aborted
      BY <2>2, <1>6, <1>9, AbortedType
    <3> QED
      BY <2>2, <3>1, <1>8 DEF Committed, IInv, OneLiveSection
  <2>3. CASE a # n /\ a # pending
    BY <2>3, <1>6 DEF IInv, OneLiveSection
  <2> QED
    BY <2>1, <2>2, <2>3
<1>11. NothingLeftBehind'
  BY <1>2, <1>6, <1>9, AbortedType DEF IInv, NothingLeftBehind
<1>12. Numbered'
  BY <1>1, <1>6, <1>7, <1>9, AbortedType DEF IInv, Numbered, Attempts
<1>13. LateOnly'
  BY <1>2, <1>6, <1>9, AbortedType DEF IInv, LateOnly
<1> QED
  BY <1>1, <1>5, <1>7, <1>10, <1>11, <1>12, <1>13 DEF Attempts

LEMMA HardLoadInv ==
  ASSUME IInv, NEW u \in Routes, HardLoad(u)
  PROVE  IInv'
<1>1. activation + 1 \in Attempts /\ activation \in Nat
  BY DEF HardLoad, IInv, TypeOK, Attempts
<1> DEFINE first == [sec |-> u, at |-> "loading", aborted |-> FALSE, held |-> FALSE]
<1>a. first \in Record /\ Unused \in Record
  BY DEF Record, Unused, Routes, Places
<1>b. run' \in [Attempts -> Record]
  BY <1>a DEF HardLoad
<1>c. shown' = Page(u, 0) /\ Page(u, 0) \in [url : Urls \cup {Nowhere}, by : 0 .. MaxAttempts]
  BY DEF HardLoad, Page, Urls
<1>2. TypeOK'
  <2>1. /\ activation' \in Attempts /\ active' \in 0 .. MaxAttempts
        /\ pending' \in 0 .. MaxAttempts /\ notice' \in 0 .. MaxAttempts
    BY <1>1 DEF HardLoad, Attempts
  <2> QED
    BY <1>b, <1>c, <2>1 DEF HardLoad, TypeOK, Record, Urls
<1>d. \A a \in Attempts : a \in Nat /\ a # 0
  BY DEF Attempts
<1>e. \A a \in Attempts : run'[a] = IF a = activation + 1 THEN first ELSE Unused
  BY <1>a DEF HardLoad
<1>f. activation' = activation + 1 /\ pending' = activation + 1 /\ active' = 0
  BY DEF HardLoad
<1>g. OneLiveSection'
  BY <1>d, <1>e, <1>f DEF OneLiveSection, Unused, Committed
<1>h. NothingLeftBehind' /\ LateOnly'
  BY <1>e DEF NothingLeftBehind, LateOnly, Unused
<1>i. Numbered'
  BY <1>1, <1>d, <1>e, <1>f DEF Numbered, Unused
<1>3. OneLiveSection' /\ NothingLeftBehind' /\ Numbered' /\ LateOnly'
  BY <1>g, <1>h, <1>i
<1> QED
  BY <1>2, <1>3 DEF IInv

LEMMA NotFoundInv ==
  ASSUME IInv, ShowNotFound, active' = active, loaded' = loaded, notice' = notice,
         url' \in Urls, crossed' \in BOOLEAN
  PROVE  IInv'
<1>1. TypeOK'
  BY DEF IInv, TypeOK, ShowNotFound, Page, Urls
<1>2. OneLiveSection' /\ NothingLeftBehind' /\ Numbered' /\ LateOnly'
  BY DEF IInv, OneLiveSection, NothingLeftBehind, Numbered, LateOnly, ShowNotFound
<1> QED
  BY <1>1, <1>2 DEF IInv

LEMMA NavigateInv ==
  ASSUME IInv, NEW u \in Urls, Navigate(u)
  PROVE  IInv'
<1>1. CASE u = Landing /\ active # 0
  BY <1>1, HardLoadInv DEF Navigate, Routes
<1>2. CASE ~(u = Landing /\ active # 0) /\ u = Unknown
  BY <1>2, NotFoundInv DEF Navigate
<1>3. CASE ~(u = Landing /\ active # 0) /\ u # Unknown
  <2>1. u \in Routes /\ Activate(u)
        /\ UNCHANGED <<active, loaded, notice, shown>>
        /\ url' = u /\ crossed' = (u \in {Unknown, Landing})
    BY <1>3 DEF Navigate, Urls
  <2>2. /\ run' \in [Attempts -> Record]
        /\ activation' \in Attempts /\ pending' \in 0 .. MaxAttempts
        /\ OneLiveSection' /\ NothingLeftBehind' /\ Numbered' /\ LateOnly'
    BY <2>1, ActivateInv
  <2>3. crossed' \in BOOLEAN
    BY <2>1
  <2>4. TypeOK'
    BY <2>1, <2>2, <2>3 DEF IInv, TypeOK, Record
  <2> QED
    BY <2>2, <2>4 DEF IInv
<1> QED
  BY <1>1, <1>2, <1>3

LEMMA LanguageInv ==
  ASSUME IInv, SwitchLanguage
  PROVE  IInv'
<1>1. CASE url = Landing
  BY <1>1, HardLoadInv DEF SwitchLanguage, Routes
<1>2. CASE url # Landing /\ active = 0 /\ url = Unknown
  BY <1>2, NotFoundInv DEF SwitchLanguage, IInv, TypeOK
<1>3. CASE url # Landing /\ ~(active = 0 /\ url = Unknown)
  <2> DEFINE sec == IF active = 0 THEN url ELSE run[active].sec
  <2>1. sec \in Routes
    BY <1>3 DEF IInv, TypeOK, Urls, Attempts
  <2>2. Activate(sec) /\ UNCHANGED <<active, loaded, url, notice>>
        /\ shown' \in [url : Urls \cup {Nowhere}, by : 0 .. MaxAttempts]
        /\ crossed' \in BOOLEAN
    BY <1>3 DEF SwitchLanguage, IInv, TypeOK, Page, Urls
  <2>3. /\ run' \in [Attempts -> Record]
        /\ activation' \in Attempts /\ pending' \in 0 .. MaxAttempts
        /\ OneLiveSection' /\ NothingLeftBehind' /\ Numbered' /\ LateOnly'
    BY <2>1, <2>2, ActivateInv
  <2>4. TypeOK'
    BY <2>2, <2>3 DEF IInv, TypeOK, Record
  <2> QED
    BY <2>3, <2>4 DEF IInv
<1> QED
  BY <1>1, <1>2, <1>3

-----------------------------------------------------------------------------
\* An attempt that ends, for whatever reason.
LEMMA EndInv ==
  ASSUME IInv, NEW a \in Attempts, NEW reported \in BOOLEAN, End(a, reported),
         run[a].at # "unused",
         UNCHANGED <<activation, loaded, url, shown>>, crossed' \in BOOLEAN
  PROVE  IInv'
<1> DEFINE ended == [Aborted(run[a]) EXCEPT !.at = "over"]
<1>1. run[a] \in Record
  BY DEF IInv, TypeOK, Record
<1>2. ended \in Record /\ ended.at = "over" /\ ended.aborted /\ ~ended.held
  BY <1>1, AbortedType DEF Record, Places
<1>3. run' = [run EXCEPT ![a] = ended]
  BY DEF End
<1> HIDE DEF ended
<1>4. run' \in [Attempts -> Record]
      /\ \A b \in Attempts : run'[b] = IF b = a THEN ended ELSE run[b]
  BY <1>2, <1>3 DEF IInv, TypeOK, Record
<1>5. TypeOK'
  BY <1>4 DEF IInv, TypeOK, End, Notice, Record, Attempts
<1>6. OneLiveSection'
  BY <1>2, <1>4 DEF IInv, TypeOK, OneLiveSection, End, Committed, Attempts
<1>7. NothingLeftBehind' /\ LateOnly'
  BY <1>2, <1>4 DEF IInv, NothingLeftBehind, LateOnly
<1>8. Numbered'
  BY <1>2, <1>4 DEF IInv, TypeOK, Numbered, End, Attempts
<1> QED
  BY <1>5, <1>6, <1>7, <1>8 DEF IInv

\* An attempt that moves on without changing sides.
LEMMA StepInv ==
  ASSUME IInv, NEW a \in Attempts, NEW r \in Record,
         run' = [run EXCEPT ![a] = r], r.sec = run[a].sec, r.aborted = run[a].aborted,
         \/ run[a].at = "loading" /\ r.at = "preparing"
         \/ run[a].at \in Committed /\ r.at \in Committed \ {"mounting"},
         UNCHANGED <<activation, active, pending, url>>,
         loaded' \subseteq Routes, notice' \in 0 .. MaxAttempts, crossed' \in BOOLEAN,
         shown' \in [url : Urls \cup {Nowhere}, by : 0 .. MaxAttempts]
  PROVE  IInv'
<1>1. run' \in [Attempts -> Record]
      /\ \A b \in Attempts : run'[b] = IF b = a THEN r ELSE run[b]
  BY DEF IInv, TypeOK, Record
<1>2. TypeOK'
  BY <1>1 DEF IInv, TypeOK, Record
<1>3. OneLiveSection'
  BY <1>1 DEF IInv, OneLiveSection, Committed
<1>4. NothingLeftBehind' /\ LateOnly'
  BY <1>1 DEF IInv, NothingLeftBehind, LateOnly, Committed
<1>5. Numbered'
  BY <1>1 DEF IInv, Numbered, Committed
<1> QED
  BY <1>2, <1>3, <1>4, <1>5 DEF IInv

LEMMA CommitInv ==
  ASSUME IInv, NEW a \in Attempts, Commit(a)
  PROVE  IInv'
<1>1. run \in [Attempts -> Record] /\ active \in 0 .. MaxAttempts
      /\ pending \in 0 .. MaxAttempts /\ activation \in Attempts
  BY DEF IInv, TypeOK, Record
<1>2. a = pending /\ a # active /\ a = activation
  BY DEF IInv, OneLiveSection, Commit, NotReplaced, Committed
<1>3. /\ Mounting(a) \in Record /\ ~Mounting(a).aborted
      /\ Mounting(a).at = (IF run[a].sec \in Late THEN "mounting" ELSE "painted")
      /\ Mounting(a).sec = run[a].sec
  <2>1. run[a] \in Record /\ ~run[a].aborted
    BY <1>1 DEF Commit, NotReplaced
  <2> QED
    BY <2>1 DEF Mounting, Record, Places
<1> DEFINE down(b) == [Aborted(run[b]) EXCEPT !.at = IF @ = "mounted" THEN "over" ELSE @]
<1>4. ASSUME NEW b \in Attempts
      PROVE /\ down(b) \in Record
            /\ down(b).at = (IF run[b].at = "mounted" THEN "over" ELSE run[b].at)
            /\ down(b).aborted /\ ~down(b).held /\ down(b).sec = run[b].sec
  <2>1. run[b] \in Record
    BY <1>1
  <2> QED
    BY <2>1, AbortedType DEF Record, Places
<1>5. Teardown(a) = [b \in Attempts |-> IF b # active THEN run[b] ELSE down(b)]
  BY DEF Teardown
<1> HIDE DEF down
<1>6. Teardown(a) \in [Attempts -> Record]
  BY <1>1, <1>4, <1>5
<1>7. run' \in [Attempts -> Record]
      /\ \A b \in Attempts : run'[b] = IF b = a THEN Mounting(a)
                                       ELSE IF b = active THEN down(b) ELSE run[b]
  BY <1>3, <1>5, <1>6 DEF Commit
<1>8. active' = a /\ pending' = 0 /\ activation' = activation
  BY <1>2 DEF Commit
<1>9. TypeOK'
  <2>1. Painting(a) \in [url : Urls \cup {Nowhere}, by : 0 .. MaxAttempts]
    BY <1>1 DEF Painting, Page, Urls, Routes, Attempts, IInv, TypeOK
  <2> QED
    BY <1>7, <1>8, <2>1 DEF IInv, TypeOK, Commit, Record, Attempts
<1>10. OneLiveSection'
  <2> SUFFICES ASSUME NEW b \in Attempts
               PROVE /\ run'[b].at \in Committed /\ ~run'[b].aborted <=> b = a
                     /\ ~(run'[b].at \in {"loading", "preparing"} /\ ~run'[b].aborted)
    BY <1>8 DEF OneLiveSection, Attempts
  <2>1. CASE b = a
    BY <2>1, <1>3, <1>7 DEF Committed
  <2>2. CASE b # a /\ b = active
    BY <2>2, <1>4, <1>7
  <2>3. CASE b # a /\ b # active
    BY <2>3, <1>2, <1>7 DEF IInv, OneLiveSection
  <2> QED
    BY <2>1, <2>2, <2>3
<1>11. NothingLeftBehind' /\ LateOnly'
  BY <1>3, <1>4, <1>7 DEF IInv, NothingLeftBehind, LateOnly
<1>12. Numbered'
  BY <1>2, <1>4, <1>7, <1>8, <1>1 DEF IInv, Numbered, Attempts
<1> QED
  BY <1>9, <1>10, <1>11, <1>12 DEF IInv

LEMMA AttemptInv ==
  ASSUME IInv, NEW a \in Attempts, AttemptStep(a)
  PROVE  IInv'
<1>0. run[a] \in Record /\ run \in [Attempts -> Record] /\ crossed \in BOOLEAN
  BY DEF IInv, TypeOK, Record
<1>1. CASE LoadDone(a)
  <2>1. CASE run[a].aborted
    BY <1>0, <1>1, <2>1, EndInv DEF LoadDone
  <2>2. CASE ~run[a].aborted
    <3> DEFINE r == [run[a] EXCEPT !.at = "preparing", !.held = TRUE]
    <3>1. r \in Record /\ r.at = "preparing" /\ r.sec = run[a].sec
          /\ r.aborted = run[a].aborted
      BY <1>0 DEF Record, Places
    <3>2. run' = [run EXCEPT ![a] = r]
      BY <1>0, <1>1, <2>2 DEF LoadDone
    <3>3. loaded' \subseteq Routes
      BY <1>0, <1>1, <2>2 DEF LoadDone, IInv, TypeOK, Record
    <3> HIDE DEF r
    <3>4. UNCHANGED <<activation, active, pending, url, notice, shown, crossed>>
          /\ run[a].at = "loading"
      BY <1>1, <2>2 DEF LoadDone
    <3> QED
      BY <3>1, <3>2, <3>3, <3>4, StepInv DEF IInv, TypeOK
  <2> QED
    BY <2>1, <2>2
<1>2. CASE LoadFails(a)
  BY <1>0, <1>2, EndInv DEF LoadFails
<1>3. CASE PrepareFails(a)
  <2>1. (~run[a].aborted) \in BOOLEAN
    OBVIOUS
  <2> QED
    BY <1>0, <1>3, <2>1, EndInv DEF PrepareFails
<1>4. CASE Commit(a)
  BY <1>4, CommitInv
<1>5. CASE PaintLate(a)
  <2> DEFINE r == [run[a] EXCEPT !.at = "painted", !.held = TRUE]
  <2>1. r \in Record /\ r.at = "painted" /\ r.sec = run[a].sec /\ r.aborted = run[a].aborted
    BY <1>0 DEF Record, Places
  <2>2. run' = [run EXCEPT ![a] = r]
    BY <1>0, <1>5 DEF PaintLate
  <2>3. shown' \in [url : Urls \cup {Nowhere}, by : 0 .. MaxAttempts]
    BY <1>0, <1>5 DEF PaintLate, Page, Urls, Record, Attempts
  <2> HIDE DEF r
  <2>4. UNCHANGED <<activation, active, pending, loaded, url, notice, crossed>>
        /\ run[a].at = "mounting"
    BY <1>5 DEF PaintLate
  <2> QED
    BY <2>1, <2>2, <2>3, <2>4, StepInv DEF IInv, TypeOK, Committed
<1>6. CASE MountDone(a)
  <2>1. CASE run[a].aborted
    <3>1. End(a, FALSE) /\ run[a].at = "painted" /\ UNCHANGED <<activation, loaded, url, shown>>
          /\ crossed' \in BOOLEAN
      BY <1>0, <1>6, <2>1 DEF MountDone, EndAborted
    <3> QED
      BY <3>1, EndInv
  <2>2. CASE ~run[a].aborted
    <3> DEFINE r == [run[a] EXCEPT !.at = "mounted"]
    <3>1. r \in Record /\ r.at = "mounted" /\ r.sec = run[a].sec
          /\ r.aborted = run[a].aborted
      BY <1>0 DEF Record, Places
    <3>2. run' = [run EXCEPT ![a] = r]
      BY <1>0, <1>6, <2>2 DEF MountDone
    <3> HIDE DEF r
    <3>3. UNCHANGED <<activation, active, pending, loaded, url, shown>>
          /\ notice' = 0 /\ crossed' \in BOOLEAN /\ run[a].at = "painted"
      BY <1>0, <1>6, <2>2 DEF MountDone
    <3> QED
      <4>1. notice' \in 0 .. MaxAttempts
        BY <3>3
      <4> QED
        BY <3>1, <3>2, <3>3, <4>1, StepInv DEF IInv, TypeOK, Committed
  <2> QED
    BY <2>1, <2>2
<1>7. ASSUME NEW reported \in BOOLEAN, MountFails(a, reported) PROVE IInv'
  BY <1>0, <1>7, EndInv DEF MountFails
<1> QED
  BY <1>1, <1>2, <1>3, <1>4, <1>5, <1>6, <1>7 DEF AttemptStep

LEMMA StutterInv == ASSUME IInv, UNCHANGED vars PROVE IInv'
BY DEF IInv, TypeOK, OneLiveSection, NothingLeftBehind, Numbered, LateOnly, vars

LEMMA NextInv == IInv /\ [Next]_vars => IInv'
BY NavigateInv, LanguageInv, AttemptInv, StutterInv DEF Next

\* Types, aliveness, cleanup and numbering of the attempts are invariant
\* together (activate, deactivateCurrent and the catch block of registry.js).
THEOREM Invariant == Spec => []IInv
<1> QED
  BY InitInv, NextInv, PTL DEF Spec

\* The registry's state keeps its types; in particular no attempt is ever made
\* for a URL that no section matches.
THEOREM TypeCorrect == Spec => []TypeOK
<1>1. IInv => TypeOK
  BY DEF IInv
<1> QED
  BY <1>1, Invariant, PTL

\* Only the visible section and the one in preparation hold a live context.
THEOREM OneLiveTheorem == Spec => []OneLiveSection
<1>1. IInv => OneLiveSection
  BY DEF IInv
<1> QED
  BY <1>1, Invariant, PTL

\* An attempt that has ended holds nothing.
THEOREM CleanupTheorem == Spec => []NothingLeftBehind
<1>1. IInv => NothingLeftBehind
  BY DEF IInv
<1> QED
  BY <1>1, Invariant, PTL

-----------------------------------------------------------------------------
\* A step that ends the visible section is its own failure, the commit of the
\* newest attempt, or a new document.
LEMMA SurvivalStep ==
  ASSUME IInv, Next, active # 0, active' # active, activation' = activation
  PROVE  \/ run'[active].at = "over" /\ active' = 0
         \/ active' = activation /\ run[active'].at = "preparing"
<1>1. activation \in Nat
  BY DEF IInv, TypeOK, Attempts
<1>2. ASSUME NEW u \in Urls, Navigate(u) PROVE FALSE
  BY <1>1, <1>2 DEF Navigate, HardLoad, ShowNotFound, Activate
<1>3. ~SwitchLanguage
  BY <1>1 DEF SwitchLanguage, HardLoad, ShowNotFound, Activate
<1>4. PICK a \in Attempts : AttemptStep(a)
  BY <1>2, <1>3 DEF Next
<1>5. ASSUME NEW reported \in BOOLEAN, End(a, reported)
      PROVE  run'[active].at = "over" /\ active' = 0
  <2>1. a = active /\ active' = 0
    BY <1>5 DEF End
  <2>2. run \in [Attempts -> Record]
    BY DEF IInv, TypeOK, Record
  <2>3. run'[a] = [Aborted(run[a]) EXCEPT !.at = "over"]
    BY <1>5, <2>2 DEF End
  <2>4. Aborted(run[a]) \in Record
    BY <2>2, AbortedType
  <2> QED
    BY <2>1, <2>3, <2>4 DEF Record
<1>6. CASE Commit(a)
  BY <1>6 DEF Commit, NotReplaced
<1>7. CASE ~Commit(a)
  <2>1. \E reported \in BOOLEAN : End(a, reported)
    BY <1>4, <1>7 DEF AttemptStep, LoadDone, LoadFails, PrepareFails, PaintLate, MountDone,
                      EndAborted, MountFails
  <2> QED
    BY <2>1, <1>5
<1> QED
  BY <1>6, <1>7

\* A failed, slow or superseded navigation never costs the open section.
THEOREM SurvivalTheorem == Spec => EditorSurvives
<1>1. IInv /\ [Next]_vars =>
        [active # 0 /\ active' # active /\ activation' = activation =>
           \/ run'[active].at = "over" /\ active' = 0
           \/ active' = activation /\ run[active'].at = "preparing"]_vars
  BY SurvivalStep
<1> QED
  BY <1>1, Invariant, PTL DEF Spec, EditorSurvives

\* What the root shows was painted by an attempt that had begun.
Painted == shown.by <= activation

\* Steps that paint nothing: an attempt keeps its section, and stops mounting
\* only by painting or by being dropped.
LEMMA PaintKept ==
  ASSUME IInv, IInv', ShownIsActive, Painted,
         shown' = shown \/ shown'.by = 0, active' \in {0, active}, activation' \in {activation, activation + 1},
         \A b \in Attempts : b <= activation => run'[b].sec = run[b].sec,
         active' # 0 /\ run'[active].at # "mounting" => run[active].at # "mounting"
  PROVE  ShownIsActive' /\ Painted'
<1>1. /\ active \in 0 .. MaxAttempts /\ activation \in Attempts /\ shown.by \in 0 .. MaxAttempts
      /\ active # 0 => active <= activation
  <2>1. active # 0 => active \in Attempts /\ run[active].at \in Committed
    BY DEF IInv, TypeOK, OneLiveSection, Attempts
  <2> QED
    BY <2>1 DEF IInv, TypeOK, Numbered, Attempts, Committed
<1>2. Painted'
  BY <1>1 DEF Painted, Attempts
<1>3. CASE shown'.by = 0
  BY <1>2, <1>3 DEF ShownIsActive
<1>4. CASE shown' = shown /\ shown.by # 0
  <2>1. run'[shown.by].sec = run[shown.by].sec
    BY <1>1, <1>4 DEF Painted, Attempts
  <2>2. active # 0 => run'[active].sec = run[active].sec
    BY <1>1 DEF Attempts
  <2> QED
    BY <1>2, <1>4, <2>1, <2>2 DEF ShownIsActive, Overpainted
<1> QED
  BY <1>3, <1>4

\* No section paints over its successor but those whose mount paints after an
\* unguarded await: the guard they lack is the only thing missing.
THEOREM PaintTheorem == Spec => []ShownIsActive
<1>1. Init => ShownIsActive /\ Painted
  BY DEF Init, ShownIsActive, Painted, Page
<1>2. ASSUME IInv, IInv', ShownIsActive, Painted, [Next]_vars PROVE ShownIsActive' /\ Painted'
  <2>0. /\ run \in [Attempts -> Record] /\ active \in 0 .. MaxAttempts /\ activation \in Attempts
        /\ pending # 0 => pending = activation
        /\ \A b \in Attempts : b # 0 /\ b \in Nat
    BY <1>2 DEF IInv, TypeOK, Numbered, Record, Attempts
  <2>1. CASE UNCHANGED vars
    BY <1>2, <2>1 DEF ShownIsActive, Overpainted, Painted, vars
  <2>2. ASSUME NEW u \in Routes, HardLoad(u) PROVE ShownIsActive' /\ Painted'
    BY <1>2, <2>0, <2>2 DEF HardLoad, ShownIsActive, Painted, Page, Attempts
  <2>3. ASSUME ShowNotFound, active' = active PROVE ShownIsActive' /\ Painted'
    <3>1. shown'.by = 0
      BY <2>3 DEF ShowNotFound, Page
    <3> QED
      BY <1>2, <2>0, <2>3, <3>1, PaintKept DEF ShowNotFound
  <2>4. ASSUME NEW sec \in Routes, Activate(sec), active' = active,
               shown' = shown \/ shown' = Page(Unknown, 0)
        PROVE  ShownIsActive' /\ Painted'
    <3>1. shown' = shown \/ shown'.by = 0
      BY <2>4 DEF Page
    <3>2. activation' = activation + 1
          /\ run' = [CancelPending(run) EXCEPT ![activation + 1] = Launched(sec)]
      BY <2>4 DEF Activate
    <3>3. \A b \in Attempts : b <= activation =>
            run'[b] = run[b] \/ (b = pending /\ run'[b] = Aborted(run[b]))
      BY <2>0, <3>2 DEF CancelPending, Attempts
    <3>4. \A b \in Attempts : b <= activation =>
            run'[b].sec = run[b].sec /\ run'[b].at = run[b].at
      BY <2>0, <3>3, AbortedType
    <3>5. active # 0 => active \in Attempts /\ active <= activation
      BY <1>2, <2>0 DEF IInv, OneLiveSection, Numbered, Committed, Attempts
    <3> QED
      BY <1>2, <2>4, <3>1, <3>2, <3>4, <3>5, PaintKept
  <2>5. ASSUME NEW u \in Urls, Navigate(u) PROVE ShownIsActive' /\ Painted'
    BY <2>2, <2>3, <2>4, <2>5 DEF Navigate, Urls, Routes
  <2>6. CASE SwitchLanguage
    <3>1. active # 0 => run[active].sec \in Routes
      BY <2>0 DEF Record, Attempts
    <3> QED
      BY <1>2, <2>2, <2>3, <2>4, <2>6, <3>1
         DEF SwitchLanguage, Urls, Routes, IInv, TypeOK, ShowNotFound, Page
  <2>7. ASSUME NEW a \in Attempts, AttemptStep(a) PROVE ShownIsActive' /\ Painted'
    <3>0. run[a] \in Record /\ run[a].at # "unused" /\ a <= activation
      <4>1. run[a].at # "unused"
        BY <2>7 DEF AttemptStep, LoadDone, LoadFails, PrepareFails, Commit, PaintLate, MountDone,
                    MountFails
      <4> QED
        BY <1>2, <2>0, <4>1 DEF IInv, Numbered, Attempts
    <3>1. ASSUME NEW reported \in BOOLEAN, End(a, reported), UNCHANGED <<shown, activation>>
          PROVE  ShownIsActive' /\ Painted'
      <4>1. \A b \in Attempts : run'[b].sec = run[b].sec /\ (b # a => run'[b] = run[b])
        BY <2>0, <3>0, <3>1, AbortedType DEF End
      <4> QED
        BY <1>2, <2>0, <3>1, <4>1, PaintKept DEF End, Attempts
    <3>2. CASE Commit(a)
      <4>1. /\ run'[a] = Mounting(a) /\ active' = a /\ shown' = Painting(a)
            /\ activation' = activation
        BY <2>0, <2>7, <3>2 DEF Commit, Teardown
      <4>2. run'[a].sec = run[a].sec
            /\ run'[a].at = IF run[a].sec \in Late THEN "mounting" ELSE "painted"
        BY <3>0, <4>1 DEF Mounting, Record
      <4>3. run[a].sec \notin Late \cup {Landing} => shown'.by = a
        BY <4>1 DEF Painting, Page
      <4>4. shown'.by = a \/ shown'.by = 0 \/ shown' = shown
        BY <4>1 DEF Painting, Page
      <4> QED
        BY <1>2, <2>0, <3>0, <4>1, <4>2, <4>3, <4>4 DEF ShownIsActive, Painted, Attempts
    <3>3. CASE PaintLate(a)
      <4>1. shown'.by = a /\ run'[a].sec \in Late /\ UNCHANGED <<active, activation>>
        BY <1>2, <2>0, <3>0, <3>3 DEF PaintLate, IInv, LateOnly, Page, Record
      <4> QED
        BY <2>0, <3>0, <4>1 DEF ShownIsActive, Overpainted, Painted
    <3>4. ASSUME UNCHANGED <<shown, active, activation>>, NEW at \in Places, NEW held \in BOOLEAN,
                 run' = [run EXCEPT ![a].at = at, ![a].held = held], run[a].at # "mounting"
          PROVE  ShownIsActive' /\ Painted'
      <4>1. \A b \in Attempts : run'[b].sec = run[b].sec /\ (b # a => run'[b] = run[b])
        BY <2>0, <3>0, <3>4 DEF Record
      <4> QED
        BY <1>2, <2>0, <3>4, <4>1, PaintKept DEF Attempts
    <3>5. CASE LoadDone(a)
      <4>1. CASE run[a].aborted
        BY <3>1, <3>5, <4>1 DEF LoadDone
      <4>2. CASE ~run[a].aborted
        BY <3>4, <3>5, <4>2 DEF LoadDone, Places
      <4> QED
        BY <4>1, <4>2
    <3>6. CASE MountDone(a)
      <4>1. CASE run[a].aborted
        BY <3>1, <3>6, <4>1 DEF MountDone, EndAborted
      <4>2. CASE ~run[a].aborted
        <5>1. \A b \in Attempts : run'[b].sec = run[b].sec /\ (b # a => run'[b] = run[b])
          BY <2>0, <3>0, <3>6, <4>2 DEF MountDone, Record
        <5>2. UNCHANGED <<shown, active, activation>> /\ run[a].at # "mounting"
          BY <3>6, <4>2 DEF MountDone
        <5> QED
          BY <1>2, <2>0, <5>1, <5>2, PaintKept DEF Attempts
      <4> QED
        BY <4>1, <4>2
    <3> QED
      BY <2>7, <3>1, <3>2, <3>3, <3>5, <3>6 DEF AttemptStep, LoadFails, PrepareFails, MountFails
  <2> QED
    BY <1>2, <2>1, <2>5, <2>6, <2>7 DEF Next
<1> QED
  BY <1>1, <1>2, Invariant, PTL DEF Spec
-----------------------------------------------------------------------------
(* The address.  Unless the URL and the newest attempt have parted, that    *)
(* attempt is for the URL, and it ends with a notice or by being mounted.   *)

\* Nobody but itself ends the newest attempt.
NewestStands ==
  /\ run[activation].at # "unused"
  /\ run[activation].at # "over" => ~run[activation].aborted

UrlFollows ==
  ~crossed =>
    /\ run[activation].sec = url
    /\ run[activation].at = "over" => notice # 0
    /\ active = activation /\ run[active].at \in {"painted", "mounted"}
         => shown.url = url \/ Overpainted
    /\ url = Landing =>
         shown.url = Landing /\ \A b \in Attempts \ {activation} : run[b].at = "unused"

AddressInv == NewestStands /\ UrlFollows

LEMMA RunTyped ==
  ASSUME IInv
  PROVE  /\ run \in [Attempts -> Record] /\ activation \in Attempts
         /\ active \in 0 .. MaxAttempts /\ pending \in 0 .. MaxAttempts
         /\ shown.by \in 0 .. MaxAttempts /\ notice \in 0 .. MaxAttempts
         /\ url \in Urls /\ crossed \in BOOLEAN
         /\ \A b \in Attempts : b \in Nat /\ b # 0
         /\ active # 0 => active \in Attempts
BY DEF IInv, TypeOK, Record, Attempts

LEMMA AddressInit == Init => AddressInv
<1> SUFFICES ASSUME Init PROVE AddressInv
  OBVIOUS
<1> DEFINE first == [sec |-> url, at |-> "loading", aborted |-> FALSE, held |-> FALSE]
<1>1. 1 \in Attempts /\ \A a \in Attempts : run[a] = IF a = 1 THEN first ELSE Unused
  BY DEF Init, Attempts
<1>2. activation = 1 /\ active = 0 /\ shown.url = url
  BY DEF Init, Page
<1> QED
  BY <1>1, <1>2 DEF AddressInv, NewestStands, UrlFollows, Unused

\* A new attempt is the newest; it has to be for the URL, unless they part.
LEMMA AddressActivate ==
  ASSUME IInv, NEW sec \in Routes, Activate(sec), active' = active,
         ~crossed' => sec = url' /\ url' # Landing
  PROVE  AddressInv'
<1>1. activation' = activation + 1 /\ activation + 1 \in Attempts
  BY RunTyped DEF Activate, Attempts
<1>2. active # activation + 1
  BY <1>1 DEF IInv, TypeOK, OneLiveSection, Numbered, Committed, Attempts
<1>3. CancelPending(run) \in [Attempts -> Record]
  BY RunTyped, AbortedType DEF CancelPending
<1>4. run'[activation + 1] = Launched(sec)
  BY <1>1, <1>3 DEF Activate
<1>5. Launched(sec).at \in {"loading", "preparing"} /\ ~Launched(sec).aborted
      /\ Launched(sec).sec = sec
  BY DEF Launched
<1> QED
  BY <1>1, <1>2, <1>4, <1>5 DEF AddressInv, NewestStands, UrlFollows

LEMMA AddressHardLoad ==
  ASSUME IInv, NEW u \in Routes, HardLoad(u)
  PROVE  AddressInv'
<1> DEFINE first == [sec |-> u, at |-> "loading", aborted |-> FALSE, held |-> FALSE]
<1>1. activation + 1 \in Attempts
      /\ \A a \in Attempts : run'[a] = IF a = activation + 1 THEN first ELSE Unused
  BY RunTyped DEF HardLoad, Attempts
<1>2. activation' = activation + 1 /\ active' = 0 /\ shown'.url = u /\ url' = u
      /\ activation + 1 # 0
  BY RunTyped DEF HardLoad, Page
<1> QED
  BY <1>1, <1>2 DEF AddressInv, NewestStands, UrlFollows, Unused

\* The content is replaced behind the registry's back only where the URL has left it.
LEMMA AddressParts ==
  ASSUME AddressInv, UNCHANGED <<run, activation>>, crossed'
  PROVE  AddressInv'
BY DEF AddressInv, NewestStands, UrlFollows

LEMMA AddressNavigate ==
  ASSUME IInv, AddressInv, NEW u \in Urls, Navigate(u)
  PROVE  AddressInv'
<1>1. CASE u = Landing /\ active # 0
  BY <1>1, AddressHardLoad DEF Navigate, Routes
<1>2. CASE ~(u = Landing /\ active # 0) /\ u = Unknown
  BY <1>2, AddressParts DEF Navigate, ShowNotFound
<1>3. CASE ~(u = Landing /\ active # 0) /\ u # Unknown
  BY <1>3, AddressActivate DEF Navigate, Urls
<1> QED
  BY <1>1, <1>2, <1>3

LEMMA AddressLanguage ==
  ASSUME IInv, AddressInv, SwitchLanguage
  PROVE  AddressInv'
<1>1. CASE url = Landing
  BY <1>1, AddressHardLoad DEF SwitchLanguage, Routes
<1>2. CASE url # Landing /\ active = 0 /\ url = Unknown
  <2>1. run[activation].sec # Unknown
    BY RunTyped DEF Record, Routes
  <2> QED
    BY <1>2, <2>1, RunTyped, AddressParts DEF AddressInv, UrlFollows, SwitchLanguage, ShowNotFound
<1>3. CASE url # Landing /\ active = 0 /\ url # Unknown
  <2>1. Activate(url) /\ url \in Routes /\ UNCHANGED <<active, url>>
    BY <1>3, RunTyped DEF SwitchLanguage, Urls
  <2> QED
    BY <1>3, <2>1, AddressActivate
<1>4. CASE url # Landing /\ active # 0
  <2>1. run[active].sec \in Routes
    BY <1>4, RunTyped DEF Record
  <2>2. /\ Activate(run[active].sec) /\ UNCHANGED <<active, url>>
        /\ ~crossed' => run[active].sec = url
    BY <1>4 DEF SwitchLanguage
  <2>3. ~crossed' => run[active].sec = url' /\ url' # Landing
    BY <1>4, <2>2
  <2> QED
    BY <2>1, <2>2, <2>3, AddressActivate
<1> QED
  BY <1>1, <1>2, <1>3, <1>4

\* What ends the newest attempt is said.
LEMMA AddressEnd ==
  ASSUME IInv, AddressInv, NEW a \in Attempts, NEW reported \in BOOLEAN, End(a, reported),
         run[a].at # "unused", a = activation => reported,
         UNCHANGED <<activation, url, shown>>, ~crossed' => ~crossed
  PROVE  AddressInv'
<1> DEFINE ended == [Aborted(run[a]) EXCEPT !.at = "over"]
<1>1. ended.at = "over" /\ ended.sec = run[a].sec
  BY RunTyped, AbortedType DEF Record
<1>2. run' = [run EXCEPT ![a] = ended]
  BY DEF End
<1> HIDE DEF ended
<1>3. \A b \in Attempts : run'[b] = IF b = a THEN ended ELSE run[b]
  BY <1>2, RunTyped
<1>4. \A b \in Attempts : run'[b].sec = run[b].sec
  BY <1>1, <1>3
<1>5. active' = IF active = a THEN 0 ELSE active
  BY DEF End
<1>6. NewestStands'
  BY <1>1, <1>3, RunTyped DEF AddressInv, NewestStands
<1>7. ASSUME ~crossed' PROVE run'[activation].at = "over" => notice' # 0
  BY <1>3, <1>7, RunTyped DEF AddressInv, UrlFollows, End, Notice
<1>8. ASSUME ~crossed', active' = activation, run'[active'].at \in {"painted", "mounted"}
      PROVE  shown.url = url \/ Overpainted'
  <2>1. active' = active /\ active # a /\ run'[active] = run[active]
    BY <1>3, <1>5, <1>8, RunTyped
  <2>2. shown.url = url \/ Overpainted
    BY <1>8, <2>1 DEF AddressInv, UrlFollows
  <2>3. shown.by # 0 => run'[shown.by].sec = run[shown.by].sec
    BY <1>4, RunTyped DEF Attempts
  <2> QED
    BY <2>1, <2>2, <2>3 DEF Overpainted
<1>9. ASSUME ~crossed', url = Landing
      PROVE  shown.url = Landing /\ \A b \in Attempts \ {activation} : run'[b].at = "unused"
  BY <1>3, <1>9 DEF AddressInv, UrlFollows
<1> QED
  BY <1>4, <1>6, <1>7, <1>8, <1>9, RunTyped DEF AddressInv, UrlFollows

\* An attempt that moves on, to a place where it has painted what is there already.
LEMMA AddressStep ==
  ASSUME IInv, AddressInv, NEW a \in Attempts, NEW r \in Record,
         run' = [run EXCEPT ![a] = r], r.sec = run[a].sec, r.aborted = run[a].aborted,
         run[a].at \notin {"unused", "over"}, r.at \notin {"unused", "over"},
         r.at \in {"painted", "mounted"} => run[a].at = "painted",
         UNCHANGED <<activation, active, url, shown>>,
         ~crossed' => ~crossed /\ (a = activation \/ notice' = notice)
  PROVE  AddressInv'
<1>1. \A b \in Attempts : run'[b] = IF b = a THEN r ELSE run[b]
  BY RunTyped
<1>2. NewestStands'
  BY <1>1, RunTyped DEF AddressInv, NewestStands
<1>3. ASSUME ~crossed', active = activation, run'[active].at \in {"painted", "mounted"}
      PROVE  shown.url = url \/ Overpainted'
  <2>1. run[active].at \in {"painted", "mounted"}
    BY <1>1, <1>3, RunTyped
  <2>2. shown.url = url \/ Overpainted
    BY <1>3, <2>1 DEF AddressInv, UrlFollows
  <2>3. shown.by # 0 => run'[shown.by].sec = run[shown.by].sec
    BY <1>1, RunTyped DEF Attempts
  <2> QED
    BY <2>2, <2>3 DEF Overpainted
<1>4. ASSUME ~crossed', url = Landing
      PROVE  shown.url = Landing /\ \A b \in Attempts \ {activation} : run'[b].at = "unused"
  BY <1>1, <1>4 DEF AddressInv, UrlFollows
<1>5. ASSUME ~crossed' PROVE run'[activation].sec = url /\ (run'[activation].at = "over" => notice' # 0)
  BY <1>1, <1>5, RunTyped DEF AddressInv, UrlFollows
<1> QED
  BY <1>2, <1>3, <1>4, <1>5 DEF AddressInv, UrlFollows

\* The newest attempt shows its own section, but a landing, whose root is there
\* from the server, and which commits only as the first of its document.
LEMMA AddressCommit ==
  ASSUME IInv, AddressInv, NEW a \in Attempts, Commit(a)
  PROVE  AddressInv'
<1>1. a = activation /\ a # active /\ a # 0
  BY RunTyped DEF IInv, OneLiveSection, Commit, NotReplaced, Committed
<1>2. run[a] \in Record /\ ~run[a].aborted
  BY RunTyped DEF Commit, NotReplaced
<1>3. Mounting(a).sec = run[a].sec /\ ~Mounting(a).aborted
      /\ Mounting(a).at = (IF run[a].sec \in Late THEN "mounting" ELSE "painted")
  BY <1>2 DEF Mounting, Record
<1>4. run'[a] = Mounting(a) /\ \A b \in Attempts \ {a} : b # active => run'[b] = run[b]
  <2>1. \A b \in Attempts : b # active => Teardown(a)[b] = run[b]
    BY DEF Teardown
  <2>2. DOMAIN Teardown(a) = Attempts
    BY DEF Teardown
  <2>3. run' = [Teardown(a) EXCEPT ![a] = Mounting(a)]
    BY DEF Commit
  <2> QED
    BY <2>1, <2>2, <2>3
<1>5. active' = a /\ shown' = Painting(a) /\ UNCHANGED <<activation, url, crossed>>
  BY DEF Commit
<1>6. NewestStands'
  BY <1>1, <1>3, <1>4, <1>5 DEF NewestStands
<1>7. CASE crossed
  BY <1>5, <1>6, <1>7 DEF AddressInv, UrlFollows
<1>8. CASE ~crossed /\ url # Landing
  <2>1. run[a].sec = url
    BY <1>1, <1>8 DEF AddressInv, UrlFollows
  <2>2. url \notin Late => shown'.url = url
    BY <1>5, <1>8, <2>1 DEF Painting, Page
  <2> QED
    BY <1>1, <1>3, <1>4, <1>5, <1>6, <1>8, <2>1, <2>2 DEF AddressInv, UrlFollows
<1>9. CASE ~crossed /\ url = Landing
  <2>1. run[a].sec = url /\ shown.url = Landing /\ \A b \in Attempts \ {a} : run[b].at = "unused"
    BY <1>1, <1>9 DEF AddressInv, UrlFollows
  <2>2. active = 0
    BY <1>1, <2>1, RunTyped DEF IInv, OneLiveSection, Committed
  <2>3. shown' = shown
    BY <1>5, <1>9, <2>1, <2>2 DEF Painting
  <2>4. \A b \in Attempts \ {a} : run'[b].at = "unused"
    BY <1>4, <2>1, <2>2, RunTyped
  <2> QED
    BY <1>1, <1>3, <1>4, <1>5, <1>6, <1>9, <2>1, <2>3, <2>4 DEF AddressInv, UrlFollows
<1> QED
  BY <1>7, <1>8, <1>9

\* A late paint is of the newest attempt, or it is an overpainting.
LEMMA AddressPaint ==
  ASSUME IInv, AddressInv, NEW a \in Attempts, PaintLate(a)
  PROVE  AddressInv'
<1>1. run[a] \in Record /\ run[a].at = "mounting" /\ run[a].sec \in Late /\ run[a].sec # Landing
  BY RunTyped DEF IInv, LateOnly, PaintLate
<1> DEFINE after == [run[a] EXCEPT !.at = "painted", !.held = TRUE]
<1>2. after.sec = run[a].sec /\ after.aborted = run[a].aborted /\ after.at = "painted"
  BY <1>1 DEF Record
<1>3. run' = [run EXCEPT ![a] = after]
  BY DEF PaintLate
<1> HIDE DEF after
<1>4. \A b \in Attempts : run'[b] = IF b = a THEN after ELSE run[b]
  BY <1>3, RunTyped
<1>5. shown'.url = run[a].sec /\ shown'.by = a /\ UNCHANGED <<activation, active, url, notice, crossed>>
  BY DEF PaintLate, Page
<1>6. NewestStands'
  BY <1>1, <1>2, <1>4, <1>5, RunTyped DEF AddressInv, NewestStands
<1>7. ASSUME ~crossed PROVE UrlFollows'
  <2>1. url # Landing
    BY <1>1, <1>7 DEF AddressInv, UrlFollows
  <2>2. a # active => Overpainted'
    BY <1>1, <1>2, <1>4, <1>5, RunTyped DEF Overpainted
  <2>3. a = activation => shown'.url = url
    BY <1>5, <1>7 DEF AddressInv, UrlFollows
  <2>4. active' = activation /\ run'[active'].at \in {"painted", "mounted"} => shown'.url = url \/ Overpainted'
    BY <1>5, <2>2, <2>3
  <2>5. run'[activation].sec = url /\ (run'[activation].at = "over" => notice # 0)
    BY <1>2, <1>4, <1>7, RunTyped DEF AddressInv, UrlFollows
  <2> QED
    BY <1>5, <1>7, <2>1, <2>4, <2>5 DEF UrlFollows
<1>8. CASE crossed
  BY <1>5, <1>6, <1>8 DEF AddressInv, UrlFollows
<1> QED
  BY <1>6, <1>7, <1>8 DEF AddressInv

LEMMA AddressAttempt ==
  ASSUME IInv, AddressInv, NEW a \in Attempts, AttemptStep(a)
  PROVE  AddressInv'
<1>1. run[a] \in Record /\ run[a].at \in Places /\ run[a].aborted \in BOOLEAN
  BY RunTyped DEF Record
<1>2. run[a].at \notin {"unused", "over"} /\ run[a].aborted => a # activation
  BY DEF AddressInv, NewestStands
<1>3. CASE LoadDone(a)
  <2>1. CASE run[a].aborted
    BY <1>2, <1>3, <2>1, AddressEnd DEF LoadDone
  <2>2. CASE ~run[a].aborted
    <3> DEFINE after == [run[a] EXCEPT !.at = "preparing", !.held = TRUE]
    <3>1. after \in Record /\ after.sec = run[a].sec /\ after.aborted = run[a].aborted
          /\ after.at = "preparing"
      BY <1>1 DEF Record, Places
    <3>2. run' = [run EXCEPT ![a] = after] /\ run[a].at = "loading"
          /\ UNCHANGED <<activation, active, url, shown, crossed, notice>>
      BY <1>3, <2>2 DEF LoadDone
    <3> HIDE DEF after
    <3> QED
      BY <3>1, <3>2, AddressStep
  <2> QED
    BY <2>1, <2>2
<1>4. CASE LoadFails(a)
  BY <1>4, AddressEnd DEF LoadFails
<1>5. CASE PrepareFails(a)
  <2>1. CASE run[a].aborted
    BY <1>2, <1>5, <2>1, AddressEnd DEF PrepareFails
  <2>2. CASE ~run[a].aborted
    BY <1>1, <1>5, <2>2, AddressEnd DEF PrepareFails
  <2> QED
    BY <2>1, <2>2
<1>6. ASSUME NEW reported \in BOOLEAN, MountFails(a, reported) PROVE AddressInv'
  BY <1>2, <1>6, AddressEnd DEF MountFails
<1>7. CASE MountDone(a)
  <2>1. CASE run[a].aborted
    BY <1>2, <1>7, <2>1, AddressEnd DEF MountDone, EndAborted
  <2>2. CASE ~run[a].aborted
    <3> DEFINE after == [run[a] EXCEPT !.at = "mounted"]
    <3>1. after \in Record /\ after.sec = run[a].sec /\ after.aborted = run[a].aborted
          /\ after.at = "mounted"
      BY <1>1 DEF Record, Places
    <3>2. run' = [run EXCEPT ![a] = after] /\ run[a].at = "painted" /\ notice' = 0
          /\ UNCHANGED <<activation, active, url, shown>>
          /\ crossed' = (crossed \/ (notice # 0 /\ a # activation))
      BY <1>7, <2>2 DEF MountDone
    <3> HIDE DEF after
    <3> QED
      BY <3>1, <3>2, AddressStep
  <2> QED
    BY <2>1, <2>2
<1> QED
  BY <1>3, <1>4, <1>5, <1>6, <1>7, AddressCommit, AddressPaint DEF AttemptStep

\* A page that has settled shows what its address says, or says that it could
\* not, whatever was started, dropped and answered late on the way there.
THEOREM UrlTheorem == Spec => []UrlIsShown
<1>1. IInv /\ AddressInv /\ [Next]_vars => AddressInv'
  <2>1. ASSUME IInv, AddressInv, UNCHANGED vars PROVE AddressInv'
    BY <2>1 DEF AddressInv, NewestStands, UrlFollows, Overpainted, vars
  <2> QED
    BY <2>1, AddressNavigate, AddressLanguage, AddressAttempt DEF Next
<1>2. ASSUME IInv, AddressInv PROVE UrlIsShown
  <2> SUFFICES ASSUME pending = 0, active # 0, run[active].at = "mounted", notice = 0, ~crossed
               PROVE  shown.url = url \/ Overpainted
    BY DEF UrlIsShown
  <2>1. run[activation].at \in Places \ {"unused", "over"} /\ ~run[activation].aborted
    BY <1>2, RunTyped DEF AddressInv, NewestStands, UrlFollows, Record
  <2>2. activation = active
    BY <1>2, <2>1, RunTyped DEF IInv, OneLiveSection, Committed, Places
  <2> QED
    BY <1>2, <2>2 DEF AddressInv, UrlFollows
<1> QED
  BY <1>1, <1>2, AddressInit, Invariant, PTL DEF Spec
=============================================================================
