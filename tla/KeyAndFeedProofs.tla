------------------------- MODULE KeyAndFeedProofs --------------------------
(***************************************************************************)
(* Proofs about the two parts of MCKeyAndFeed.                             *)
(*                                                                         *)
(* The account key (AccountCrypto), for any number of tabs and browsers    *)
(* and any number of passwords and keys: a tab that holds a link of the    *)
(* current password has fetched the wraps as they still are, since nothing *)
(* but a reset or a first bootstrap may replace them; so what it re-wraps  *)
(* is the account's key.  And as long as nothing went wrong every key      *)
(* outside a bootstrap under way is the account's.                         *)
(*                                                                         *)
(* The live feed (LiveStream), for any number of connections and frames:   *)
(* every step changes the server by one of a few operations on its record, *)
(* each of which keeps the count of slots right; and only connections that *)
(* hold a slot are ever hung up, since the page's own is always one.  Ring *)
(* and specimens both end with the newest frame, and the ring is shorter.  *)
(*                                                                         *)
(* The page that reads the feed: frames on their way are in order, and     *)
(* each was taken already or is newer than all that were; so a frame the   *)
(* page does not remember belongs on top.  A replay brings back none that  *)
(* was passed over, for frames are numbered one by one and the page        *)
(* remembers no fewer than a replay has.                                   *)
(***************************************************************************)
EXTENDS MCKeyAndFeed, Sequences, SequenceTheorems, FiniteSetTheorems, WellFoundedInduction, TLAPS

Modes == {"none", "rotate", "recover", "wipe"}
Places == {"idle", "opening", "resetForm"} \cup Asking \cup Reading
Keyed == {"setup", "setupBody", "save", "saveBody"}
InReset == {"resetForm", "reset", "resetBcrypt"}

\* What a tab's step turns into, field by field.
Becomes(t, a, w, p, k, m) ==
  /\ doing' \in [Tabs -> Step]
  /\ doing'[t].at = a /\ doing'[t].seen = w /\ doing'[t].pw = p /\ doing'[t].key = k
  /\ doing'[t].mode = m
  /\ \A o \in Tabs \ {t} : doing'[o] = doing[o]

\* A link of the current password goes with the wraps of the account.
LinkSeesWraps ==
  \A t \in Tabs : doing[t].pw <= hash /\
    (~stale /\ doing[t].at \in InReset /\ doing[t].pw = hash /\ doing[t].seen # Unset
       => doing[t].seen = wraps)

\* What a submitted reset carries is what it unwrapped.
CarriesUnwrapped ==
  \A t \in Tabs : doing[t].at \in {"reset", "resetBcrypt"} =>
    /\ doing[t].mode \in {"rotate", "recover", "wipe"}
    /\ doing[t].mode # "wipe" => doing[t].seen # Unset
    /\ doing[t].mode = "rotate" => doing[t].key = doing[t].seen.dek
    /\ doing[t].mode = "recover" => doing[t].key = doing[t].seen.rec

\* Outside a bootstrap every key there is, is the account's.
Sound == ~stale /\ ~refused /\ ~wiped

OneKey ==
  Sound => \A t \in Tabs :
    /\ doing[t].at \notin {"setup", "setupBody"} => dek[t] \in {0, wraps.dek}
    /\ doing[t].at \in {"setup", "setupBody"} => dek[t] = doing[t].key
    /\ doing[t].at \in {"save", "saveBody"} => doing[t].key = wraps.dek
    /\ doing[t].seen # Unset =>
         wraps # Unset /\ doing[t].seen.dek = wraps.dek /\ doing[t].seen.rec = wraps.rec

Inv ==
  /\ TypeOK /\ LinkSeesWraps /\ CarriesUnwrapped
  /\ WrapsMatchAccount /\ OneKey /\ LibraryReadable

USE BrowserAssumption, BoundAssumption

-----------------------------------------------------------------------------
LEMMA StepType ==
  ASSUME TypeOK, NEW t \in Tabs
  PROVE  /\ doing[t].at \in Places /\ doing[t].seen \in Wraps /\ doing[t].pw \in 0 .. MaxHash
         /\ doing[t].key \in 0 .. MaxKeys /\ doing[t].mode \in Modes
         /\ doing[t].at \in Keyed => doing[t].key # 0
BY DEF TypeOK, Step, Places, Modes, Keyed

LEMMA UnsetType == Unset \in Wraps /\ Unset.pw = 0 /\ Unset.dek = 0 /\ Unset.rec = 0
BY DEF Unset, Wraps

LEMMA IdleType ==
  /\ Idle \in Step
  /\ Idle.at = "idle" /\ Idle.seen = Unset /\ Idle.pw = 0 /\ Idle.key = 0 /\ Idle.mode = "none"
BY UnsetType DEF Idle, Step

\* The record forms the actions use.
LEMMA Goes ==
  ASSUME NEW A, NEW W, NEW P, NEW K, NEW M, NEW r \in [at : A, seen : W, pw : P, key : K, mode : M],
         NEW a \in A, NEW k \in K, NEW m \in M, NEW s, s = [r EXCEPT !.at = a, !.key = k, !.mode = m]
  PROVE  /\ s \in [at : A, seen : W, pw : P, key : K, mode : M]
         /\ s.at = a /\ s.seen = r.seen /\ s.pw = r.pw /\ s.key = k /\ s.mode = m
OBVIOUS

LEMMA GoesWithKey ==
  ASSUME NEW A, NEW W, NEW P, NEW K, NEW M, NEW r \in [at : A, seen : W, pw : P, key : K, mode : M],
         NEW a \in A, NEW k \in K, NEW s, s = [r EXCEPT !.at = a, !.key = k]
  PROVE  /\ s \in [at : A, seen : W, pw : P, key : K, mode : M]
         /\ s.at = a /\ s.seen = r.seen /\ s.pw = r.pw /\ s.key = k /\ s.mode = r.mode
OBVIOUS

LEMMA GoesTo ==
  ASSUME NEW A, NEW W, NEW P, NEW K, NEW M, NEW r \in [at : A, seen : W, pw : P, key : K, mode : M],
         NEW a \in A, NEW s, s = [r EXCEPT !.at = a]
  PROVE  /\ s \in [at : A, seen : W, pw : P, key : K, mode : M]
         /\ s.at = a /\ s.seen = r.seen /\ s.pw = r.pw /\ s.key = r.key /\ s.mode = r.mode
OBVIOUS

LEMMA Fetches ==
  ASSUME NEW A, NEW W, NEW P, NEW K, NEW M, NEW r \in [at : A, seen : W, pw : P, key : K, mode : M],
         NEW a \in A, NEW w \in W, NEW p \in P, NEW s, s = [r EXCEPT !.at = a, !.seen = w, !.pw = p]
  PROVE  /\ s \in [at : A, seen : W, pw : P, key : K, mode : M]
         /\ s.at = a /\ s.seen = w /\ s.pw = p /\ s.key = r.key /\ s.mode = r.mode
OBVIOUS

Fieldwise == [at : Places, seen : Wraps, pw : 0 .. MaxHash, key : 0 .. MaxKeys, mode : Modes]

LEMMA StepFields ==
  /\ \A s \in Fieldwise : (s.at \in Keyed => s.key # 0) => s \in Step
  /\ \A s \in Step : s \in Fieldwise /\ (s.at \in Keyed => s.key # 0)
BY DEF Step, Fieldwise, Places, Modes, Keyed

LEMMA Becoming ==
  ASSUME TypeOK, NEW t \in Tabs, NEW s \in Fieldwise, s.at \in Keyed => s.key # 0,
         doing' = [doing EXCEPT ![t] = s]
  PROVE  Becomes(t, s.at, s.seen, s.pw, s.key, s.mode)
<1>1. s \in Step /\ doing \in [Tabs -> Step]
  BY StepFields DEF TypeOK
<1> QED
  BY <1>1 DEF Becomes

LEMMA NowIdle ==
  ASSUME TypeOK, NEW t \in Tabs, Now(t, Idle)
  PROVE  Becomes(t, "idle", Unset, 0, 0, "none")
<1>1. Idle \in Fieldwise /\ Idle.at \notin Keyed
  BY IdleType, StepFields DEF Keyed
<1> QED
  BY <1>1, IdleType, Becoming DEF Now

LEMMA NowFetched ==
  ASSUME TypeOK, NEW t \in Tabs, NEW a \in {"opening", "resetForm"}, NEW w \in Wraps, NEW p \in 0 .. MaxHash,
         Now(t, [Idle EXCEPT !.at = a, !.seen = w, !.pw = p])
  PROVE  Becomes(t, a, w, p, 0, "none")
<1> DEFINE s == [Idle EXCEPT !.at = a, !.seen = w, !.pw = p]
<1>1. Idle \in Fieldwise /\ a \in Places /\ a \notin Keyed
  BY IdleType, StepFields DEF Keyed, Places
<1>2. s \in Fieldwise /\ s.at = a /\ s.seen = w /\ s.pw = p /\ s.key = 0 /\ s.mode = "none"
  BY <1>1, IdleType, Fetches DEF Fieldwise
<1>3. doing' = [doing EXCEPT ![t] = s]
  BY DEF Now
<1> HIDE DEF s
<1> QED
  BY <1>1, <1>2, <1>3, Becoming

LEMMA NowAt ==
  ASSUME TypeOK, NEW t \in Tabs, NEW a \in Places, At(t, a), a \in Keyed => doing[t].key # 0
  PROVE  Becomes(t, a, doing[t].seen, doing[t].pw, doing[t].key, doing[t].mode)
<1> DEFINE s == [doing[t] EXCEPT !.at = a]
<1>1. doing[t] \in Fieldwise
  BY StepFields DEF TypeOK
<1>2. /\ s \in Fieldwise /\ s.at = a /\ s.seen = doing[t].seen /\ s.pw = doing[t].pw
      /\ s.key = doing[t].key /\ s.mode = doing[t].mode
  BY <1>1, GoesTo DEF Fieldwise
<1>3. doing' = [doing EXCEPT ![t] = s]
  BY DEF At
<1> HIDE DEF s
<1> QED
  BY <1>2, <1>3, Becoming

LEMMA NowWithKey ==
  ASSUME TypeOK, NEW t \in Tabs, NEW a \in Places, NEW k \in 0 .. MaxKeys, a \in Keyed => k # 0,
         Now(t, [doing[t] EXCEPT !.at = a, !.key = k])
  PROVE  Becomes(t, a, doing[t].seen, doing[t].pw, k, doing[t].mode)
<1> DEFINE s == [doing[t] EXCEPT !.at = a, !.key = k]
<1>1. doing[t] \in Fieldwise
  BY StepFields DEF TypeOK
<1>2. /\ s \in Fieldwise /\ s.at = a /\ s.seen = doing[t].seen /\ s.pw = doing[t].pw
      /\ s.key = k /\ s.mode = doing[t].mode
  BY <1>1, GoesWithKey DEF Fieldwise
<1>3. doing' = [doing EXCEPT ![t] = s]
  BY DEF Now
<1> HIDE DEF s
<1> QED
  BY <1>2, <1>3, Becoming

LEMMA NowInMode ==
  ASSUME TypeOK, NEW t \in Tabs, NEW a \in Places \ Keyed, NEW k \in 0 .. MaxKeys, NEW m \in Modes,
         Now(t, [doing[t] EXCEPT !.at = a, !.key = k, !.mode = m])
  PROVE  Becomes(t, a, doing[t].seen, doing[t].pw, k, m)
<1> DEFINE s == [doing[t] EXCEPT !.at = a, !.key = k, !.mode = m]
<1>1. doing[t] \in Fieldwise
  BY StepFields DEF TypeOK
<1>2. /\ s \in Fieldwise /\ s.at = a /\ s.seen = doing[t].seen /\ s.pw = doing[t].pw
      /\ s.key = k /\ s.mode = m
  BY <1>1, Goes DEF Fieldwise
<1>3. doing' = [doing EXCEPT ![t] = s]
  BY DEF Now
<1> HIDE DEF s
<1> QED
  BY <1>2, <1>3, Becoming

LEMMA NowSaving ==
  ASSUME TypeOK, NEW t \in Tabs, NEW k \in 1 .. MaxKeys, Now(t, [Idle EXCEPT !.at = "save", !.key = k])
  PROVE  Becomes(t, "save", Unset, 0, k, "none")
<1> DEFINE s == [Idle EXCEPT !.at = "save", !.key = k]
<1>1. Idle \in Fieldwise /\ "save" \in Places /\ k \in 0 .. MaxKeys /\ k # 0
  BY IdleType, StepFields DEF Places, Asking
<1>2. /\ s \in Fieldwise /\ s.at = "save" /\ s.seen = Unset /\ s.pw = 0 /\ s.key = k /\ s.mode = "none"
  BY <1>1, IdleType, GoesWithKey DEF Fieldwise
<1>3. doing' = [doing EXCEPT ![t] = s]
  BY DEF Now
<1> HIDE DEF s
<1> QED
  BY <1>1, <1>2, <1>3, Becoming

LEMMA NowBack ==
  ASSUME TypeOK, NEW t \in Tabs, BackToForm(t)
  PROVE  Becomes(t, "resetForm", doing[t].seen, doing[t].pw, 0, "none")
<1>1. "resetForm" \in Places \ Keyed /\ 0 \in 0 .. MaxKeys /\ "none" \in Modes
  BY DEF Places, Keyed, Modes
<1>2. Now(t, [doing[t] EXCEPT !.at = "resetForm", !.key = 0, !.mode = "none"])
  BY DEF BackToForm
<1> QED
  BY <1>1, <1>2, NowInMode

-----------------------------------------------------------------------------
(* What the actions make of a tab.                                         *)
Back(t) == Becomes(t, "resetForm", doing[t].seen, doing[t].pw, 0, "none")
Resting(t) == Becomes(t, "idle", Unset, 0, 0, "none")

LEMMA BasicTypes ==
  TypeOK => /\ hash \in 1 .. MaxHash /\ hash \in 0 .. MaxHash /\ wraps \in Wraps /\ made \in 0 .. MaxKeys
            /\ \A t \in Tabs : dek[t] \in 0 .. MaxKeys
BY DEF TypeOK

LEMMA LoginStep ==
  ASSUME TypeOK, NEW t \in Tabs, Login(t)
  PROVE  Becomes(t, "opening", wraps, hash, 0, "none")
BY BasicTypes, NowFetched DEF Login

LEMMA UnlockStep ==
  ASSUME TypeOK, NEW t \in Tabs, NEW pw \in 1 .. hash, Unlock(t, pw)
  PROVE  Becomes(t, "opening", wraps, pw, 0, "none")
<1>1. pw \in 0 .. MaxHash /\ wraps \in Wraps
  BY BasicTypes
<1> QED
  BY <1>1, NowFetched DEF Unlock

LEMMA OpenStep ==
  ASSUME TypeOK, NEW t \in Tabs, Open(t)
  PROVE  Resting(t)
BY NowIdle DEF Open, Resting

LEMMA BootstrapStep ==
  ASSUME TypeOK, NEW t \in Tabs, Bootstrap(t)
  PROVE  Becomes(t, "setup", doing[t].seen, doing[t].pw, made + 1, doing[t].mode)
<1>1. "setup" \in Places /\ made + 1 \in 0 .. MaxKeys /\ made + 1 # 0
  BY BasicTypes DEF Bootstrap, Places, Asking
<1> QED
  BY <1>1, NowWithKey DEF Bootstrap

LEMMA AskSetupStep ==
  ASSUME TypeOK, NEW t \in Tabs, AskSetup(t)
  PROVE  \/ /\ Becomes(t, "setupBody", doing[t].seen, doing[t].pw, doing[t].key, doing[t].mode)
            /\ refused' = refused /\ wraps = Unset
         \/ Resting(t) /\ refused' = TRUE
<1>1. "setupBody" \in Places /\ doing[t].key # 0
  BY StepType DEF AskSetup, Places, Reading, Keyed
<1>2. \/ At(t, "setupBody") /\ refused' = refused /\ wraps = Unset
      \/ Now(t, Idle) /\ refused' = TRUE
  BY DEF AskSetup
<1> QED
  BY <1>1, <1>2, NowAt, NowIdle DEF Resting

LEMMA StoreSetupStep ==
  ASSUME TypeOK, NEW t \in Tabs, NEW answered \in BOOLEAN, StoreSetup(t, answered)
  PROVE  Resting(t)
BY NowIdle DEF StoreSetup, Resting

LEMMA SaveStep ==
  ASSUME TypeOK, NEW t \in Tabs, Save(t)
  PROVE  dek[t] \in 1 .. MaxKeys /\ Becomes(t, "save", Unset, 0, dek[t], "none")
<1>1. dek[t] \in 1 .. MaxKeys
  BY BasicTypes DEF Save, HasSession
<1> QED
  BY <1>1, NowSaving DEF Save

LEMMA AskSaveStep ==
  ASSUME TypeOK, NEW t \in Tabs, AskSave(t)
  PROVE  \/ Becomes(t, "saveBody", doing[t].seen, doing[t].pw, doing[t].key, doing[t].mode)
         \/ Resting(t)
<1>1. "saveBody" \in Places /\ doing[t].key # 0
  BY StepType DEF AskSave, Places, Reading, Keyed
<1> QED
  BY <1>1, NowAt, NowIdle DEF AskSave, Resting

LEMMA StoreSaveStep ==
  ASSUME TypeOK, NEW t \in Tabs, NEW replaced, StoreSave(t, replaced)
  PROVE  Resting(t)
BY NowIdle DEF StoreSave, Resting

LEMMA OpenLinkStep ==
  ASSUME TypeOK, NEW t \in Tabs, OpenLink(t)
  PROVE  Becomes(t, "resetForm", wraps, hash, 0, "none")
BY BasicTypes, NowFetched DEF OpenLink

LEMMA SubmitStep ==
  ASSUME TypeOK, NEW t \in Tabs, NEW mode \in {"rotate", "recover", "wipe"}, SubmitReset(t, mode)
  PROVE  /\ Unwrapped(t, mode) \in 0 .. MaxKeys
         /\ Becomes(t, "reset", doing[t].seen, doing[t].pw, Unwrapped(t, mode), mode)
<1>1. "reset" \in Places \ Keyed /\ mode \in Modes
  BY DEF Places, Asking, Keyed, Modes
<1>2. doing[t].seen.dek \in 0 .. MaxKeys /\ doing[t].seen.rec \in 0 .. MaxKeys
  BY StepType DEF Wraps
<1>3. Unwrapped(t, mode) \in 0 .. MaxKeys
  BY <1>2 DEF Unwrapped
<1> QED
  BY <1>1, <1>3, NowInMode DEF SubmitReset

LEMMA AskResetStep ==
  ASSUME TypeOK, NEW t \in Tabs, AskReset(t)
  PROVE  \/ Becomes(t, "resetBcrypt", doing[t].seen, doing[t].pw, doing[t].key, doing[t].mode)
         \/ Back(t)
<1>1. "resetBcrypt" \in Places /\ "resetBcrypt" \notin Keyed
  BY DEF Places, Reading, Keyed
<1> QED
  BY <1>1, NowAt, NowBack DEF AskReset, Back

LEMMA StoreResetStep ==
  ASSUME TypeOK, NEW t \in Tabs, NEW answered \in BOOLEAN, StoreReset(t, answered)
  PROVE  Resting(t) \/ Back(t)
BY NowIdle, NowBack DEF StoreReset, Resting, Back

LEMMA GiveUpStep ==
  ASSUME TypeOK, NEW t \in Tabs, GiveUp(t)
  PROVE  (Resting(t) \/ Back(t)) /\ (Back(t) \/ doing[t].at \notin {"reset", "resetBcrypt"})
BY NowIdle, NowBack DEF GiveUp, Resting, Back

LEMMA ReloadStep ==
  ASSUME TypeOK, NEW t \in Tabs, NEW fetched \in BOOLEAN, Reload(t, fetched)
  PROVE  Resting(t)
BY NowIdle DEF Reload, Resting

-----------------------------------------------------------------------------
(* The moves of a tab, and types.                                          *)
Act(t) ==
  \/ Login(t) \/ (\E pw \in 1 .. hash : Unlock(t, pw)) \/ Open(t) \/ Bootstrap(t) \/ AskSetup(t)
  \/ (\E answered \in BOOLEAN : StoreSetup(t, answered)) \/ Save(t) \/ AskSave(t)
  \/ (\E replaced \in {{}} \cup {{k} : k \in library} : StoreSave(t, replaced))
  \/ OpenLink(t) \/ AskReset(t) \/ (\E mode \in {"rotate", "recover", "wipe"} : SubmitReset(t, mode))
  \/ (\E answered \in BOOLEAN : StoreReset(t, answered)) \/ GiveUp(t)
  \/ (\E reached \in BOOLEAN : SignOut(t, reached)) \/ (\E fetched \in BOOLEAN : Reload(t, fetched))

LEMMA Acts ==
  ASSUME [Next]_vars
  PROVE  UNCHANGED vars \/ (\E t \in Tabs : Act(t)) \/ \E b \in Browsers : SessionLost(b)
BY DEF Next, KeyStep, ResetStep, TabStep, Act

Tabled ==
  /\ hash \in 1 .. MaxHash /\ wraps \in Wraps
  /\ library \subseteq 1 .. MaxKeys /\ known \subseteq 1 .. MaxKeys
  /\ jar \in [Browsers -> 0 .. MaxHash] /\ signedIn \in [Tabs -> BOOLEAN]
  /\ dek \in [Tabs -> 0 .. MaxKeys]
  /\ made \in 0 .. MaxKeys

Flags == stale \in BOOLEAN /\ refused \in BOOLEAN /\ wiped \in BOOLEAN

LEMMA TypeParts == TypeOK <=> Tabled /\ Flags /\ doing \in [Tabs -> Step]
BY DEF TypeOK, Tabled, Flags

LEMMA DoingTypes == TypeOK /\ [Next]_vars => doing' \in [Tabs -> Step]
<1> SUFFICES ASSUME TypeOK, [Next]_vars PROVE doing' \in [Tabs -> Step]
  OBVIOUS
<1>0. doing \in [Tabs -> Step]
  BY DEF TypeOK
<1>1. ASSUME NEW t \in Tabs, Act(t) PROVE doing' = doing \/ \E a, w, p, k, m : Becomes(t, a, w, p, k, m)
  <2>1. Login(t) \/ (\E pw \in 1 .. hash : Unlock(t, pw)) \/ Open(t) \/ Bootstrap(t) \/ AskSetup(t)
        => \E a, w, p, k, m : Becomes(t, a, w, p, k, m)
    BY LoginStep, UnlockStep, OpenStep, BootstrapStep, AskSetupStep DEF Resting
  <2>2. (\E answered \in BOOLEAN : StoreSetup(t, answered)) \/ Save(t) \/ AskSave(t)
        \/ (\E replaced \in {{}} \cup {{k} : k \in library} : StoreSave(t, replaced))
        => \E a, w, p, k, m : Becomes(t, a, w, p, k, m)
    BY StoreSetupStep, SaveStep, AskSaveStep, StoreSaveStep DEF Resting
  <2>3. OpenLink(t) \/ AskReset(t) \/ (\E mode \in {"rotate", "recover", "wipe"} : SubmitReset(t, mode))
        => \E a, w, p, k, m : Becomes(t, a, w, p, k, m)
    BY OpenLinkStep, AskResetStep, SubmitStep DEF Back
  <2>4. (\E answered \in BOOLEAN : StoreReset(t, answered)) \/ GiveUp(t)
        \/ (\E fetched \in BOOLEAN : Reload(t, fetched))
        => \E a, w, p, k, m : Becomes(t, a, w, p, k, m)
    BY StoreResetStep, GiveUpStep, ReloadStep DEF Resting, Back
  <2>5. (\E reached \in BOOLEAN : SignOut(t, reached)) => doing' = doing
    BY DEF SignOut
  <2> QED
    BY <1>1, <2>1, <2>2, <2>3, <2>4, <2>5 DEF Act
<1>2. UNCHANGED vars \/ (\E b \in Browsers : SessionLost(b)) => doing' = doing
  BY DEF vars, SessionLost
<1> QED
  BY <1>0, <1>1, <1>2, Acts DEF Becomes

LEMMA RewrappedIs ==
  ASSUME TypeOK, NEW t \in Tabs, hash + 1 \in 0 .. MaxHash
  PROVE  /\ Rewrapped(t) \in Wraps /\ Rewrapped(t).pw = hash + 1
         /\ Rewrapped(t).dek = doing[t].key /\ Rewrapped(t).rec = wraps.rec
<1>1. wraps \in Wraps /\ doing[t].key \in 0 .. MaxKeys
  BY BasicTypes, StepType
<1>2. PICK p \in 0 .. MaxHash : p = hash + 1
  OBVIOUS
<1>3. PICK d \in 0 .. MaxKeys : d = doing[t].key
  BY <1>1
<1>4. Rewrapped(t) = [wraps EXCEPT !.pw = p, !.dek = d]
  BY <1>2, <1>3 DEF Rewrapped
<1> DEFINE w == [wraps EXCEPT !.pw = p, !.dek = d]
<1>5. w \in Wraps /\ w.pw = p /\ w.dek = d /\ w.rec = wraps.rec
  BY <1>1 DEF Wraps
<1> HIDE DEF w
<1>6. Rewrapped(t) = w
  BY <1>4 DEF w
<1> QED
  BY <1>2, <1>3, <1>5, <1>6

LEMMA TabledStep == TypeOK /\ [Next]_vars => Tabled'
<1> SUFFICES ASSUME TypeOK, [Next]_vars PROVE Tabled'
  OBVIOUS
<1> USE DEF Tabled, server
<1>0. Tabled /\ doing \in [Tabs -> Step]
  BY TypeParts
<1>1. ASSUME NEW t \in Tabs, Login(t) PROVE Tabled'
  BY <1>0, <1>1 DEF Login
<1>2. ASSUME NEW t \in Tabs, NEW pw \in 1 .. hash, Unlock(t, pw) PROVE Tabled'
  BY <1>0, <1>2 DEF Unlock
<1>3. ASSUME NEW t \in Tabs, Open(t) PROVE Tabled'
  BY <1>0, <1>3, StepType DEF Open, Wraps
<1>4. ASSUME NEW t \in Tabs, Bootstrap(t) PROVE Tabled'
  BY <1>0, <1>4 DEF Bootstrap
<1>5. ASSUME NEW t \in Tabs, AskSetup(t) PROVE Tabled'
  BY <1>0, <1>5 DEF AskSetup
<1>6. ASSUME NEW t \in Tabs, NEW answered \in BOOLEAN, StoreSetup(t, answered) PROVE Tabled'
  <2>1. doing[t].key \in 1 .. MaxKeys /\ doing[t].pw \in 0 .. MaxHash
    BY <1>6, StepType DEF StoreSetup, Keyed
  <2>2. wraps' = [pw |-> doing[t].pw, dek |-> doing[t].key, rec |-> doing[t].key]
        /\ known' = (IF answered THEN known \cup {doing[t].key} ELSE known)
        /\ UNCHANGED <<hash, library, jar, signedIn, dek, made>>
    BY <1>6 DEF StoreSetup
  <2>3. wraps' \in Wraps
    BY <2>1, <2>2 DEF Wraps
  <2> QED
    BY <1>0, <2>1, <2>2, <2>3
<1>7. ASSUME NEW t \in Tabs, Save(t) \/ AskSave(t) PROVE Tabled'
  BY <1>0, <1>7 DEF Save, AskSave
<1>8. ASSUME NEW t \in Tabs, NEW replaced, StoreSave(t, replaced) PROVE Tabled'
  <2>1. doing[t].key \in 1 .. MaxKeys
    BY <1>8, StepType DEF StoreSave, Keyed
  <2>2. library' = (library \ replaced) \cup {doing[t].key}
        /\ UNCHANGED <<hash, wraps, jar, signedIn, dek, known, made>>
    BY <1>8 DEF StoreSave
  <2> QED
    BY <1>0, <2>1, <2>2
<1>9. ASSUME NEW t \in Tabs, OpenLink(t) \/ AskReset(t) PROVE Tabled'
  BY <1>0, <1>9 DEF OpenLink, AskReset
<1>10. ASSUME NEW t \in Tabs, NEW mode \in {"rotate", "recover", "wipe"}, SubmitReset(t, mode) PROVE Tabled'
  BY <1>0, <1>10, SubmitStep DEF SubmitReset
<1>11. ASSUME NEW t \in Tabs, NEW answered \in BOOLEAN, StoreReset(t, answered) PROVE Tabled'
  <2>1. hash' = hash + 1 /\ hash' \in 1 .. MaxHash /\ UNCHANGED <<known, made>>
    BY <1>0, <1>11 DEF StoreReset
  <2>2. (wraps' = Unset /\ library' = {}) \/ (wraps' = Rewrapped(t) /\ library' = library)
    BY <1>11 DEF StoreReset
  <2>3. doing[t].key \in 0 .. MaxKeys
    BY StepType
  <2>4. wraps' \in Wraps
    <3>1. hash + 1 \in 0 .. MaxHash
      BY <1>0, <2>1
    <3>2. Rewrapped(t) \in Wraps
      BY <3>1, RewrappedIs
    <3> QED
      BY <2>2, <3>2, UnsetType
  <2>5. \/ UNCHANGED <<jar, signedIn, dek>>
        \/ /\ jar' = [jar EXCEPT ![BrowserOf[t]] = hash + 1] /\ signedIn' = [signedIn EXCEPT ![t] = TRUE]
           /\ dek' = dek \/ dek' = [dek EXCEPT ![t] = 0]
    BY <1>11 DEF StoreReset
  <2>6. hash + 1 \in 0 .. MaxHash /\ BrowserOf[t] \in Browsers
    BY <1>0, <2>1
  <2>7. jar' \in [Browsers -> 0 .. MaxHash] /\ signedIn' \in [Tabs -> BOOLEAN] /\ dek' \in [Tabs -> 0 .. MaxKeys]
    <3>1. jar' = jar \/ jar' = [jar EXCEPT ![BrowserOf[t]] = hash + 1]
      BY <2>5
    <3>2. signedIn' = signedIn \/ signedIn' = [signedIn EXCEPT ![t] = TRUE]
      BY <2>5
    <3>3. dek' = dek \/ dek' = [dek EXCEPT ![t] = 0]
      BY <2>5
    <3>4. jar' \in [Browsers -> 0 .. MaxHash]
      BY <1>0, <2>6, <3>1
    <3>5. signedIn' \in [Tabs -> BOOLEAN]
      BY <1>0, <3>2
    <3>6. dek' \in [Tabs -> 0 .. MaxKeys]
      BY <1>0, <3>3
    <3> QED
      BY <3>4, <3>5, <3>6
  <2> QED
    BY <1>0, <2>1, <2>2, <2>4, <2>7
<1>12. ASSUME NEW t \in Tabs, GiveUp(t) PROVE Tabled'
  BY <1>0, <1>12 DEF GiveUp
<1>13. ASSUME NEW t \in Tabs, NEW reached \in BOOLEAN, SignOut(t, reached) PROVE Tabled'
  BY <1>0, <1>13 DEF SignOut
<1>14. ASSUME NEW t \in Tabs, NEW fetched \in BOOLEAN, Reload(t, fetched) PROVE Tabled'
  <2>1. signedIn' = [signedIn EXCEPT ![t] = fetched /\ Valid(t)]
        /\ UNCHANGED <<hash, wraps, library, jar, known, made>>
    BY <1>14 DEF Reload
  <2>2. dek' = dek \/ dek' = [dek EXCEPT ![t] = 0]
    BY <1>14 DEF Reload
  <2>3. (fetched /\ Valid(t)) \in BOOLEAN
    OBVIOUS
  <2> QED
    BY <1>0, <2>1, <2>2, <2>3
<1>15. ASSUME NEW b \in Browsers, SessionLost(b) PROVE Tabled'
  BY <1>0, <1>15 DEF SessionLost
<1>16. UNCHANGED vars => Tabled'
  BY <1>0 DEF vars
<1> QED
  BY <1>1, <1>2, <1>3, <1>4, <1>5, <1>6, <1>7, <1>8, <1>9, <1>10, <1>11, <1>12, <1>13, <1>14, <1>15, <1>16, Acts
  DEF Act

\* How the three flags of the history move.
FlagMoves(t) ==
  /\ UNCHANGED stale \/ stale' = (stale \/ wraps # Unset \/ doing[t].pw # hash)
  /\ UNCHANGED refused \/ refused' = TRUE \/ refused' = (refused \/ doing[t].at \in {"setup", "setupBody"})
  /\ UNCHANGED wiped \/ wiped' = TRUE

LEMMA FlagsMove ==
  ASSUME NEW t \in Tabs, Act(t)
  PROVE  FlagMoves(t)
BY Zenon DEF FlagMoves, Act, Login, Unlock, Open, Bootstrap, AskSetup, StoreSetup, Save, AskSave, StoreSave,
   OpenLink, AskReset, SubmitReset, StoreReset, GiveUp, SignOut, Reload, history

LEMMA FlagsStep == TypeOK /\ [Next]_vars => Flags'
<1> SUFFICES ASSUME TypeOK, [Next]_vars PROVE Flags'
  OBVIOUS
<1> USE DEF Flags, history
<1>0. Flags
  BY TypeParts
<1>1. ASSUME NEW t \in Tabs, Act(t) PROVE FlagMoves(t)
  BY <1>1, FlagsMove
<1>2. UNCHANGED vars \/ (\E b \in Browsers : SessionLost(b)) => UNCHANGED <<stale, refused, wiped>>
  BY DEF vars, SessionLost
<1>3. \A p, q, r : (p \/ q \/ r) \in BOOLEAN /\ (p \/ q) \in BOOLEAN
  BY Zenon
<1>4. ASSUME NEW t \in Tabs, Act(t) PROVE Flags'
  BY <1>0, <1>1, <1>3, <1>4, Zenon DEF FlagMoves
<1> QED
  BY <1>0, <1>2, <1>4, Acts

LEMMA TypeStep == TypeOK /\ [Next]_vars => TypeOK'
<1>1. TypeOK' <=> Tabled' /\ Flags' /\ doing' \in [Tabs -> Step]
  BY DEF TypeOK, Tabled, Flags
<1> QED
  BY <1>1, TabledStep, FlagsStep, DoingTypes

-----------------------------------------------------------------------------
(* Links and what they carry.                                              *)

\* Nothing changes the account but a bootstrap stored and a reset stored.
LEMMA ServerFrame ==
  ASSUME NEW t \in Tabs, Act(t)
  PROVE  \/ UNCHANGED <<hash, wraps, stale, wiped>>
         \/ \E answered \in BOOLEAN : StoreSetup(t, answered) \/ StoreReset(t, answered)
BY Zenon DEF Act, Login, Unlock, Open, Bootstrap, AskSetup, Save, AskSave, StoreSave,
   OpenLink, AskReset, SubmitReset, GiveUp, SignOut, Reload, server, history

\* Where a tab's link and fetched wraps come from.
LEMMA Sources ==
  ASSUME TypeOK, NEW t \in Tabs, Act(t)
  PROVE  /\ doing'[t].pw \in 0 .. hash \/ doing'[t].pw = doing[t].pw
         /\ \/ doing'[t].seen = Unset
            \/ doing'[t].seen = wraps /\ (doing'[t].at \in InReset => doing'[t].pw = hash)
            \/ /\ doing'[t].seen = doing[t].seen /\ doing'[t].pw = doing[t].pw
               /\ doing'[t].at \in InReset => doing[t].at \in InReset
         /\ \A o \in Tabs \ {t} : doing'[o] = doing[o]
<1> DEFINE P == /\ doing'[t].pw \in 0 .. hash \/ doing'[t].pw = doing[t].pw
                /\ \/ doing'[t].seen = Unset
                   \/ doing'[t].seen = wraps /\ (doing'[t].at \in InReset => doing'[t].pw = hash)
                   \/ /\ doing'[t].seen = doing[t].seen /\ doing'[t].pw = doing[t].pw
                      /\ doing'[t].at \in InReset => doing[t].at \in InReset
                /\ \A o \in Tabs \ {t} : doing'[o] = doing[o]
<1> USE DEF InReset
<1>0. hash \in 1 .. MaxHash
  BY BasicTypes
<1>1. Resting(t) => P
  BY <1>0 DEF Resting, Becomes
<1>2. Login(t) \/ OpenLink(t) \/ (\E pw \in 1 .. hash : Unlock(t, pw)) => P
  BY <1>0, LoginStep, OpenLinkStep, UnlockStep DEF Becomes
<1>3. Open(t) \/ (\E answered \in BOOLEAN : StoreSetup(t, answered)) => P
  BY <1>1, OpenStep, StoreSetupStep
<1>4. (\E replaced \in {{}} \cup {{k} : k \in library} : StoreSave(t, replaced))
      \/ (\E fetched \in BOOLEAN : Reload(t, fetched)) => P
  BY <1>1, StoreSaveStep, ReloadStep
<1>5. Bootstrap(t) => P
  BY BootstrapStep DEF Becomes
<1>6. AskSetup(t) => P
  BY <1>1, AskSetupStep DEF Becomes
<1>7. Save(t) => P
  BY <1>0, SaveStep DEF Becomes
<1>8. AskSave(t) => P
  BY <1>1, AskSaveStep DEF Becomes
<1>9. Back(t) /\ doing[t].at \in InReset => P
  BY DEF Back, Becomes
<1>10. (\E mode \in {"rotate", "recover", "wipe"} : SubmitReset(t, mode)) => P
  BY SubmitStep DEF Becomes, SubmitReset
<1>11. AskReset(t) => P
  BY <1>9, AskResetStep DEF Becomes, AskReset
<1>12. (\E answered \in BOOLEAN : StoreReset(t, answered)) => P
  BY <1>1, <1>9, StoreResetStep DEF StoreReset
<1>13. GiveUp(t) => P
  <2>1. ASSUME GiveUp(t), Back(t), doing[t].at \notin InReset PROVE Resting(t)
    BY <2>1, NowIdle DEF GiveUp, Resting
  <2> QED
    BY <1>1, <1>9, <2>1, GiveUpStep
<1>14. (\E reached \in BOOLEAN : SignOut(t, reached)) => P
  BY DEF SignOut
<1> HIDE DEF P
<1>15. P
  BY <1>2, <1>3, <1>4, <1>5, <1>6, <1>7, <1>8, <1>10, <1>11, <1>12, <1>13, <1>14 DEF Act
<1> QED
  BY <1>15 DEF P

LEMMA LinkStep == TypeOK /\ LinkSeesWraps /\ [Next]_vars => LinkSeesWraps'
<1> SUFFICES ASSUME TypeOK, LinkSeesWraps, [Next]_vars PROVE LinkSeesWraps'
  OBVIOUS
<1> USE DEF LinkSeesWraps, InReset
<1>0. hash \in 1 .. MaxHash /\ \A o \in Tabs : doing[o].pw \in 0 .. MaxHash
  BY BasicTypes, StepType
<1>1. ASSUME NEW t \in Tabs, Act(t), UNCHANGED <<hash, wraps, stale, wiped>> PROVE LinkSeesWraps'
  <2> SUFFICES ASSUME NEW o \in Tabs
               PROVE  /\ doing'[o].pw <= hash
                      /\ ~stale /\ doing'[o].at \in InReset /\ doing'[o].pw = hash /\ doing'[o].seen # Unset
                           => doing'[o].seen = wraps
    BY <1>1
  <2>1. CASE o = t
    BY <1>0, <1>1, <2>1, Sources
  <2>2. CASE o # t
    BY <1>1, <2>2, Sources
  <2> QED
    BY <2>1, <2>2
<1>2. ASSUME NEW t \in Tabs, NEW answered \in BOOLEAN, StoreSetup(t, answered) PROVE LinkSeesWraps'
  <2>1. hash' = hash /\ (stale \/ wraps # Unset => stale')
    BY <1>2, Zenon DEF StoreSetup
  <2>2. /\ doing'[t].at = "idle" /\ doing'[t].pw = 0
        /\ \A o \in Tabs \ {t} : doing'[o] = doing[o]
    BY <1>2, StoreSetupStep DEF Resting, Becomes
  <2> QED
    BY <1>0, <2>1, <2>2
<1>3. ASSUME NEW t \in Tabs, NEW answered \in BOOLEAN, StoreReset(t, answered) PROVE LinkSeesWraps'
  <2>1. hash' = hash + 1 /\ Act(t)
    BY <1>3 DEF StoreReset, Act
  <2>2. \A o \in Tabs : doing'[o].pw \in 0 .. hash
    BY <1>0, <2>1, Sources
  <2> QED
    BY <1>0, <2>1, <2>2
<1>4. UNCHANGED vars \/ (\E b \in Browsers : SessionLost(b)) => LinkSeesWraps'
  BY DEF vars, SessionLost, server, history
<1> QED
  BY <1>1, <1>2, <1>3, <1>4, Acts, ServerFrame

LEMMA CarryStep == TypeOK /\ CarriesUnwrapped /\ [Next]_vars => CarriesUnwrapped'
<1> SUFFICES ASSUME TypeOK, CarriesUnwrapped, [Next]_vars PROVE CarriesUnwrapped'
  OBVIOUS
<1> DEFINE C(q) == q.at \in {"reset", "resetBcrypt"} =>
                     /\ q.mode \in {"rotate", "recover", "wipe"}
                     /\ q.mode # "wipe" => q.seen # Unset
                     /\ q.mode = "rotate" => q.key = q.seen.dek
                     /\ q.mode = "recover" => q.key = q.seen.rec
<1>1. CarriesUnwrapped = (\A t \in Tabs : C(doing[t])) /\ CarriesUnwrapped' = (\A t \in Tabs : C(doing'[t]))
  BY Zenon DEF CarriesUnwrapped
<1>2. ASSUME NEW t \in Tabs, Act(t) PROVE C(doing'[t])
  <2>1. ASSUME NEW mode \in {"rotate", "recover", "wipe"}, SubmitReset(t, mode) PROVE C(doing'[t])
    <3>1. /\ doing'[t].mode = mode /\ doing'[t].seen = doing[t].seen
          /\ doing'[t].key = Unwrapped(t, mode)
      BY <2>1, SubmitStep DEF Becomes
    <3>2. mode # "wipe" => doing[t].seen # Unset
      BY <2>1 DEF SubmitReset
    <3> QED
      BY <3>1, <3>2 DEF Unwrapped
  <2>2. ASSUME AskReset(t) PROVE C(doing'[t])
    <3>1. C(doing[t]) /\ doing[t].at = "reset"
      BY <1>1, <2>2 DEF AskReset
    <3> QED
      BY <2>2, <3>1, AskResetStep DEF Becomes, Back
  <2>3. Resting(t) \/ Back(t) => C(doing'[t])
    BY DEF Resting, Back, Becomes
  <2>4. Login(t) \/ OpenLink(t) \/ (\E pw \in 1 .. hash : Unlock(t, pw)) \/ Bootstrap(t) \/ Save(t) => C(doing'[t])
    BY LoginStep, OpenLinkStep, UnlockStep, BootstrapStep, SaveStep DEF Becomes
  <2>5. AskSetup(t) \/ AskSave(t) => C(doing'[t])
    BY <2>3, AskSetupStep, AskSaveStep DEF Becomes
  <2>6. (\E reached \in BOOLEAN : SignOut(t, reached)) => C(doing'[t])
    BY <1>1 DEF SignOut
  <2> HIDE DEF C
  <2> QED
    BY <1>2, <2>1, <2>2, <2>3, <2>4, <2>5, <2>6, OpenStep, StoreSetupStep, StoreSaveStep, StoreResetStep,
       GiveUpStep, ReloadStep DEF Act
<1>3. ASSUME NEW t \in Tabs, Act(t) PROVE \A o \in Tabs \ {t} : doing'[o] = doing[o]
  BY <1>3, Sources
<1>4. UNCHANGED vars \/ (\E b \in Browsers : SessionLost(b)) => doing' = doing
  BY DEF vars, SessionLost
<1> HIDE DEF C
<1> QED
  BY <1>1, <1>2, <1>3, <1>4, Acts

-----------------------------------------------------------------------------
(* The account's key.                                                      *)

\* A reset that stores wraps re-wraps the key that is there.
LEMMA ResetRewraps ==
  ASSUME TypeOK, LinkSeesWraps, CarriesUnwrapped, WrapsMatchAccount, ~stale,
         NEW t \in Tabs, NEW answered \in BOOLEAN, StoreReset(t, answered), wraps' # Unset
  PROVE  /\ wraps # Unset /\ UNCHANGED <<library, wiped>>
         /\ wraps'.pw = hash + 1 /\ wraps'.dek = wraps.dek /\ wraps'.rec = wraps.rec
         /\ doing[t].mode # "wipe"
<1>1. doing[t].at = "resetBcrypt" /\ doing[t].pw = hash
  BY DEF StoreReset, LinkCurrent
<1>2. doing[t].mode \in {"rotate", "recover"} /\ wraps' = Rewrapped(t) /\ UNCHANGED <<library, wiped>>
  BY <1>1 DEF StoreReset, CarriesUnwrapped
<1>3. doing[t].seen # Unset /\ doing[t].seen = wraps
  BY <1>1, <1>2 DEF CarriesUnwrapped, LinkSeesWraps, InReset
<1>4. doing[t].key = wraps.dek \/ doing[t].key = wraps.rec
  BY <1>1, <1>2, <1>3 DEF CarriesUnwrapped
<1>5. wraps.dek = wraps.rec /\ doing[t].key = wraps.dek
  BY <1>3, <1>4 DEF WrapsMatchAccount
<1>6. wraps \in Wraps /\ hash + 1 \in 0 .. MaxHash /\ doing[t].key \in 0 .. MaxKeys
  BY BasicTypes, StepType DEF StoreReset
<1>7. wraps'.pw = hash + 1 /\ wraps'.dek = doing[t].key /\ wraps'.rec = wraps.rec
  BY <1>2, <1>6, RewrappedIs
<1> QED
  BY <1>2, <1>3, <1>5, <1>7

LEMMA SetupStores ==
  ASSUME TypeOK, NEW t \in Tabs, NEW answered \in BOOLEAN, StoreSetup(t, answered), ~stale'
  PROVE  /\ wraps = Unset /\ doing[t].pw = hash /\ hash' = hash /\ ~stale
         /\ wraps'.pw = hash /\ wraps'.dek = doing[t].key /\ wraps'.rec = doing[t].key
         /\ doing[t].key \in 1 .. MaxKeys
<1>1. ~(stale \/ wraps # Unset \/ doing[t].pw # hash)
  BY Zenon DEF StoreSetup
<1>2. wraps' = [pw |-> doing[t].pw, dek |-> doing[t].key, rec |-> doing[t].key] /\ hash' = hash
  BY DEF StoreSetup
<1>3. doing[t].key \in 1 .. MaxKeys
  BY StepType DEF StoreSetup, Keyed
<1> QED
  BY <1>1, <1>2, <1>3

LEMMA MatchStep ==
  TypeOK /\ LinkSeesWraps /\ CarriesUnwrapped /\ WrapsMatchAccount /\ [Next]_vars => WrapsMatchAccount'
<1> SUFFICES ASSUME TypeOK, LinkSeesWraps, CarriesUnwrapped, WrapsMatchAccount, [Next]_vars
             PROVE  WrapsMatchAccount'
  OBVIOUS
<1>1. ASSUME UNCHANGED <<hash, wraps, stale>> PROVE WrapsMatchAccount'
  BY <1>1 DEF WrapsMatchAccount
<1>2. ASSUME NEW t \in Tabs, NEW answered \in BOOLEAN, StoreSetup(t, answered) PROVE WrapsMatchAccount'
  BY <1>2, SetupStores DEF WrapsMatchAccount
<1>3. ASSUME NEW t \in Tabs, NEW answered \in BOOLEAN, StoreReset(t, answered) PROVE WrapsMatchAccount'
  <2> SUFFICES ASSUME ~stale', wraps' # Unset PROVE wraps'.pw = hash' /\ wraps'.dek = wraps'.rec
    BY DEF WrapsMatchAccount
  <2>1. ~stale /\ hash' = hash + 1
    BY <1>3 DEF StoreReset
  <2>2. /\ wraps # Unset /\ wraps'.pw = hash + 1 /\ wraps'.dek = wraps.dek /\ wraps'.rec = wraps.rec
    BY <1>3, <2>1, ResetRewraps
  <2> QED
    BY <2>1, <2>2 DEF WrapsMatchAccount
<1>4. UNCHANGED vars \/ (\E b \in Browsers : SessionLost(b)) => UNCHANGED <<hash, wraps, stale>>
  BY DEF vars, SessionLost, server, history
<1> QED
  BY <1>1, <1>2, <1>3, <1>4, Acts, ServerFrame

\* The keys in the tabs while all is sound, and the samples.
LEMMA SoundBefore ==
  ASSUME TypeOK, [Next]_vars, Sound'
  PROVE  Sound
<1>1. ASSUME NEW t \in Tabs, Act(t)
      PROVE  (stale => stale') /\ (refused => refused') /\ (wiped => wiped')
  BY <1>1, FlagsMove, Zenon DEF FlagMoves
<1>2. UNCHANGED vars \/ (\E b \in Browsers : SessionLost(b)) => UNCHANGED <<stale, refused, wiped>>
  BY DEF vars, SessionLost, history
<1> QED
  BY <1>1, <1>2, Acts DEF Sound

\* What OneKey says of one tab, with the wraps it is compared to.
TabKey(q, k, w) ==
  /\ q.at \notin {"setup", "setupBody"} => k \in {0, w.dek}
  /\ q.at \in {"setup", "setupBody"} => k = q.key
  /\ q.at \in {"save", "saveBody"} => q.key = w.dek
  /\ q.seen # Unset => w # Unset /\ q.seen.dek = w.dek /\ q.seen.rec = w.rec

LEMMA OneKeyIs ==
  /\ OneKey <=> (Sound => \A t \in Tabs : TabKey(doing[t], dek[t], wraps))
  /\ OneKey' <=> (Sound' => \A t \in Tabs : TabKey(doing'[t], dek'[t], wraps'))
BY Zenon DEF OneKey, TabKey

\* A step of a tab that leaves the account as it is leaves it with that key.
LEMMA TabKeyStep ==
  ASSUME TypeOK, WrapsMatchAccount, Sound, Sound', NEW t \in Tabs, Act(t),
         UNCHANGED <<hash, wraps, stale, wiped>>, TabKey(doing[t], dek[t], wraps)
  PROVE  TabKey(doing'[t], dek'[t], wraps) /\ \A o \in Tabs \ {t} : dek'[o] = dek[o]
<1> DEFINE G == TabKey(doing'[t], dek'[t], wraps) /\ \A o \in Tabs \ {t} : dek'[o] = dek[o]
<1> USE DEF TabKey
<1>0. dek \in [Tabs -> 0 .. MaxKeys]
  BY DEF TypeOK
<1>1. ASSUME Resting(t), dek' = dek, doing[t].at \notin {"setup", "setupBody"} PROVE G
  BY <1>1 DEF Resting, Becomes
<1>2. ASSUME Resting(t), dek' = [dek EXCEPT ![t] = 0] PROVE G
  BY <1>0, <1>2 DEF Resting, Becomes
<1>3. Login(t) \/ OpenLink(t) \/ (\E pw \in 1 .. hash : Unlock(t, pw)) => G
  <2>1. Login(t) \/ OpenLink(t) \/ (\E pw \in 1 .. hash : Unlock(t, pw))
          => /\ doing[t].at = "idle" /\ dek' = dek /\ doing'[t].at \in {"opening", "resetForm"}
             /\ doing'[t].seen = wraps
    BY LoginStep, UnlockStep, OpenLinkStep, IdleType DEF Login, Unlock, OpenLink, Becomes
  <2> QED
    BY <2>1
<1>4. Open(t) => G
  <2> SUFFICES ASSUME Open(t) PROVE G
    OBVIOUS
  <2>1. Resting(t) /\ doing[t].at = "opening" /\ doing[t].seen # Unset
    BY OpenStep DEF Open
  <2>2. dek' = dek \/ dek' = [dek EXCEPT ![t] = doing[t].seen.dek]
    BY DEF Open
  <2>3. dek'[t] \in {0, wraps.dek} /\ \A o \in Tabs \ {t} : dek'[o] = dek[o]
    BY <1>0, <2>1, <2>2
  <2> QED
    BY <2>1, <2>3 DEF Resting, Becomes
<1>5. Bootstrap(t) => G
  BY <1>0, BootstrapStep DEF Bootstrap, Becomes
<1>6. AskSetup(t) => G
  <2>1. AskSetup(t) => dek' = dek /\ refused' # TRUE
    BY DEF AskSetup, Sound
  <2> QED
    BY <2>1, AskSetupStep DEF Becomes, AskSetup
<1>7. Save(t) => G
  <2>1. Save(t) => dek' = dek /\ doing[t].at = "idle" /\ dek[t] # 0
    BY IdleType DEF Save, HasSession
  <2> QED
    BY <2>1, SaveStep DEF Becomes
<1>8. AskSave(t) => G
  <2>1. AskSave(t) => dek' = dek /\ doing[t].at = "save"
    BY DEF AskSave
  <2> QED
    BY <1>1, <2>1, AskSaveStep DEF Becomes
<1>9. (\E replaced \in {{}} \cup {{k} : k \in library} : StoreSave(t, replaced)) => G
  <2>1. ASSUME NEW replaced, StoreSave(t, replaced) PROVE dek' = dek /\ doing[t].at = "saveBody"
    BY <2>1 DEF StoreSave
  <2> QED
    BY <1>1, <2>1, StoreSaveStep
<1>10. ASSUME Back(t), dek' = dek, doing[t].at \in InReset PROVE G
  BY <1>10 DEF Back, Becomes, InReset
<1>11. AskReset(t) => G
  <2>1. AskReset(t) => dek' = dek /\ doing[t].at = "reset"
    BY DEF AskReset
  <2> QED
    BY <1>10, <2>1, AskResetStep DEF Becomes, InReset
<1>12. (\E mode \in {"rotate", "recover", "wipe"} : SubmitReset(t, mode)) => G
  <2> SUFFICES ASSUME NEW mode \in {"rotate", "recover", "wipe"}, SubmitReset(t, mode) PROVE G
    OBVIOUS
  <2>1. /\ doing[t].at = "resetForm" /\ (mode # "wipe" => doing[t].seen # Unset)
        /\ dek' = dek \/ (mode # "wipe" /\ dek' = [dek EXCEPT ![t] = Unwrapped(t, mode)])
    BY DEF SubmitReset
  <2>2. mode # "wipe" => Unwrapped(t, mode) = wraps.dek
    <3>1. ~stale
      BY DEF Sound
    <3> QED
      BY <2>1, <3>1 DEF Unwrapped, WrapsMatchAccount
  <2>3. dek'[t] \in {0, wraps.dek} /\ \A o \in Tabs \ {t} : dek'[o] = dek[o]
    BY <1>0, <2>1, <2>2
  <2>4. doing'[t].at = "reset" /\ doing'[t].seen = doing[t].seen
    BY SubmitStep DEF Becomes
  <2> QED
    BY <2>3, <2>4
<1>13. GiveUp(t) => G
  <2> SUFFICES ASSUME GiveUp(t) PROVE G
    OBVIOUS
  <2>1. dek' = dek /\ doing[t].at \notin {"setup", "setupBody"}
    BY DEF GiveUp, Sound
  <2>2. Resting(t) \/ (Back(t) /\ doing[t].at \in InReset)
    BY NowIdle, NowBack DEF GiveUp, Resting, Back, InReset
  <2>3. CASE Resting(t)
    BY <1>1, <2>1, <2>3
  <2>4. CASE Back(t) /\ doing[t].at \in InReset
    BY <1>10, <2>1, <2>4
  <2> QED
    BY <2>2, <2>3, <2>4
<1>14. (\E reached \in BOOLEAN : SignOut(t, reached)) => G
  <2>1. (\E reached \in BOOLEAN : SignOut(t, reached))
          => doing[t].at = "idle" /\ doing' = doing /\ dek' = [dek EXCEPT ![t] = 0]
    BY IdleType DEF SignOut
  <2> QED
    BY <1>0, <2>1
<1>15. (\E fetched \in BOOLEAN : Reload(t, fetched)) => G
  <2>1. ASSUME NEW fetched \in BOOLEAN, Reload(t, fetched)
        PROVE  (dek' = dek \/ dek' = [dek EXCEPT ![t] = 0]) /\ doing[t].at \notin {"setup", "setupBody"}
    BY <2>1 DEF Reload
  <2> QED
    BY <1>1, <1>2, <2>1, ReloadStep
<1>16. \A answered \in BOOLEAN : ~StoreReset(t, answered)
  BY BasicTypes DEF StoreReset
<1>17. \A answered \in BOOLEAN : StoreSetup(t, answered) => FALSE
  <2>1. ASSUME NEW answered \in BOOLEAN, StoreSetup(t, answered) PROVE FALSE
    <3>1. wraps = Unset /\ wraps'.dek # 0
      BY <2>1, SetupStores DEF Sound
    <3> QED
      BY <3>1, UnsetType
  <2> QED
    BY <2>1
<1> HIDE DEF G
<1>18. G
  BY <1>3, <1>4, <1>5, <1>6, <1>7, <1>8, <1>9, <1>11, <1>12, <1>13, <1>14, <1>15, <1>16, <1>17 DEF Act
<1> QED
  BY <1>18 DEF G

LEMMA OneKeyStep ==
  TypeOK /\ LinkSeesWraps /\ CarriesUnwrapped /\ WrapsMatchAccount /\ OneKey /\ [Next]_vars => OneKey'
<1> SUFFICES ASSUME TypeOK, LinkSeesWraps, CarriesUnwrapped, WrapsMatchAccount, OneKey, [Next]_vars,
                    Sound', NEW o \in Tabs
             PROVE  TabKey(doing'[o], dek'[o], wraps')
  BY OneKeyIs
<1>0. Sound /\ ~stale /\ \A t \in Tabs : TabKey(doing[t], dek[t], wraps)
  BY SoundBefore, OneKeyIs DEF Sound
<1>1. ASSUME NEW t \in Tabs, Act(t), UNCHANGED <<hash, wraps, stale, wiped>>
      PROVE  TabKey(doing'[o], dek'[o], wraps')
  <2>1. TabKey(doing'[t], dek'[t], wraps) /\ \A u \in Tabs \ {t} : dek'[u] = dek[u]
    BY <1>0, <1>1, TabKeyStep
  <2>2. \A u \in Tabs \ {t} : doing'[u] = doing[u]
    BY <1>1, Sources
  <2> QED
    BY <1>0, <1>1, <2>1, <2>2
<1>2. ASSUME NEW t \in Tabs, NEW answered \in BOOLEAN, StoreSetup(t, answered)
      PROVE  TabKey(doing'[o], dek'[o], wraps')
  <2>0. ~stale'
    BY DEF Sound
  <2>1. /\ wraps = Unset /\ wraps'.dek = doing[t].key /\ dek' = dek /\ doing[t].at = "setupBody"
    BY <1>2, <2>0, SetupStores DEF StoreSetup
  <2>2. Resting(t) /\ dek[t] \in 0 .. MaxKeys /\ \A u \in Tabs \ {t} : doing'[u] = doing[u]
    BY <1>2, StoreSetupStep, BasicTypes DEF Resting, Becomes
  <2>3. CASE o = t
    <3>1. doing[t].key = dek[t]
      BY <1>0, <2>1 DEF TabKey
    <3> QED
      BY <2>1, <2>2, <2>3, <3>1 DEF TabKey, Resting, Becomes
  <2>4. CASE o # t
    <3>1. doing'[o] = doing[o] /\ dek'[o] = dek[o]
      BY <2>1, <2>2, <2>4
    <3>2. doing[o].at \in {"save", "saveBody"} => FALSE
      BY <1>0, <2>1, StepType, UnsetType DEF TabKey, Keyed
    <3> QED
      BY <1>0, <2>1, <3>1, <3>2, UnsetType DEF TabKey
  <2> QED
    BY <2>3, <2>4
<1>3. ASSUME NEW t \in Tabs, NEW answered \in BOOLEAN, StoreReset(t, answered)
      PROVE  TabKey(doing'[o], dek'[o], wraps')
  <2>1. doing[t].mode # "wipe" /\ doing[t].at = "resetBcrypt" /\ dek' = dek
    BY <1>3 DEF StoreReset, Sound
  <2>2. wraps' = Rewrapped(t) /\ hash + 1 \in 1 .. MaxHash
    BY <1>3, <2>1, BasicTypes DEF StoreReset
  <2>3. wraps' # Unset
    <3>1. wraps'.pw = hash + 1
      BY <2>2, RewrappedIs
    <3> QED
      BY <2>2, <3>1, UnsetType
  <2>4. wraps'.dek = wraps.dek /\ wraps'.rec = wraps.rec
    BY <1>0, <1>3, <2>3, ResetRewraps
  <2>5. \A u \in Tabs : TabKey(doing[u], dek'[u], wraps')
    BY <1>0, <2>1, <2>3, <2>4 DEF TabKey
  <2>6. CASE o # t
    <3>1. doing'[o] = doing[o]
      BY <1>3, <2>6, StoreResetStep DEF Resting, Back, Becomes
    <3> QED
      BY <2>5, <3>1
  <2>7. CASE o = t
    BY <1>3, <2>1, <2>5, <2>7, StoreResetStep DEF TabKey, Resting, Back, Becomes
  <2> QED
    BY <2>6, <2>7
<1>4. ASSUME UNCHANGED <<doing, dek, wraps>> PROVE TabKey(doing'[o], dek'[o], wraps')
  BY <1>0, <1>4
<1>5. UNCHANGED vars \/ (\E b \in Browsers : SessionLost(b)) => UNCHANGED <<doing, dek, wraps>>
  BY DEF vars, SessionLost, server
<1> QED
  BY <1>1, <1>2, <1>3, <1>4, <1>5, Acts, ServerFrame

LEMMA LibraryStep ==
  TypeOK /\ LinkSeesWraps /\ CarriesUnwrapped /\ WrapsMatchAccount /\ OneKey /\ LibraryReadable /\ [Next]_vars
    => LibraryReadable'
<1> SUFFICES ASSUME TypeOK, LinkSeesWraps, CarriesUnwrapped, WrapsMatchAccount, OneKey, LibraryReadable,
                    [Next]_vars, Sound'
             PROVE  library' \subseteq {wraps'.dek}
  BY DEF LibraryReadable, Sound
<1>0. Sound /\ library \subseteq {wraps.dek} /\ library \subseteq 1 .. MaxKeys
  BY SoundBefore DEF LibraryReadable, Sound, TypeOK
<1>1. ASSUME NEW t \in Tabs, NEW replaced, StoreSave(t, replaced) PROVE library' \subseteq {wraps'.dek}
  <2>1. doing[t].key = wraps.dek
    BY <1>0, <1>1, OneKeyIs DEF TabKey, StoreSave
  <2>2. library' = (library \ replaced) \cup {doing[t].key} /\ wraps' = wraps
    BY <1>1 DEF StoreSave
  <2> QED
    BY <1>0, <2>1, <2>2
<1>2. ASSUME NEW t \in Tabs, NEW answered \in BOOLEAN, StoreSetup(t, answered)
      PROVE  library' \subseteq {wraps'.dek}
  <2>1. wraps = Unset /\ library' = library
    BY <1>2, SetupStores DEF StoreSetup, Sound
  <2> QED
    BY <1>0, <2>1, UnsetType
<1>3. ASSUME NEW t \in Tabs, NEW answered \in BOOLEAN, StoreReset(t, answered)
      PROVE  library' \subseteq {wraps'.dek}
  <2>1. library' = library /\ wraps' = Rewrapped(t) /\ hash + 1 \in 1 .. MaxHash
    BY <1>3, BasicTypes DEF StoreReset, Sound
  <2>2. wraps'.pw = hash + 1
    BY <2>1, RewrappedIs
  <2>3. wraps' # Unset /\ ~stale
    BY <1>0, <2>1, <2>2, UnsetType DEF Sound
  <2>4. wraps'.dek = wraps.dek
    BY <1>3, <2>3, ResetRewraps
  <2> QED
    BY <1>0, <2>1, <2>4
<1>4. ASSUME UNCHANGED <<library, wraps>> PROVE library' \subseteq {wraps'.dek}
  BY <1>0, <1>4
<1>5. ASSUME NEW t \in Tabs, Act(t)
      PROVE  \/ UNCHANGED <<library, wraps>>
             \/ \E replaced : StoreSave(t, replaced)
             \/ \E answered \in BOOLEAN : StoreSetup(t, answered) \/ StoreReset(t, answered)
  BY <1>5, Zenon DEF Act, Login, Unlock, Open, Bootstrap, AskSetup, Save, AskSave,
     OpenLink, AskReset, SubmitReset, GiveUp, SignOut, Reload, server
<1>6. UNCHANGED vars \/ (\E b \in Browsers : SessionLost(b)) => UNCHANGED <<library, wraps>>
  BY DEF vars, SessionLost, server
<1> QED
  BY <1>1, <1>2, <1>3, <1>4, <1>5, <1>6, Acts

-----------------------------------------------------------------------------
LEMMA InitInv == Init => Inv
<1> SUFFICES ASSUME Init PROVE Inv
  OBVIOUS
<1>1. /\ hash = 1 /\ wraps = Unset /\ library = {} /\ jar = [b \in Browsers |-> 0]
      /\ signedIn = [t \in Tabs |-> FALSE] /\ dek = [t \in Tabs |-> 0] /\ doing = [t \in Tabs |-> Idle]
      /\ known = {} /\ made = 0
  BY DEF Init
<1>2. Tabled /\ doing \in [Tabs -> Step]
  BY <1>1, UnsetType, IdleType DEF Tabled
<1>3. Flags
  BY Zenon DEF Init, Flags
<1>4. TypeOK
  BY <1>2, <1>3, TypeParts
<1>5. LinkSeesWraps /\ CarriesUnwrapped
  BY <1>1, IdleType DEF LinkSeesWraps, CarriesUnwrapped, InReset
<1>6. WrapsMatchAccount /\ OneKey /\ LibraryReadable
  BY <1>1, IdleType DEF WrapsMatchAccount, OneKey, LibraryReadable
<1> QED
  BY <1>4, <1>5, <1>6 DEF Inv

LEMMA InvStep == Inv /\ [Next]_vars => Inv'
<1> SUFFICES ASSUME Inv, [Next]_vars PROVE Inv'
  OBVIOUS
<1>1. TypeOK' /\ LinkSeesWraps' /\ CarriesUnwrapped'
  BY TypeStep, LinkStep, CarryStep DEF Inv
<1>2. WrapsMatchAccount' /\ OneKey' /\ LibraryReadable'
  BY MatchStep, OneKeyStep, LibraryStep DEF Inv
<1> QED
  BY <1>1, <1>2 DEF Inv

LEMMA Invariance == Spec => []Inv
BY InitInv, InvStep, PTL DEF Spec

\* Types; a sample or a bootstrap on its way carries a key.
THEOREM TypeCorrect == Spec => []TypeOK
<1>1. Inv => TypeOK
  BY DEF Inv
<1> QED
  BY <1>1, Invariance, PTL

\* The password and the recovery key open one and the same key, unless a
\* bootstrap overlapped another change.
THEOREM WrapsTheorem == Spec => []WrapsMatchAccount
<1>1. Inv => WrapsMatchAccount
  BY DEF Inv
<1> QED
  BY <1>1, Invariance, PTL

\* Every stored sample stays under the account's one key.
THEOREM LibraryTheorem == Spec => []LibraryReadable
<1>1. Inv => LibraryReadable
  BY DEF Inv
<1> QED
  BY <1>1, Invariance, PTL

\* A reset that is not a wipe keeps the key and the recovery key.
THEOREM ResetTheorem == Spec => ResetKeepsKeys
<1>1. Inv /\ [Next]_vars =>
        [hash' # hash /\ wraps' # Unset /\ ~stale
           => wraps'.dek = wraps.dek /\ wraps'.rec = wraps.rec]_vars
  <2> SUFFICES ASSUME Inv, [Next]_vars, hash' # hash, wraps' # Unset, ~stale
               PROVE  wraps'.dek = wraps.dek /\ wraps'.rec = wraps.rec
    OBVIOUS
  <2>1. PICK t \in Tabs : Act(t)
    BY Acts DEF vars, SessionLost, server
  <2>2. PICK answered \in BOOLEAN : StoreReset(t, answered)
    BY <2>1, ServerFrame DEF StoreSetup
  <2> QED
    BY <2>2, ResetRewraps DEF Inv
<1> QED
  BY <1>1, Invariance, PTL DEF Spec, ResetKeepsKeys

-----------------------------------------------------------------------------
(* The live feed.                                                          *)

LEMMA Limits ==
  /\ RingMax \in Nat /\ ReplayMax \in Nat /\ StoreMax \in Nat /\ EvictCount \in Nat /\ SlotLimit \in Nat
  /\ RingMax + EvictCount <= StoreMax + 1
BY FeedLimits, FeedConstants

LEMMA FiniteIds == IsFiniteSet(Ids) /\ Ids \subseteq Nat \ {0}
BY FeedConstants

-----------------------------------------------------------------------------
(* The feed's server: what every step does to it, it does by one of four   *)
(* operations on a server record.                                          *)

Kinds == {"free", "page", "probe", "other", "gone", "cleaned"}
Viewing == {"page", "probe", "other", "gone"}
ViewersOf(sv) == {c \in Ids : sv.conns[c] \in Viewing}

ServerShape ==
  [cursor : Nat, made : Seq(Nat), ring : Seq(Nat), store : Seq(Nat),
   conns : [Ids -> Kinds], slots : Nat, running : BOOLEAN]

CountedRight(sv) ==
  /\ sv.slots = Cardinality(ViewersOf(sv)) /\ sv.slots <= SlotLimit
  /\ sv.running <=> ViewersOf(sv) # {}

\* Ring and table of specimens end with the newest frame, and the ring is the shorter.
EndsAt(s, n) == Len(s) <= n /\ \A i \in 1 .. Len(s) : s[i] = n - Len(s) + i

NewestFrames(sv) ==
  /\ EndsAt(sv.ring, Len(sv.made)) /\ EndsAt(sv.store, Len(sv.made))
  /\ Len(sv.ring) <= RingMax /\ Len(sv.ring) <= Len(sv.store)

ServerOK(sv) == sv \in ServerShape /\ CountedRight(sv) /\ NewestFrames(sv)

LEMMA ViewersFinite ==
  ASSUME NEW sv
  PROVE  /\ IsFiniteSet(ViewersOf(sv)) /\ Cardinality(ViewersOf(sv)) \in Nat
         /\ Cardinality(ViewersOf(sv)) = 0 <=> ViewersOf(sv) = {}
<1>1. ViewersOf(sv) \subseteq Ids
  BY DEF ViewersOf
<1>2. IsFiniteSet(ViewersOf(sv))
  BY <1>1, FiniteIds, FS_Subset
<1> QED
  BY <1>2, FS_CardinalityType, FS_EmptySet

LEMMA AdmitKeeps ==
  ASSUME NEW sv, ServerOK(sv), NEW c \in Ids, sv.conns[c] = "free", sv.slots < SlotLimit,
         NEW kind \in {"page", "probe", "other"}
  PROVE  LET to == S!Admit(sv, c, kind) IN
         /\ ServerOK(to)
         /\ to.conns[c] = kind /\ \A d \in Ids \ {c} : to.conns[d] = sv.conns[d]
<1> DEFINE to == S!Admit(sv, c, kind)
<1>1. sv \in ServerShape /\ CountedRight(sv) /\ NewestFrames(sv)
  BY DEF ServerOK
<1>2. /\ to \in ServerShape
      /\ to.made = sv.made /\ to.ring = sv.ring /\ to.store = sv.store
      /\ to.slots = sv.slots + 1 /\ to.running \in BOOLEAN /\ (to.running <=> sv.slots = 0 \/ sv.running)
      /\ to.conns = [sv.conns EXCEPT ![c] = kind]
  <2> DEFINE m == sv.slots + 1
  <2>0. m \in Nat /\ sv.running \in BOOLEAN /\ kind \in Kinds
    BY <1>1 DEF ServerShape, Kinds
  <2>1. ASSUME sv.slots = 0
        PROVE  to = [sv EXCEPT !.conns[c] = kind, !.slots = m, !.running = TRUE]
    BY <1>1, <2>1 DEF S!Admit, ServerShape
  <2>2. ASSUME sv.slots # 0
        PROVE  to = [sv EXCEPT !.conns[c] = kind, !.slots = m, !.running = sv.running]
    BY <1>1, <2>2 DEF S!Admit, ServerShape
  <2> HIDE DEF to, m
  <2>3. ASSUME NEW runs \in BOOLEAN, to = [sv EXCEPT !.conns[c] = kind, !.slots = m, !.running = runs]
        PROVE  /\ to \in ServerShape
               /\ to.made = sv.made /\ to.ring = sv.ring /\ to.store = sv.store
               /\ to.slots = m /\ to.running = runs
               /\ to.conns = [sv.conns EXCEPT ![c] = kind]
    BY <1>1, <2>0, <2>3 DEF ServerShape
  <2>4. to.running \in BOOLEAN
    BY <2>0, <2>1, <2>2, <2>3 DEF m
  <2>5. CASE sv.slots = 0
    <3>1. to = [sv EXCEPT !.conns[c] = kind, !.slots = m, !.running = TRUE]
      BY <2>1, <2>5 DEF m
    <3>2. to.running = TRUE /\ to \in ServerShape /\ to.slots = m
      BY <2>3, <3>1
    <3>3. to.running <=> TRUE
      BY <3>2
    <3> QED
      BY <2>3, <2>5, <3>1, <3>2, <3>3 DEF m
  <2>6. CASE sv.slots # 0
    <3>1. to = [sv EXCEPT !.conns[c] = kind, !.slots = m, !.running = sv.running]
      BY <2>2, <2>6 DEF m
    <3>2. to.running = sv.running /\ to \in ServerShape /\ to.slots = m
      BY <2>0, <2>3, <3>1
    <3> QED
      BY <2>0, <2>3, <2>6, <3>1, <3>2 DEF m
  <2> QED
    BY <2>5, <2>6
<1> HIDE DEF to
<1>3. to.conns[c] = kind /\ \A d \in Ids \ {c} : to.conns[d] = sv.conns[d]
  BY <1>1, <1>2 DEF ServerShape
<1>4. ViewersOf(to) = ViewersOf(sv) \cup {c} /\ c \notin ViewersOf(sv)
  BY <1>3 DEF ViewersOf, Viewing
<1>5. Cardinality(ViewersOf(to)) = Cardinality(ViewersOf(sv)) + 1
  BY <1>4, ViewersFinite, FS_AddElement
<1>6. CountedRight(to)
  BY <1>1, <1>2, <1>4, <1>5, ViewersFinite, Limits DEF CountedRight, ServerShape
<1>7. NewestFrames(to)
  BY <1>1, <1>2 DEF NewestFrames
<1> QED
  BY <1>2, <1>3, <1>6, <1>7 DEF ServerOK, to

\* Somebody hangs up: until it is noticed, the slot is taken.
LEMMA HangUpKeeps ==
  ASSUME NEW sv, ServerOK(sv), NEW off, off \subseteq ViewersOf(sv)
  PROVE  LET to == S!HangUp(sv, off) IN
         /\ ServerOK(to)
         /\ \A d \in Ids \ off : to.conns[d] = sv.conns[d]
<1> DEFINE to == S!HangUp(sv, off)
<1>1. sv \in ServerShape /\ CountedRight(sv) /\ NewestFrames(sv)
  BY DEF ServerOK
<1>2. /\ to \in ServerShape
      /\ to.made = sv.made /\ to.ring = sv.ring /\ to.store = sv.store
      /\ to.slots = sv.slots /\ to.running = sv.running
      /\ to.conns = [c \in Ids |-> IF c \in off THEN "gone" ELSE sv.conns[c]]
  BY <1>1 DEF ServerShape, S!HangUp, Kinds
<1> HIDE DEF to
<1>3. ViewersOf(to) = ViewersOf(sv)
  BY <1>2 DEF ViewersOf, Viewing
<1>4. CountedRight(to) /\ NewestFrames(to)
  BY <1>1, <1>2, <1>3 DEF CountedRight, NewestFrames
<1> QED
  BY <1>2, <1>4 DEF ServerOK, to

\* The end of a connection that held a slot is noticed.
LEMMA CleanUpKeeps ==
  ASSUME NEW sv, ServerOK(sv), NEW c \in Ids, sv.conns[c] = "gone", NEW kind \in {"free", "cleaned"}
  PROVE  LET to == [S!CleanUp(sv) EXCEPT !.conns[c] = kind] IN
         /\ ServerOK(to)
         /\ \A d \in Ids \ {c} : to.conns[d] = sv.conns[d]
<1> DEFINE to == [S!CleanUp(sv) EXCEPT !.conns[c] = kind]
<1>1. sv \in ServerShape /\ CountedRight(sv) /\ NewestFrames(sv)
  BY DEF ServerOK
<1>2. c \in ViewersOf(sv)
  BY DEF ViewersOf, Viewing
<1>3. sv.slots \in Nat \ {0}
  BY <1>1, <1>2, ViewersFinite DEF CountedRight, ServerShape
<1>4. /\ to \in ServerShape
      /\ to.made = sv.made /\ to.ring = sv.ring /\ to.store = sv.store
      /\ to.slots = sv.slots - 1 /\ to.running \in BOOLEAN /\ (to.running <=> sv.slots # 1 /\ sv.running)
      /\ to.conns = [sv.conns EXCEPT ![c] = kind]
  <2> DEFINE m == sv.slots - 1
  <2>0. m \in Nat /\ sv.running \in BOOLEAN /\ kind \in Kinds
    BY <1>1, <1>3 DEF ServerShape, Kinds
  <2>1. ASSUME sv.slots = 1
        PROVE  to = [sv EXCEPT !.conns[c] = kind, !.slots = m, !.running = FALSE]
    BY <1>1, <2>1 DEF S!CleanUp, ServerShape
  <2>2. ASSUME sv.slots # 1
        PROVE  to = [sv EXCEPT !.conns[c] = kind, !.slots = m, !.running = sv.running]
    BY <1>1, <2>2 DEF S!CleanUp, ServerShape
  <2> HIDE DEF to, m
  <2>3. ASSUME NEW runs \in BOOLEAN, to = [sv EXCEPT !.conns[c] = kind, !.slots = m, !.running = runs]
        PROVE  /\ to \in ServerShape
               /\ to.made = sv.made /\ to.ring = sv.ring /\ to.store = sv.store
               /\ to.slots = m /\ to.running = runs
               /\ to.conns = [sv.conns EXCEPT ![c] = kind]
    BY <1>1, <2>0, <2>3 DEF ServerShape
  <2>4. to.running \in BOOLEAN
    BY <2>0, <2>1, <2>2, <2>3 DEF m
  <2>5. CASE sv.slots = 1
    <3>1. to = [sv EXCEPT !.conns[c] = kind, !.slots = m, !.running = FALSE]
      BY <2>1, <2>5 DEF m
    <3>2. to.running = FALSE /\ to \in ServerShape /\ to.slots = m
      BY <2>3, <3>1
    <3>3. to.running <=> FALSE
      BY <3>2
    <3> QED
      BY <2>3, <2>5, <3>1, <3>2, <3>3 DEF m
  <2>6. CASE sv.slots # 1
    <3>1. to = [sv EXCEPT !.conns[c] = kind, !.slots = m, !.running = sv.running]
      BY <2>2, <2>6 DEF m
    <3>2. to.running = sv.running /\ to \in ServerShape /\ to.slots = m
      BY <2>0, <2>3, <3>1
    <3> QED
      BY <2>0, <2>3, <2>6, <3>1, <3>2 DEF m
  <2> QED
    BY <2>5, <2>6
<1> HIDE DEF to
<1>5. to.conns[c] = kind /\ \A d \in Ids \ {c} : to.conns[d] = sv.conns[d]
  BY <1>1, <1>4 DEF ServerShape
<1>6. ViewersOf(to) = ViewersOf(sv) \ {c}
  BY <1>5 DEF ViewersOf, Viewing
<1>7. Cardinality(ViewersOf(to)) = Cardinality(ViewersOf(sv)) - 1
  BY <1>2, <1>6, ViewersFinite, FS_RemoveElement
<1>8. CountedRight(to)
  <2>1. Cardinality(ViewersOf(to)) = 0 <=> ViewersOf(to) = {}
    BY ViewersFinite
  <2>2. sv.slots = Cardinality(ViewersOf(sv)) /\ sv.slots <= SlotLimit /\ sv.running
    BY <1>1, <1>2 DEF CountedRight
  <2> QED
    BY <1>3, <1>4, <1>7, <2>1, <2>2, Limits DEF CountedRight
<1>9. NewestFrames(to)
  BY <1>1, <1>4 DEF NewestFrames
<1> QED
  BY <1>4, <1>5, <1>8, <1>9 DEF ServerOK, to

\* The close after an error gives nothing back.
LEMMA SecondEndKeeps ==
  ASSUME NEW sv, ServerOK(sv), NEW c \in Ids, sv.conns[c] = "cleaned"
  PROVE  LET to == [sv EXCEPT !.conns[c] = "free"] IN
         /\ ServerOK(to)
         /\ \A d \in Ids \ {c} : to.conns[d] = sv.conns[d]
<1> DEFINE to == [sv EXCEPT !.conns[c] = "free"]
<1>1. sv \in ServerShape /\ CountedRight(sv) /\ NewestFrames(sv)
  BY DEF ServerOK
<1>2. /\ to \in ServerShape
      /\ to.made = sv.made /\ to.ring = sv.ring /\ to.store = sv.store
      /\ to.slots = sv.slots /\ to.running = sv.running
      /\ to.conns = [sv.conns EXCEPT ![c] = "free"]
  BY <1>1 DEF ServerShape, Kinds
<1> HIDE DEF to
<1>3. to.conns[c] = "free" /\ \A d \in Ids \ {c} : to.conns[d] = sv.conns[d]
  BY <1>1, <1>2 DEF ServerShape
<1>4. ViewersOf(to) = ViewersOf(sv)
  BY <1>3 DEF ViewersOf, Viewing
<1>5. CountedRight(to) /\ NewestFrames(to)
  BY <1>1, <1>2, <1>4 DEF CountedRight, NewestFrames
<1> QED
  BY <1>2, <1>3, <1>5 DEF ServerOK, to

-----------------------------------------------------------------------------
LEMMA SuffixOf ==
  ASSUME NEW s \in Seq(Nat), NEW k \in 0 .. Len(s)
  PROVE  LET r == SubSeq(s, k + 1, Len(s)) IN
         /\ r \in Seq(Nat) /\ Len(r) = Len(s) - k
         /\ \A i \in 1 .. (Len(s) - k) : r[i] = s[k + i]
<1> DEFINE n == Len(s)
           r == SubSeq(s, k + 1, n)
<1>1. n \in Nat /\ k \in 0 .. n /\ k + 1 \in Int /\ n \in Int /\ \A j \in (k + 1) .. n : s[j] \in Nat
  OBVIOUS
<1>2. r \in Seq(Nat)
  BY <1>1
<1>3. CASE k = n
  BY <1>1, <1>2, <1>3
<1>4. CASE k < n
  BY <1>1, <1>2, <1>4
<1> QED
  BY <1>1, <1>3, <1>4

LEMMA LastNSeq ==
  ASSUME NEW s \in Seq(Nat), NEW n \in Nat
  PROVE  /\ S!LastN(n, s) \in Seq(Nat) /\ Len(S!LastN(n, s)) <= n
         /\ Len(S!LastN(n, s)) <= Len(s)
         /\ \A i \in 1 .. Len(S!LastN(n, s)) : S!LastN(n, s)[i] = s[Len(s) - Len(S!LastN(n, s)) + i]
<1>1. CASE Len(s) <= n
  BY <1>1 DEF S!LastN
<1>2. CASE ~(Len(s) <= n)
  <2> DEFINE k == Len(s) - n
             r == SubSeq(s, k + 1, Len(s))
  <2>1. k \in 0 .. Len(s) /\ S!LastN(n, s) = r /\ Len(s) - k = n
    BY <1>2 DEF S!LastN
  <2> HIDE DEF k
  <2>2. r \in Seq(Nat) /\ Len(r) = Len(s) - k /\ \A i \in 1 .. (Len(s) - k) : r[i] = s[k + i]
    BY <2>1, SuffixOf
  <2> HIDE DEF r
  <2> QED
    BY <1>2, <2>1, <2>2
<1> QED
  BY <1>1, <1>2

LEMMA AppendEnds ==
  ASSUME NEW n \in Nat, NEW s \in Seq(Nat), EndsAt(s, n)
  PROVE  LET r == Append(s, n + 1) IN r \in Seq(Nat) /\ Len(r) = Len(s) + 1 /\ EndsAt(r, n + 1)
<1> DEFINE r == Append(s, n + 1)
<1>1. /\ n + 1 \in Nat /\ Len(s) \in Nat /\ r \in Seq(Nat) /\ Len(r) = Len(s) + 1
      /\ r[Len(s) + 1] = n + 1 /\ \A i \in 1 .. Len(s) : r[i] = s[i]
  OBVIOUS
<1> HIDE DEF r
<1>2. ASSUME NEW i \in 1 .. Len(r) PROVE r[i] = n + 1 - Len(r) + i
  <2>1. CASE i = Len(s) + 1
    BY <1>1, <2>1
  <2>2. CASE i # Len(s) + 1
    <3>1. i \in 1 .. Len(s)
      BY <1>1, <2>2
    <3> QED
      BY <1>1, <3>1 DEF EndsAt
  <2> QED
    BY <2>1, <2>2
<1>3. Len(r) <= n + 1
  BY <1>1 DEF EndsAt
<1> QED
  BY <1>1, <1>2, <1>3 DEF EndsAt, r

LEMMA LastNEnds ==
  ASSUME NEW n \in Nat, NEW s \in Seq(Nat), EndsAt(s, n), NEW k \in Nat
  PROVE  EndsAt(S!LastN(k, s), n)
<1> DEFINE r == S!LastN(k, s)
<1>1. /\ r \in Seq(Nat) /\ Len(r) <= Len(s) /\ \A i \in 1 .. Len(r) : r[i] = s[Len(s) - Len(r) + i]
  BY LastNSeq
<1> HIDE DEF r
<1>2. ASSUME NEW i \in 1 .. Len(r) PROVE r[i] = n - Len(r) + i
  <2>0. Len(s) \in Nat /\ Len(r) \in Nat /\ i \in Nat
    BY <1>1
  <2>1. Len(s) - Len(r) + i \in 1 .. Len(s) /\ r[i] = s[Len(s) - Len(r) + i]
    BY <1>1, <2>0
  <2> QED
    BY <1>1, <2>0, <2>1 DEF EndsAt
<1> QED
  BY <1>1, <1>2 DEF EndsAt, r

LEMMA PutEnds ==
  ASSUME NEW n \in Nat, NEW s \in Seq(Nat), EndsAt(s, n)
  PROVE  LET r == S!SpecimenStorePut(s, n + 1) IN
         /\ r \in Seq(Nat) /\ EndsAt(r, n + 1)
         /\ Len(r) = Len(s) + 1 \/ Len(r) >= RingMax
<1> DEFINE all == Append(s, n + 1)
           r == S!SpecimenStorePut(s, n + 1)
<1>1. /\ all \in Seq(Nat) /\ Len(all) = Len(s) + 1 /\ EndsAt(all, n + 1)
      /\ r = IF Len(all) > StoreMax THEN SubSeq(all, EvictCount + 1, Len(all)) ELSE all
  BY AppendEnds DEF S!SpecimenStorePut
<1>2. RingMax \in Nat /\ StoreMax \in Nat /\ EvictCount \in Nat /\ RingMax + EvictCount <= StoreMax + 1
      /\ Len(s) \in Nat
  BY Limits
<1> HIDE DEF all, r
<1>3. CASE Len(all) <= StoreMax
  BY <1>1, <1>2, <1>3 DEF r
<1>4. CASE Len(all) > StoreMax
  <2>1. Len(all) \in Nat /\ Len(all) >= StoreMax + 1 /\ EvictCount \in 0 .. Len(all) /\ r = SubSeq(all, EvictCount + 1, Len(all))
    BY <1>1, <1>2, <1>4
  <2>2. r \in Seq(Nat) /\ Len(r) = Len(all) - EvictCount
        /\ \A i \in 1 .. (Len(all) - EvictCount) : r[i] = all[EvictCount + i]
    BY <1>1, <2>1, SuffixOf
  <2>0. Len(r) \in Nat /\ Len(r) <= n + 1
    BY <1>1, <1>2, <2>1, <2>2 DEF EndsAt
  <2>3. ASSUME NEW i \in 1 .. Len(r) PROVE r[i] = n + 1 - Len(r) + i
    <3>1. EvictCount + i \in 1 .. Len(all) /\ r[i] = all[EvictCount + i]
      BY <1>1, <1>2, <2>1, <2>2, <2>3
    <3>2. all[EvictCount + i] = n + 1 - Len(all) + (EvictCount + i)
      BY <1>1, <3>1 DEF EndsAt
    <3>3. Len(all) \in Nat /\ Len(r) = Len(all) - EvictCount /\ EvictCount \in Nat /\ i \in Nat
      BY <1>1, <1>2, <2>0, <2>2
    <3> QED
      BY <3>1, <3>2, <3>3
  <2> QED
    <3>1. EndsAt(r, n + 1)
      BY <2>0, <2>3 DEF EndsAt
    <3>2. Len(r) >= RingMax
      BY <1>2, <2>0, <2>1, <2>2
    <3> QED
      BY <2>2, <3>1, <3>2 DEF r
<1> QED
  BY <1>1, <1>2, <1>3, <1>4

\* One more frame: it goes to the end of both, and evicting leaves the ring's.
LEMMA EmitKeeps ==
  ASSUME NEW sv, ServerOK(sv), NEW c \in Nat, NEW x \in Nat
  PROVE  LET to == [sv EXCEPT !.made = Append(sv.made, x), !.cursor = c,
                              !.store = S!SpecimenStorePut(sv.store, Len(sv.made) + 1),
                              !.ring = S!LastN(RingMax, Append(sv.ring, Len(sv.made) + 1))]
         IN  ServerOK(to) /\ to.conns = sv.conns
<1> DEFINE to == [sv EXCEPT !.made = Append(sv.made, x), !.cursor = c,
                            !.store = S!SpecimenStorePut(sv.store, Len(sv.made) + 1),
                            !.ring = S!LastN(RingMax, Append(sv.ring, Len(sv.made) + 1))]
           f == Len(sv.made) + 1
           longer == Append(sv.ring, f)
           store == S!SpecimenStorePut(sv.store, f)
           ring == S!LastN(RingMax, longer)
<1>1. /\ sv \in ServerShape /\ CountedRight(sv) /\ NewestFrames(sv)
      /\ sv.made \in Seq(Nat) /\ sv.ring \in Seq(Nat) /\ sv.store \in Seq(Nat)
      /\ Len(sv.made) \in Nat /\ f \in Nat /\ RingMax \in Nat
  BY Limits DEF ServerOK, ServerShape
<1>2. longer \in Seq(Nat) /\ Len(longer) = Len(sv.ring) + 1 /\ EndsAt(longer, f)
  BY <1>1, AppendEnds DEF NewestFrames
<1>3. /\ store \in Seq(Nat) /\ EndsAt(store, f)
      /\ Len(store) = Len(sv.store) + 1 \/ Len(store) >= RingMax
  BY <1>1, PutEnds DEF NewestFrames
<1> HIDE DEF longer
<1>4. ring \in Seq(Nat) /\ Len(ring) <= RingMax /\ Len(ring) <= Len(sv.ring) + 1 /\ EndsAt(ring, f)
  <2>1. ring \in Seq(Nat) /\ Len(ring) <= RingMax /\ Len(ring) <= Len(longer)
    BY <1>1, <1>2, LastNSeq
  <2>2. EndsAt(ring, f)
    BY <1>1, <1>2, LastNEnds
  <2> QED
    BY <1>2, <2>1, <2>2
<1> HIDE DEF ring, store
<1>5. Len(ring) <= Len(store)
  <2>1. Len(ring) \in Nat /\ Len(store) \in Nat /\ Len(sv.ring) \in Nat /\ Len(sv.store) \in Nat
    BY <1>1, <1>3, <1>4
  <2> QED
    BY <1>1, <1>3, <1>4, <2>1, SMTT(40) DEF NewestFrames
<1> DEFINE grown == Append(sv.made, x)
<1>6. grown \in Seq(Nat) /\ Len(grown) = f
  BY <1>1
<1> HIDE DEF f, store, ring, grown, to
<1>7. to = [sv EXCEPT !.made = grown, !.cursor = c, !.store = store, !.ring = ring]
  BY DEF f, store, ring, grown, longer, to
<1>8. /\ to \in ServerShape
      /\ to.made = grown /\ to.ring = ring /\ to.store = store
      /\ to.slots = sv.slots /\ to.running = sv.running /\ to.conns = sv.conns
  BY <1>1, <1>3, <1>4, <1>6, <1>7 DEF ServerShape
<1>9. ViewersOf(to) = ViewersOf(sv)
  BY <1>8 DEF ViewersOf
<1> QED
  BY <1>1, <1>3, <1>4, <1>5, <1>6, <1>8, <1>9 DEF ServerOK, CountedRight, NewestFrames, to

-----------------------------------------------------------------------------
(* The page's socket.                                                      *)

LineShape ==
  [sock : {"connecting", "open", "none"}, conn : Ids \cup {0}, wire : Seq(Nat),
   state : {"connecting", "streaming", "offline"}, ownsRetry : BOOLEAN, capped : BOOLEAN,
   timer : BOOLEAN, asked : Nat, refused : Nat]

\* A socket the server admitted is a viewer of its own.
PageHeld(conns, l) ==
  l.conn # 0 => conns[l.conn] = "page" /\ l.sock # "none"

FeedInv == ServerOK(feed) /\ line \in LineShape /\ PageHeld(feed.conns, line)

Below == {p \in Nat \X Nat : p[1] < p[2]}

LEMMA BelowIsWellFounded == IsWellFoundedOn(Below, Nat)
<1>1. Below = OpToRel(<, Nat)
  BY Zenon DEF Below, OpToRel
<1> QED
  BY <1>1, NatLessThanWellFounded, Zenon

LEMMA NextIdIsFree ==
  ASSUME S!Free # {}
  PROVE  S!NextId \in Ids /\ feed.conns[S!NextId] = "free"
<1>1. S!Free \subseteq Nat
  BY FiniteIds DEF S!Free
<1>2. PICK c \in S!Free : \A d \in S!Free : ~ (<<d, c>> \in Below)
  BY <1>1, BelowIsWellFounded, WFMin
<1>3. \A d \in S!Free : c <= d
  <2>1. ASSUME NEW d \in S!Free PROVE c <= d
    <3>1. c \in Nat /\ d \in Nat /\ <<d, c>> \in Nat \X Nat
      BY <1>1
    <3>2. ~ (<<d, c>>[1] < <<d, c>>[2])
      BY <1>2, <3>1 DEF Below
    <3> QED
      BY <3>1, <3>2
  <2> QED
    BY <2>1
<1>4. S!NextId \in S!Free
  BY <1>2, <1>3 DEF S!NextId
<1> QED
  BY <1>4 DEF S!Free

LEMMA AppendToWire ==
  ASSUME NEW l \in LineShape, NEW f \in Nat
  PROVE  LET r == [l EXCEPT !.wire = Append(@, f)] IN
         r \in LineShape /\ r.conn = l.conn /\ r.sock = l.sock
<1>1. Append(l.wire, f) \in Seq(Nat)
  BY DEF LineShape
<1> QED
  BY <1>1 DEF LineShape

LEMMA CloseStreamKeeps ==
  ASSUME FeedInv
  PROVE  LET to == S!CloseStream(feed) IN
         ServerOK(to) /\ \A d \in Ids : d # line.conn => to.conns[d] = feed.conns[d]
<1>1. CASE line.conn = 0
  BY <1>1 DEF FeedInv, S!CloseStream, S!NoConn
<1>2. CASE line.conn # 0
  <2>1. {line.conn} \subseteq ViewersOf(feed)
    BY <1>2 DEF FeedInv, LineShape, PageHeld, ViewersOf, Viewing
  <2>2. S!CloseStream(feed) = S!HangUp(feed, {line.conn})
    BY <1>2 DEF S!CloseStream, S!NoConn
  <2> QED
    BY <2>1, <2>2, HangUpKeeps DEF FeedInv
<1> QED
  BY <1>1, <1>2

LEMMA FeedInit == S!Init => FeedInv
<1> SUFFICES ASSUME S!Init PROVE FeedInv
  OBVIOUS
<1>1. feed = S!Boot /\ line = S!Fresh
  BY DEF S!Init
<1>2. ViewersOf(S!Boot) = {}
  BY DEF S!Boot, ViewersOf, Viewing
<1>3. CountedRight(S!Boot)
  <2>1. S!Boot.slots = 0 /\ S!Boot.running = FALSE /\ Cardinality({}) = 0 /\ 0 <= SlotLimit
    BY FS_EmptySet, Limits DEF S!Boot
  <2> QED
    BY <1>2, <2>1 DEF CountedRight
<1>4. S!Boot \in ServerShape /\ NewestFrames(S!Boot)
  BY Limits DEF S!Boot, ServerShape, Kinds, NewestFrames, EndsAt
<1>5. S!Fresh \in LineShape /\ S!Fresh.conn = 0
  BY DEF S!Fresh, S!NoConn, LineShape
<1> QED
  BY <1>1, <1>3, <1>4, <1>5 DEF FeedInv, ServerOK, PageHeld

\* The two ways a step leaves the page's socket: with the slot it has, or with none.
LEMMA Holds ==
  ASSUME FeedInv, ServerOK(feed'), line' \in LineShape,
         line'.conn = line.conn, line'.sock = line.sock \/ line'.sock # "none",
         \A d \in Ids : feed.conns[d] = "page" => feed'.conns[d] = "page"
  PROVE  FeedInv'
BY FiniteIds DEF FeedInv, PageHeld, LineShape

LEMMA LetsGo ==
  ASSUME ServerOK(feed'), line' \in LineShape, line'.conn = 0
  PROVE  FeedInv'
BY DEF FeedInv, PageHeld

LEMMA SameLine ==
  ASSUME FeedInv, ServerOK(feed'), line' = line,
         \A d \in Ids : feed.conns[d] = "page" => feed'.conns[d] = "page"
  PROVE  FeedInv'
BY Holds DEF FeedInv

LEMMA Admitted ==
  ASSUME FeedInv, S!Room, NEW kind \in {"page", "probe", "other"}, feed' = S!Admit(feed, S!NextId, kind)
  PROVE  /\ S!NextId \in Ids /\ ServerOK(feed') /\ feed'.conns[S!NextId] = kind
         /\ \A d \in Ids : feed.conns[d] = "page" => feed'.conns[d] = "page"
<1>1. S!NextId \in Ids /\ feed.conns[S!NextId] = "free" /\ feed.slots < SlotLimit
  BY NextIdIsFree DEF S!Room
<1>2. /\ ServerOK(feed') /\ feed'.conns[S!NextId] = kind
      /\ \A d \in Ids \ {S!NextId} : feed'.conns[d] = feed.conns[d]
  BY <1>1, AdmitKeeps DEF FeedInv
<1> QED
  BY <1>1, <1>2

LEMMA StreamEmits == FeedInv /\ S!Emit => FeedInv'
<1> SUFFICES ASSUME FeedInv, S!Emit PROVE FeedInv'
  OBVIOUS
<1>1. feed \in ServerShape /\ ServerOK(feed) /\ line \in LineShape
  BY DEF FeedInv, ServerOK
<1> DEFINE c == (feed.cursor + 1) % Corpus
           f == Len(feed.made) + 1
<1>2. c \in Nat /\ feed.cursor \in Nat /\ f \in Nat
  BY <1>1, FeedConstants DEF ServerShape
<1>3. /\ feed' = [feed EXCEPT !.made = Append(feed.made, feed.cursor), !.cursor = c,
                     !.store = S!SpecimenStorePut(feed.store, f),
                     !.ring = S!LastN(RingMax, Append(feed.ring, f))]
      /\ line' = line \/ line' = [line EXCEPT !.wire = Append(@, f)]
  BY <1>1 DEF S!Emit, ServerShape
<1> HIDE DEF c
<1>4. ServerOK(feed') /\ feed'.conns = feed.conns
  BY <1>1, <1>2, <1>3, EmitKeeps
<1> HIDE DEF f
<1>5. line' \in LineShape /\ line'.conn = line.conn /\ line'.sock = line.sock
  <2>1. CASE line' = line
    BY <1>1, <2>1
  <2>2. CASE line' = [line EXCEPT !.wire = Append(@, f)]
    BY <1>1, <1>2, <2>2, AppendToWire
  <2> QED
    BY <1>3, <2>1, <2>2
<1> QED
  BY <1>4, <1>5, Holds

LEMMA StreamFails == FeedInv /\ S!EmitFails => FeedInv'
<1> SUFFICES ASSUME FeedInv, S!EmitFails PROVE FeedInv'
  OBVIOUS
<1>1. feed \in ServerShape /\ CountedRight(feed) /\ NewestFrames(feed)
  BY DEF FeedInv, ServerOK
<1> DEFINE c == (feed.cursor + 1) % Corpus
<1>2. c \in Nat
  BY <1>1, FeedConstants DEF ServerShape
<1>3. feed' = [feed EXCEPT !.cursor = c] /\ line' = line
  BY <1>1 DEF S!EmitFails, ServerShape
<1> HIDE DEF c
<1>4. /\ feed' \in ServerShape
      /\ feed'.made = feed.made /\ feed'.ring = feed.ring /\ feed'.store = feed.store
      /\ feed'.slots = feed.slots /\ feed'.running = feed.running /\ feed'.conns = feed.conns
  BY <1>1, <1>2, <1>3 DEF ServerShape
<1>5. ViewersOf(feed') = ViewersOf(feed)
  BY <1>4 DEF ViewersOf
<1>6. ServerOK(feed')
  BY <1>1, <1>4, <1>5 DEF ServerOK, CountedRight, NewestFrames
<1> QED
  BY <1>3, <1>4, <1>6, SameLine

LEMMA DroppedLine ==
  ASSUME NEW l \in LineShape
  PROVE  S!Dropped(l) \in LineShape /\ S!Dropped(l).conn = 0
<1> DEFINE none == <<>>
           r == [l EXCEPT !.sock = "connecting", !.conn = 0, !.wire = none,
                          !.ownsRetry = FALSE, !.state = "offline"]
<1>1. none \in Seq(Nat)
  OBVIOUS
<1>2. S!Dropped(l) = r
  BY DEF S!Dropped, S!NoConn
<1> HIDE DEF none
<1>3. r \in LineShape /\ r.conn = 0
  BY <1>1 DEF LineShape
<1> QED
  BY <1>2, <1>3

LEMMA ConnectedLine ==
  ASSUME NEW l \in LineShape
  PROVE  LET r == [S!Connect(l) EXCEPT !.timer = FALSE] IN r \in LineShape /\ r.conn = 0
<1> DEFINE none == <<>>
           r == [l EXCEPT !.sock = "connecting", !.conn = 0, !.wire = none,
                          !.state = "connecting", !.capped = FALSE]
           s == [r EXCEPT !.timer = FALSE]
<1>1. none \in Seq(Nat)
  OBVIOUS
<1>2. S!Connect(l) = r
  BY DEF S!Connect, S!NoConn
<1> HIDE DEF none
<1>3. r \in LineShape /\ r.conn = 0
  BY <1>1 DEF LineShape
<1> HIDE DEF r
<1>4. s \in LineShape /\ s.conn = 0
  BY <1>3 DEF LineShape
<1> QED
  BY <1>2, <1>4

\* After a restart nobody is connected, and the specimens are those there were.
LEMMA StreamRestarts == FeedInv /\ S!Restart => FeedInv'
<1> SUFFICES ASSUME FeedInv, S!Restart PROVE FeedInv'
  OBVIOUS
<1>1. feed \in ServerShape /\ NewestFrames(feed) /\ line \in LineShape
  BY DEF FeedInv, ServerOK
<1>2. /\ feed'.made = feed.made /\ feed'.store = feed.store /\ feed'.ring = <<>>
      /\ feed'.slots = 0 /\ feed'.running = FALSE /\ feed'.conns = [c \in Ids |-> "free"]
      /\ feed' \in ServerShape
  <2>1. /\ S!Boot \in ServerShape /\ S!Boot.ring = <<>> /\ S!Boot.slots = 0 /\ S!Boot.running = FALSE
        /\ S!Boot.conns = [c \in Ids |-> "free"]
    BY DEF S!Boot, ServerShape, Kinds
  <2>2. feed' = [S!Boot EXCEPT !.made = feed.made, !.store = feed.store]
    BY DEF S!Restart
  <2>3. feed.made \in Seq(Nat) /\ feed.store \in Seq(Nat)
    BY <1>1 DEF ServerShape
  <2> QED
    BY <2>1, <2>2, <2>3 DEF ServerShape
<1>3. ViewersOf(feed') = {}
  BY <1>2 DEF ViewersOf, Viewing
<1>4. CountedRight(feed')
  BY <1>2, <1>3, FS_EmptySet, Limits DEF CountedRight
<1>5. NewestFrames(feed')
  BY <1>1, <1>2, Limits DEF NewestFrames, EndsAt, ServerShape
<1>6. line' \in LineShape /\ line'.conn = 0
  <2>1. CASE line.sock = "none"
    <3>1. line' = [line EXCEPT !.asked = 0] /\ line.conn = 0
      BY <1>1, <2>1 DEF S!Restart, FeedInv, PageHeld
    <3> QED
      BY <1>1, <3>1 DEF LineShape
  <2>2. CASE line.sock # "none"
    <3>1. S!Dropped(line) \in LineShape /\ S!Dropped(line).conn = 0
      BY <1>1, DroppedLine
    <3>2. line' = [S!Dropped(line) EXCEPT !.asked = 0]
      BY <2>2 DEF S!Restart
    <3> HIDE DEF S!Dropped
    <3> QED
      BY <3>1, <3>2 DEF LineShape
  <2> QED
    BY <2>1, <2>2
<1> QED
  BY <1>2, <1>4, <1>5, <1>6, LetsGo DEF ServerOK

-----------------------------------------------------------------------------
LEMMA StreamConnections ==
  ASSUME FeedInv, NEW c \in Ids, S!OtherCloses(c) \/ S!NoticeError(c) \/ S!NoticeClose(c) \/ S!HearAdmitted(c)
  PROVE  FeedInv'
<1>1. ServerOK(feed) /\ feed \in ServerShape /\ line \in LineShape
  BY DEF FeedInv, ServerOK
<1>2. ASSUME feed.conns[c] \in {"other", "probe"}, feed' = S!HangUp(feed, {c})
      PROVE  ServerOK(feed') /\ \A d \in Ids : feed.conns[d] = "page" => feed'.conns[d] = "page"
  <2>1. {c} \subseteq ViewersOf(feed)
    BY <1>2 DEF ViewersOf, Viewing
  <2>2. ServerOK(S!HangUp(feed, {c})) /\ \A d \in Ids \ {c} : S!HangUp(feed, {c}).conns[d] = feed.conns[d]
    BY <1>1, <2>1, HangUpKeeps
  <2> QED
    BY <1>2, <2>2
<1>3. CASE S!OtherCloses(c)
  <2>1. feed.conns[c] \in {"other", "probe"} /\ feed' = S!HangUp(feed, {c}) /\ line' = line
    BY <1>3 DEF S!OtherCloses
  <2> QED
    BY <1>2, <2>1, SameLine
<1>4. CASE S!HearAdmitted(c)
  <2>1. feed.conns[c] \in {"other", "probe"} /\ feed' = S!HangUp(feed, {c}) /\ line' = [line EXCEPT !.capped = FALSE]
    BY <1>4 DEF S!HearAdmitted
  <2>2. line' \in LineShape /\ line'.conn = line.conn /\ line'.sock = line.sock
    BY <1>1, <2>1 DEF LineShape
  <2> QED
    BY <1>2, <2>1, <2>2, Holds
<1>5. CASE S!NoticeError(c)
  <2>1. feed.conns[c] = "gone" /\ feed' = [S!CleanUp(feed) EXCEPT !.conns[c] = "cleaned"] /\ line' = line
    BY <1>5 DEF S!NoticeError
  <2>2. ServerOK(feed') /\ \A d \in Ids \ {c} : feed'.conns[d] = feed.conns[d]
    BY <1>1, <2>1, CleanUpKeeps
  <2> QED
    BY <2>1, <2>2, SameLine
<1>6. CASE S!NoticeClose(c)
  <2>1. CASE feed.conns[c] = "gone"
    <3>1. feed' = [S!CleanUp(feed) EXCEPT !.conns[c] = "free"] /\ line' = line
      BY <1>6, <2>1 DEF S!NoticeClose, S!Closed
    <3>2. ServerOK(feed') /\ \A d \in Ids \ {c} : feed'.conns[d] = feed.conns[d]
      BY <1>1, <2>1, <3>1, CleanUpKeeps
    <3> QED
      BY <2>1, <3>1, <3>2, SameLine
  <2>2. CASE feed.conns[c] = "cleaned"
    <3>1. feed' = [feed EXCEPT !.conns[c] = "free"] /\ line' = line
      BY <1>6, <2>2 DEF S!NoticeClose, S!Closed
    <3>2. ServerOK(feed') /\ \A d \in Ids \ {c} : feed'.conns[d] = feed.conns[d]
      BY <1>1, <2>2, <3>1, SecondEndKeeps
    <3> QED
      BY <2>2, <3>1, <3>2, SameLine
  <2> QED
    BY <1>6, <2>1, <2>2 DEF S!NoticeClose
<1> QED
  BY <1>3, <1>4, <1>5, <1>6

LEMMA ReplaySeq ==
  ASSUME FeedInv
  PROVE  <<S!Open>> \o S!Replay \in Seq(Nat)
<1>1. feed.ring \in Seq(Nat)
  BY DEF FeedInv, ServerOK, ServerShape
<1>2. S!Replay \in Seq(Nat)
  BY <1>1, Limits, LastNSeq DEF S!Replay
<1> HIDE DEF S!Replay
<1>3. <<S!Open>> \in Seq(Nat)
  BY DEF S!Open
<1> QED
  BY <1>2, <1>3

LEMMA StreamAccepts ==
  FeedInv /\ (S!Accept \/ S!OtherOpens \/ S!ProbeAdmitted) => FeedInv'
<1> SUFFICES ASSUME FeedInv, S!Accept \/ S!OtherOpens \/ S!ProbeAdmitted PROVE FeedInv'
  OBVIOUS
<1>1. line \in LineShape
  BY DEF FeedInv
<1>2. CASE S!Accept
  <2> DEFINE wire == <<S!Open>> \o S!Replay
             id == S!NextId
  <2>1. /\ line.sock = "connecting" /\ S!Room /\ feed' = S!Admit(feed, id, "page")
        /\ line' = [line EXCEPT !.conn = id, !.wire = wire]
    BY <1>2 DEF S!Accept, S!Waiting
  <2>2. id \in Ids /\ ServerOK(feed') /\ feed'.conns[id] = "page" /\ wire \in Seq(Nat)
    BY <2>1, Admitted, ReplaySeq
  <2> HIDE DEF wire, id
  <2>3. line' \in LineShape /\ line'.conn = id /\ line'.sock = "connecting"
    BY <1>1, <2>1, <2>2 DEF LineShape
  <2> QED
    BY <2>2, <2>3 DEF FeedInv, PageHeld
<1>3. CASE S!OtherOpens
  BY <1>3, Admitted, SameLine DEF S!OtherOpens
<1>4. CASE S!ProbeAdmitted
  <2> DEFINE fewer == line.asked - 1
  <2>1. S!Room /\ feed' = S!Admit(feed, S!NextId, "probe") /\ line' = [line EXCEPT !.asked = fewer] /\ fewer \in Nat
    BY <1>1, <1>4 DEF S!ProbeAdmitted, LineShape
  <2> HIDE DEF fewer
  <2>2. ServerOK(feed') /\ \A d \in Ids : feed.conns[d] = "page" => feed'.conns[d] = "page"
    BY <2>1, Admitted
  <2>3. line' \in LineShape /\ line'.conn = line.conn /\ line'.sock = line.sock
    BY <1>1, <2>1 DEF LineShape
  <2> QED
    BY <2>2, <2>3, Holds
<1> QED
  BY <1>2, <1>3, <1>4

LEMMA StreamOpens == FeedInv /\ (S!OnOpen \/ S!OnMessage) => FeedInv'
<1> SUFFICES ASSUME FeedInv, S!OnOpen \/ S!OnMessage PROVE FeedInv'
  OBVIOUS
<1> DEFINE rest == Tail(line.wire)
<1>1. line \in LineShape /\ feed' = feed /\ ServerOK(feed) /\ line.wire \in Seq(Nat) /\ line.wire # <<>>
  BY DEF FeedInv, S!OnOpen, S!OnMessage, LineShape
<1>2. rest \in Seq(Nat)
  BY <1>1
<1> HIDE DEF rest
<1>3. line' \in LineShape /\ line'.conn = line.conn /\ (line'.sock = line.sock \/ line'.sock # "none")
  <2>1. CASE S!OnOpen
    <3>1. line' = [line EXCEPT !.wire = rest, !.sock = "open", !.state = "streaming",
                               !.capped = FALSE, !.ownsRetry = FALSE]
      BY <2>1 DEF S!OnOpen, rest
    <3> QED
      BY <1>1, <1>2, <3>1 DEF LineShape
  <2>2. CASE S!OnMessage
    <3>1. line' = [line EXCEPT !.wire = rest]
      BY <2>2 DEF S!OnMessage, rest
    <3> QED
      BY <1>1, <1>2, <3>1 DEF LineShape
  <2> QED
    BY <2>1, <2>2
<1> QED
  BY <1>1, <1>3, Holds

LEMMA StreamReconnects ==
  FeedInv /\ (S!Drop \/ S!TimerFires \/ S!ClickReconnect \/ S!Remount) => FeedInv'
<1> SUFFICES ASSUME FeedInv, S!Drop \/ S!TimerFires \/ S!ClickReconnect \/ S!Remount PROVE FeedInv'
  OBVIOUS
<1>1. line \in LineShape
  BY DEF FeedInv
<1> DEFINE to == S!CloseStream(feed)
<1>2. ServerOK(to) /\ \A d \in Ids : d # line.conn => to.conns[d] = feed.conns[d]
  BY CloseStreamKeeps
<1>3. CASE S!Drop
  <2>1. feed' = to /\ line' = S!Dropped(line)
    BY <1>3 DEF S!Drop
  <2> QED
    BY <1>1, <1>2, <2>1, DroppedLine, LetsGo
<1>4. CASE S!TimerFires \/ S!ClickReconnect
  <2>1. feed' = to /\ line' = [S!Connect(line) EXCEPT !.timer = FALSE]
    BY <1>4 DEF S!TimerFires, S!ClickReconnect
  <2> QED
    BY <1>1, <1>2, <2>1, ConnectedLine, LetsGo
<1>5. CASE S!Remount
  <2> DEFINE probes == {c \in Ids : feed.conns[c] = "probe"}
  <2>1. feed' = S!HangUp(to, probes) /\ line' = S!Fresh
    BY <1>5 DEF S!Remount
  <2>2. probes \subseteq ViewersOf(to)
    <3>1. line.conn # 0 => feed.conns[line.conn] = "page"
      BY DEF FeedInv, PageHeld
    <3>2. line.conn \in Ids \cup {0} /\ 0 \notin Ids
      BY <1>1, FiniteIds DEF LineShape
    <3> QED
      BY <1>2, <3>1, <3>2 DEF ViewersOf, Viewing
  <2> HIDE DEF probes, to
  <2>3. ServerOK(feed')
    BY <1>2, <2>1, <2>2, HangUpKeeps
  <2>4. S!Fresh \in LineShape /\ S!Fresh.conn = 0
    BY DEF S!Fresh, S!NoConn, LineShape
  <2> QED
    BY <2>1, <2>3, <2>4, LetsGo
<1> QED
  BY <1>3, <1>4, <1>5

LEMMA StreamRefusals ==
  /\ FeedInv
  /\ \/ \E status \in {429, 502} : S!Refuse(status)
     \/ S!ProbeRefused \/ S!HearRefused
     \/ \E answered \in BOOLEAN : S!ProbeFails(answered)
  => FeedInv'
<1> SUFFICES ASSUME FeedInv,
                    \/ \E status \in {429, 502} : S!Refuse(status)
                    \/ S!ProbeRefused \/ S!HearRefused
                    \/ \E answered \in BOOLEAN : S!ProbeFails(answered)
             PROVE  FeedInv'
  OBVIOUS
<1> DEFINE more == line.asked + 1
           fewer == line.asked - 1
           told == line.refused + 1
           left == line.refused - 1
<1>1. /\ line \in LineShape /\ ServerOK(feed)
      /\ more \in Nat /\ told \in Nat
      /\ line.asked > 0 => fewer \in Nat
      /\ line.refused > 0 => left \in Nat
  BY DEF FeedInv, LineShape
<1>2. CASE \E status \in {429, 502} : S!Refuse(status)
  <2>1. /\ feed' = feed /\ line.conn = 0
        /\ line' = [line EXCEPT !.sock = "none", !.ownsRetry = TRUE, !.state = "offline",
                                !.timer = TRUE, !.asked = more]
    BY <1>1, <1>2 DEF S!Refuse, S!Waiting, S!NoConn, LineShape
  <2> HIDE DEF more
  <2>2. line' \in LineShape /\ line'.conn = 0
    BY <1>1, <2>1 DEF LineShape
  <2> QED
    BY <1>1, <2>1, <2>2, LetsGo
<1>3. ASSUME feed' = feed, line' \in LineShape, line'.conn = line.conn, line'.sock = line.sock
      PROVE  FeedInv'
  BY <1>1, <1>3, Holds
<1>4. CASE S!ProbeRefused
  <2>1. line' \in LineShape /\ line'.conn = line.conn /\ line'.sock = line.sock
    <3>1. line.asked > 0 /\ line' = [line EXCEPT !.asked = fewer, !.refused = told]
      BY <1>1, <1>4 DEF S!ProbeRefused, LineShape
    <3> HIDE DEF fewer, told
    <3> QED
      BY <1>1, <3>1 DEF LineShape
  <2> QED
    BY <1>3, <1>4, <2>1 DEF S!ProbeRefused
<1>5. CASE S!HearRefused
  <2>1. line' \in LineShape /\ line'.conn = line.conn /\ line'.sock = line.sock
    <3>1. line.refused > 0 /\ line' = [line EXCEPT !.refused = left, !.capped = TRUE]
      BY <1>1, <1>5 DEF S!HearRefused, LineShape
    <3> HIDE DEF left
    <3> QED
      BY <1>1, <3>1 DEF LineShape
  <2> QED
    BY <1>3, <1>5, <2>1 DEF S!HearRefused
<1>6. ASSUME NEW answered \in BOOLEAN, S!ProbeFails(answered)
      PROVE  FeedInv'
  <2>1. PICK says \in BOOLEAN : line' = [line EXCEPT !.asked = fewer, !.capped = says]
    <3>1. CASE answered
      BY <1>1, <1>6, <3>1 DEF S!ProbeFails, LineShape
    <3>2. CASE ~answered
      BY <1>1, <1>6, <3>2 DEF S!ProbeFails, LineShape
    <3> QED
      BY <3>1, <3>2
  <2>2. line.asked > 0 /\ feed' = feed
    BY <1>6 DEF S!ProbeFails
  <2> HIDE DEF fewer
  <2>3. line' \in LineShape /\ line'.conn = line.conn /\ line'.sock = line.sock
    BY <1>1, <2>1, <2>2 DEF LineShape
  <2> QED
    BY <1>3, <2>2, <2>3
<1> QED
  BY <1>2, <1>4, <1>5, <1>6

\* The rows and their grades are the page's own.
LEMMA StreamRows ==
  FeedInv /\ UNCHANGED <<feed, line>> => FeedInv'
BY SameLine DEF FeedInv

LEMMA FeedStep == FeedInv /\ S!Next => FeedInv'
<1> SUFFICES ASSUME FeedInv, S!Next PROVE FeedInv'
  OBVIOUS
<1>1. CASE S!Emit \/ S!EmitFails \/ S!Restart
  BY <1>1, StreamEmits, StreamFails, StreamRestarts
<1>2. CASE S!Accept \/ S!OtherOpens \/ S!ProbeAdmitted
  BY <1>2, StreamAccepts
<1>3. CASE \E c \in Ids : S!OtherCloses(c) \/ S!NoticeError(c) \/ S!NoticeClose(c) \/ S!HearAdmitted(c)
  BY <1>3, StreamConnections
<1>4. CASE S!OnOpen \/ S!OnMessage
  BY <1>4, StreamOpens
<1>5. CASE S!Drop \/ S!TimerFires \/ S!ClickReconnect \/ S!Remount
  BY <1>5, StreamReconnects
<1>6. CASE \/ \E status \in {429, 502} : S!Refuse(status)
           \/ S!ProbeRefused \/ S!HearRefused
           \/ \E answered \in BOOLEAN : S!ProbeFails(answered)
  BY <1>6, StreamRefusals
<1>7. CASE \/ S!Pause \/ S!Resume \/ \E name \in {"all", "findings"} : S!Filter(name)
           \/ S!FlushGrades \/ S!GradesArrive \/ S!GradesFail
  <2>1. UNCHANGED <<feed, line>>
    BY <1>7 DEF S!Pause, S!Resume, S!Filter, S!FlushGrades, S!GradesArrive, S!GradesFail
  <2> QED
    BY <2>1, StreamRows
<1> QED
  BY <1>1, <1>2, <1>3, <1>4, <1>5, <1>6, <1>7 DEF S!Next

LEMMA SameCount == \A V : S!Cardinality(V) = Cardinality(V)
BY DEF S!Cardinality, Cardinality

LEMMA FeedImplies == FeedInv => SlotsAreViewers
<1> SUFFICES ASSUME FeedInv PROVE SlotsAreViewers
  OBVIOUS
<1>1. CountedRight(feed) /\ NewestFrames(feed) /\ feed \in ServerShape
  BY DEF FeedInv, ServerOK
<1>2. S!Viewers = ViewersOf(feed)
  BY DEF S!Viewers, ViewersOf, Viewing
<1> DEFINE n == Len(feed.made)
           st == feed.store
           rg == feed.ring
<1>3. /\ st \in Seq(Nat) /\ rg \in Seq(Nat) /\ n \in Nat /\ Len(rg) <= Len(st)
      /\ \A i \in 1 .. Len(rg) : rg[i] = n - Len(rg) + i
      /\ \A i \in 1 .. Len(st) : st[i] = n - Len(st) + i
  BY <1>1 DEF NewestFrames, EndsAt, ServerShape
<1> HIDE DEF n, st, rg
<1>4. ASSUME NEW i \in 1 .. Len(rg)
      PROVE  \E j \in 1 .. Len(st) : rg[i] = st[j]
  <2> DEFINE j == Len(st) - Len(rg) + i
  <2>1. Len(st) \in Nat /\ Len(rg) \in Nat
    BY <1>3
  <2>2. j \in 1 .. Len(st) /\ n - Len(st) + j = n - Len(rg) + i
    BY <1>3, <2>1
  <2>3. st[j] = n - Len(st) + j
    BY <1>3, <2>2
  <2>4. rg[i] = st[j]
    BY <1>3, <2>2, <2>3
  <2> HIDE DEF j
  <2> QED
    BY <2>2, <2>4
<1>5. S!ToSet(rg) \subseteq S!ToSet(st)
  <2>1. DOMAIN rg = 1 .. Len(rg) /\ DOMAIN st = 1 .. Len(st)
    BY <1>3
  <2> QED
    BY <1>4, <2>1, Zenon DEF S!ToSet
<1>6. /\ feed.slots = Cardinality(S!Viewers) /\ feed.slots <= SlotLimit
      /\ feed.running <=> S!Viewers # {}
  BY <1>1, <1>2 DEF CountedRight
<1> QED
  BY <1>5, <1>6, SameCount, Zenon DEF SlotsAreViewers, S!SlotsAreViewers, rg, st

-----------------------------------------------------------------------------
LEMMA FeedInvariance == BothSpec => []FeedInv
<1>1. BothInit => FeedInv
  BY FeedInit DEF BothInit
<1>2. FeedInv /\ [BothNext]_<<half, vars, stream>> => FeedInv'
  <2> SUFFICES ASSUME FeedInv, [BothNext]_<<half, vars, stream>> PROVE FeedInv'
    OBVIOUS
  <2>1. CASE FeedMoves
    BY <2>1, FeedStep DEF FeedMoves
  <2>2. CASE KeyMoves \/ UNCHANGED <<half, vars, stream>>
    BY <2>2, StreamRows DEF KeyMoves, stream
  <2> QED
    BY <2>1, <2>2 DEF BothNext
<1> QED
  BY <1>1, <1>2, PTL DEF BothSpec

\* A slot is held exactly as long as a viewer the server knows of, the generator runs
\* exactly while there is one, and what is replayed can be opened by its link.
THEOREM SlotsTheorem == BothSpec => []SlotsAreViewers
BY FeedInvariance, FeedImplies, PTL

-----------------------------------------------------------------------------
(* What the page shows.  Sequences are read from their end: the newest     *)
(* frame is the last of what was taken and the first of the rows.          *)

RowShape == [frame : Nat, hidden : BOOLEAN, grade : {"none", "danger", "ok"}]
TableShape ==
  [paused : BOOLEAN, held : Seq(Nat), total : Nat, seen : Seq(Nat),
   rows : Seq(RowShape), filter : {"all", "findings"}]
GradingShape ==
  [cache : SUBSET Nat, queue : Seq(Nat), timer : BOOLEAN, batch : SUBSET Nat,
   calls : Nat, gaveUp : BOOLEAN]

In(f, s) == \E i \in 1 .. Len(s) : s[i] = f
Above(f, s) == \A i \in 1 .. Len(s) : s[i] < f

\* In order, and as far apart as frames that are numbered one by one must be.
Spaced(s) == \A i, j \in 1 .. Len(s) : i <= j => s[j] >= s[i] + (j - i)

\* A frame that was taken, or is newer than all that were.
Known(f, s) == In(f, s) \/ Above(f, s)

\* What a new connection would be sent.
ReplayedBy(sv) == (Len(sv.made) - Len(S!LastN(ReplayMax, sv.ring)) + 1) .. Len(sv.made)

\* On its way are frames in order, taken already or newer; nothing without a socket.
WireOK(sv, l, seen) ==
  /\ l.conn = 0 => l.wire = <<>>
  /\ Spaced(l.wire)
  /\ \A i \in 1 .. Len(l.wire) :
       l.wire[i] <= Len(sv.made) /\ (l.wire[i] # 0 => Known(l.wire[i], seen))

\* A replay brings back no frame that was passed over, and owes the page none.
OwesNone(sv, l, seen) ==
  \A f \in ReplayedBy(sv) :
    /\ Known(f, seen)
    /\ l.conn # 0 => In(f, l.wire) \/ In(f, seen)

Taken(sv, seen) ==
  Spaced(seen) /\ \A i \in 1 .. Len(seen) : seen[i] \in 1 .. Len(sv.made)

\* The rows are what was taken, from the end, but for the newest k.
Shows(rows, seen, k) ==
  /\ Len(rows) <= MaxRows
  /\ \A i \in 1 .. MaxRows : i + k <= MaxRows =>
       /\ i <= Len(rows) <=> i + k <= Len(seen)
       /\ i <= Len(rows) => rows[i].frame = seen[Len(seen) - (k + i - 1)]

\* A pause holds the newest of what was taken during it.
Held(held, seen, k) ==
  /\ Len(held) = (IF k <= MaxRows THEN k ELSE MaxRows)
  /\ Len(held) <= Len(seen)
  /\ \A j \in 0 .. Len(held) - 1 : held[Len(held) - j] = seen[Len(seen) - j]

TableOK(t) ==
  /\ ~t.paused => t.held = <<>> /\ Shows(t.rows, t.seen, 0)
  /\ t.paused => Held(t.held, t.seen, t.total) /\ Shows(t.rows, t.seen, t.total)

\* A row has its source's grade, or its source is queued unless the page gave up.
RowGraded(row, emitted, g) ==
  /\ row.frame \in 1 .. Len(emitted)
  /\ row.grade = IF emitted[row.frame] \in g.cache THEN S!Grade(emitted[row.frame]) ELSE "none"
  /\ row.grade # "none" \/ g.gaveUp \/ In(emitted[row.frame], g.queue)
RowsGraded(rows, emitted, g) == \A i \in 1 .. Len(rows) : RowGraded(rows[i], emitted, g)

\* What is queued has a request under way or due, unless the page gave up.
RequestDue(g) == g.gaveUp \/ g.queue = <<>> \/ g.timer \/ g.batch # {}

Filtered(t) == \A i \in 1 .. Len(t.rows) : t.rows[i].hidden <=> ~S!MatchesFilter(t.filter, t.rows[i])

LEMMA PageLimits ==
  /\ MaxRows \in Nat /\ MaxRows # 0 /\ BatchMax \in Nat /\ BatchMax # 0 /\ SeenMax \in Nat /\ ReplayMax \in Nat
  /\ ReplayMax <= SeenMax /\ MaxRows <= SeenMax
BY FeedLimits, FeedConstants

-----------------------------------------------------------------------------
(* What is kept of a sequence to which a frame is appended, from its end.  *)

LEMMA SuffixIs ==
  ASSUME NEW s \in Seq(Nat), NEW n \in Nat
  PROVE  LET t == S!LastN(n, s) IN
         /\ Len(s) \in Nat /\ Len(t) \in Nat
         /\ t \in Seq(Nat) /\ Len(t) = (IF Len(s) <= n THEN Len(s) ELSE n)
         /\ \A j \in 0 .. Len(t) - 1 : t[Len(t) - j] = s[Len(s) - j]
<1> DEFINE t == S!LastN(n, s)
<1>1. /\ t \in Seq(Nat) /\ Len(t) <= n /\ Len(t) <= Len(s)
      /\ \A i \in 1 .. Len(t) : t[i] = s[Len(s) - Len(t) + i]
  BY LastNSeq
<1>2. Len(t) = (IF Len(s) <= n THEN Len(s) ELSE n)
  <2>1. CASE Len(s) <= n
    BY <2>1 DEF S!LastN
  <2>2. CASE ~(Len(s) <= n)
    <3> DEFINE k == Len(s) - n
               r == SubSeq(s, k + 1, Len(s))
    <3>1. k \in 0 .. Len(s) /\ S!LastN(n, s) = r /\ Len(s) - k = n
      BY <2>2 DEF S!LastN
    <3> HIDE DEF k
    <3>2. Len(r) = Len(s) - k
      BY <3>1, SuffixOf
    <3> QED
      BY <2>2, <3>1, <3>2
  <2> QED
    BY <2>1, <2>2
<1> HIDE DEF t
<1>3. ASSUME NEW j \in 0 .. Len(t) - 1 PROVE t[Len(t) - j] = s[Len(s) - j]
  <2> DEFINE i == Len(t) - j
  <2>1. Len(t) \in Nat /\ Len(s) \in Nat /\ i \in 1 .. Len(t) /\ Len(s) - Len(t) + i = Len(s) - j
    BY <1>1
  <2> HIDE DEF i
  <2>2. t[i] = s[Len(s) - j]
    BY <1>1, <2>1
  <2> QED
    BY <2>2 DEF i
<1> QED
  BY <1>1, <1>2, <1>3 DEF t

LEMMA FunctionIsSeq ==
  ASSUME NEW T, NEW n \in Nat, NEW f \in [1 .. n -> T]
  PROVE  f \in Seq(T) /\ Len(f) = n
OBVIOUS

LEMMA Keeping ==
  ASSUME NEW s \in Seq(Nat), NEW f \in Nat, NEW n \in Nat
  PROVE  LET t == S!LastN(n, Append(s, f)) IN
         /\ Len(s) \in Nat /\ Len(t) \in Nat
         /\ t \in Seq(Nat) /\ Len(t) = (IF Len(s) + 1 <= n THEN Len(s) + 1 ELSE n)
         /\ \A j \in 0 .. Len(t) - 1 : t[Len(t) - j] = IF j = 0 THEN f ELSE s[Len(s) - (j - 1)]
<1> DEFINE a == Append(s, f)
           t == S!LastN(n, a)
<1>1. /\ a \in Seq(Nat) /\ Len(a) = Len(s) + 1 /\ a[Len(s) + 1] = f
      /\ \A i \in 1 .. Len(s) : a[i] = s[i]
  OBVIOUS
<1> HIDE DEF a
<1>2. /\ t \in Seq(Nat) /\ Len(t) = (IF Len(a) <= n THEN Len(a) ELSE n)
      /\ \A j \in 0 .. Len(t) - 1 : t[Len(t) - j] = a[Len(a) - j]
  BY <1>1, SuffixIs
<1> HIDE DEF t
<1>3. ASSUME NEW j \in 0 .. Len(t) - 1
      PROVE  t[Len(t) - j] = IF j = 0 THEN f ELSE s[Len(s) - (j - 1)]
  <2>1. t[Len(t) - j] = a[Len(a) - j] /\ Len(s) \in Nat /\ Len(t) \in Nat
    BY <1>1, <1>2
  <2>2. CASE j = 0
    BY <1>1, <2>1, <2>2
  <2>3. CASE j # 0
    <3> DEFINE i == Len(a) - j
    <3>1. i \in 1 .. Len(s) /\ i = Len(s) - (j - 1)
      BY <1>1, <1>2, <2>1, <2>3
    <3> HIDE DEF i
    <3>2. a[i] = s[i]
      BY <1>1, <3>1
    <3> QED
      BY <2>1, <2>3, <3>1, <3>2 DEF i
  <2> QED
    BY <2>2, <2>3
<1> QED
  BY <1>1, <1>2, <1>3 DEF a, t

LEMMA KeepingLast ==
  ASSUME NEW s \in Seq(Nat), NEW f \in Nat, NEW n \in Nat, n # 0
  PROVE  LET t == S!LastN(n, Append(s, f)) IN
         Len(t) \in Nat /\ Len(t) # 0 /\ t[Len(t)] = f
<1> DEFINE t == S!LastN(n, Append(s, f))
<1>1. /\ Len(s) \in Nat /\ Len(t) \in Nat
      /\ t \in Seq(Nat) /\ Len(t) = (IF Len(s) + 1 <= n THEN Len(s) + 1 ELSE n)
      /\ \A j \in 0 .. Len(t) - 1 : t[Len(t) - j] = IF j = 0 THEN f ELSE s[Len(s) - (j - 1)]
  BY Keeping
<1> HIDE DEF t
<1>2. Len(t) # 0
  BY <1>1
<1>3. 0 \in 0 .. Len(t) - 1 /\ Len(t) - 0 = Len(t)
  BY <1>1, <1>2
<1>4. t[Len(t) - 0] = f
  BY <1>1, <1>3
<1> QED
  BY <1>1, <1>2, <1>3, <1>4 DEF t

\* The same, from the front: the oldest d are dropped.
LEMMA KeepingFront ==
  ASSUME NEW s \in Seq(Nat), NEW f \in Nat, NEW n \in Nat
  PROVE  \E d \in Nat : LET t == S!LastN(n, Append(s, f)) IN
           /\ Len(s) \in Nat /\ Len(t) \in Nat /\ Len(t) = Len(s) + 1 - d
           /\ (d # 0 => Len(t) = n) /\ (n # 0 => Len(t) # 0)
           /\ \A i \in 1 .. Len(t) : t[i] = IF d + i = Len(s) + 1 THEN f ELSE s[d + i]
<1> DEFINE t == S!LastN(n, Append(s, f))
           d == Len(s) + 1 - Len(t)
<1>1. /\ t \in Seq(Nat) /\ Len(t) = (IF Len(s) + 1 <= n THEN Len(s) + 1 ELSE n)
      /\ \A j \in 0 .. Len(t) - 1 : t[Len(t) - j] = IF j = 0 THEN f ELSE s[Len(s) - (j - 1)]
  BY Keeping, ZenonT(60)
<1> HIDE DEF t
<1>2. Len(s) \in Nat /\ Len(t) \in Nat /\ Len(t) = (IF Len(s) + 1 <= n THEN Len(s) + 1 ELSE n)
  BY <1>1
<1>3. d \in Nat /\ Len(t) = Len(s) + 1 - d /\ (d # 0 => Len(t) = n) /\ (n # 0 => Len(t) # 0)
  BY <1>2
<1>4. ASSUME NEW i \in 1 .. Len(t)
      PROVE  t[i] = IF d + i = Len(s) + 1 THEN f ELSE s[d + i]
  <2> DEFINE j == Len(t) - i
             p == Len(s)
             q == Len(t)
  <2>1. i \in Nat /\ 1 <= i /\ i <= q /\ p \in Nat /\ q \in Nat
    BY <1>2
  <2> HIDE DEF p, q
  <2>2. j \in 0 .. q - 1 /\ q - j = i
    BY <2>1 DEF q
  <2>3. (j = 0 <=> d + i = p + 1) /\ p - (j - 1) = d + i
    BY <2>1 DEF p, q
  <2> HIDE DEF j, d
  <2>4. t[q - j] = IF j = 0 THEN f ELSE s[p - (j - 1)]
    BY <1>1, <2>2 DEF p, q
  <2> QED
    BY <2>2, <2>3, <2>4 DEF p
<1> HIDE DEF d
<1> QED
  BY <1>2, <1>3, <1>4 DEF t

-----------------------------------------------------------------------------
(* Taking a frame that is newer than all that were taken.                  *)

LEMMA TakingSpaced ==
  ASSUME NEW s \in Seq(Nat), Spaced(s), NEW f \in Nat, Above(f, s), NEW n \in Nat
  PROVE  Spaced(S!LastN(n, Append(s, f)))
<1> DEFINE t == S!LastN(n, Append(s, f))
<1>1. PICK d \in Nat :
        /\ Len(s) \in Nat /\ Len(t) \in Nat /\ Len(t) = Len(s) + 1 - d
        /\ (d # 0 => Len(t) = n) /\ (n # 0 => Len(t) # 0)
        /\ \A i \in 1 .. Len(t) : t[i] = IF d + i = Len(s) + 1 THEN f ELSE s[d + i]
  BY KeepingFront
<1> HIDE DEF t
<1>2. \A k \in 1 .. Len(s) : s[k] \in Nat /\ s[k] < f
  BY DEF Above
<1>3. ASSUME NEW i \in 1 .. Len(t), NEW j \in 1 .. Len(t), i <= j
      PROVE  t[j] >= t[i] + (j - i)
  <2>0. i \in Nat /\ j \in Nat /\ 1 <= i /\ j <= Len(t)
    BY <1>1
  <2>1. CASE d + i = Len(s) + 1
    <3>1. j = i /\ t[i] = f
      BY <1>1, <1>3, <2>1
    <3> QED
      BY <3>1
  <2>2. CASE d + i # Len(s) + 1
    <3>1. d + i \in 1 .. Len(s) /\ t[i] = s[d + i]
      BY <1>1, <1>3, <2>0, <2>2
    <3>2. CASE d + j # Len(s) + 1
      <4>1. d + j \in 1 .. Len(s) /\ t[j] = s[d + j] /\ d + i <= d + j /\ (d + j) - (d + i) = j - i
        BY <1>1, <1>3, <2>0, <3>2
      <4> QED
        BY <3>1, <4>1 DEF Spaced
    <3>3. CASE d + j = Len(s) + 1
      <4> DEFINE m == Len(s)
      <4>1. t[j] = f /\ m \in 1 .. Len(s) /\ d + i <= m
        BY <1>1, <3>1, <3>3
      <4>2. s[m] >= s[d + i] + (m - (d + i)) /\ s[m] < f /\ s[m] \in Nat /\ s[d + i] \in Nat
        BY <1>2, <3>1, <4>1 DEF Spaced
      <4>3. j - i = m + 1 - (d + i)
        BY <1>1, <3>3
      <4> HIDE DEF m
      <4> QED
        BY <2>0, <3>1, <4>1, <4>2, <4>3, SMTT(40)
    <3> QED
      BY <3>2, <3>3
  <2> QED
    BY <2>1, <2>2
<1> QED
  BY <1>3 DEF Spaced, t

LEMMA TakingIn ==
  ASSUME NEW s \in Seq(Nat), NEW f \in Nat, NEW n \in Nat
  PROVE  LET t == S!LastN(n, Append(s, f)) IN
         /\ \A g : In(g, t) => g = f \/ In(g, s)
         /\ n # 0 => In(f, t)
<1> DEFINE t == S!LastN(n, Append(s, f))
<1>1. PICK d \in Nat :
        /\ Len(s) \in Nat /\ Len(t) \in Nat /\ Len(t) = Len(s) + 1 - d
        /\ (d # 0 => Len(t) = n) /\ (n # 0 => Len(t) # 0)
        /\ \A i \in 1 .. Len(t) : t[i] = IF d + i = Len(s) + 1 THEN f ELSE s[d + i]
  BY KeepingFront
<1> HIDE DEF t
<1>2. ASSUME NEW g, In(g, t) PROVE g = f \/ In(g, s)
  <2>1. PICK i \in 1 .. Len(t) : t[i] = g
    BY <1>2 DEF In
  <2>2. CASE d + i = Len(s) + 1
    BY <1>1, <2>1, <2>2
  <2>3. CASE d + i # Len(s) + 1
    <3>1. d + i \in 1 .. Len(s) /\ t[i] = s[d + i]
      BY <1>1, <2>3
    <3> QED
      BY <2>1, <3>1 DEF In
  <2> QED
    BY <2>2, <2>3
<1>3. ASSUME n # 0 PROVE In(f, t)
  <2>1. Len(t) \in Nat /\ Len(s) \in Nat /\ Len(t) = Len(s) + 1 - d /\ Len(t) # 0
    BY <1>1, <1>3
  <2>3. Len(t) \in 1 .. Len(t) /\ d + Len(t) = Len(s) + 1
    BY <2>1
  <2>2. t[Len(t)] = f
    BY <1>1, <2>3
  <2> QED
    BY <2>2, <2>3 DEF In
<1> QED
  BY <1>2, <1>3 DEF t

\* A frame that is forgotten has as many newer ones before it as are remembered.
LEMMA TakingKeeps ==
  ASSUME NEW s \in Seq(Nat), Spaced(s), NEW f \in Nat, Above(f, s), NEW n \in Nat,
         NEW g \in Nat, In(g, s), f < g + n
  PROVE  In(g, S!LastN(n, Append(s, f)))
<1> DEFINE t == S!LastN(n, Append(s, f))
<1>1. PICK d \in Nat :
        /\ Len(s) \in Nat /\ Len(t) \in Nat /\ Len(t) = Len(s) + 1 - d
        /\ (d # 0 => Len(t) = n) /\ (n # 0 => Len(t) # 0)
        /\ \A i \in 1 .. Len(t) : t[i] = IF d + i = Len(s) + 1 THEN f ELSE s[d + i]
  BY KeepingFront, ZenonT(60)
<1> HIDE DEF t
<1>2. PICK k \in 1 .. Len(s) : s[k] = g
  BY DEF In
<1>3. CASE k > d
  <2> DEFINE i == k - d
  <2>1. i \in 1 .. Len(t) /\ d + i = k /\ d + i # Len(s) + 1
    BY <1>1, <1>3
  <2> HIDE DEF i
  <2>2. t[i] = g
    BY <1>1, <1>2, <2>1
  <2> QED
    BY <2>1, <2>2 DEF In, t
<1>4. CASE ~(k > d)
  <2> DEFINE m == Len(s)
  <2>1. m \in 1 .. Len(s) /\ k <= m /\ Len(t) = n /\ k \in Nat
    BY <1>1, <1>2, <1>4
  <2>2. s[m] >= s[k] + (m - k) /\ s[m] < f /\ s[m] \in Nat /\ s[k] = g
    <3>1. s[m] >= s[k] + (m - k)
      BY <1>2, <2>1 DEF Spaced
    <3> QED
      BY <1>2, <2>1, <3>1 DEF Above
  <2>3. m - k >= n - 1 /\ m \in Nat
    BY <1>1, <1>4, <2>1
  <2> HIDE DEF m
  <2> QED
    BY <2>1, <2>2, <2>3
<1> QED
  BY <1>3, <1>4

\* What is newer than the frame that is taken stays newer than all that were.
LEMMA TakingBelow ==
  ASSUME NEW s \in Seq(Nat), NEW f \in Nat, Above(f, s), NEW n \in Nat, NEW g \in Nat, f < g
  PROVE  Above(g, S!LastN(n, Append(s, f)))
<1> DEFINE t == S!LastN(n, Append(s, f))
<1>1. t \in Seq(Nat) /\ \A x : In(x, t) => x = f \/ In(x, s)
  BY Keeping, TakingIn
<1> HIDE DEF t
<1>2. ASSUME NEW i \in 1 .. Len(t) PROVE t[i] < g
  <2>1. t[i] = f \/ In(t[i], s)
    BY <1>1, <1>2 DEF In
  <2>2. CASE In(t[i], s)
    <3>1. PICK k \in 1 .. Len(s) : s[k] = t[i]
      BY <2>2 DEF In
    <3>2. s[k] < f /\ s[k] \in Nat
      BY <3>1 DEF Above
    <3> QED
      BY <3>1, <3>2
  <2> QED
    BY <2>1, <2>2
<1> QED
  BY <1>2 DEF Above, t

-----------------------------------------------------------------------------
(* The feed is whole, whatever happens to the connection.                  *)

Whole(sv, l, seen) == Taken(sv, seen) /\ WireOK(sv, l, seen) /\ OwesNone(sv, l, seen)

Rung(sv) == S!LastN(ReplayMax, sv.ring)

LEMMA ReplayIs ==
  ASSUME NEW sv, ServerOK(sv)
  PROVE  /\ sv.made \in Seq(Nat) /\ Len(sv.made) \in Nat /\ sv.ring \in Seq(Nat)
         /\ Rung(sv) \in Seq(Nat) /\ Len(Rung(sv)) \in Nat
         /\ Len(Rung(sv)) <= ReplayMax /\ Len(Rung(sv)) <= Len(sv.made)
         /\ \A i \in 1 .. Len(Rung(sv)) : Rung(sv)[i] = Len(sv.made) - Len(Rung(sv)) + i
<1>1. sv \in ServerShape /\ EndsAt(sv.ring, Len(sv.made))
  BY DEF ServerOK, NewestFrames
<1>2. sv.made \in Seq(Nat) /\ Len(sv.made) \in Nat /\ sv.ring \in Seq(Nat)
  BY <1>1 DEF ServerShape
<1>3. Rung(sv) \in Seq(Nat) /\ Len(Rung(sv)) <= ReplayMax
  BY <1>2, PageLimits, LastNSeq DEF Rung
<1>4. EndsAt(Rung(sv), Len(sv.made))
  BY <1>1, <1>2, PageLimits, LastNEnds DEF Rung
<1> QED
  BY <1>2, <1>3, <1>4 DEF EndsAt

LEMMA ReplayRange ==
  ASSUME NEW sv, ServerOK(sv), NEW f \in ReplayedBy(sv)
  PROVE  /\ f \in Nat /\ f # 0 /\ f <= Len(sv.made) /\ Len(sv.made) < f + ReplayMax /\ ReplayMax # 0
<1> DEFINE n == Len(sv.made)
           k == Len(Rung(sv))
<1>1. n \in Nat /\ k \in Nat /\ k <= ReplayMax /\ k <= n
  BY ReplayIs
<1>2. f \in (n - k + 1) .. n
  BY DEF ReplayedBy, Rung
<1> HIDE DEF n, k
<1> QED
  BY <1>1, <1>2, PageLimits DEF n

\* The steps that leave frames alone: the socket keeps what is on its way, or is gone.
LEMMA WholeStays ==
  ASSUME NEW sv, NEW l, NEW seen, Whole(sv, l, seen), NEW to, NEW m,
         to.made = sv.made, to.ring = sv.ring,
         (m.wire = l.wire /\ m.conn = l.conn) \/ (m.wire = <<>> /\ m.conn = 0)
  PROVE  Whole(to, m, seen)
<1>1. Taken(to, seen)
  BY DEF Whole, Taken
<1>2. ReplayedBy(to) = ReplayedBy(sv)
  BY DEF ReplayedBy
<1>3. CASE m.wire = l.wire /\ m.conn = l.conn
  BY <1>1, <1>2, <1>3, Zenon DEF Whole, WireOK, OwesNone
<1>4. CASE m.wire = <<>> /\ m.conn = 0
  <2>1. Len(m.wire) = 0
    BY <1>4
  <2>2. WireOK(to, m, seen)
    BY <1>4, <2>1 DEF WireOK, Spaced
  <2>3. OwesNone(to, m, seen)
    BY <1>2, <1>4, Zenon DEF Whole, OwesNone
  <2> QED
    BY <1>1, <2>2, <2>3 DEF Whole
<1> QED
  BY <1>3, <1>4

\* A restart empties the ring.
LEMMA WholeRestarts ==
  ASSUME NEW sv, NEW l, NEW seen, Whole(sv, l, seen), NEW to, NEW m,
         ServerOK(to), to.made = sv.made, to.ring = <<>>, m.wire = <<>>, m.conn = 0
  PROVE  Whole(to, m, seen)
<1>1. Taken(to, seen)
  BY DEF Whole, Taken
<1>2. Len(Rung(to)) = 0
  <2>1. Len(to.ring) <= ReplayMax
    BY PageLimits
  <2> QED
    BY <2>1 DEF Rung, S!LastN
<1>3. ReplayedBy(to) = {}
  BY <1>2, ReplayIs DEF ReplayedBy, Rung
<1>4. Len(m.wire) = 0
  OBVIOUS
<1> QED
  BY <1>1, <1>3, <1>4 DEF Whole, WireOK, OwesNone, Spaced

\* A page that is opened again has taken nothing.
LEMMA WholeAfresh ==
  ASSUME NEW sv, NEW m, m.wire = <<>>, m.conn = 0
  PROVE  Whole(sv, m, <<>>)
<1>1. Len(m.wire) = 0 /\ Len(<<>>) = 0
  OBVIOUS
<1> QED
  BY <1>1 DEF Whole, Taken, WireOK, OwesNone, Spaced, Known, Above

LEMMA WholeAccepts ==
  ASSUME NEW sv, ServerOK(sv), NEW l, NEW seen, Whole(sv, l, seen), NEW to, NEW m,
         to.made = sv.made, to.ring = sv.ring, m.wire = << 0 >> \o Rung(sv), m.conn # 0
  PROVE  Whole(to, m, seen)
<1> DEFINE n == Len(sv.made)
           r == Rung(sv)
           k == Len(r)
           w == m.wire
<1>1. /\ n \in Nat /\ r \in Seq(Nat) /\ k \in Nat /\ k <= n
      /\ \A i \in 1 .. k : r[i] = n - k + i
  BY ReplayIs
<1>2. /\ w = << 0 >> \o r /\ Len(to.made) = n
      /\ ReplayedBy(sv) = (n - k + 1) .. n /\ ReplayedBy(to) = ReplayedBy(sv)
  BY DEF ReplayedBy, Rung
<1> HIDE DEF n, r, w
<1>3. Len(w) = k + 1 /\ w[1] = 0 /\ \A i \in 1 .. k : w[i + 1] = r[i]
  BY <1>1, <1>2
<1> HIDE DEF k
<1>4. \A i \in 1 .. Len(w) : IF i = 1 THEN w[i] = 0 ELSE w[i] = n - k + (i - 1)
  <2> SUFFICES ASSUME NEW i \in 1 .. Len(w), i # 1 PROVE w[i] = n - k + (i - 1)
    BY <1>3
  <2> DEFINE j == i - 1
  <2>1. j \in 1 .. k /\ j + 1 = i
    BY <1>1, <1>3
  <2> HIDE DEF j
  <2>2. w[j + 1] = n - k + j
    BY <1>1, <1>3, <2>1
  <2> QED
    BY <2>1, <2>2 DEF j
<1>5. Spaced(w)
  <2> SUFFICES ASSUME NEW i \in 1 .. Len(w), NEW j \in 1 .. Len(w), i <= j PROVE w[j] >= w[i] + (j - i)
    BY DEF Spaced
  <2>1. i \in Nat /\ j \in Nat /\ 1 <= i
    BY <1>1, <1>3
  <2>2. (i = 1 => w[i] = 0) /\ (i # 1 => w[i] = n - k + (i - 1))
    BY <1>4
  <2>3. (j = 1 => w[j] = 0) /\ (j # 1 => w[j] = n - k + (j - 1))
    BY <1>4
  <2> QED
    BY <1>1, <2>1, <2>2, <2>3
<1>6. \A f \in ReplayedBy(to) : Known(f, seen)
  BY <1>2 DEF Whole, OwesNone
<1>7. ASSUME NEW i \in 1 .. Len(w)
      PROVE  w[i] <= n /\ (w[i] # 0 => Known(w[i], seen))
  <2>1. i \in Nat /\ 1 <= i /\ i <= k + 1
    BY <1>1, <1>3
  <2>2. CASE i = 1
    BY <1>1, <1>3, <2>2
  <2>3. CASE i # 1
    <3>1. w[i] = n - k + (i - 1)
      BY <1>4, <2>3
    <3>2. w[i] \in (n - k + 1) .. n
      BY <1>1, <2>1, <2>3, <3>1
    <3> QED
      BY <1>1, <1>2, <1>6, <3>2
  <2> QED
    BY <2>2, <2>3
<1>8. ASSUME NEW f \in ReplayedBy(to) PROVE In(f, w)
  <2> DEFINE i == f - (n - k) + 1
  <2>1. i \in 1 .. Len(w) /\ i # 1 /\ n - k + (i - 1) = f
    BY <1>1, <1>2, <1>3, SMTT(40)
  <2> HIDE DEF i
  <2>2. w[i] = f
    BY <1>4, <2>1
  <2> QED
    BY <2>1, <2>2 DEF In
<1>9. WireOK(to, m, seen)
  BY <1>2, <1>5, <1>7 DEF WireOK, w
<1>10. OwesNone(to, m, seen)
  BY <1>6, <1>8 DEF OwesNone, w
<1>11. Taken(to, seen)
  BY DEF Whole, Taken
<1> QED
  BY <1>9, <1>10, <1>11 DEF Whole

LEMMA ReplayGrows ==
  ASSUME NEW sv, ServerOK(sv), NEW to, ServerOK(to), NEW x \in Nat,
         to.made = Append(sv.made, x),
         to.ring = S!LastN(RingMax, Append(sv.ring, Len(sv.made) + 1))
  PROVE  /\ Len(to.made) = Len(sv.made) + 1
         /\ \A f \in ReplayedBy(to) : f = Len(sv.made) + 1 \/ f \in ReplayedBy(sv)
<1> DEFINE n == Len(sv.made)
           k == Len(Rung(sv))
           h == Len(Rung(to))
           p == Len(sv.ring)
           q == Len(to.ring)
<1>1. n \in Nat /\ sv.ring \in Seq(Nat) /\ to.ring \in Seq(Nat) /\ sv.made \in Seq(Nat)
  BY ReplayIs
<1>2. Len(to.made) = n + 1 /\ n + 1 \in Nat
  BY <1>1
<1>3. p \in Nat /\ q \in Nat /\ q <= p + 1
  <2>1. q = (IF p + 1 <= RingMax THEN p + 1 ELSE RingMax)
    <3> DEFINE longer == Append(sv.ring, Len(sv.made) + 1)
    <3>1. longer \in Seq(Nat) /\ Len(longer) = p + 1 /\ RingMax \in Nat /\ to.ring = S!LastN(RingMax, longer)
      BY <1>1, <1>2, Limits
    <3> HIDE DEF longer
    <3> QED
      BY <3>1, SuffixIs
  <2> QED
    BY <1>1, <2>1, Limits
<1>4. k = (IF p <= ReplayMax THEN p ELSE ReplayMax) /\ h = (IF q <= ReplayMax THEN q ELSE ReplayMax)
  BY <1>1, PageLimits, SuffixIs DEF Rung
<1> HIDE DEF p, q
<1>5. h <= k + 1 /\ k \in Nat /\ h \in Nat
  BY <1>3, <1>4, PageLimits
<1>6. ReplayedBy(sv) = (n - k + 1) .. n /\ ReplayedBy(to) = (n + 1 - h + 1) .. (n + 1)
  BY <1>2 DEF ReplayedBy, Rung
<1> HIDE DEF n, k, h
<1> QED
  BY <1>1, <1>2, <1>5, <1>6 DEF n

LEMMA WholeEmits ==
  ASSUME NEW sv, ServerOK(sv), NEW l, l.wire \in Seq(Nat), NEW seen, seen \in Seq(Nat), Whole(sv, l, seen),
         NEW to, ServerOK(to), NEW x \in Nat, NEW m,
         to.made = Append(sv.made, x),
         to.ring = S!LastN(RingMax, Append(sv.ring, Len(sv.made) + 1)),
         m.conn = l.conn,
         m.wire = IF l.conn = 0 THEN l.wire ELSE Append(l.wire, Len(sv.made) + 1)
  PROVE  Whole(to, m, seen)
<1> DEFINE n == Len(sv.made)
           f == n + 1
           w == l.wire
           v == m.wire
<1>1. /\ n \in Nat /\ f \in Nat /\ Len(to.made) = f
      /\ \A g \in ReplayedBy(to) : g = f \/ g \in ReplayedBy(sv)
  <2>1. /\ Len(to.made) = Len(sv.made) + 1
        /\ \A g \in ReplayedBy(to) : g = Len(sv.made) + 1 \/ g \in ReplayedBy(sv)
    BY ReplayGrows
  <2>2. Len(sv.made) \in Nat
    BY ReplayIs
  <2> QED
    BY <2>1, <2>2
<1>2. \A i \in 1 .. Len(seen) : seen[i] \in 1 .. n
  BY DEF Whole, Taken
<1>3. Taken(to, seen)
  <2>1. \A i \in 1 .. Len(seen) : seen[i] \in 1 .. f
    BY <1>1, <1>2
  <2> QED
    BY <1>1, <2>1 DEF Whole, Taken
<1> HIDE DEF n
<1>4. Known(f, seen)
  BY <1>1, <1>2 DEF Known, Above
<1>5. Spaced(w) /\ \A i \in 1 .. Len(w) : w[i] <= n /\ w[i] \in Nat /\ (w[i] # 0 => Known(w[i], seen))
  BY DEF Whole, WireOK, n
<1>6. CASE l.conn = 0
  <2>1. v = <<>> /\ Len(v) = 0
    BY <1>6 DEF Whole, WireOK
  <2>2. WireOK(to, m, seen)
    BY <2>1 DEF WireOK, Spaced
  <2>3. OwesNone(to, m, seen)
    BY <1>1, <1>4, <1>6 DEF Whole, OwesNone
  <2> QED
    BY <1>3, <2>2, <2>3 DEF Whole
<1>7. CASE l.conn # 0
  <2>1. /\ v = Append(w, f) /\ Len(v) = Len(w) + 1 /\ v[Len(w) + 1] = f /\ Len(w) \in Nat
        /\ \A i \in 1 .. Len(w) : v[i] = w[i]
    BY <1>1, <1>7 DEF n
  <2> HIDE DEF v, w, f
  <2>2. Spaced(v)
    <3> SUFFICES ASSUME NEW i \in 1 .. Len(v), NEW j \in 1 .. Len(v), i <= j PROVE v[j] >= v[i] + (j - i)
      BY DEF Spaced
    <3>1. i \in Nat /\ j \in Nat /\ 1 <= i
      BY <2>1
    <3>2. CASE j # Len(w) + 1
      <4>1. i \in 1 .. Len(w) /\ j \in 1 .. Len(w) /\ v[i] = w[i] /\ v[j] = w[j]
        BY <2>1, <3>2
      <4> QED
        BY <1>5, <4>1 DEF Spaced
    <3>3. CASE j = Len(w) + 1 /\ i = j
      BY <1>1, <2>1, <3>1, <3>3
    <3>4. CASE j = Len(w) + 1 /\ i # j
      <4> DEFINE k == Len(w)
      <4>1. i \in 1 .. Len(w) /\ k \in 1 .. Len(w) /\ i <= k /\ v[i] = w[i] /\ v[j] = f
        BY <2>1, <3>4
      <4>2. w[k] >= w[i] + (k - i) /\ w[k] <= n /\ w[k] \in Nat /\ w[i] \in Nat
        BY <1>5, <4>1 DEF Spaced
      <4>3. j - i = (k - i) + 1 /\ f = n + 1
        BY <2>1, <3>1, <3>4 DEF f
      <4> HIDE DEF k
      <4> QED
        BY <1>1, <3>1, <4>1, <4>2, <4>3, SMTT(40)
    <3> QED
      BY <3>2, <3>3, <3>4
  <2>3. ASSUME NEW i \in 1 .. Len(v)
        PROVE  v[i] <= f /\ (v[i] # 0 => Known(v[i], seen))
    <3>1. CASE i = Len(w) + 1
      BY <1>1, <1>4, <2>1, <3>1
    <3>2. CASE i # Len(w) + 1
      <4>1. i \in 1 .. Len(w) /\ v[i] = w[i]
        BY <2>1, <3>2
      <4>2. w[i] <= n /\ w[i] \in Nat /\ f = n + 1
        BY <1>5, <4>1 DEF f
      <4> QED
        BY <1>1, <1>5, <4>1, <4>2
    <3> QED
      BY <3>1, <3>2
  <2>4. In(f, v)
    BY <2>1 DEF In
  <2>5. \A g : In(g, w) => In(g, v)
    BY <2>1 DEF In
  <2>6. WireOK(to, m, seen)
    BY <1>1, <1>7, <2>2, <2>3 DEF WireOK, v
  <2>7. OwesNone(to, m, seen)
    <3>1. \A g \in ReplayedBy(sv) : Known(g, seen) /\ (In(g, w) \/ In(g, seen))
      BY <1>7 DEF Whole, OwesNone, w
    <3>2. \A g \in ReplayedBy(to) : Known(g, seen) /\ (In(g, v) \/ In(g, seen))
      BY <1>1, <1>4, <2>4, <2>5, <3>1
    <3> QED
      BY <3>2 DEF OwesNone, v
  <2> QED
    BY <1>3, <2>6, <2>7 DEF Whole
<1> QED
  BY <1>6, <1>7

\* What is read from the socket: the rest stays in order, and known.
LEMMA WireRest ==
  ASSUME NEW w \in Seq(Nat), w # <<>>, Spaced(w)
  PROVE  /\ Tail(w) \in Seq(Nat) /\ Spaced(Tail(w)) /\ Head(w) \in Nat
         /\ \A g : In(g, w) => g = Head(w) \/ In(g, Tail(w))
         /\ \A i \in 1 .. Len(Tail(w)) : In(Tail(w)[i], w) /\ Tail(w)[i] > Head(w)
         /\ In(Head(w), w)
<1> DEFINE r == Tail(w)
<1>1. /\ Len(w) \in Nat /\ Len(w) # 0 /\ r \in Seq(Nat) /\ Len(r) = Len(w) - 1 /\ Head(w) = w[1]
      /\ \A i \in 1 .. Len(r) : r[i] = w[i + 1]
      /\ \A i \in 1 .. Len(w) : w[i] \in Nat
  OBVIOUS
<1> HIDE DEF r
<1>2. ASSUME NEW i \in 1 .. Len(r)
      PROVE  i + 1 \in 1 .. Len(w) /\ r[i] = w[i + 1] /\ w[i + 1] > w[1]
  <2> DEFINE j == i + 1
  <2>1. j \in 1 .. Len(w) /\ 1 \in 1 .. Len(w) /\ 1 <= j /\ j - 1 >= 1
    BY <1>1
  <2> HIDE DEF j
  <2>2. w[j] >= w[1] + (j - 1) /\ w[j] \in Nat /\ w[1] \in Nat
    BY <1>1, <2>1 DEF Spaced
  <2>3. w[j] > w[1]
    BY <2>1, <2>2
  <2> QED
    BY <1>1, <2>1, <2>3 DEF j
<1>3. Spaced(r)
  <2> SUFFICES ASSUME NEW i \in 1 .. Len(r), NEW j \in 1 .. Len(r), i <= j PROVE r[j] >= r[i] + (j - i)
    BY DEF Spaced
  <2> DEFINE a == i + 1
             b == j + 1
  <2>1. a \in 1 .. Len(w) /\ b \in 1 .. Len(w) /\ a <= b /\ b - a = j - i /\ r[i] = w[a] /\ r[j] = w[b]
    BY <1>1, <1>2
  <2> HIDE DEF a, b
  <2> QED
    BY <2>1 DEF Spaced
<1>4. ASSUME NEW g, In(g, w) PROVE g = Head(w) \/ In(g, r)
  <2>1. PICK i \in 1 .. Len(w) : w[i] = g
    BY <1>4 DEF In
  <2>2. CASE i = 1
    BY <1>1, <2>1, <2>2
  <2>3. CASE i # 1
    <3> DEFINE j == i - 1
    <3>1. j \in 1 .. Len(r) /\ j + 1 = i
      BY <1>1, <2>3
    <3> HIDE DEF j
    <3>2. r[j] = g
      BY <1>1, <2>1, <3>1
    <3> QED
      BY <3>1, <3>2 DEF In
  <2> QED
    BY <2>2, <2>3
<1>5. ASSUME NEW i \in 1 .. Len(r) PROVE In(r[i], w) /\ r[i] > Head(w)
  BY <1>1, <1>2 DEF In
<1>6. In(Head(w), w)
  BY <1>1 DEF In
<1> QED
  BY <1>1, <1>3, <1>4, <1>5, <1>6 DEF r

\* The head is read and nothing is taken: it is the head of the answer, or a frame that
\* was taken before.
LEMMA WholePasses ==
  ASSUME NEW sv, ServerOK(sv), NEW l, l.wire \in Seq(Nat), l.wire # <<>>, NEW seen, Whole(sv, l, seen),
         Head(l.wire) = 0 \/ In(Head(l.wire), seen),
         NEW m, m.conn = l.conn, m.wire = Tail(l.wire)
  PROVE  Whole(sv, m, seen)
<1> DEFINE w == l.wire
           f == Head(w)
           r == Tail(w)
<1>1. /\ r \in Seq(Nat) /\ Spaced(r)
      /\ \A g : In(g, w) => g = f \/ In(g, r)
      /\ \A i \in 1 .. Len(r) : In(r[i], w)
  BY WireRest DEF Whole, WireOK
<1>2. l.conn # 0
  BY DEF Whole, WireOK
<1>3. \A g : In(g, w) => g <= Len(sv.made) /\ (g # 0 => Known(g, seen))
  BY DEF Whole, WireOK, In
<1>4. \A g \in ReplayedBy(sv) : g # 0 /\ Known(g, seen) /\ (In(g, w) \/ In(g, seen))
  <2>1. 0 \notin ReplayedBy(sv)
    BY ReplayRange
  <2> QED
    BY <1>2, <2>1 DEF Whole, OwesNone
<1> HIDE DEF r, w, f
<1>5. WireOK(sv, m, seen)
  BY <1>1, <1>2, <1>3 DEF WireOK, r, w
<1>6. \A g \in ReplayedBy(sv) : Known(g, seen) /\ (In(g, r) \/ In(g, seen))
  BY <1>1, <1>4 DEF f, w
<1> QED
  BY <1>5, <1>6 DEF Whole, OwesNone, r, w

\* The frame at the head is taken.
LEMMA WholeTakes ==
  ASSUME NEW sv, ServerOK(sv), NEW l, l.wire \in Seq(Nat), l.wire # <<>>,
         NEW seen \in Seq(Nat), Whole(sv, l, seen),
         Head(l.wire) # 0, ~In(Head(l.wire), seen),
         NEW m, m.conn = l.conn, m.wire = Tail(l.wire)
  PROVE  /\ Whole(sv, m, S!LastN(SeenMax, Append(seen, Head(l.wire))))
         /\ Head(l.wire) \in 1 .. Len(sv.made) /\ Above(Head(l.wire), seen)
<1> DEFINE w == l.wire
           f == Head(w)
           r == Tail(w)
           n == Len(sv.made)
           t == S!LastN(SeenMax, Append(seen, f))
<1>1. /\ r \in Seq(Nat) /\ Spaced(r) /\ f \in Nat
      /\ \A g : In(g, w) => g = f \/ In(g, r)
      /\ \A i \in 1 .. Len(r) : In(r[i], w) /\ r[i] > f
      /\ In(f, w)
  BY WireRest DEF Whole, WireOK
<1>2. l.conn # 0
  BY DEF Whole, WireOK
<1>3. \A g : In(g, w) => g <= n /\ (g # 0 => Known(g, seen))
  BY DEF Whole, WireOK, In
<1>4. Spaced(seen) /\ \A i \in 1 .. Len(seen) : seen[i] \in 1 .. n
  BY DEF Whole, Taken
<1>5. \A g \in ReplayedBy(sv) : Known(g, seen) /\ (In(g, w) \/ In(g, seen))
  BY <1>2 DEF Whole, OwesNone
<1>6. n \in Nat /\ \A g \in ReplayedBy(sv) : g \in Nat /\ n < g + ReplayMax /\ g <= n /\ ReplayMax # 0
  BY ReplayIs, ReplayRange
<1> HIDE DEF r, w, f, n, t
<1>7. Above(f, seen) /\ f \in 1 .. n
  <2>1. f # 0 /\ ~In(f, seen)
    BY DEF f, w
  <2> QED
    BY <1>1, <1>3, <1>6, <2>1 DEF Known
<1>8. /\ t \in Seq(Nat) /\ Spaced(t)
      /\ \A g : In(g, t) => g = f \/ In(g, seen)
      /\ SeenMax # 0 => In(f, t)
  BY <1>1, <1>4, <1>7, PageLimits, Keeping, TakingSpaced, TakingIn DEF t
<1>9. \A g \in Nat : f < g => Above(g, t)
  BY <1>1, <1>7, PageLimits, TakingBelow DEF t
<1>10. ASSUME NEW g \in Nat, In(g, seen), f < g + SeenMax
       PROVE  In(g, t)
  BY <1>1, <1>4, <1>7, <1>10, PageLimits, TakingKeeps DEF t
<1>11. Taken(sv, t)
  <2> SUFFICES ASSUME NEW i \in 1 .. Len(t) PROVE t[i] \in 1 .. n
    BY <1>8 DEF Taken, n
  <2>1. In(t[i], t)
    BY DEF In
  <2>2. t[i] = f \/ In(t[i], seen)
    BY <1>8, <2>1
  <2> QED
    BY <1>4, <1>7, <2>2 DEF In
<1>12. WireOK(sv, m, t)
  <2> SUFFICES ASSUME NEW i \in 1 .. Len(r) PROVE r[i] <= n /\ Known(r[i], t)
    BY <1>1, <1>2 DEF WireOK, r, w, n
  <2>1. r[i] \in Nat /\ In(r[i], w) /\ r[i] > f
    BY <1>1
  <2>2. Above(r[i], t)
    BY <1>1, <1>9, <2>1
  <2> QED
    BY <1>3, <2>1, <2>2 DEF Known
<1>13. ASSUME NEW g \in ReplayedBy(sv)
       PROVE  Known(g, t) /\ (In(g, r) \/ In(g, t))
  <2>1. g \in Nat /\ n < g + SeenMax /\ g <= n /\ SeenMax # 0
    BY <1>6, PageLimits
  <2>2. f < g + SeenMax
    BY <1>1, <1>6, <1>7, <2>1, PageLimits
  <2>3. CASE In(g, seen)
    BY <1>10, <2>1, <2>2, <2>3 DEF Known
  <2>4. CASE g = f
    BY <1>8, <2>1, <2>4 DEF Known
  <2>5. CASE ~In(g, seen) /\ g # f
    <3>1. In(g, r)
      BY <1>1, <1>5, <2>5
    <3>2. f < g
      BY <1>1, <3>1 DEF In
    <3> QED
      BY <1>9, <2>1, <3>1, <3>2 DEF Known
  <2> QED
    BY <2>3, <2>4, <2>5
<1>14. OwesNone(sv, m, t)
  BY <1>13 DEF OwesNone, r, w
<1> QED
  BY <1>7, <1>11, <1>12, <1>14 DEF Whole, t, f, w, n

-----------------------------------------------------------------------------
(* The rows and what a pause holds.                                        *)

\* Taking one more frame, the rows lack one more.
LEMMA ShowsOneMore ==
  ASSUME NEW rows, Len(rows) \in Nat, NEW seen \in Seq(Nat), NEW k \in Nat, Shows(rows, seen, k), NEW f \in Nat
  PROVE  Shows(rows, S!LastN(SeenMax, Append(seen, f)), k + 1)
<1> DEFINE t == S!LastN(SeenMax, Append(seen, f))
           p == Len(seen)
           q == Len(t)
<1>0. SeenMax \in Nat
  BY PageLimits
<1>1. /\ p \in Nat /\ q \in Nat /\ q = (IF p + 1 <= SeenMax THEN p + 1 ELSE SeenMax)
      /\ \A j \in 0 .. q - 1 : t[q - j] = IF j = 0 THEN f ELSE seen[p - (j - 1)]
  <2>1. /\ Len(seen) \in Nat /\ Len(t) \in Nat
        /\ t \in Seq(Nat) /\ Len(t) = (IF Len(seen) + 1 <= SeenMax THEN Len(seen) + 1 ELSE SeenMax)
        /\ \A j \in 0 .. Len(t) - 1 : t[Len(t) - j] = IF j = 0 THEN f ELSE seen[Len(seen) - (j - 1)]
    BY <1>0, Keeping, ZenonT(60)
  <2> QED
    BY <2>1
<1>2. q \in Nat
  BY <1>1, PageLimits
<1> HIDE DEF t, p, q
<1>3. ASSUME NEW i \in 1 .. MaxRows, i + (k + 1) <= MaxRows
      PROVE  /\ i <= Len(rows) <=> i + (k + 1) <= q
             /\ i <= Len(rows) => rows[i].frame = t[q - (k + 1 + i - 1)]
  <2>1. i \in Nat /\ 1 <= i /\ i + k <= MaxRows /\ i + k + 1 <= SeenMax
    BY <1>3, PageLimits
  <2>2. /\ i <= Len(rows) <=> i + k <= p
        /\ i <= Len(rows) => rows[i].frame = seen[p - (k + i - 1)]
    BY <2>1 DEF Shows, p
  <2>3. i + k <= p <=> i + (k + 1) <= q
    BY <1>1, <1>2, <2>1, PageLimits
  <2>4. ASSUME i <= Len(rows) PROVE rows[i].frame = t[q - (k + 1 + i - 1)]
    <3> DEFINE j == k + i
    <3>1. j \in 0 .. q - 1 /\ j # 0 /\ q - (k + 1 + i - 1) = q - j /\ p - (j - 1) = p - (k + i - 1)
      BY <1>1, <1>2, <2>1, <2>2, <2>3, <2>4
    <3> HIDE DEF j
    <3>2. t[q - j] = seen[p - (j - 1)]
      BY <1>1, <3>1
    <3> QED
      BY <2>2, <2>4, <3>1, <3>2
  <2> QED
    BY <2>2, <2>3, <2>4
<1> QED
  BY <1>3 DEF Shows, t, q

\* A row for the oldest of those that lack one is put on top.
LEMMA ShowsOneLess ==
  ASSUME NEW rows, Len(rows) \in Nat, NEW seen \in Seq(Nat), NEW k \in Nat \ {0}, k <= Len(seen),
         Shows(rows, seen, k), NEW more,
         Len(more) = IF Len(rows) + 1 <= MaxRows THEN Len(rows) + 1 ELSE MaxRows,
         more[1].frame = seen[Len(seen) - (k - 1)],
         \A i \in 2 .. Len(more) : more[i].frame = rows[i - 1].frame
  PROVE  Shows(more, seen, k - 1)
<1> DEFINE p == Len(seen)
           h == Len(rows)
           q == Len(more)
           d == k - 1
<1>1. /\ p \in Nat /\ h \in Nat /\ q \in Nat /\ q <= MaxRows
      /\ q = (IF h + 1 <= MaxRows THEN h + 1 ELSE MaxRows) /\ h <= MaxRows
  BY PageLimits DEF Shows
<1> HIDE DEF p, h, q
<1>2. ASSUME NEW i \in 1 .. MaxRows, i + d <= MaxRows
      PROVE  /\ i <= q <=> i + d <= p
             /\ i <= q => more[i].frame = seen[p - (d + i - 1)]
  <2>0. i \in Nat /\ 1 <= i /\ i <= MaxRows /\ k \in Nat /\ k <= p /\ 1 <= k
    BY PageLimits DEF p
  <2>1. CASE i = 1
    <3>1. i <= q /\ i + d <= p /\ p - (d + i - 1) = p - (k - 1)
      BY <1>1, <2>0, <2>1, PageLimits
    <3> QED
      BY <2>1, <3>1 DEF p
  <2>2. CASE i # 1
    <3> DEFINE j == i - 1
    <3>1. j \in 1 .. MaxRows /\ j + k <= MaxRows /\ j + k = i + d /\ k + j - 1 = d + i - 1
      BY <1>2, <2>0, <2>2, PageLimits
    <3>2. i <= q <=> j <= h
      BY <1>1, <2>0, PageLimits
    <3>3. i <= q => i \in 2 .. q
      BY <1>1, <2>0, <2>2
    <3>4. i <= q => more[i].frame = rows[j].frame
      BY <3>3 DEF q
    <3> HIDE DEF j, d
    <3>5. /\ j <= h <=> j + k <= p
          /\ j <= h => rows[j].frame = seen[p - (k + j - 1)]
      BY <3>1 DEF Shows, p, h
    <3> QED
      BY <3>1, <3>2, <3>4, <3>5
  <2> QED
    BY <2>1, <2>2
<1> QED
  BY <1>1, <1>2 DEF Shows, p, q

LEMMA HeldOneMore ==
  ASSUME NEW held \in Seq(Nat), NEW seen \in Seq(Nat), NEW k \in Nat, NEW f \in Nat, Held(held, seen, k)
  PROVE  Held(S!LastN(MaxRows, Append(held, f)), S!LastN(SeenMax, Append(seen, f)), k + 1)
<1> DEFINE u == S!LastN(MaxRows, Append(held, f))
           v == S!LastN(SeenMax, Append(seen, f))
           h == Len(held)
           p == Len(seen)
           g == Len(u)
           q == Len(v)
<1>0. SeenMax \in Nat /\ MaxRows \in Nat
  BY PageLimits
<1>1. /\ h \in Nat /\ g \in Nat /\ g = (IF h + 1 <= MaxRows THEN h + 1 ELSE MaxRows)
      /\ \A j \in 0 .. g - 1 : u[g - j] = IF j = 0 THEN f ELSE held[h - (j - 1)]
  <2>1. /\ Len(held) \in Nat /\ Len(u) \in Nat
        /\ u \in Seq(Nat) /\ Len(u) = (IF Len(held) + 1 <= MaxRows THEN Len(held) + 1 ELSE MaxRows)
        /\ \A j \in 0 .. Len(u) - 1 : u[Len(u) - j] = IF j = 0 THEN f ELSE held[Len(held) - (j - 1)]
    BY <1>0, Keeping, ZenonT(60)
  <2> QED
    BY <2>1
<1>2. /\ p \in Nat /\ q \in Nat /\ q = (IF p + 1 <= SeenMax THEN p + 1 ELSE SeenMax)
      /\ \A j \in 0 .. q - 1 : v[q - j] = IF j = 0 THEN f ELSE seen[p - (j - 1)]
  <2>1. /\ Len(seen) \in Nat /\ Len(v) \in Nat
        /\ v \in Seq(Nat) /\ Len(v) = (IF Len(seen) + 1 <= SeenMax THEN Len(seen) + 1 ELSE SeenMax)
        /\ \A j \in 0 .. Len(v) - 1 : v[Len(v) - j] = IF j = 0 THEN f ELSE seen[Len(seen) - (j - 1)]
    BY <1>0, Keeping, ZenonT(60)
  <2> QED
    BY <2>1
<1> HIDE DEF u, v
<1>3. /\ h = (IF k <= MaxRows THEN k ELSE MaxRows) /\ h <= p
      /\ \A j \in 0 .. h - 1 : held[h - j] = seen[p - j]
  BY DEF Held
<1> HIDE DEF h, p, g, q
<1>4. g = (IF k + 1 <= MaxRows THEN k + 1 ELSE MaxRows) /\ g <= q /\ g <= h + 1
  BY <1>1, <1>2, <1>3, PageLimits
<1>5. ASSUME NEW j \in 0 .. g - 1
      PROVE  u[g - j] = v[q - j]
  <2>0. g \in Nat /\ q \in Nat /\ g <= q
    BY <1>1, <1>2, <1>4
  <2>1. j \in Nat /\ j <= g - 1 /\ j \in 0 .. q - 1
    BY <2>0
  <2>2. CASE j = 0
    BY <1>1, <1>2, <2>1, <2>2
  <2>3. CASE j # 0
    <3> DEFINE i == j - 1
    <3>1. i \in 0 .. h - 1
      BY <1>1, <1>4, <2>1, <2>3
    <3>2. u[g - j] = held[h - i] /\ v[q - j] = seen[p - i]
      BY <1>1, <1>2, <2>1, <2>3
    <3> HIDE DEF i
    <3> QED
      BY <1>3, <3>1, <3>2
  <2> QED
    BY <2>2, <2>3
<1> QED
  BY <1>4, <1>5 DEF Held, g, q, u, v

-----------------------------------------------------------------------------
(* A row and its grade.                                                    *)

LEMMA ToSetIs ==
  ASSUME NEW q \in Seq(Nat), NEW x
  PROVE  x \in S!ToSet(q) <=> In(x, q)
<1>1. DOMAIN q = 1 .. Len(q)
  OBVIOUS
<1> QED
  BY <1>1, Zenon DEF S!ToSet, In

LEMMA OnTop ==
  ASSUME NEW rows \in Seq(RowShape), NEW row \in RowShape
  PROVE  LET more == S!FirstN(MaxRows, <<row>> \o rows) IN
         /\ Len(rows) \in Nat /\ more \in Seq(RowShape)
         /\ Len(more) = (IF Len(rows) + 1 <= MaxRows THEN Len(rows) + 1 ELSE MaxRows)
         /\ more[1] = row /\ \A i \in 2 .. Len(more) : more[i] = rows[i - 1]
<1> DEFINE all == <<row>> \o rows
           more == S!FirstN(MaxRows, all)
           p == Len(rows)
<1>1. /\ p \in Nat /\ all \in Seq(RowShape) /\ Len(all) = p + 1 /\ all[1] = row
      /\ \A i \in 1 .. p : all[i + 1] = rows[i]
  OBVIOUS
<1>2. MaxRows \in Nat /\ MaxRows # 0
  BY PageLimits
<1> HIDE DEF all, p
<1>3. /\ more \in Seq(RowShape) /\ Len(more) = (IF p + 1 <= MaxRows THEN p + 1 ELSE MaxRows)
      /\ \A i \in 1 .. Len(more) : more[i] = all[i]
  <2>1. CASE p + 1 <= MaxRows
    BY <1>1, <1>2, <2>1 DEF S!FirstN
  <2>2. CASE ~(p + 1 <= MaxRows)
    <3> DEFINE some == SubSeq(all, 1, MaxRows)
    <3>1. more = some
      BY <1>1, <2>2 DEF S!FirstN
    <3>2. \A i \in 1 .. MaxRows : i \in 1 .. Len(all)
      BY <1>1, <1>2, <2>2
    <3>3. some \in Seq(RowShape) /\ Len(some) = MaxRows /\ \A i \in 1 .. MaxRows : some[i] = all[i]
      BY <1>1, <1>2, <3>2
    <3> HIDE DEF some
    <3> QED
      BY <1>1, <1>2, <2>2, <3>1, <3>3
  <2> QED
    BY <2>1, <2>2
<1> HIDE DEF more
<1>4. 1 \in 1 .. Len(more) /\ Len(more) \in Nat /\ Len(more) <= p + 1
  BY <1>1, <1>2, <1>3
<1>5. ASSUME NEW i \in 2 .. Len(more) PROVE more[i] = rows[i - 1]
  <2> DEFINE j == i - 1
  <2>1. j \in 1 .. p /\ j + 1 = i /\ i \in 1 .. Len(more)
    BY <1>1, <1>4
  <2> HIDE DEF j
  <2>2. all[j + 1] = rows[j]
    BY <1>1, <2>1
  <2> QED
    BY <1>3, <2>1, <2>2 DEF j
<1> QED
  BY <1>1, <1>3, <1>4, <1>5 DEF more, all, p

LEMMA Scheduling ==
  ASSUME NEW g \in GradingShape
  PROVE  LET h == S!ScheduleGrade(g) IN
         /\ h \in GradingShape /\ RequestDue(h)
         /\ h.cache = g.cache /\ h.gaveUp = g.gaveUp /\ h.queue = g.queue /\ h.batch = g.batch
<1>1. CASE g.timer \/ g.batch # {} \/ g.gaveUp
  BY <1>1 DEF S!ScheduleGrade, RequestDue
<1>2. CASE ~(g.timer \/ g.batch # {} \/ g.gaveUp)
  <2>1. S!ScheduleGrade(g) = [g EXCEPT !.timer = TRUE]
    BY <1>2 DEF S!ScheduleGrade
  <2> QED
    BY <2>1 DEF GradingShape, RequestDue
<1> QED
  BY <1>1, <1>2

LEMMA Requesting ==
  ASSUME NEW g \in GradingShape, RequestDue(g), NEW s \in Nat
  PROVE  LET h == S!RequestGrade(g, s) IN
         /\ h \in GradingShape /\ RequestDue(h) /\ h.cache = g.cache /\ h.gaveUp = g.gaveUp
         /\ \A x : In(x, g.queue) => In(x, h.queue)
         /\ s \in g.cache \/ g.gaveUp \/ In(s, h.queue)
<1>1. CASE s \in g.cache \/ g.gaveUp
  BY <1>1 DEF S!RequestGrade
<1>2. CASE ~(s \in g.cache \/ g.gaveUp)
  <2> DEFINE q == IF s \in S!ToSet(g.queue) THEN g.queue ELSE Append(g.queue, s)
             k == [g EXCEPT !.queue = q]
  <2>1. g.queue \in Seq(Nat)
    BY DEF GradingShape
  <2>2. q \in Seq(Nat) /\ In(s, q) /\ \A x : In(x, g.queue) => In(x, q)
    <3>1. CASE s \in S!ToSet(g.queue)
      BY <2>1, <3>1, ToSetIs
    <3>2. CASE s \notin S!ToSet(g.queue)
      <4> DEFINE a == Append(g.queue, s)
      <4>1. /\ q = a /\ a \in Seq(Nat) /\ Len(a) = Len(g.queue) + 1 /\ a[Len(g.queue) + 1] = s
            /\ Len(g.queue) \in Nat /\ \A i \in 1 .. Len(g.queue) : a[i] = g.queue[i]
        BY <2>1, <3>2
      <4> HIDE DEF a, q
      <4> QED
        BY <4>1, SMTT(40) DEF In
    <3> QED
      BY <3>1, <3>2
  <2> HIDE DEF q
  <2>3. k \in GradingShape /\ k.cache = g.cache /\ k.gaveUp = g.gaveUp /\ k.queue = q
    BY <2>2 DEF GradingShape
  <2>4. S!RequestGrade(g, s) = S!ScheduleGrade(k)
    BY <1>2 DEF S!RequestGrade, GradingShape, q
  <2> HIDE DEF k
  <2> QED
    BY <2>2, <2>3, <2>4, Scheduling
<1> QED
  BY <1>1, <1>2

\* A row for a frame, on top of the others.
LEMMA RowAdded ==
  ASSUME feed \in ServerShape, NEW page, page.t \in TableShape, page.g \in GradingShape, RequestDue(page.g),
         RowsGraded(page.t.rows, feed.made, page.g), NEW f \in 1 .. Len(feed.made)
  PROVE  LET to == S!AddRow(page, f) IN
         /\ to.t \in TableShape /\ to.g \in GradingShape /\ RequestDue(to.g)
         /\ RowsGraded(to.t.rows, feed.made, to.g)
         /\ to.t = [page.t EXCEPT !.rows = to.t.rows]
         /\ Len(page.t.rows) \in Nat
         /\ Len(to.t.rows) = (IF Len(page.t.rows) + 1 <= MaxRows THEN Len(page.t.rows) + 1 ELSE MaxRows)
         /\ to.t.rows[1].frame = f
         /\ \A i \in 2 .. Len(to.t.rows) : to.t.rows[i].frame = page.t.rows[i - 1].frame
<1> DEFINE t == page.t
           g == page.g
           rows == t.rows
           s == feed.made[f]
           grade == IF s \in g.cache THEN S!Grade(s) ELSE "none"
           row == [frame |-> f, hidden |-> FALSE, grade |-> grade]
           more == S!FirstN(MaxRows, <<row>> \o rows)
           h == S!RequestGrade(g, s)
           to == S!AddRow(page, f)
<1>1. to = [t |-> [t EXCEPT !.rows = more], g |-> h]
  BY DEF S!AddRow
<1>2. s \in Nat /\ f \in Nat /\ rows \in Seq(RowShape)
  BY SMTT(40) DEF ServerShape, TableShape
<1>3. grade \in {"none", "danger", "ok"} /\ (s \in g.cache => grade # "none")
  BY DEF S!Grade
<1> HIDE DEF s, grade
<1>4. row \in RowShape /\ row.frame = f /\ row.grade = grade
  BY <1>2, <1>3 DEF RowShape
<1> HIDE DEF row
<1>5. /\ Len(rows) \in Nat /\ more \in Seq(RowShape)
      /\ Len(more) = (IF Len(rows) + 1 <= MaxRows THEN Len(rows) + 1 ELSE MaxRows)
      /\ more[1] = row /\ \A i \in 2 .. Len(more) : more[i] = rows[i - 1]
  BY <1>2, <1>4, OnTop
<1>6. /\ h \in GradingShape /\ RequestDue(h) /\ h.cache = g.cache /\ h.gaveUp = g.gaveUp
      /\ \A x : In(x, g.queue) => In(x, h.queue)
      /\ s \in g.cache \/ g.gaveUp \/ In(s, h.queue)
  BY <1>2, Requesting
<1> HIDE DEF more, h, to
<1>7. /\ to.t \in TableShape /\ to.g = h /\ to.t.rows = more /\ to.t = [t EXCEPT !.rows = more]
  <2> DEFINE new == [t EXCEPT !.rows = more]
  <2>1. new \in TableShape /\ new.rows = more
    BY <1>5 DEF TableShape
  <2> HIDE DEF new
  <2>2. to.t = new /\ to.g = h
    BY <1>1 DEF new
  <2> QED
    BY <2>1, <2>2 DEF new
<1>8. RowGraded(row, feed.made, h)
  BY <1>3, <1>4, <1>6 DEF RowGraded, s, grade
<1>9. ASSUME NEW i \in 1 .. Len(rows) PROVE RowGraded(rows[i], feed.made, h)
  <2>1. RowGraded(rows[i], feed.made, g)
    BY DEF RowsGraded
  <2> QED
    BY <1>6, <2>1 DEF RowGraded
<1>10. ASSUME NEW i \in 1 .. Len(more) PROVE RowGraded(more[i], feed.made, h)
  <2>1. CASE i = 1
    BY <1>5, <1>8, <2>1
  <2>2. CASE i # 1
    <3> DEFINE j == i - 1
    <3>1. Len(more) \in Nat /\ Len(more) <= Len(rows) + 1 /\ i \in Nat /\ 1 <= i /\ i <= Len(more)
      BY <1>5, PageLimits
    <3>2. j \in 1 .. Len(rows) /\ i \in 2 .. Len(more)
      BY <1>5, <2>2, <3>1
    <3>3. more[i] = rows[j]
      BY <1>5, <3>2
    <3> HIDE DEF j
    <3> QED
      BY <1>9, <3>2, <3>3
  <2> QED
    BY <2>1, <2>2
<1>11. RowsGraded(more, feed.made, h)
  BY <1>10 DEF RowsGraded
<1>12. more[1].frame = f /\ \A i \in 2 .. Len(more) : more[i].frame = rows[i - 1].frame
  BY <1>4, <1>5
<1> HIDE DEF rows
<1> QED
  BY <1>5, <1>6, <1>7, <1>11, <1>12 DEF to, rows

\* The filter hides rows; it changes nothing else.
SameFrames(rows, others) ==
  Len(rows) = Len(others) /\ \A i \in 1 .. Len(rows) : rows[i].frame = others[i].frame

SameRows(rows, others) ==
  /\ Len(rows) = Len(others)
  /\ \A i \in 1 .. Len(rows) : rows[i].frame = others[i].frame /\ rows[i].grade = others[i].grade

LEMMA Filtering ==
  ASSUME NEW t \in TableShape
  PROVE  LET to == S!ApplyFilter(t) IN
         /\ to \in TableShape /\ Filtered(to) /\ SameRows(to.rows, t.rows)
         /\ to.seen = t.seen /\ to.held = t.held /\ to.total = t.total /\ to.paused = t.paused
         /\ to.filter = t.filter
<1> DEFINE rows == t.rows
           shown == [i \in DOMAIN rows |-> [rows[i] EXCEPT !.hidden = ~S!MatchesFilter(t.filter, rows[i])]]
           to == S!ApplyFilter(t)
<1>1. rows \in Seq(RowShape) /\ DOMAIN rows = 1 .. Len(rows) /\ Len(rows) \in Nat
  BY DEF TableShape
<1>2. to = [t EXCEPT !.rows = shown]
  BY DEF S!ApplyFilter
<1>3. ASSUME NEW i \in 1 .. Len(rows)
      PROVE  /\ shown[i] \in RowShape
             /\ shown[i].frame = rows[i].frame /\ shown[i].grade = rows[i].grade
             /\ shown[i].hidden <=> ~S!MatchesFilter(t.filter, rows[i])
  <2> DEFINE hide == ~S!MatchesFilter(t.filter, rows[i])
  <2>1. rows[i] \in RowShape /\ shown[i] = [rows[i] EXCEPT !.hidden = hide]
    BY <1>1
  <2>2. hide \in BOOLEAN
    BY DEF S!MatchesFilter
  <2> HIDE DEF hide
  <2>3. [rows[i] EXCEPT !.hidden = hide] \in RowShape
    BY <2>1, <2>2 DEF RowShape
  <2> QED
    BY <2>1, <2>3 DEF hide, RowShape
<1>4. DOMAIN shown = 1 .. Len(rows)
  BY <1>1
<1> HIDE DEF shown
<1>5. shown \in Seq(RowShape) /\ Len(shown) = Len(rows)
  <2>1. shown \in [1 .. Len(rows) -> RowShape]
    <3>1. shown = [i \in 1 .. Len(rows) |-> shown[i]]
      BY <1>1 DEF shown
    <3> QED
      BY <1>3, <3>1
  <2> QED
    BY <1>1, <2>1
<1>6. /\ to \in TableShape /\ to.rows = shown
      /\ to.seen = t.seen /\ to.held = t.held /\ to.total = t.total /\ to.paused = t.paused
      /\ to.filter = t.filter
  BY <1>2, <1>5 DEF TableShape
<1>7. SameRows(shown, rows)
  BY <1>3, <1>5 DEF SameRows
<1>8. \A i \in 1 .. Len(rows) : S!MatchesFilter(t.filter, rows[i]) <=> S!MatchesFilter(t.filter, shown[i])
  BY <1>3 DEF S!MatchesFilter
<1>9. Filtered(to)
  BY <1>3, <1>5, <1>6, <1>8 DEF Filtered
<1> QED
  BY <1>6, <1>7, <1>9

LEMMA SameShows ==
  ASSUME NEW rows, NEW others, SameFrames(rows, others), NEW seen, NEW k, Shows(others, seen, k), Len(rows) \in Nat
  PROVE  Shows(rows, seen, k)
<1> SUFFICES ASSUME NEW i \in 1 .. MaxRows, i + k <= MaxRows
             PROVE  /\ i <= Len(rows) <=> i + k <= Len(seen)
                    /\ i <= Len(rows) => rows[i].frame = seen[Len(seen) - (k + i - 1)]
  BY DEF Shows, SameFrames
<1>1. /\ Len(others) = Len(rows)
      /\ i <= Len(others) <=> i + k <= Len(seen)
      /\ i <= Len(others) => others[i].frame = seen[Len(seen) - (k + i - 1)]
  BY DEF Shows, SameFrames
<1>2. ASSUME i <= Len(rows) PROVE rows[i].frame = seen[Len(seen) - (k + i - 1)]
  <2>1. i \in 1 .. Len(rows)
    BY <1>2, PageLimits
  <2>2. rows[i].frame = others[i].frame
    BY <2>1 DEF SameFrames
  <2> QED
    BY <1>1, <1>2, <2>2
<1> QED
  BY <1>1, <1>2

LEMMA SameGrades ==
  ASSUME NEW rows, NEW others, SameRows(rows, others), NEW emitted, NEW g, RowsGraded(others, emitted, g)
  PROVE  RowsGraded(rows, emitted, g)
<1> SUFFICES ASSUME NEW i \in 1 .. Len(rows) PROVE RowGraded(rows[i], emitted, g)
  BY DEF RowsGraded
<1>1. RowGraded(others[i], emitted, g) /\ rows[i].frame = others[i].frame /\ rows[i].grade = others[i].grade
  BY DEF RowsGraded, SameRows
<1> QED
  BY <1>1 DEF RowGraded

-----------------------------------------------------------------------------
(* Adding what was held: Adding is a recursive function, and exists because *)
(* a shortest sequence without one could not exist.                         *)

Steps(page, fs, after, n) ==
  after = [i \in 0 .. n |-> IF i = 0 THEN page ELSE S!AddRow(after[i - 1], fs[i])]

LEMMA StepsExist ==
  ASSUME NEW page, NEW fs, Len(fs) \in Nat
  PROVE  \E after : Steps(page, fs, after, Len(fs))
<1> DEFINE Without == {n \in Nat : ~\E after : Steps(page, fs, after, n)}
<1>1. SUFFICES Without = {}
  OBVIOUS
<1>2. SUFFICES ASSUME Without # {} PROVE FALSE
  OBVIOUS
<1>3. PICK n \in Without : \A m \in Without : ~(<<m, n>> \in Below)
  <2>1. Without \subseteq Nat
    OBVIOUS
  <2> HIDE DEF Without
  <2> QED
    BY <1>2, <2>1, BelowIsWellFounded, WFMin, Zenon
<1>4. n \in Nat /\ \A m \in Nat : m < n => \E after : Steps(page, fs, after, m)
  BY <1>3 DEF Below
<1>5. CASE n = 0
  <2> DEFINE after == [i \in 0 .. 0 |-> page]
  <2>1. after = [i \in 0 .. 0 |-> IF i = 0 THEN page ELSE S!AddRow(after[i - 1], fs[i])]
    <3>1. \A i \in 0 .. 0 : i = 0
      OBVIOUS
    <3> QED
      BY <3>1
  <2> HIDE DEF after
  <2>2. Steps(page, fs, after, n)
    BY <1>5, <2>1 DEF Steps
  <2> QED
    BY <1>3, <2>2
<1>6. CASE n # 0
  <2> DEFINE m == n - 1
  <2>1. m \in Nat /\ m < n /\ n = m + 1
    BY <1>4, <1>6
  <2> HIDE DEF m
  <2>2. PICK before : Steps(page, fs, before, m)
    BY <1>4, <2>1
  <2> DEFINE after == [i \in 0 .. n |-> IF i = n THEN S!AddRow(before[m], fs[n]) ELSE before[i]]
  <2>3. ASSUME NEW i \in 0 .. n
        PROVE  after[i] = IF i = 0 THEN page ELSE S!AddRow(after[i - 1], fs[i])
    <3>1. CASE i = n
      <4>1. m \in 0 .. n /\ m # n /\ i - 1 = m /\ i # 0
        BY <2>1, <3>1
      <4>2. after[m] = before[m]
        BY <4>1
      <4> QED
        BY <3>1, <4>1, <4>2
    <3>2. CASE i # n
      <4>1. i \in 0 .. m /\ after[i] = before[i]
        BY <2>1, <3>2
      <4>2. before[i] = IF i = 0 THEN page ELSE S!AddRow(before[i - 1], fs[i])
        BY <2>2, <4>1, Zenon DEF Steps
      <4>3. i # 0 => i - 1 \in 0 .. n /\ i - 1 # n
        BY <2>1, <4>1
      <4>4. i # 0 => after[i - 1] = before[i - 1]
        BY <4>3
      <4> QED
        BY <4>1, <4>2, <4>4
    <3> QED
      BY <3>1, <3>2
  <2>4. after = [i \in 0 .. n |-> after[i]]
    OBVIOUS
  <2> HIDE DEF after
  <2>5. after = [i \in 0 .. n |-> IF i = 0 THEN page ELSE S!AddRow(after[i - 1], fs[i])]
    BY <2>3, <2>4
  <2>6. Steps(page, fs, after, n)
    BY <2>5 DEF Steps
  <2> QED
    BY <1>3, <2>6
<1> QED
  BY <1>4, <1>5, <1>6

LEMMA AddingUnfolds ==
  ASSUME NEW page, NEW fs, Len(fs) \in Nat
  PROVE  LET after == S!Adding(page, fs) IN
         /\ after[0] = page
         /\ \A n \in 1 .. Len(fs) : after[n] = S!AddRow(after[n - 1], fs[n])
<1> DEFINE R(g) == g = [i \in 0 .. Len(fs) |-> IF i = 0 THEN page ELSE S!AddRow(g[i - 1], fs[i])]
           after == S!Adding(page, fs)
<1>1. after = CHOOSE g : R(g)
  BY DEF S!Adding
<1>2. \E g : R(g)
  <2>1. \E g : Steps(page, fs, g, Len(fs))
    BY StepsExist
  <2> QED
    BY <2>1 DEF Steps
<1>3. R(CHOOSE g : R(g))
  <2> HIDE DEF R
  <2> QED
    BY <1>2
<1>4. after = [i \in 0 .. Len(fs) |-> IF i = 0 THEN page ELSE S!AddRow(after[i - 1], fs[i])]
  BY <1>1, <1>3
<1> HIDE DEF after
<1>5. after[0] = page
  <2>1. 0 \in 0 .. Len(fs)
    OBVIOUS
  <2> QED
    BY <1>4, <2>1
<1>6. ASSUME NEW n \in 1 .. Len(fs) PROVE after[n] = S!AddRow(after[n - 1], fs[n])
  <2>1. n \in 0 .. Len(fs) /\ n # 0
    OBVIOUS
  <2> QED
    BY <1>4, <2>1
<1> QED
  BY <1>5, <1>6 DEF after

PageKept(page, t, seen, k) ==
  /\ page.t \in TableShape /\ page.g \in GradingShape
  /\ page.t = [t EXCEPT !.rows = page.t.rows]
  /\ RequestDue(page.g) /\ RowsGraded(page.t.rows, feed.made, page.g)
  /\ Shows(page.t.rows, seen, k)

LEMMA AddsOne ==
  ASSUME feed \in ServerShape, NEW t \in TableShape, NEW seen \in Seq(Nat), NEW k \in Nat \ {0}, k <= Len(seen),
         seen[Len(seen) - (k - 1)] \in 1 .. Len(feed.made),
         NEW page, PageKept(page, t, seen, k)
  PROVE  PageKept(S!AddRow(page, seen[Len(seen) - (k - 1)]), t, seen, k - 1)
<1> DEFINE f == seen[Len(seen) - (k - 1)]
           to == S!AddRow(page, f)
<1>1. f \in 1 .. Len(feed.made)
  OBVIOUS
<1> HIDE DEF f
<1>2. /\ to.t \in TableShape /\ to.g \in GradingShape /\ RequestDue(to.g)
      /\ RowsGraded(to.t.rows, feed.made, to.g)
      /\ to.t = [page.t EXCEPT !.rows = to.t.rows]
      /\ Len(page.t.rows) \in Nat
      /\ Len(to.t.rows) = (IF Len(page.t.rows) + 1 <= MaxRows THEN Len(page.t.rows) + 1 ELSE MaxRows)
      /\ to.t.rows[1].frame = f
      /\ \A i \in 2 .. Len(to.t.rows) : to.t.rows[i].frame = page.t.rows[i - 1].frame
  BY <1>1, RowAdded DEF PageKept
<1> HIDE DEF to
<1>3. Shows(to.t.rows, seen, k - 1)
  BY <1>2, ShowsOneLess DEF PageKept, f
<1>4. to.t = [t EXCEPT !.rows = to.t.rows]
  <2> DEFINE rows == page.t.rows
             more == to.t.rows
  <2>1. page.t = [t EXCEPT !.rows = rows] /\ to.t = [page.t EXCEPT !.rows = more]
    BY <1>2 DEF PageKept
  <2> HIDE DEF rows, more
  <2>2. to.t = [t EXCEPT !.rows = more]
    BY <2>1 DEF TableShape
  <2> QED
    BY <2>2 DEF more
<1> QED
  BY <1>2, <1>3, <1>4 DEF PageKept, to, f

LEMMA AddsAll ==
  ASSUME feed \in ServerShape, NEW t \in TableShape, NEW seen \in Seq(Nat), Taken(feed, seen),
         NEW fs \in Seq(Nat), Len(fs) <= Len(seen),
         \A j \in 0 .. Len(fs) - 1 : fs[Len(fs) - j] = seen[Len(seen) - j],
         NEW page, PageKept(page, t, seen, Len(fs))
  PROVE  PageKept(S!AddRows(page, fs), t, seen, 0)
<1> DEFINE h == Len(fs)
           after == S!Adding(page, fs)
           Bad == {n \in 0 .. h : ~PageKept(after[n], t, seen, h - n)}
<1>1. h \in Nat /\ Len(seen) \in Nat /\ h <= Len(seen)
  OBVIOUS
<1>2. after[0] = page /\ \A n \in 1 .. h : after[n] = S!AddRow(after[n - 1], fs[n])
  BY <1>1, AddingUnfolds
<1> HIDE DEF after
<1>3. ASSUME Bad # {} PROVE FALSE
  <2>1. PICK n \in Bad : \A m \in Bad : ~(<<m, n>> \in Below)
    <3>1. Bad \subseteq Nat
      BY <1>1
    <3> HIDE DEF Bad
    <3> QED
      BY <1>3, <3>1, BelowIsWellFounded, WFMin, Zenon
  <2>2. n \in 0 .. h /\ ~PageKept(after[n], t, seen, h - n)
    OBVIOUS
  <2>3. CASE n = 0
    BY <1>1, <1>2, <2>2, <2>3
  <2>4. CASE n # 0
    <3> DEFINE m == n - 1
               k == h - m
    <3>1. m \in 0 .. h /\ <<m, n>> \in Below /\ n \in 1 .. h
      BY <1>1, <2>2, <2>4 DEF Below
    <3>2. PageKept(after[m], t, seen, k)
      BY <2>1, <3>1
    <3>3. k \in Nat \ {0} /\ k <= Len(seen) /\ k - 1 = h - n /\ k - 1 \in 0 .. h - 1 /\ h - (k - 1) = n
          /\ Len(seen) - (k - 1) \in 1 .. Len(seen)
      BY <1>1, <2>2, <2>4
    <3>4. fs[n] = seen[Len(seen) - (k - 1)]
      BY <3>3
    <3>5. seen[Len(seen) - (k - 1)] \in 1 .. Len(feed.made)
      BY <3>3 DEF Taken
    <3>6. after[n] = S!AddRow(after[m], fs[n])
      BY <1>2, <3>1
    <3> HIDE DEF k, m
    <3>7. PageKept(S!AddRow(after[m], seen[Len(seen) - (k - 1)]), t, seen, k - 1)
      BY <3>2, <3>3, <3>5, AddsOne
    <3>8. PageKept(after[n], t, seen, h - n)
      BY <3>3, <3>4, <3>6, <3>7
    <3> QED
      BY <2>2, <3>8
  <2> QED
    BY <2>3, <2>4
<1>4. PageKept(after[h], t, seen, h - h) /\ h - h = 0
  BY <1>1, <1>3
<1> QED
  BY <1>4 DEF S!AddRows, after

-----------------------------------------------------------------------------
(* Deleting from the queue, the same way.                                  *)

Deletes(q, done, left, n) ==
  left = [i \in 0 .. n |-> IF i = 0 THEN <<>>
                           ELSE IF q[i] \in done THEN left[i - 1] ELSE Append(left[i - 1], q[i])]

\* What was kept of the first n.
KeptOf(q, done, n, r) ==
  r \in Seq(Nat) /\ \A x : In(x, r) <=> x \notin done /\ \E i \in 1 .. n : q[i] = x

LEMMA DeletesExist ==
  ASSUME NEW q, NEW done, Len(q) \in Nat
  PROVE  \E left : Deletes(q, done, left, Len(q))
<1> DEFINE Without == {n \in Nat : ~\E left : Deletes(q, done, left, n)}
<1>1. SUFFICES Without = {}
  OBVIOUS
<1>2. SUFFICES ASSUME Without # {} PROVE FALSE
  OBVIOUS
<1>3. PICK n \in Without : \A m \in Without : ~(<<m, n>> \in Below)
  <2>1. Without \subseteq Nat
    OBVIOUS
  <2> HIDE DEF Without
  <2> QED
    BY <1>2, <2>1, BelowIsWellFounded, WFMin, Zenon
<1>4. n \in Nat /\ \A m \in Nat : m < n => \E left : Deletes(q, done, left, m)
  BY <1>3 DEF Below
<1> DEFINE Next1(r, i) == IF q[i] \in done THEN r ELSE Append(r, q[i])
<1>5. CASE n = 0
  <2> DEFINE none == <<>>
             left == [i \in 0 .. 0 |-> none]
  <2>1. left = [i \in 0 .. 0 |-> IF i = 0 THEN <<>>
                              ELSE IF q[i] \in done THEN left[i - 1] ELSE Append(left[i - 1], q[i])]
    <3>1. \A i \in 0 .. 0 : i = 0
      OBVIOUS
    <3> QED
      BY <3>1
  <2> HIDE DEF left
  <2>2. Deletes(q, done, left, n)
    BY <1>5, <2>1 DEF Deletes
  <2> QED
    BY <1>3, <2>2
<1>6. CASE n # 0
  <2> DEFINE m == n - 1
  <2>1. m \in Nat /\ m < n /\ n = m + 1
    BY <1>4, <1>6
  <2> HIDE DEF m
  <2>2. PICK before : Deletes(q, done, before, m)
    BY <1>4, <2>1
  <2> DEFINE left == [i \in 0 .. n |-> IF i = n THEN Next1(before[m], n) ELSE before[i]]
  <2>3. ASSUME NEW i \in 0 .. n
        PROVE  left[i] = IF i = 0 THEN <<>> ELSE Next1(left[i - 1], i)
    <3>1. CASE i = n
      <4>1. m \in 0 .. n /\ m # n /\ i - 1 = m /\ i # 0
        BY <2>1, <3>1
      <4>2. left[m] = before[m]
        BY <4>1
      <4> QED
        BY <3>1, <4>1, <4>2
    <3>2. CASE i # n
      <4>1. i \in 0 .. m /\ left[i] = before[i]
        BY <2>1, <3>2
      <4>2. before[i] = IF i = 0 THEN <<>> ELSE Next1(before[i - 1], i)
        BY <2>2, <4>1, Zenon DEF Deletes
      <4>3. i # 0 => i - 1 \in 0 .. n /\ i - 1 # n
        BY <2>1, <4>1
      <4>4. i # 0 => left[i - 1] = before[i - 1]
        BY <4>3
      <4> QED
        BY <4>1, <4>2, <4>4
    <3> QED
      BY <3>1, <3>2
  <2>4. left = [i \in 0 .. n |-> left[i]]
    OBVIOUS
  <2> HIDE DEF left
  <2>5. left = [i \in 0 .. n |-> IF i = 0 THEN <<>> ELSE Next1(left[i - 1], i)]
    BY <2>3, <2>4
  <2>6. Deletes(q, done, left, n)
    BY <2>5 DEF Deletes
  <2> QED
    BY <1>3, <2>6
<1> QED
  BY <1>4, <1>5, <1>6

LEMMA DeletingOne ==
  ASSUME NEW q \in Seq(Nat), NEW done, NEW n \in 1 .. Len(q), NEW r, KeptOf(q, done, n - 1, r)
  PROVE  KeptOf(q, done, n, IF q[n] \in done THEN r ELSE Append(r, q[n]))
<1> DEFINE a == Append(r, q[n])
<1>1. /\ r \in Seq(Nat) /\ q[n] \in Nat /\ Len(r) \in Nat
      /\ a \in Seq(Nat) /\ Len(a) = Len(r) + 1 /\ a[Len(r) + 1] = q[n]
      /\ \A i \in 1 .. Len(r) : a[i] = r[i]
  BY DEF KeptOf
<1> HIDE DEF a
<1>2. \A x : In(x, a) <=> In(x, r) \/ x = q[n]
  <2> SUFFICES ASSUME NEW x PROVE In(x, a) <=> In(x, r) \/ x = q[n]
    OBVIOUS
  <2>1. ASSUME In(x, a) PROVE In(x, r) \/ x = q[n]
    <3>1. PICK i \in 1 .. Len(a) : a[i] = x
      BY <2>1 DEF In
    <3>2. i = Len(r) + 1 \/ i \in 1 .. Len(r)
      BY <1>1
    <3> QED
      BY <1>1, <3>1, <3>2 DEF In
  <2>2. ASSUME In(x, r) \/ x = q[n] PROVE In(x, a)
    <3>1. CASE x = q[n]
      <4>1. Len(r) + 1 \in 1 .. Len(a)
        BY <1>1
      <4> QED
        BY <1>1, <3>1, <4>1 DEF In
    <3>2. CASE In(x, r)
      <4>1. PICK i \in 1 .. Len(r) : r[i] = x
        BY <3>2 DEF In
      <4>2. i \in 1 .. Len(a) /\ a[i] = x
        BY <1>1, <4>1, SMTT(40)
      <4> QED
        BY <4>2 DEF In
    <3> QED
      BY <2>2, <3>1, <3>2
  <2> QED
    BY <2>1, <2>2
<1>3. \A x : (\E i \in 1 .. n : q[i] = x) <=> (\E i \in 1 .. n - 1 : q[i] = x) \/ x = q[n]
  <2> SUFFICES ASSUME NEW x PROVE (\E i \in 1 .. n : q[i] = x) <=> (\E i \in 1 .. n - 1 : q[i] = x) \/ x = q[n]
    OBVIOUS
  <2>1. \A i \in 1 .. n : i = n \/ i \in 1 .. n - 1
    OBVIOUS
  <2>2. n \in 1 .. n /\ \A i \in 1 .. n - 1 : i \in 1 .. n
    OBVIOUS
  <2> QED
    BY <2>1, <2>2
<1>4. \A x : In(x, r) <=> x \notin done /\ \E i \in 1 .. n - 1 : q[i] = x
  BY DEF KeptOf
<1>5. CASE q[n] \in done
  BY <1>1, <1>3, <1>4, <1>5 DEF KeptOf
<1>6. CASE q[n] \notin done
  BY <1>1, <1>2, <1>3, <1>4, <1>6 DEF KeptOf, a
<1> QED
  BY <1>5, <1>6

LEMMA LeavingIs ==
  ASSUME NEW q \in Seq(Nat), NEW done
  PROVE  LET r == S!Leaving(q, done)[Len(q)] IN
         r \in Seq(Nat) /\ \A x : In(x, r) <=> x \notin done /\ In(x, q)
<1> DEFINE R(g) == g = [i \in 0 .. Len(q) |->
                          IF i = 0 THEN <<>>
                          ELSE IF q[i] \in done THEN g[i - 1] ELSE Append(g[i - 1], q[i])]
           left == S!Leaving(q, done)
           h == Len(q)
           Bad == {n \in 0 .. h : ~KeptOf(q, done, n, left[n])}
<1>1. left = CHOOSE g : R(g)
  BY DEF S!Leaving
<1>2. \E g : R(g)
  <2>1. \E g : Deletes(q, done, g, Len(q))
    <3>1. Len(q) \in Nat
      OBVIOUS
    <3> QED
      BY <3>1, DeletesExist
  <2> QED
    BY <2>1 DEF Deletes
<1>3. R(CHOOSE g : R(g))
  <2> HIDE DEF R
  <2> QED
    BY <1>2
<1>4. left = [i \in 0 .. h |-> IF i = 0 THEN <<>>
                              ELSE IF q[i] \in done THEN left[i - 1] ELSE Append(left[i - 1], q[i])]
  BY <1>1, <1>3
<1>5. h \in Nat
  OBVIOUS
<1> HIDE DEF left, h
<1>6. left[0] = <<>>
  <2>1. 0 \in 0 .. h
    BY <1>5
  <2> QED
    BY <1>4, <2>1
<1>7. \A n \in 1 .. h : left[n] = IF q[n] \in done THEN left[n - 1] ELSE Append(left[n - 1], q[n])
  <2> SUFFICES ASSUME NEW n \in 1 .. h
               PROVE  left[n] = IF q[n] \in done THEN left[n - 1] ELSE Append(left[n - 1], q[n])
    OBVIOUS
  <2>1. n \in 0 .. h /\ n # 0
    BY <1>5
  <2> QED
    BY <1>4, <2>1
<1>8. ASSUME Bad # {} PROVE FALSE
  <2>1. PICK n \in Bad : \A m \in Bad : ~(<<m, n>> \in Below)
    <3>1. Bad \subseteq Nat
      BY <1>5
    <3> HIDE DEF Bad
    <3> QED
      BY <1>8, <3>1, BelowIsWellFounded, WFMin, Zenon
  <2>2. n \in 0 .. h /\ ~KeptOf(q, done, n, left[n])
    OBVIOUS
  <2>3. CASE n = 0
    <3>1. KeptOf(q, done, 0, <<>>)
      BY DEF KeptOf, In
    <3> QED
      BY <1>6, <2>2, <2>3, <3>1
  <2>4. CASE n # 0
    <3> DEFINE m == n - 1
    <3>1. m \in 0 .. h /\ <<m, n>> \in Below /\ n \in 1 .. Len(q)
      BY <1>5, <2>2, <2>4 DEF Below, h
    <3>2. KeptOf(q, done, m, left[m])
      BY <2>1, <3>1
    <3>3. KeptOf(q, done, n, IF q[n] \in done THEN left[m] ELSE Append(left[m], q[n]))
      BY <3>1, <3>2, DeletingOne
    <3>4. left[n] = IF q[n] \in done THEN left[m] ELSE Append(left[m], q[n])
      BY <1>7, <3>1 DEF h
    <3> QED
      BY <2>2, <3>3, <3>4
  <2> QED
    BY <2>3, <2>4
<1>9. KeptOf(q, done, h, left[h])
  BY <1>5, <1>8
<1> QED
  BY <1>9 DEF KeptOf, In, left, h

-----------------------------------------------------------------------------
(* What is true of the page, and its steps: first the frames.              *)

RowsOK(t, emitted, g) ==
  /\ t \in TableShape /\ g \in GradingShape
  /\ TableOK(t) /\ Filtered(t)
  /\ RowsGraded(t.rows, emitted, g) /\ RequestDue(g)

PageInv == Whole(feed, line, table.seen) /\ RowsOK(table, feed.made, grading)

LEMMA PageTypes ==
  ASSUME FeedInv, PageInv
  PROVE  /\ ServerOK(feed) /\ feed \in ServerShape /\ line \in LineShape
         /\ Whole(feed, line, table.seen) /\ RowsOK(table, feed.made, grading)
         /\ table \in TableShape /\ grading \in GradingShape
         /\ line.wire \in Seq(Nat) /\ table.seen \in Seq(Nat) /\ table.held \in Seq(Nat)
         /\ feed.made \in Seq(Nat) /\ table.rows \in Seq(RowShape) /\ Len(table.rows) \in Nat
         /\ grading.queue \in Seq(Nat)
<1>1. /\ ServerOK(feed) /\ feed \in ServerShape /\ line \in LineShape
      /\ Whole(feed, line, table.seen) /\ RowsOK(table, feed.made, grading)
  BY DEF FeedInv, PageInv, ServerOK
<1>2. table \in TableShape /\ grading \in GradingShape
  BY <1>1 DEF RowsOK
<1>3. line.wire \in Seq(Nat) /\ feed.made \in Seq(Nat)
  BY <1>1 DEF LineShape, ServerShape
<1>4. /\ table.seen \in Seq(Nat) /\ table.held \in Seq(Nat) /\ grading.queue \in Seq(Nat)
      /\ table.rows \in Seq(RowShape)
  BY <1>2 DEF TableShape, GradingShape
<1>5. Len(table.rows) \in Nat
  BY <1>4
<1> QED
  BY <1>1, <1>2, <1>3, <1>4, <1>5

\* The server's steps but emitting and restarting leave its frames alone.
LEMMA FramesStand ==
  ASSUME NEW sv \in ServerShape, NEW c, NEW kind, NEW gone
  PROVE  /\ S!Admit(sv, c, kind).made = sv.made /\ S!Admit(sv, c, kind).ring = sv.ring
         /\ S!HangUp(sv, gone).made = sv.made /\ S!HangUp(sv, gone).ring = sv.ring
         /\ S!CleanUp(sv).made = sv.made /\ S!CleanUp(sv).ring = sv.ring
         /\ [S!CleanUp(sv) EXCEPT !.conns[c] = kind].made = sv.made
         /\ [S!CleanUp(sv) EXCEPT !.conns[c] = kind].ring = sv.ring
         /\ S!Closed(sv, c).made = sv.made /\ S!Closed(sv, c).ring = sv.ring
         /\ S!CloseStream(sv).made = sv.made /\ S!CloseStream(sv).ring = sv.ring
<1>1. \A x, y, z : LET r == [sv EXCEPT !.conns = x, !.slots = y, !.running = z]
                  IN  r.made = sv.made /\ r.ring = sv.ring
  BY DEF ServerShape
<1>2. S!Admit(sv, c, kind).made = sv.made /\ S!Admit(sv, c, kind).ring = sv.ring
  BY DEF S!Admit, ServerShape
<1>3. \A x : S!HangUp(sv, x).made = sv.made /\ S!HangUp(sv, x).ring = sv.ring
  BY DEF S!HangUp, ServerShape
<1>4. S!CleanUp(sv).made = sv.made /\ S!CleanUp(sv).ring = sv.ring
  BY DEF S!CleanUp, ServerShape
<1>5. \A x : /\ [S!CleanUp(sv) EXCEPT !.conns[c] = x].made = sv.made
            /\ [S!CleanUp(sv) EXCEPT !.conns[c] = x].ring = sv.ring
  BY DEF S!CleanUp, ServerShape
<1>6. S!Closed(sv, c).made = sv.made /\ S!Closed(sv, c).ring = sv.ring
  <2>1. CASE sv.conns[c] = "gone"
    BY <1>5, <2>1 DEF S!Closed
  <2>2. CASE sv.conns[c] # "gone"
    BY <2>2 DEF S!Closed, ServerShape
  <2> QED
    BY <2>1, <2>2
<1>7. S!CloseStream(sv).made = sv.made /\ S!CloseStream(sv).ring = sv.ring
  BY <1>3 DEF S!CloseStream
<1> QED
  BY <1>2, <1>3, <1>4, <1>5, <1>6, <1>7

LEMMA WholeEmitting ==
  ASSUME FeedInv, FeedInv', PageInv, S!Emit
  PROVE  Whole(feed', line', table'.seen)
<1>1. /\ ServerOK(feed) /\ ServerOK(feed') /\ feed \in ServerShape /\ line \in LineShape
      /\ line.wire \in Seq(Nat) /\ table.seen \in Seq(Nat) /\ Whole(feed, line, table.seen)
  BY PageTypes DEF FeedInv
<1> DEFINE x == feed.cursor
           n == Len(feed.made)
           made1 == Append(feed.made, x)
           ring1 == S!LastN(RingMax, Append(feed.ring, n + 1))
<1>2. feed'.made = made1 /\ feed'.ring = ring1 /\ x \in Nat /\ table' = table
  BY <1>1 DEF S!Emit, ServerShape
<1>3. /\ line'.conn = line.conn
      /\ line'.wire = IF line.conn = 0 THEN line.wire ELSE Append(line.wire, n + 1)
  <2> DEFINE wire1 == Append(line.wire, n + 1)
  <2>1. line' = IF line.conn = 0 THEN line ELSE [line EXCEPT !.wire = wire1]
    BY DEF S!Emit, S!NoConn
  <2> HIDE DEF wire1
  <2>2. /\ line'.conn = line.conn
        /\ line'.wire = IF line.conn = 0 THEN line.wire ELSE wire1
    BY <1>1, <2>1 DEF LineShape
  <2> QED
    BY <2>2 DEF wire1
<1> QED
  BY <1>1, <1>2, <1>3, WholeEmits

LEMMA WholeRestarting ==
  ASSUME FeedInv, FeedInv', PageInv, S!Restart
  PROVE  Whole(feed', line', table'.seen)
<1>1. /\ ServerOK(feed) /\ ServerOK(feed') /\ feed \in ServerShape /\ line \in LineShape
      /\ Whole(feed, line, table.seen) /\ PageHeld(feed.conns, line)
  BY PageTypes DEF FeedInv
<1>2. feed'.made = feed.made /\ feed'.ring = <<>> /\ table' = table
  BY DEF S!Restart, S!Boot
<1>3. line'.wire = <<>> /\ line'.conn = 0
  <2>1. CASE line.sock = "none"
    <3>1. line.conn = 0 /\ line.wire = <<>>
      BY <1>1, <2>1 DEF PageHeld, Whole, WireOK
    <3>2. line'.wire = line.wire /\ line'.conn = line.conn
      BY <1>1, <2>1 DEF S!Restart, LineShape
    <3> QED
      BY <3>1, <3>2
  <2>2. CASE line.sock # "none"
    BY <1>1, <2>2 DEF S!Restart, S!Dropped, S!NoConn, LineShape
  <2> QED
    BY <2>1, <2>2
<1> QED
  BY <1>1, <1>2, <1>3, WholeRestarts

LEMMA WholeConnecting ==
  ASSUME FeedInv, FeedInv', PageInv, S!Accept
  PROVE  Whole(feed', line', table'.seen)
<1>1. /\ ServerOK(feed) /\ feed \in ServerShape /\ line \in LineShape /\ Whole(feed, line, table.seen)
  BY PageTypes DEF FeedInv
<1> DEFINE wire1 == << 0 >> \o Rung(feed)
           id == S!NextId
<1>2. id # 0
  BY NextIdIsFree, FiniteIds DEF S!Accept, S!Room
<1>3. line' = [line EXCEPT !.conn = id, !.wire = wire1] /\ feed' = S!Admit(feed, id, "page") /\ table' = table
  BY DEF S!Accept, S!Replay, S!Open, Rung
<1> HIDE DEF wire1, id
<1>4. line'.wire = wire1 /\ line'.conn = id
  BY <1>1, <1>3 DEF LineShape
<1>5. feed'.made = feed.made /\ feed'.ring = feed.ring
  BY <1>1, <1>3, FramesStand
<1> QED
  BY <1>1, <1>2, <1>3, <1>4, <1>5, WholeAccepts DEF wire1

\* The steps of connections: what is on its way stays, or is lost with its socket.
LEMMA WholeConnections ==
  ASSUME FeedInv, FeedInv', PageInv,
         \/ S!EmitFails \/ S!OtherOpens \/ S!ProbeAdmitted \/ S!ProbeRefused \/ S!HearRefused
         \/ \E c \in Ids : S!OtherCloses(c) \/ S!NoticeError(c) \/ S!NoticeClose(c) \/ S!HearAdmitted(c)
         \/ \E status \in {429, 502} : S!Refuse(status)
         \/ \E answered \in BOOLEAN : S!ProbeFails(answered)
         \/ S!Drop \/ S!TimerFires \/ S!ClickReconnect
  PROVE  Whole(feed', line', table'.seen) /\ feed'.made = feed.made /\ table' = table
<1>1. /\ feed \in ServerShape /\ line \in LineShape /\ Whole(feed, line, table.seen)
  BY PageTypes
<1>2. feed'.made = feed.made /\ feed'.ring = feed.ring /\ table' = table
  <2>1. CASE S!EmitFails
    BY <1>1, <2>1 DEF S!EmitFails, ServerShape
  <2>2. CASE S!OtherOpens \/ S!ProbeAdmitted
    BY <1>1, <2>2, FramesStand DEF S!OtherOpens, S!ProbeAdmitted
  <2>3. CASE S!ProbeRefused \/ S!HearRefused \/ \E answered \in BOOLEAN : S!ProbeFails(answered)
    BY <2>3 DEF S!ProbeRefused, S!HearRefused, S!ProbeFails
  <2>4. CASE \E c \in Ids : S!OtherCloses(c) \/ S!NoticeError(c) \/ S!NoticeClose(c) \/ S!HearAdmitted(c)
    <3>1. PICK c \in Ids : S!OtherCloses(c) \/ S!NoticeError(c) \/ S!NoticeClose(c) \/ S!HearAdmitted(c)
      BY <2>4
    <3>2. /\ S!HangUp(feed, {c}).made = feed.made /\ S!HangUp(feed, {c}).ring = feed.ring
          /\ [S!CleanUp(feed) EXCEPT !.conns[c] = "cleaned"].made = feed.made
          /\ [S!CleanUp(feed) EXCEPT !.conns[c] = "cleaned"].ring = feed.ring
          /\ S!Closed(feed, c).made = feed.made /\ S!Closed(feed, c).ring = feed.ring
      BY <1>1, FramesStand
    <3>3. CASE S!NoticeError(c)
      <4>1. feed' = [S!CleanUp(feed) EXCEPT !.conns[c] = "cleaned"] /\ table' = table
        BY <3>3 DEF S!NoticeError
      <4> QED
        BY <3>2, <4>1
    <3>4. CASE S!OtherCloses(c) \/ S!HearAdmitted(c)
      BY <3>2, <3>4 DEF S!OtherCloses, S!HearAdmitted
    <3>5. CASE S!NoticeClose(c)
      BY <3>2, <3>5 DEF S!NoticeClose
    <3> QED
      BY <3>1, <3>3, <3>4, <3>5
  <2>5. CASE \E status \in {429, 502} : S!Refuse(status)
    BY <2>5 DEF S!Refuse
  <2>6. CASE S!Drop \/ S!TimerFires \/ S!ClickReconnect
    BY <1>1, <2>6, FramesStand DEF S!Drop, S!TimerFires, S!ClickReconnect
  <2> QED
    BY <2>1, <2>2, <2>3, <2>4, <2>5, <2>6
<1>3. (line'.wire = line.wire /\ line'.conn = line.conn) \/ (line'.wire = <<>> /\ line'.conn = 0)
  <2>1. CASE S!EmitFails \/ S!OtherOpens
    BY <2>1 DEF S!EmitFails, S!OtherOpens
  <2>2. CASE S!ProbeAdmitted \/ S!ProbeRefused \/ S!HearRefused \/ \E answered \in BOOLEAN : S!ProbeFails(answered)
    BY <1>1, <2>2 DEF S!ProbeAdmitted, S!ProbeRefused, S!HearRefused, S!ProbeFails, LineShape
  <2>3. CASE \E c \in Ids : S!OtherCloses(c) \/ S!NoticeError(c) \/ S!NoticeClose(c) \/ S!HearAdmitted(c)
    BY <1>1, <2>3 DEF S!OtherCloses, S!NoticeError, S!NoticeClose, S!HearAdmitted, LineShape
  <2>4. CASE \E status \in {429, 502} : S!Refuse(status)
    BY <1>1, <2>4 DEF S!Refuse, LineShape
  <2>5. CASE S!Drop
    BY <1>1, <2>5 DEF S!Drop, S!Dropped, S!NoConn, LineShape
  <2>6. CASE S!TimerFires \/ S!ClickReconnect
    BY <1>1, <2>6 DEF S!TimerFires, S!ClickReconnect, S!Connect, S!NoConn, LineShape
  <2> QED
    BY <2>1, <2>2, <2>3, <2>4, <2>5, <2>6
<1> QED
  BY <1>1, <1>2, <1>3, WholeStays

\* What Painted leaves of a table.
LEMMA Painting ==
  ASSUME NEW page, page.t \in TableShape, S!Painted(page)
  PROVE  /\ table' \in TableShape /\ Filtered(table') /\ SameRows(table'.rows, page.t.rows)
         /\ table'.seen = page.t.seen /\ table'.held = page.t.held /\ table'.total = page.t.total
         /\ table'.paused = page.t.paused /\ table'.filter = page.t.filter
         /\ grading' = page.g /\ Len(table'.rows) \in Nat
<1>1. table' = S!ApplyFilter(page.t) /\ grading' = page.g
  BY DEF S!Painted
<1>2. /\ table' \in TableShape /\ Filtered(table') /\ SameRows(table'.rows, page.t.rows)
      /\ table'.seen = page.t.seen /\ table'.held = page.t.held /\ table'.total = page.t.total
      /\ table'.paused = page.t.paused /\ table'.filter = page.t.filter
  BY <1>1, Filtering
<1> QED
  BY <1>1, <1>2 DEF TableShape

\* A page as it should be, once it is painted.
LEMMA PaintedOK ==
  ASSUME NEW page, page.t \in TableShape, page.g \in GradingShape, S!Painted(page),
         TableOK(page.t), RowsGraded(page.t.rows, feed.made, page.g), RequestDue(page.g), feed'.made = feed.made
  PROVE  RowsOK(table', feed'.made, grading') /\ table'.seen = page.t.seen
<1>1. /\ table' \in TableShape /\ Filtered(table') /\ SameRows(table'.rows, page.t.rows)
      /\ table'.seen = page.t.seen /\ table'.held = page.t.held /\ table'.total = page.t.total
      /\ table'.paused = page.t.paused /\ table'.filter = page.t.filter
      /\ grading' = page.g /\ Len(table'.rows) \in Nat
  BY Painting
<1>2. RowsGraded(table'.rows, feed.made, page.g)
  BY <1>1, SameGrades
<1>3. \A k : Shows(page.t.rows, page.t.seen, k) => Shows(table'.rows, page.t.seen, k)
  BY <1>1, SameShows DEF SameRows, SameFrames
<1>4. TableOK(table')
  BY <1>1, <1>3 DEF TableOK
<1> QED
  BY <1>1, <1>2, <1>4 DEF RowsOK

\* The rows of a page to which frames were added, seen from the table they were added to.
LEMMA KeptIsOK ==
  ASSUME NEW page, NEW t \in TableShape, ~t.paused, t.held = <<>>, PageKept(page, t, t.seen, 0)
  PROVE  TableOK(page.t) /\ page.t.seen = t.seen
<1> DEFINE rows == page.t.rows
<1>1. page.t = [t EXCEPT !.rows = rows] /\ Shows(rows, t.seen, 0)
  BY DEF PageKept
<1> HIDE DEF rows
<1>2. page.t.seen = t.seen /\ page.t.held = t.held /\ page.t.paused = t.paused /\ page.t.rows = rows
  BY <1>1 DEF TableShape
<1> QED
  BY <1>1, <1>2 DEF TableOK

LEMMA PageMessage ==
  ASSUME FeedInv, PageInv, S!OnMessage
  PROVE  PageInv'
<1> DEFINE f == Head(line.wire)
           seen == S!LastN(SeenMax, Append(table.seen, f))
           held == S!LastN(MaxRows, Append(table.held, f))
           more == table.total + 1
           t == [table EXCEPT !.seen = seen]
           rest == Tail(line.wire)
<1>1. /\ ServerOK(feed) /\ feed \in ServerShape /\ line \in LineShape /\ Whole(feed, line, table.seen)
      /\ RowsOK(table, feed.made, grading) /\ table \in TableShape /\ grading \in GradingShape
      /\ line.wire \in Seq(Nat) /\ table.seen \in Seq(Nat) /\ table.held \in Seq(Nat)
      /\ table.rows \in Seq(RowShape) /\ Len(table.rows) \in Nat /\ table.total \in Nat
  BY PageTypes DEF TableShape
<1>2. /\ line.wire # <<>> /\ f # 0 /\ line' = [line EXCEPT !.wire = rest] /\ feed' = feed
      /\ \/ ~S!ClaimFrame(table, f) /\ UNCHANGED <<table, grading>>
         \/ /\ S!ClaimFrame(table, f) /\ table.paused /\ UNCHANGED grading
            /\ table' = [t EXCEPT !.total = more, !.held = held]
         \/ /\ S!ClaimFrame(table, f) /\ ~table.paused
            /\ S!Painted(S!AddRows([t |-> t, g |-> grading], <<f>>))
  BY <1>1 DEF S!OnMessage, S!Open, TableShape
<1>3. line'.wire = rest /\ line'.conn = line.conn
  BY <1>1, <1>2 DEF LineShape
<1>4. S!ClaimFrame(table, f) <=> ~In(f, table.seen)
  BY <1>1, ToSetIs DEF S!ClaimFrame
<1>5. f \in Nat
  BY <1>1, <1>2
<1>6. CASE ~S!ClaimFrame(table, f)
  <2>1. table' = table /\ grading' = grading /\ In(f, table.seen)
    BY <1>2, <1>4, <1>6
  <2>2. Whole(feed, line', table.seen)
    BY <1>1, <1>2, <1>3, <2>1, WholePasses
  <2> QED
    BY <1>1, <1>2, <2>1, <2>2 DEF PageInv
<1>7. CASE S!ClaimFrame(table, f)
  <2>1. Whole(feed, line', seen) /\ f \in 1 .. Len(feed.made) /\ Above(f, table.seen)
    BY <1>1, <1>2, <1>3, <1>4, <1>7, WholeTakes
  <2>2. seen \in Seq(Nat) /\ held \in Seq(Nat) /\ MaxRows \in Nat /\ SeenMax \in Nat
    <3>1. MaxRows \in Nat /\ SeenMax \in Nat
      BY PageLimits
    <3>2. seen \in Seq(Nat)
      BY <1>1, <1>5, <3>1, Keeping
    <3>3. held \in Seq(Nat)
      BY <1>1, <1>5, <3>1, Keeping
    <3> QED
      BY <3>1, <3>2, <3>3
  <2>3. more \in Nat
    BY <1>1
  <2>4. \A k \in Nat : Shows(table.rows, table.seen, k) => Shows(table.rows, seen, k + 1)
    BY <1>1, <1>5, ShowsOneMore
  <2>5. Held(table.held, table.seen, table.total) => Held(held, seen, more)
    BY <1>1, <1>5, HeldOneMore
  <2>6. Len(seen) \in Nat /\ Len(seen) # 0 /\ seen[Len(seen)] = f
    <3>1. SeenMax # 0
      BY PageLimits
    <3> QED
      BY <1>1, <1>5, <2>2, <3>1, KeepingLast
  <2> HIDE DEF seen, held, more, f
  <2>7. t \in TableShape /\ t.seen = seen /\ t.rows = table.rows /\ t.held = table.held /\ t.paused = table.paused
    BY <1>1, <2>2 DEF TableShape
  <2>8. CASE table.paused
    <3>1. table' = [t EXCEPT !.total = more, !.held = held] /\ grading' = grading
      BY <1>2, <1>7, <2>8
    <3> HIDE DEF t
    <3>2. /\ table' \in TableShape /\ table'.seen = seen /\ table'.rows = table.rows /\ table'.held = held
          /\ table'.total = more /\ table'.paused = table.paused
      BY <2>2, <2>3, <2>7, <3>1 DEF TableShape
    <3>3. table'.filter = table.filter
      <4>1. t.filter = table.filter
        BY <1>1 DEF t, TableShape
      <4> QED
        BY <2>7, <3>1, <4>1 DEF TableShape
    <3>4. TableOK(table')
      <4>1. Held(table.held, table.seen, table.total) /\ Shows(table.rows, table.seen, table.total)
        BY <1>1, <2>8 DEF RowsOK, TableOK
      <4>2. Shows(table.rows, seen, more)
        BY <1>1, <2>4, <4>1 DEF more
      <4> QED
        BY <2>5, <2>8, <3>2, <4>1, <4>2 DEF TableOK
    <3>5. Filtered(table')
      BY <1>1, <3>2, <3>3 DEF RowsOK, Filtered
    <3>6. RowsOK(table', feed.made, grading')
      BY <1>1, <3>1, <3>2, <3>4, <3>5 DEF RowsOK
    <3> QED
      BY <1>2, <2>1, <3>2, <3>6 DEF PageInv
  <2>9. CASE ~table.paused
    <3> DEFINE page == [t |-> t, g |-> grading]
               fs == <<f>>
               after == S!AddRows(page, fs)
    <3>1. S!Painted(after)
      BY <1>2, <1>7, <2>9
    <3>2. page.t = t /\ page.g = grading
      OBVIOUS
    <3>3. fs \in Seq(Nat) /\ Len(fs) = 1 /\ fs[1] = f
      BY <1>5
    <3>4. PageKept(page, t, seen, 1)
      <4>1. Shows(t.rows, seen, 1)
        <5>1. Shows(table.rows, table.seen, 0)
          BY <1>1, <2>9 DEF RowsOK, TableOK
        <5>2. 0 \in Nat /\ 0 + 1 = 1
          OBVIOUS
        <5>3. Shows(table.rows, seen, 0 + 1)
          BY <2>4, <5>1, <5>2
        <5> QED
          BY <2>7, <5>2, <5>3
      <4>2. t = [t EXCEPT !.rows = t.rows]
        BY <2>7 DEF TableShape
      <4>3. RowsGraded(t.rows, feed.made, grading) /\ RequestDue(grading)
        BY <1>1, <2>7 DEF RowsOK
      <4> QED
        BY <1>1, <2>7, <3>2, <4>1, <4>2, <4>3 DEF PageKept
    <3> HIDE DEF t, page, fs, after
    <3>5. \A j \in 0 .. Len(fs) - 1 : fs[Len(fs) - j] = seen[Len(seen) - j]
      <4> SUFFICES ASSUME NEW j \in 0 .. Len(fs) - 1 PROVE fs[Len(fs) - j] = seen[Len(seen) - j]
        OBVIOUS
      <4>1. j = 0 /\ Len(fs) - j = 1 /\ Len(seen) - j = Len(seen)
        BY <2>6, <3>3
      <4> QED
        BY <2>6, <3>3, <4>1
    <3>6. Len(fs) <= Len(seen)
      BY <2>6, <3>3
    <3>7. PageKept(after, t, seen, 0)
      BY <1>1, <2>1, <2>2, <2>7, <3>3, <3>4, <3>5, <3>6, AddsAll DEF Whole, after
    <3>8. t.held = <<>> /\ ~t.paused
      BY <1>1, <2>7, <2>9 DEF RowsOK, TableOK
    <3>9. TableOK(after.t) /\ after.t.seen = seen
      BY <2>7, <3>7, <3>8, KeptIsOK
    <3>10. RowsOK(table', feed'.made, grading') /\ table'.seen = seen
      BY <1>2, <3>1, <3>7, <3>9, PaintedOK DEF PageKept
    <3> QED
      BY <1>2, <2>1, <3>10 DEF PageInv
  <2> QED
    BY <2>8, <2>9
<1> QED
  BY <1>6, <1>7

LEMMA PageResume ==
  ASSUME FeedInv, PageInv, S!Resume
  PROVE  PageInv'
<1> DEFINE none == <<>>
           t == [table EXCEPT !.paused = FALSE, !.total = 0, !.held = none]
           page == [t |-> t, g |-> grading]
           fs == table.held
           seen == table.seen
           after == S!AddRows(page, fs)
<1>1. /\ ServerOK(feed) /\ feed \in ServerShape /\ Whole(feed, line, seen)
      /\ RowsOK(table, feed.made, grading) /\ table \in TableShape /\ grading \in GradingShape
      /\ seen \in Seq(Nat) /\ fs \in Seq(Nat)
      /\ table.rows \in Seq(RowShape) /\ Len(table.rows) \in Nat /\ table.total \in Nat
  BY PageTypes DEF TableShape
<1>2. table.paused /\ S!Painted(after) /\ feed' = feed /\ line' = line
  BY DEF S!Resume
<1>3. none \in Seq(Nat)
  OBVIOUS
<1> HIDE DEF none
<1>4. /\ t \in TableShape /\ t.rows = table.rows /\ t.seen = seen /\ ~t.paused /\ t.held = none
  BY <1>1, <1>3 DEF TableShape
<1>5. Held(fs, seen, table.total) /\ Shows(table.rows, seen, table.total)
  BY <1>1, <1>2 DEF RowsOK, TableOK
<1>6. Len(fs) \in Nat /\ Len(fs) <= Len(seen) /\ \A j \in 0 .. Len(fs) - 1 : fs[Len(fs) - j] = seen[Len(seen) - j]
  BY <1>1, <1>5 DEF Held
<1>7. Shows(table.rows, seen, Len(fs))
  <2>1. CASE table.total <= MaxRows
    BY <1>5, <2>1 DEF Held
  <2>2. CASE ~(table.total <= MaxRows)
    <3>1. Len(fs) = MaxRows
      BY <1>5, <2>2 DEF Held
    <3>2. \A i \in 1 .. MaxRows : ~(i + Len(fs) <= MaxRows)
      BY <3>1, PageLimits
    <3> QED
      BY <1>5, <3>2 DEF Shows
  <2> QED
    BY <2>1, <2>2
<1>8. page.t = t /\ page.g = grading
  OBVIOUS
<1>9. PageKept(page, t, seen, Len(fs))
  <2>1. t = [t EXCEPT !.rows = t.rows]
    BY <1>4 DEF TableShape
  <2>2. RowsGraded(t.rows, feed.made, grading) /\ RequestDue(grading)
    BY <1>1, <1>4 DEF RowsOK
  <2> HIDE DEF t, page
  <2> QED
    BY <1>1, <1>4, <1>7, <1>8, <2>1, <2>2 DEF PageKept
<1> HIDE DEF t, page, seen, fs, after
<1>10. PageKept(after, t, seen, 0)
  BY <1>1, <1>4, <1>6, <1>9, AddsAll DEF Whole, after
<1>11. TableOK(after.t) /\ after.t.seen = seen
  BY <1>4, <1>10, KeptIsOK DEF none
<1>12. RowsOK(table', feed'.made, grading') /\ table'.seen = seen
  BY <1>2, <1>10, <1>11, PaintedOK DEF PageKept
<1> QED
  BY <1>1, <1>2, <1>12 DEF PageInv

LEMMA PageFilter ==
  ASSUME FeedInv, PageInv, NEW name \in {"all", "findings"}, S!Filter(name)
  PROVE  PageInv'
<1> DEFINE t == [table EXCEPT !.filter = name]
           page == [t |-> t, g |-> grading]
<1>1. /\ Whole(feed, line, table.seen) /\ RowsOK(table, feed.made, grading)
      /\ table \in TableShape /\ grading \in GradingShape
  BY PageTypes
<1>2. S!Painted(page) /\ feed' = feed /\ line' = line
  BY DEF S!Filter, S!Painted
<1>3. /\ t \in TableShape /\ t.rows = table.rows /\ t.seen = table.seen /\ t.paused = table.paused
      /\ t.held = table.held /\ t.total = table.total
  BY <1>1 DEF TableShape
<1>4. page.t = t /\ page.g = grading
  OBVIOUS
<1> HIDE DEF t, page
<1>5. TableOK(page.t) /\ RowsGraded(page.t.rows, feed.made, page.g) /\ RequestDue(page.g)
  BY <1>1, <1>3, <1>4 DEF RowsOK, TableOK
<1>6. RowsOK(table', feed'.made, grading') /\ table'.seen = page.t.seen
  BY <1>1, <1>2, <1>3, <1>4, <1>5, PaintedOK
<1> QED
  BY <1>1, <1>2, <1>3, <1>4, <1>6 DEF PageInv

LEMMA PagePause ==
  ASSUME FeedInv, PageInv, S!Pause
  PROVE  PageInv'
<1>1. /\ Whole(feed, line, table.seen) /\ RowsOK(table, feed.made, grading)
      /\ table \in TableShape /\ grading \in GradingShape
  BY PageTypes
<1>2. /\ ~table.paused /\ table' = [table EXCEPT !.paused = TRUE, !.total = 0]
      /\ feed' = feed /\ line' = line /\ grading' = grading
  BY DEF S!Pause
<1>3. /\ table' \in TableShape /\ table'.rows = table.rows /\ table'.seen = table.seen /\ table'.paused
      /\ table'.held = table.held /\ table'.total = 0 /\ table'.filter = table.filter
  BY <1>1, <1>2 DEF TableShape
<1>4. table.held = <<>> /\ Shows(table.rows, table.seen, 0)
  BY <1>1, <1>2 DEF RowsOK, TableOK
<1>5. Held(table.held, table.seen, 0)
  <2>1. Len(table.held) = 0 /\ 0 <= MaxRows /\ 0 <= Len(table.seen)
    BY <1>1, <1>4, PageLimits DEF TableShape
  <2> QED
    BY <2>1 DEF Held
<1>6. TableOK(table')
  BY <1>3, <1>4, <1>5 DEF TableOK
<1> QED
  BY <1>1, <1>2, <1>3, <1>6 DEF PageInv, RowsOK, Filtered

\* Nothing but the requests for grades changes: no grade is lost, and none is given up.
LEMMA PageAsking ==
  ASSUME PageInv, feed' = feed, line' = line, table' = table,
         grading' \in GradingShape, RequestDue(grading'),
         grading'.cache = grading.cache, grading'.queue = grading.queue, grading.gaveUp => grading'.gaveUp
  PROVE  PageInv'
<1>1. RowsGraded(table.rows, feed.made, grading')
  <2> SUFFICES ASSUME NEW i \in 1 .. Len(table.rows) PROVE RowGraded(table.rows[i], feed.made, grading')
    BY DEF RowsGraded
  <2>1. RowGraded(table.rows[i], feed.made, grading)
    BY DEF PageInv, RowsOK, RowsGraded
  <2> QED
    BY <2>1 DEF RowGraded
<1> QED
  BY <1>1 DEF PageInv, RowsOK

LEMMA PageFlush ==
  ASSUME FeedInv, PageInv, S!FlushGrades
  PROVE  PageInv'
<1> DEFINE g == [grading EXCEPT !.timer = FALSE]
           first == S!FirstN(BatchMax, g.queue)
           batch == S!ToSet(first)
           calls == g.calls + 1
<1>1. grading \in GradingShape /\ grading.queue \in Seq(Nat)
  BY PageTypes
<1>2. /\ feed' = feed /\ line' = line /\ table' = table
      /\ grading' = IF g.batch # {} \/ g.gaveUp \/ batch = {} THEN g
                    ELSE IF g.calls >= CallBudget THEN [g EXCEPT !.gaveUp = TRUE]
                    ELSE [g EXCEPT !.calls = calls, !.batch = batch]
  BY <1>1 DEF S!FlushGrades, GradingShape
<1>3. /\ g \in GradingShape /\ g.cache = grading.cache /\ g.queue = grading.queue
      /\ g.gaveUp = grading.gaveUp /\ g.calls \in Nat
  BY <1>1 DEF GradingShape
<1>4. calls \in Nat
  BY <1>3
<1>5. first \in Seq(Nat) /\ (first = <<>> => g.queue = <<>>)
  <2>1. g.queue \in Seq(Nat) /\ BatchMax \in Nat /\ BatchMax # 0 /\ Len(g.queue) \in Nat
    BY <1>1, <1>3, PageLimits
  <2> HIDE DEF g
  <2>2. CASE Len(g.queue) <= BatchMax
    BY <2>1, <2>2 DEF S!FirstN
  <2>3. CASE ~(Len(g.queue) <= BatchMax)
    <3> DEFINE q == g.queue
               r == SubSeq(q, 1, BatchMax)
    <3>1. first = r
      BY <2>1, <2>3 DEF S!FirstN
    <3>2. \A i \in 1 .. BatchMax : i \in 1 .. Len(q)
      BY <2>1, <2>3
    <3> HIDE DEF q
    <3>3. r \in Seq(Nat) /\ Len(r) = BatchMax
      BY <2>1, <3>2 DEF q
    <3> HIDE DEF r
    <3> QED
      BY <2>1, <3>1, <3>3
  <2> QED
    BY <2>2, <2>3
<1>6. batch \in SUBSET Nat /\ (batch = {} => g.queue = <<>>)
  <2>1. \A x : x \in batch <=> In(x, first)
    BY <1>5, ToSetIs
  <2> HIDE DEF batch, first
  <2>2. \A x : In(x, first) => x \in Nat
    BY <1>5 DEF In
  <2>3. first # <<>> => In(first[1], first)
    <3>1. ASSUME first # <<>> PROVE 1 \in 1 .. Len(first)
      BY <1>5, <3>1
    <3> QED
      BY <3>1 DEF In
  <2> QED
    BY <1>5, <2>1, <2>2, <2>3
<1> HIDE DEF g, batch, calls
<1>7. CASE g.batch # {} \/ g.gaveUp \/ batch = {}
  <2>1. grading' = g
    BY <1>2, <1>7
  <2>2. RequestDue(g)
    BY <1>6, <1>7 DEF RequestDue
  <2> QED
    BY <1>2, <1>3, <2>1, <2>2, PageAsking
<1>8. CASE ~(g.batch # {} \/ g.gaveUp \/ batch = {}) /\ g.calls >= CallBudget
  <2>1. grading' = [g EXCEPT !.gaveUp = TRUE]
    BY <1>2, <1>8
  <2>2. /\ grading' \in GradingShape /\ grading'.gaveUp /\ grading'.cache = g.cache /\ grading'.queue = g.queue
    BY <1>3, <2>1 DEF GradingShape
  <2>3. RequestDue(grading')
    BY <2>2 DEF RequestDue
  <2> QED
    BY <1>2, <1>3, <2>2, <2>3, PageAsking
<1>9. CASE ~(g.batch # {} \/ g.gaveUp \/ batch = {}) /\ ~(g.calls >= CallBudget)
  <2>1. grading' = [g EXCEPT !.calls = calls, !.batch = batch]
    BY <1>2, <1>9
  <2>2. /\ grading' \in GradingShape /\ grading'.cache = g.cache /\ grading'.queue = g.queue
        /\ grading'.batch = batch /\ grading'.gaveUp = g.gaveUp
    BY <1>3, <1>4, <1>6, <2>1 DEF GradingShape
  <2>3. RequestDue(grading')
    BY <1>9, <2>2 DEF RequestDue
  <2> QED
    BY <1>2, <1>3, <2>2, <2>3, PageAsking
<1> QED
  BY <1>7, <1>8, <1>9

LEMMA PageFails ==
  ASSUME FeedInv, PageInv, S!GradesFail
  PROVE  PageInv'
<1> DEFINE none == {}
<1>1. grading \in GradingShape
  BY PageTypes
<1>2. /\ feed' = feed /\ line' = line /\ table' = table
      /\ grading' = [grading EXCEPT !.batch = none, !.gaveUp = TRUE]
  BY DEF S!GradesFail
<1>3. none \in SUBSET Nat
  OBVIOUS
<1> HIDE DEF none
<1>4. grading' \in GradingShape /\ grading'.gaveUp /\ grading'.cache = grading.cache /\ grading'.queue = grading.queue
  BY <1>1, <1>2, <1>3 DEF GradingShape
<1>5. RequestDue(grading')
  BY <1>4 DEF RequestDue
<1> QED
  BY <1>2, <1>4, <1>5, PageAsking

LEMMA Regraded ==
  ASSUME NEW r \in RowShape, NEW x \in {"danger", "ok"}
  PROVE  LET to == [r EXCEPT !.grade = x] IN to \in RowShape /\ to.frame = r.frame /\ to.grade = x
BY DEF RowShape

LEMMA PageGrades ==
  ASSUME FeedInv, PageInv, S!GradesArrive
  PROVE  PageInv'
<1> DEFINE rows == table.rows
           source(i) == feed.made[rows[i].frame]
           graded == S!Answered(grading)
           to == S!AfterGrades(graded)
           new == [i \in DOMAIN rows |->
                     IF source(i) \in graded.cache THEN [rows[i] EXCEPT !.grade = S!Grade(source(i))] ELSE rows[i]]
           t == [table EXCEPT !.rows = new]
           page == [t |-> t, g |-> to]
<1>1. /\ feed \in ServerShape /\ Whole(feed, line, table.seen) /\ RowsOK(table, feed.made, grading)
      /\ table \in TableShape /\ grading \in GradingShape /\ grading.queue \in Seq(Nat)
      /\ rows \in Seq(RowShape) /\ Len(rows) \in Nat /\ DOMAIN rows = 1 .. Len(rows)
  BY PageTypes
<1>2. S!Painted(page) /\ feed' = feed /\ line' = line
  BY DEF S!GradesArrive
<1>3. /\ graded \in GradingShape /\ graded.cache = grading.cache \cup grading.batch
      /\ graded.gaveUp = grading.gaveUp
      /\ \A x : In(x, graded.queue) <=> x \notin grading.batch /\ In(x, grading.queue)
  <2> DEFINE none == {}
             cache == grading.cache \cup grading.batch
             queue == S!Leaving(grading.queue, grading.batch)[Len(grading.queue)]
  <2>1. graded = [grading EXCEPT !.batch = none, !.cache = cache, !.queue = queue]
    BY <1>1 DEF S!Answered, GradingShape
  <2>2. queue \in Seq(Nat) /\ \A x : In(x, queue) <=> x \notin grading.batch /\ In(x, grading.queue)
    BY <1>1, LeavingIs
  <2>3. none \in SUBSET Nat /\ cache \in SUBSET Nat
    BY <1>1 DEF GradingShape
  <2> HIDE DEF graded, none, cache, queue
  <2>4. graded \in GradingShape /\ graded.cache = cache /\ graded.gaveUp = grading.gaveUp /\ graded.queue = queue
    BY <1>1, <2>1, <2>2, <2>3 DEF GradingShape
  <2> QED
    BY <2>2, <2>4 DEF cache
<1> HIDE DEF graded
<1>4. /\ to \in GradingShape /\ RequestDue(to) /\ to.cache = graded.cache /\ to.gaveUp = graded.gaveUp
      /\ to.queue = graded.queue
  <2>1. CASE graded.queue = <<>>
    BY <1>3, <2>1 DEF S!AfterGrades, RequestDue
  <2>2. CASE graded.queue # <<>>
    <3>1. to = S!ScheduleGrade(graded)
      BY <2>2 DEF S!AfterGrades
    <3> HIDE DEF to
    <3> QED
      BY <1>3, <3>1, Scheduling
  <2> QED
    BY <2>1, <2>2
<1> HIDE DEF to
<1>5. ASSUME NEW i \in 1 .. Len(rows)
      PROVE  /\ new[i] \in RowShape /\ new[i].frame = rows[i].frame
             /\ new[i].grade = IF source(i) \in graded.cache THEN S!Grade(source(i)) ELSE rows[i].grade
  <2> DEFINE s == source(i)
             grade == S!Grade(s)
  <2>1. rows[i] \in RowShape /\ grade \in {"danger", "ok"}
    BY <1>1 DEF S!Grade
  <2>2. new[i] = IF s \in graded.cache THEN [rows[i] EXCEPT !.grade = grade] ELSE rows[i]
    BY <1>1
  <2> HIDE DEF s, grade, new, rows
  <2>3. CASE s \in graded.cache
    <3> DEFINE r == rows[i]
               again == [r EXCEPT !.grade = grade]
    <3>0. new[i] = again
      BY <2>2, <2>3
    <3>1. new[i] \in RowShape /\ new[i].frame = r.frame /\ new[i].grade = grade
      <4> HIDE DEF r
      <4>1. r \in RowShape
        BY <2>1 DEF r
      <4> QED
        BY <2>1, <3>0, <4>1, Regraded
    <3> QED
      BY <2>3, <3>1 DEF s, grade
  <2>4. CASE s \notin graded.cache
    <3>1. new[i] = rows[i]
      BY <2>2, <2>4
    <3> QED
      BY <2>1, <2>4, <3>1 DEF s
  <2> QED
    BY <2>3, <2>4
<1>6. new \in Seq(RowShape) /\ Len(new) = Len(rows)
  <2>1. DOMAIN new = 1 .. Len(rows) /\ new = [i \in 1 .. Len(rows) |-> new[i]]
    BY <1>1
  <2> HIDE DEF new
  <2>2. new \in [1 .. Len(rows) -> RowShape]
    BY <1>5, <2>1
  <2>3. Len(rows) \in Nat
    BY <1>1
  <2> QED
    BY <2>2, <2>3, FunctionIsSeq
<1>7. ASSUME NEW i \in 1 .. Len(rows) PROVE RowGraded(new[i], feed.made, to)
  <2> DEFINE s == source(i)
  <2>1. RowGraded(rows[i], feed.made, grading)
    BY <1>1 DEF RowsOK, RowsGraded
  <2>2. feed.made[new[i].frame] = s /\ feed.made[rows[i].frame] = s /\ S!Grade(s) # "none"
    BY <1>5 DEF S!Grade
  <2>3. /\ new[i].frame = rows[i].frame
        /\ new[i].grade = IF s \in graded.cache THEN S!Grade(s) ELSE rows[i].grade
    BY <1>5
  <2> HIDE DEF s, new
  <2>4. CASE s \in graded.cache
    BY <1>4, <2>1, <2>2, <2>3, <2>4 DEF RowGraded
  <2>5. CASE s \notin graded.cache
    <3>1. s \notin grading.cache /\ s \notin grading.batch
      BY <1>3, <2>5
    <3>2. rows[i].grade = "none" /\ (grading.gaveUp \/ In(s, grading.queue))
      BY <2>1, <2>2, <3>1 DEF RowGraded
    <3> QED
      BY <1>3, <1>4, <2>1, <2>2, <2>3, <2>5, <3>1, <3>2 DEF RowGraded
  <2> QED
    BY <2>4, <2>5
<1>8. SameFrames(new, rows)
  BY <1>5, <1>6 DEF SameFrames
<1> HIDE DEF new
<1>9. /\ t \in TableShape /\ t.rows = new /\ t.seen = table.seen /\ t.paused = table.paused
      /\ t.held = table.held /\ t.total = table.total
  BY <1>1, <1>6 DEF TableShape
<1>10. page.t = t /\ page.g = to
  OBVIOUS
<1> HIDE DEF t, page
<1>11. RowsGraded(new, feed.made, to)
  BY <1>6, <1>7 DEF RowsGraded
<1>12. TableOK(t)
  <2>1. \A k : Shows(rows, table.seen, k) => Shows(new, table.seen, k)
    BY <1>1, <1>6, <1>8, SameShows
  <2> QED
    BY <1>1, <1>9, <2>1 DEF RowsOK, TableOK
<1>13. RowsOK(table', feed'.made, grading') /\ table'.seen = page.t.seen
  BY <1>2, <1>4, <1>9, <1>10, <1>11, <1>12, PaintedOK
<1> QED
  BY <1>1, <1>2, <1>9, <1>10, <1>13 DEF PageInv

\* Rows are as good as their frames, which stay what they were.
LEMMA RowsStand ==
  ASSUME FeedInv, PageInv, table' = table, grading' = grading,
         feed'.made = feed.made \/ \E x \in Nat : feed'.made = Append(feed.made, x)
  PROVE  RowsOK(table', feed'.made, grading')
<1> DEFINE rows == table.rows
           sent == feed.made
<1>1. RowsOK(table, sent, grading) /\ sent \in Seq(Nat) /\ Len(sent) \in Nat
  BY PageTypes
<1>2. ASSUME NEW x \in Nat
      PROVE  RowsGraded(rows, Append(sent, x), grading)
  <2> SUFFICES ASSUME NEW i \in 1 .. Len(rows) PROVE RowGraded(rows[i], Append(sent, x), grading)
    BY DEF RowsGraded
  <2> DEFINE f == rows[i].frame
             longer == Append(sent, x)
  <2>1. RowGraded(rows[i], sent, grading)
    BY <1>1 DEF RowsOK, RowsGraded
  <2>2. f \in 1 .. Len(sent)
    BY <2>1 DEF RowGraded
  <2> HIDE DEF rows, sent
  <2>3. f \in 1 .. Len(longer) /\ longer[f] = sent[f]
    BY <1>1, <1>2, <2>2
  <2> HIDE DEF longer
  <2> QED
    BY <2>1, <2>3 DEF RowGraded, longer
<1> QED
  BY <1>1, <1>2 DEF RowsOK

LEMMA PageOpens ==
  ASSUME FeedInv, PageInv, S!OnOpen
  PROVE  PageInv'
<1> DEFINE rest == Tail(line.wire)
<1>1. ServerOK(feed) /\ line \in LineShape /\ Whole(feed, line, table.seen) /\ line.wire \in Seq(Nat)
  BY PageTypes
<1>2. /\ line.wire # <<>> /\ Head(line.wire) = 0 /\ feed' = feed /\ table' = table /\ grading' = grading
      /\ line' = [line EXCEPT !.wire = rest, !.sock = "open", !.state = "streaming",
                              !.capped = FALSE, !.ownsRetry = FALSE]
  BY DEF S!OnOpen, S!Open
<1> HIDE DEF rest
<1>3. line'.wire = rest /\ line'.conn = line.conn
  BY <1>1, <1>2 DEF LineShape
<1>4. Whole(feed, line', table.seen)
  BY <1>1, <1>2, <1>3, WholePasses DEF rest
<1> QED
  BY <1>2, <1>4 DEF PageInv

LEMMA PageEmits ==
  ASSUME FeedInv, FeedInv', PageInv, S!Emit
  PROVE  PageInv'
<1>1. feed \in ServerShape
  BY PageTypes
<1>2. table' = table /\ grading' = grading /\ feed'.made = Append(feed.made, feed.cursor) /\ feed.cursor \in Nat
  BY <1>1 DEF S!Emit, ServerShape
<1> QED
  BY <1>2, WholeEmitting, RowsStand DEF PageInv

LEMMA PageRestarts ==
  ASSUME FeedInv, FeedInv', PageInv, S!Restart
  PROVE  PageInv'
<1>1. table' = table /\ grading' = grading /\ feed'.made = feed.made
  BY DEF S!Restart, S!Boot
<1> QED
  BY <1>1, WholeRestarting, RowsStand DEF PageInv

LEMMA PageAccepted ==
  ASSUME FeedInv, FeedInv', PageInv, S!Accept
  PROVE  PageInv'
<1>1. table' = table /\ grading' = grading /\ feed'.made = feed.made
  <2>1. feed \in ServerShape /\ feed' = S!Admit(feed, S!NextId, "page")
    BY PageTypes DEF S!Accept
  <2>2. feed'.made = feed.made
    BY <2>1, FramesStand
  <2> QED
    BY <2>2 DEF S!Accept
<1> QED
  BY <1>1, WholeConnecting, RowsStand DEF PageInv

LEMMA FreshPage ==
  ASSUME NEW emitted
  PROVE  RowsOK(S!EmptyTable, emitted, S!Ungraded)
<1> DEFINE e == <<>>
           z == {}
<1>1. /\ e \in Seq(Nat) /\ e \in Seq(RowShape) /\ Len(e) = 0 /\ z \in SUBSET Nat
  OBVIOUS
<1>2. /\ S!EmptyTable \in TableShape /\ S!Ungraded \in GradingShape
      /\ S!EmptyTable.rows = e /\ S!EmptyTable.seen = e /\ S!EmptyTable.held = e
      /\ ~S!EmptyTable.paused /\ S!Ungraded.queue = e
  <2> HIDE DEF e, z
  <2>1. /\ S!EmptyTable = [paused |-> FALSE, held |-> e, total |-> 0, seen |-> e, rows |-> e, filter |-> "all"]
        /\ S!Ungraded = [cache |-> z, queue |-> e, timer |-> FALSE, batch |-> z, calls |-> 0, gaveUp |-> FALSE]
    BY DEF S!EmptyTable, S!Ungraded, e, z
  <2> QED
    BY <1>1, <2>1 DEF TableShape, GradingShape
<1>3. Shows(e, e, 0)
  BY <1>1, PageLimits DEF Shows
<1>4. RowsGraded(e, emitted, S!Ungraded)
  BY <1>1 DEF RowsGraded
<1> HIDE DEF e
<1>5. Filtered(S!EmptyTable)
  BY <1>1, <1>2 DEF Filtered
<1>6. TableOK(S!EmptyTable) /\ RequestDue(S!Ungraded)
  BY <1>2, <1>3 DEF TableOK, RequestDue, e
<1> QED
  BY <1>2, <1>4, <1>5, <1>6 DEF RowsOK

LEMMA FreshFeed ==
  /\ \A sv, emitted : Whole(sv, S!Fresh, <<>>) /\ RowsOK(S!EmptyTable, emitted, S!Ungraded)
  /\ S!EmptyTable.seen = <<>>
<1>1. S!Fresh.wire = <<>> /\ S!Fresh.conn = 0 /\ S!EmptyTable.seen = <<>>
  BY DEF S!Fresh, S!NoConn, S!EmptyTable
<1> QED
  BY <1>1, WholeAfresh, FreshPage

LEMMA PageBegins == S!Init => PageInv
<1> SUFFICES ASSUME S!Init PROVE PageInv
  OBVIOUS
<1>1. line = S!Fresh /\ table = S!EmptyTable /\ grading = S!Ungraded
  BY DEF S!Init
<1> QED
  BY <1>1, FreshFeed DEF PageInv

LEMMA PageRemounts == S!Remount => PageInv'
<1> SUFFICES ASSUME S!Remount PROVE PageInv'
  OBVIOUS
<1>1. line' = S!Fresh /\ table' = S!EmptyTable /\ grading' = S!Ungraded
  BY DEF S!Remount
<1> QED
  BY <1>1, FreshFeed DEF PageInv

\* Connections come and go without the page's rows.
LEMMA PageConnections ==
  ASSUME FeedInv, FeedInv', PageInv,
         \/ S!EmitFails \/ S!OtherOpens \/ S!ProbeAdmitted \/ S!ProbeRefused \/ S!HearRefused
         \/ \E c \in Ids : S!OtherCloses(c) \/ S!NoticeError(c) \/ S!NoticeClose(c) \/ S!HearAdmitted(c)
         \/ \E status \in {429, 502} : S!Refuse(status)
         \/ \E answered \in BOOLEAN : S!ProbeFails(answered)
         \/ S!Drop \/ S!TimerFires \/ S!ClickReconnect
  PROVE  PageInv'
<1>1. Whole(feed', line', table'.seen) /\ feed'.made = feed.made /\ table' = table
  BY WholeConnections
<1>2. grading' = grading
  BY DEF S!EmitFails, S!OtherOpens, S!ProbeAdmitted, S!ProbeRefused, S!HearRefused, S!OtherCloses,
         S!NoticeError, S!NoticeClose, S!HearAdmitted, S!Refuse, S!ProbeFails, S!Drop, S!TimerFires,
         S!ClickReconnect
<1> QED
  BY <1>1, <1>2, RowsStand DEF PageInv

LEMMA PageStep == FeedInv /\ FeedInv' /\ PageInv /\ S!Next => PageInv'
<1> SUFFICES ASSUME FeedInv, FeedInv', PageInv, S!Next PROVE PageInv'
  OBVIOUS
<1>1. CASE S!Emit
  BY <1>1, PageEmits
<1>2. CASE S!Restart
  BY <1>2, PageRestarts
<1>3. CASE S!Accept
  BY <1>3, PageAccepted
<1>4. CASE \/ S!EmitFails \/ S!OtherOpens \/ S!ProbeAdmitted \/ S!ProbeRefused \/ S!HearRefused
           \/ \E c \in Ids : S!OtherCloses(c) \/ S!NoticeError(c) \/ S!NoticeClose(c) \/ S!HearAdmitted(c)
           \/ \E status \in {429, 502} : S!Refuse(status)
           \/ \E answered \in BOOLEAN : S!ProbeFails(answered)
           \/ S!Drop \/ S!TimerFires \/ S!ClickReconnect
  BY <1>4, PageConnections
<1>5. CASE S!OnOpen
  BY <1>5, PageOpens
<1>6. CASE S!OnMessage
  BY <1>6, PageMessage
<1>7. CASE S!Pause
  BY <1>7, PagePause
<1>8. CASE S!Resume
  BY <1>8, PageResume
<1>9. CASE \E name \in {"all", "findings"} : S!Filter(name)
  BY <1>9, PageFilter
<1>10. CASE S!FlushGrades
  BY <1>10, PageFlush
<1>11. CASE S!GradesArrive
  BY <1>11, PageGrades
<1>12. CASE S!GradesFail
  BY <1>12, PageFails
<1>13. CASE S!Remount
  BY <1>13, PageRemounts
<1> QED
  BY <1>1, <1>2, <1>3, <1>4, <1>5, <1>6, <1>7, <1>8, <1>9, <1>10, <1>11, <1>12, <1>13 DEF S!Next

LEMMA PageStutters == PageInv /\ UNCHANGED stream => PageInv'
BY DEF PageInv, stream

LEMMA PageInvariance == BothSpec => []PageInv
<1>1. BothInit => PageInv
  BY PageBegins DEF BothInit
<1>2. FeedInv /\ FeedInv' /\ PageInv /\ [BothNext]_<<half, vars, stream>> => PageInv'
  <2> SUFFICES ASSUME FeedInv, FeedInv', PageInv, [BothNext]_<<half, vars, stream>> PROVE PageInv'
    OBVIOUS
  <2>1. CASE FeedMoves
    BY <2>1, PageStep DEF FeedMoves
  <2>2. CASE KeyMoves \/ UNCHANGED <<half, vars, stream>>
    BY <2>2, PageStutters DEF KeyMoves
  <2> QED
    BY <2>1, <2>2 DEF BothNext
<1> QED
  BY <1>1, <1>2, FeedInvariance, PTL DEF BothSpec

-----------------------------------------------------------------------------
(* What the invariant says of the page.                                    *)

LEMMA SameSeq ==
  ASSUME NEW s \in Seq(Nat), NEW t \in Seq(Nat), Len(s) = Len(t),
         \A j \in 0 .. Len(s) - 1 : s[Len(s) - j] = t[Len(s) - j]
  PROVE  s = t
<1>1. Len(s) \in Nat
  OBVIOUS
<1>2. ASSUME NEW i \in 1 .. Len(s) PROVE s[i] = t[i]
  <2>1. Len(s) - i \in 0 .. Len(s) - 1 /\ Len(s) - (Len(s) - i) = i
    BY <1>1
  <2> QED
    BY <2>1
<1> QED
  BY <1>2, SeqEqual

\* Not paused, the rows are what was taken, newest on top.
LEMMA RowsAreNewest ==
  ASSUME NEW rows, rows \in Seq(RowShape), NEW seen \in Seq(Nat), Shows(rows, seen, 0)
  PROVE  S!Frames(rows) = S!Reverse(S!LastN(MaxRows, seen))
<1> DEFINE t == S!LastN(MaxRows, seen)
           n == Len(t)
<1>1. MaxRows \in Nat /\ MaxRows # 0 /\ Len(rows) \in Nat /\ DOMAIN rows = 1 .. Len(rows)
  BY PageLimits
<1>2. /\ Len(seen) \in Nat /\ n \in Nat /\ n = (IF Len(seen) <= MaxRows THEN Len(seen) ELSE MaxRows)
      /\ \A j \in 0 .. n - 1 : t[n - j] = seen[Len(seen) - j]
  BY <1>1, SuffixIs
<1>3. /\ Len(rows) <= MaxRows
      /\ \A i \in 1 .. MaxRows : (i <= Len(rows) <=> i <= Len(seen))
      /\ \A i \in 1 .. Len(rows) : rows[i].frame = seen[Len(seen) - (i - 1)]
  <2>1. \A i \in 1 .. MaxRows : i + 0 <= MaxRows /\ i + 0 = i /\ 0 + i - 1 = i - 1
    BY <1>1
  <2>2. Len(rows) <= MaxRows
    BY DEF Shows
  <2>3. \A i \in 1 .. Len(rows) : i \in 1 .. MaxRows
    BY <1>1, <2>2
  <2> QED
    BY <2>1, <2>2, <2>3 DEF Shows
<1> HIDE DEF t, n
<1>4. Len(rows) = n
  <2> DEFINE m == Len(rows)
             k == Len(seen)
  <2>1. m \in Nat /\ k \in Nat /\ m <= MaxRows /\ n = IF k <= MaxRows THEN k ELSE MaxRows
    BY <1>1, <1>2, <1>3
  <2>2. \A i \in 1 .. MaxRows : (i <= m <=> i <= k)
    BY <1>3
  <2> HIDE DEF m, k
  <2>3. m # 0 => m <= k
    BY <1>1, <2>1, <2>2, SMTT(40)
  <2>4. k # 0 /\ k <= MaxRows => k <= m
    <3> SUFFICES ASSUME k # 0, k <= MaxRows PROVE k <= m
      OBVIOUS
    <3>1. k \in 1 .. MaxRows /\ k <= k
      BY <1>1, <2>1
    <3>2. k <= m <=> k <= k
      BY <2>2, <3>1
    <3> QED
      BY <3>1, <3>2
  <2>5. k > MaxRows => MaxRows <= m
    BY <1>1, <2>1, <2>2
  <2>6. m = n
    BY <1>1, <2>1, <2>3, <2>4, <2>5
  <2> QED
    BY <2>6 DEF m
<1>5. \A i \in 1 .. n : rows[i].frame = t[(n - i) + 1]
  <2> TAKE i \in 1 .. n
  <2>1. i - 1 \in 0 .. n - 1 /\ n - (i - 1) = (n - i) + 1
    BY <1>2
  <2>2. t[n - (i - 1)] = seen[Len(seen) - (i - 1)]
    BY <1>2, <2>1
  <2> QED
    BY <1>3, <1>4, <2>1, <2>2
<1>6. S!Frames(rows) = [i \in 1 .. n |-> rows[i].frame]
  BY <1>1, <1>4 DEF S!Frames
<1>7. S!Reverse(t) = [i \in 1 .. n |-> t[(n - i) + 1]]
  BY DEF S!Reverse, n
<1> QED
  BY <1>5, <1>6, <1>7 DEF t

\* Paused, what is held is the newest of what came since.
LEMMA HeldIsNewest ==
  ASSUME NEW held \in Seq(Nat), NEW seen \in Seq(Nat), NEW total \in Nat, Held(held, seen, total)
  PROVE  held = S!LastN(MaxRows, S!LastN(total, seen))
<1> DEFINE since == S!LastN(total, seen)
           t == S!LastN(MaxRows, since)
<1>1. MaxRows \in Nat
  BY PageLimits
<1>2. /\ Len(seen) \in Nat /\ Len(since) \in Nat /\ since \in Seq(Nat)
      /\ Len(since) = (IF Len(seen) <= total THEN Len(seen) ELSE total)
      /\ \A j \in 0 .. Len(since) - 1 : since[Len(since) - j] = seen[Len(seen) - j]
  BY SuffixIs
<1> HIDE DEF since
<1>3. /\ Len(t) \in Nat /\ t \in Seq(Nat)
      /\ Len(t) = (IF Len(since) <= MaxRows THEN Len(since) ELSE MaxRows)
      /\ \A j \in 0 .. Len(t) - 1 : t[Len(t) - j] = since[Len(since) - j]
  BY <1>1, <1>2, SuffixIs
<1> HIDE DEF t
<1>4. /\ Len(held) \in Nat /\ Len(held) = (IF total <= MaxRows THEN total ELSE MaxRows)
      /\ Len(held) <= Len(seen)
      /\ \A j \in 0 .. Len(held) - 1 : held[Len(held) - j] = seen[Len(seen) - j]
  BY DEF Held
<1>5. Len(held) = Len(t) /\ Len(t) <= Len(since)
  BY <1>1, <1>2, <1>3, <1>4, SMTT(40)
<1>6. \A j \in 0 .. Len(held) - 1 : held[Len(held) - j] = t[Len(held) - j]
  <2> TAKE j \in 0 .. Len(held) - 1
  <2>1. j \in 0 .. Len(t) - 1 /\ j \in 0 .. Len(since) - 1
    BY <1>2, <1>3, <1>4, <1>5
  <2>2. t[Len(t) - j] = since[Len(since) - j] /\ since[Len(since) - j] = seen[Len(seen) - j]
    BY <1>2, <1>3, <2>1
  <2> QED
    BY <1>4, <1>5, <2>2
<1> QED
  BY <1>3, <1>5, <1>6, SameSeq DEF t, since

LEMMA PageIsWhole == FeedInv /\ PageInv => S!FeedIsWhole
<1> SUFFICES ASSUME FeedInv, PageInv PROVE S!FeedIsWhole
  OBVIOUS
<1> DEFINE seen == table.seen
           wire == line.wire
<1>1. /\ ServerOK(feed) /\ seen \in Seq(Nat) /\ wire \in Seq(Nat) /\ table.held \in Seq(Nat) /\ table.total \in Nat
      /\ Whole(feed, line, seen) /\ TableOK(table) /\ table.rows \in Seq(RowShape)
  BY PageTypes DEF RowsOK, TableShape
<1>2. \A i, j \in DOMAIN seen : i < j => seen[i] < seen[j]
  <2>1. Spaced(seen) /\ DOMAIN seen = 1 .. Len(seen) /\ Len(seen) \in Nat
    BY <1>1 DEF Whole, Taken
  <2> HIDE DEF seen
  <2> SUFFICES ASSUME NEW i \in 1 .. Len(seen), NEW j \in 1 .. Len(seen), i < j PROVE seen[i] < seen[j]
    BY <2>1
  <2>2. seen[i] \in Nat /\ seen[j] \in Nat
    BY <1>1, <2>1
  <2>3. seen[j] >= seen[i] + (j - i)
    BY <2>1 DEF Spaced
  <2> QED
    BY <2>1, <2>2, <2>3
<1>3. ASSUME line.conn # S!NoConn
      PROVE  S!ToSet(Rung(feed)) \subseteq S!ToSet(wire) \cup S!ToSet(seen)
  <2> SUFFICES ASSUME NEW f \in S!ToSet(Rung(feed)) PROVE f \in S!ToSet(wire) \cup S!ToSet(seen)
    OBVIOUS
  <2>1. Rung(feed) \in Seq(Nat)
    BY <1>1, ReplayIs
  <2>2. In(f, Rung(feed))
    BY <2>1, ToSetIs
  <2>3. f \in ReplayedBy(feed)
    <3> DEFINE k == Len(Rung(feed))
               m == Len(feed.made)
    <3>1. PICK i \in 1 .. k : Rung(feed)[i] = f
      BY <2>2 DEF In
    <3>2. k \in Nat /\ m \in Nat /\ k <= m /\ Rung(feed)[i] = m - k + i
      BY <1>1, ReplayIs
    <3> HIDE DEF k, m
    <3>3. f \in (m - k + 1) .. m
      BY <3>1, <3>2
    <3> QED
      BY <3>3 DEF ReplayedBy, Rung, k, m
  <2>4. In(f, wire) \/ In(f, seen)
    BY <1>1, <1>3, <2>3 DEF Whole, OwesNone, S!NoConn
  <2> QED
    BY <1>1, <2>4, ToSetIs
<1>4. ~table.paused => S!Frames(table.rows) = S!Reverse(S!LastN(MaxRows, seen))
  BY <1>1, RowsAreNewest DEF TableOK
<1>5. table.paused => table.held = S!LastN(MaxRows, S!LastN(table.total, seen))
  BY <1>1, HeldIsNewest DEF TableOK
<1> QED
  BY <1>2, <1>3, <1>4, <1>5 DEF S!FeedIsWhole, Rung

LEMMA PageIsGraded == FeedInv /\ PageInv => S!ViewIsGraded
<1> SUFFICES ASSUME FeedInv, PageInv PROVE S!ViewIsGraded
  OBVIOUS
<1> DEFINE rows == table.rows
<1>1. /\ rows \in Seq(RowShape) /\ DOMAIN rows = 1 .. Len(rows) /\ grading.queue \in Seq(Nat)
      /\ Filtered(table) /\ RowsGraded(rows, feed.made, grading) /\ RequestDue(grading)
  BY PageTypes DEF RowsOK
<1>2. ASSUME NEW i \in 1 .. Len(rows)
      PROVE  LET s == feed.made[rows[i].frame] IN
             /\ rows[i].hidden <=> ~S!MatchesFilter(table.filter, rows[i])
             /\ rows[i].grade = IF s \in grading.cache THEN S!Grade(s) ELSE "none"
             /\ \/ rows[i].grade # "none"
                \/ grading.gaveUp
                \/ s \in S!ToSet(grading.queue) /\ (grading.timer \/ grading.batch # {})
  <2> DEFINE s == feed.made[rows[i].frame]
  <2>1. RowGraded(rows[i], feed.made, grading)
    BY <1>1 DEF RowsGraded
  <2>2. rows[i].hidden <=> ~S!MatchesFilter(table.filter, rows[i])
    BY <1>1 DEF Filtered
  <2>3. s \in S!ToSet(grading.queue) <=> In(s, grading.queue)
    BY <1>1, ToSetIs
  <2>4. In(s, grading.queue) => grading.queue # <<>>
    BY DEF In
  <2> QED
    BY <1>1, <2>1, <2>2, <2>3, <2>4 DEF RowGraded, RequestDue
<1> QED
  BY <1>1, <1>2 DEF S!ViewIsGraded

\* Reconnections, replays, pauses, evictions and late grades leave the table the newest
\* frames, each once and in the order of their emission, and every row graded and
\* hidden as the page knows: none stays "being checked" without a request to come.
THEOREM TableTheorem == BothSpec => []TableIsFeed
<1>1. FeedInv /\ PageInv => TableIsFeed
  BY PageIsWhole, PageIsGraded DEF TableIsFeed
<1> QED
  BY <1>1, FeedInvariance, PageInvariance, PTL
=============================================================================
