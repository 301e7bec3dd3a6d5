---------------------------- MODULE AccountCrypto ----------------------------
(***************************************************************************)
(* The zero-knowledge key of one account: the wrapped data key (DEK) in    *)
(* the users row, the sample library encrypted under it, and the browser   *)
(* tabs that unwrap, install, re-wrap and use it (modules/auth/handler.js, *)
(* modules/samples/handler.js, db.js; public/core/session.js and the auth, *)
(* unlock, password-reset and save-sample modules of the browser).         *)
(*                                                                         *)
(* A handler reads the session, and checks what it checks, before it       *)
(* awaits the request body or bcrypt, and writes after it: a request is    *)
(* one step up to that await (Ask...) and one from it (Store...).  In the  *)
(* browser every key derivation and every response is an await, so a tab   *)
(* acts on what it fetched earlier.                                        *)
(*                                                                         *)
(* Abstractions: passwords, hashes and the keys derived from them are one  *)
(* version number; a DEK, and the recovery key made with it, is a number;  *)
(* the library is the set of keys its samples are encrypted under; a       *)
(* session is good while it was granted under the account's password, as   *)
(* AuthSessions proves of the server.  Account deletion is in AuthSessions *)
(* (the row takes keys and library with it).                               *)
(***************************************************************************)
EXTENDS Naturals

CONSTANTS
  Tabs, Browsers,  \* tabs of one browser share its cookie, not its keys
  BrowserOf,       \* the browser of a tab
  MaxHash,         \* bound: passwords the account can have had
  MaxKeys          \* bound: keys the browsers can have made

ASSUME BrowserAssumption == BrowserOf \in [Tabs -> Browsers]
ASSUME BoundAssumption == MaxHash \in Nat \ {0} /\ MaxKeys \in Nat \ {0}

VARIABLES
  \* the server
  hash,      \* the password version
  wraps,     \* the six key columns: password wrap (version, key), recovery wrap
  library,   \* the keys the stored samples are encrypted under
  \* the browsers
  jar,       \* the session cookie: the version it was granted under, 0 for none
  signedIn,  \* a tab's user is set
  dek,       \* a tab's key, in memory and in its sessionStorage, 0 for none
  doing,     \* what a tab is in the middle of, with what it fetched before
  known,     \* recovery keys shown to the user
  made,      \* keys generated so far
  \* history: a bootstrap was stored although the account had moved on since
  \* its tab began it; one was refused or lost; the account was wiped
  stale, refused, wiped

server  == <<hash, wraps, library>>
history == <<stale, refused, wiped>>
vars == <<server, jar, signedIn, dek, doing, known, made, history>>

Unset == [pw |-> 0, dek |-> 0, rec |-> 0]
Idle  == [at |-> "idle", seen |-> Unset, pw |-> 0, key |-> 0, mode |-> "none"]

Asking  == {"setup", "save", "reset"}          \* sent, not looked at yet
Reading == {"setupBody", "saveBody", "resetBcrypt"}  \* checked, suspended

\* getCurrentUser knows the cookie of t's browser.
Valid(t) == jar[BrowserOf[t]] = hash

Now(t, step) == doing' = [doing EXCEPT ![t] = step]
At(t, place) == doing' = [doing EXCEPT ![t].at = place]

\* The reset form stays open with the link and the wraps it has.
BackToForm(t) ==
  Now(t, [doing[t] EXCEPT !.at = "resetForm", !.key = 0, !.mode = "none"])

-----------------------------------------------------------------------------
\* doLogin or doRegister: the answer carries the wraps as they are now.
Login(t) ==
  /\ doing[t] = Idle
  /\ jar' = [jar EXCEPT ![BrowserOf[t]] = hash]
  /\ signedIn' = [signedIn EXCEPT ![t] = TRUE]
  /\ Now(t, [Idle EXCEPT !.at = "opening", !.seen = wraps, !.pw = hash])
  /\ UNCHANGED <<server, dek, known, made, history>>

\* doUnlock, with any password the user once had; there is nothing to open
\* when the account has no wraps.
Unlock(t, pw) ==
  /\ doing[t] = Idle /\ signedIn[t]
  /\ Valid(t) /\ wraps # Unset
  /\ Now(t, [Idle EXCEPT !.at = "opening", !.seen = wraps, !.pw = pw])
  /\ UNCHANGED <<server, jar, signedIn, dek, known, made, history>>

\* openFromPassword: the fetched wrap opens under the typed password, or throws.
Open(t) ==
  /\ doing[t].at = "opening" /\ doing[t].seen # Unset
  /\ dek' = IF doing[t].seen.pw = doing[t].pw
              THEN [dek EXCEPT ![t] = doing[t].seen.dek] ELSE dek
  /\ Now(t, Idle)
  /\ UNCHANGED <<server, jar, signedIn, known, made, history>>

\* bootstrapAndShowRecovery: the new key is installed before the server has it.
Bootstrap(t) ==
  /\ doing[t].at = "opening" /\ doing[t].seen = Unset
  /\ made < MaxKeys
  /\ made' = made + 1
  /\ dek' = [dek EXCEPT ![t] = made + 1]
  /\ Now(t, [doing[t] EXCEPT !.at = "setup", !.key = made + 1])
  /\ UNCHANGED <<server, jar, signedIn, known, history>>

\* handleSetupEncryption before readJson: 401, 409 or go on.
AskSetup(t) ==
  /\ doing[t].at = "setup"
  /\ IF Valid(t) /\ wraps = Unset
       THEN At(t, "setupBody") /\ UNCHANGED refused
       ELSE Now(t, Idle) /\ refused' = TRUE
  /\ UNCHANGED <<server, jar, signedIn, dek, known, made, stale, wiped>>

\* ... and after it: setCryptoState looks at nothing again.  A lost answer
\* leaves the recovery key unseen.
StoreSetup(t, answered) ==
  /\ doing[t].at = "setupBody"
  /\ wraps' = [pw |-> doing[t].pw, dek |-> doing[t].key, rec |-> doing[t].key]
  /\ known' = IF answered THEN known \cup {doing[t].key} ELSE known
  /\ stale' = (stale \/ wraps # Unset \/ doing[t].pw # hash)
  /\ Now(t, Idle)
  /\ UNCHANGED <<hash, library, jar, signedIn, dek, made, refused, wiped>>

\* confirmSave and hasSession: no sample leaves a tab that has no key.
Unchecked(t) == TRUE

HasSession(t) == dek[t] # 0

\* confirmSave encrypts under the key in memory, then posts the sample.
Save(t) ==
  /\ doing[t] = Idle /\ signedIn[t] /\ HasSession(t)
  /\ Now(t, [Idle EXCEPT !.at = "save", !.key = dek[t]])
  /\ UNCHANGED <<server, jar, signedIn, dek, known, made, history>>

AskSave(t) ==
  /\ doing[t].at = "save"
  /\ IF Valid(t) THEN At(t, "saveBody") ELSE Now(t, Idle)
  /\ UNCHANGED <<server, jar, signedIn, dek, known, made, history>>

\* Samples.create, or update: it may replace the last sample under some key.
StoreSave(t, replaced) ==
  /\ doing[t].at = "saveBody"
  /\ library' = (library \ replaced) \cup {doing[t].key}
  /\ Now(t, Idle)
  /\ UNCHANGED <<hash, wraps, jar, signedIn, dek, known, made, history>>

-----------------------------------------------------------------------------
\* A mailed link opened: handleResetPasswordState gives the wraps to a link
\* bound to the current password.
OpenLink(t) ==
  /\ doing[t] = Idle
  /\ Now(t, [Idle EXCEPT !.at = "resetForm", !.seen = wraps, !.pw = hash])
  /\ UNCHANGED <<server, jar, signedIn, dek, known, made, history>>

\* doResetPassword: unwrap the fetched DEK with the old password or with a
\* recovery key the user has, install it, send it re-wrapped.
Unwrapped(t, mode) ==
  CASE mode = "rotate"  -> doing[t].seen.dek
    [] mode = "recover" -> doing[t].seen.rec
    [] mode = "wipe"    -> 0

SubmitReset(t, mode) ==
  /\ doing[t].at = "resetForm"
  /\ mode # "wipe" => doing[t].seen # Unset
  /\ mode = "recover" => doing[t].seen.rec \in known
  /\ dek' = IF mode = "wipe" THEN dek ELSE [dek EXCEPT ![t] = Unwrapped(t, mode)]
  /\ Now(t, [doing[t] EXCEPT !.at = "reset", !.key = Unwrapped(t, mode), !.mode = mode])
  /\ UNCHANGED <<server, jar, signedIn, known, made, history>>

\* resetTokenCurrent, before bcrypt and again after it.
LinkCurrent(t) == doing[t].pw = hash

\* handleResetPassword up to bcrypt; rotate also proves the old password, the
\* one that opened the wrap.
AskReset(t) ==
  /\ doing[t].at = "reset"
  /\ IF LinkCurrent(t) /\ (doing[t].mode = "rotate" => doing[t].seen.pw = hash)
       THEN At(t, "resetBcrypt") ELSE BackToForm(t)
  /\ UNCHANGED <<server, jar, signedIn, dek, known, made, history>>

\* updatePasswordAndCrypto: the recovery columns stay as they are.
PasswordOnly(t) == wraps
FreshKey(t) == [wraps EXCEPT !.pw = hash + 1, !.dek = made + 1]

Rewrapped(t) == [wraps EXCEPT !.pw = hash + 1, !.dek = doing[t].key]

\* The rest of it: one transaction, a new session, and the tab signed in; the
\* answer may get lost, or the session not be minted.
StoreReset(t, answered) ==
  /\ doing[t].at = "resetBcrypt" /\ LinkCurrent(t)
  /\ hash < MaxHash
  /\ hash' = hash + 1
  /\ IF doing[t].mode = "wipe"
       THEN wraps' = Unset /\ library' = {} /\ wiped' = TRUE
       ELSE wraps' = Rewrapped(t) /\ UNCHANGED <<library, wiped>>
  /\ IF answered
       THEN /\ jar' = [jar EXCEPT ![BrowserOf[t]] = hash + 1]
            /\ signedIn' = [signedIn EXCEPT ![t] = TRUE]
            /\ dek' = IF doing[t].mode = "wipe" THEN [dek EXCEPT ![t] = 0] ELSE dek
            /\ Now(t, Idle)
       ELSE /\ BackToForm(t)
            /\ UNCHANGED <<jar, signedIn, dek>>
  /\ UNCHANGED <<known, made, stale, refused>>

\* A request fails on its way, or is refused after the await (a field is
\* missing, the link went stale, the server is closing); or the form is closed.
GiveUp(t) ==
  /\ doing[t].at \in Asking \cup Reading \cup {"resetForm"}
  /\ IF doing[t].at \in {"reset", "resetBcrypt"} THEN BackToForm(t) ELSE Now(t, Idle)
  /\ refused' = (refused \/ doing[t].at \in {"setup", "setupBody"})
  /\ UNCHANGED <<server, jar, signedIn, dek, known, made, stale, wiped>>

-----------------------------------------------------------------------------
\* signOut: the local wipe happens whether or not the server answered.
SignOut(t, reached) ==
  /\ doing[t] = Idle /\ signedIn[t]
  /\ jar' = IF reached THEN [jar EXCEPT ![BrowserOf[t]] = 0] ELSE jar
  /\ signedIn' = [signedIn EXCEPT ![t] = FALSE]
  /\ dek' = [dek EXCEPT ![t] = 0]
  /\ UNCHANGED <<server, doing, known, made, history>>

\* The cookie expires, or the server no longer knows it.
SessionLost(b) ==
  /\ jar[b] # 0
  /\ jar' = [jar EXCEPT ![b] = 0]
  /\ UNCHANGED <<server, signedIn, dek, doing, known, made, history>>

\* ensureBooted after a reload: a signed-in tab of an encrypted account takes
\* back the key of its sessionStorage, whichever key that is; a failed fetch
\* counts as signed out.
Reload(t, fetched) ==
  /\ doing[t].at \in {"idle", "opening", "resetForm"}
  /\ signedIn' = [signedIn EXCEPT ![t] = fetched /\ Valid(t)]
  /\ dek' = IF fetched /\ Valid(t) /\ wraps # Unset THEN dek ELSE [dek EXCEPT ![t] = 0]
  /\ Now(t, Idle)
  /\ UNCHANGED <<server, jar, known, made, history>>

-----------------------------------------------------------------------------
Init ==
  /\ hash = 1 /\ wraps = Unset /\ library = {}
  /\ jar = [b \in Browsers |-> 0]
  /\ signedIn = [t \in Tabs |-> FALSE]
  /\ dek = [t \in Tabs |-> 0]
  /\ doing = [t \in Tabs |-> Idle]
  /\ known = {} /\ made = 0
  /\ stale = FALSE /\ refused = FALSE /\ wiped = FALSE

KeyStep(t) ==
  \/ Login(t) \/ (\E pw \in 1 .. hash : Unlock(t, pw)) \/ Open(t)
  \/ Bootstrap(t) \/ AskSetup(t) \/ (\E answered \in BOOLEAN : StoreSetup(t, answered))
  \/ Save(t) \/ AskSave(t) \/ (\E k \in library : StoreSave(t, {k})) \/ StoreSave(t, {})

ResetStep(t) ==
  \/ OpenLink(t) \/ AskReset(t)
  \/ \E mode \in {"rotate", "recover", "wipe"} : SubmitReset(t, mode)
  \/ \E answered \in BOOLEAN : StoreReset(t, answered)
  \/ GiveUp(t)

TabStep(t) ==
  \/ \E reached \in BOOLEAN : SignOut(t, reached)
  \/ \E fetched \in BOOLEAN : Reload(t, fetched)

Next ==
  \/ \E t \in Tabs : KeyStep(t) \/ ResetStep(t) \/ TabStep(t)
  \/ \E b \in Browsers : SessionLost(b)

Spec == Init /\ [][Next]_vars

-----------------------------------------------------------------------------
\* The password opens the account's wrap, and opens the same key as the
\* recovery key does: a reset lands whole (updatePasswordAndCrypto), and one of
\* two requests holding a link is refused.  Only a bootstrap that overlapped
\* another change of the account can break it (handleSetupEncryption checks
\* before it awaits the body).
WrapsMatchAccount ==
  ~stale /\ wraps # Unset => wraps.pw = hash /\ wraps.dek = wraps.rec

\* A reset that is not a wipe keeps both the key and the recovery key, so every
\* sample stays readable (USER_GUIDE: the key is re-wrapped, not regenerated).
ResetKeepsKeys ==
  [][hash' # hash /\ wraps' # Unset /\ ~stale
       => wraps'.dek = wraps.dek /\ wraps'.rec = wraps.rec]_vars

\* Every stored sample is encrypted under the account's one key, through any
\* number of tabs, sign-outs, reloads and resets, as long as no bootstrap went
\* wrong and the account was not wiped under a tab that still had the key.
LibraryReadable ==
  ~stale /\ ~refused /\ ~wiped => library \subseteq {wraps.dek}

\* Types; and a sample or a bootstrap on its way carries a key.
Wraps == [pw : 0 .. MaxHash, dek : 0 .. MaxKeys, rec : 0 .. MaxKeys]
Step ==
  {s \in [at : {"idle", "opening", "resetForm"} \cup Asking \cup Reading, seen : Wraps,
          pw : 0 .. MaxHash, key : 0 .. MaxKeys,
          mode : {"none", "rotate", "recover", "wipe"}] :
     s.at \in {"setup", "setupBody", "save", "saveBody"} => s.key # 0}

TypeOK ==
  /\ hash \in 1 .. MaxHash /\ wraps \in Wraps
  /\ library \subseteq 1 .. MaxKeys /\ known \subseteq 1 .. MaxKeys
  /\ jar \in [Browsers -> 0 .. MaxHash] /\ signedIn \in [Tabs -> BOOLEAN]
  /\ dek \in [Tabs -> 0 .. MaxKeys] /\ doing \in [Tabs -> Step]
  /\ made \in 0 .. MaxKeys
  /\ stale \in BOOLEAN /\ refused \in BOOLEAN /\ wiped \in BOOLEAN

\* What handler.js says of setup-encryption: a second call on an account that
\* has its keys is rejected.  (It checks, then awaits the body, then writes.)
SetupOnce == [][wraps # Unset /\ wraps' # Unset => wraps'.rec = wraps.rec]_vars

=============================================================================
