--------------------------- MODULE BrowserSession ---------------------------
(***************************************************************************)
(* The session service of one browser tab (public/core/session.js) and the *)
(* forms that drive it: sign-in, unlock, password reset, sign-out.  The    *)
(* tab holds who is signed in and the unwrapped library key; the cookie is *)
(* shared with other tabs.  An action is what runs between two awaits of   *)
(* the tab, or what the server does for one request.                       *)
(*                                                                         *)
(* Abstractions: a key is the account it belongs to, and passwords of two  *)
(* accounts differ, so a form unwraps only the key of the account it was   *)
(* opened for.  _authGen is the flag stale of every boot that it overtook. *)
(* Saving, notifications and the locale redirect are left out.             *)
(***************************************************************************)
EXTENDS Naturals, FiniteSets

CONSTANTS
  Users,   \* accounts that use this browser
  None,    \* no account, no key
  Boots,   \* reads of /api/auth/me in the life of a document
  Shared,  \* the one every consumer shares
  Jobs,    \* forms and requests under way in the tab
  Open     \* no explicit act, or a boot has begun since

ASSUME SessionAssumption == Shared \in Boots /\ None \notin Users /\ Open \notin Users /\ Open # None

VARIABLES
  cookie,   \* the account the cookie is good for
  enc,      \* accounts with encryption set up
  user,     \* _user
  dek,      \* _dek
  stored,   \* the key in sessionStorage, which survives a reload
  pending,  \* _pendingUnlock
  boot, job,
  stands,   \* history: what the last explicit act said of the user, while no later boot has begun
  excused   \* history: one of the ways in which a key outlives its user has been taken

tab == <<user, dek, stored, pending>>
vars == <<cookie, enc, user, dek, stored, pending, boot, job, stands, excused>>

Account == Users \cup {None}
Idle    == [kind |-> "none", at |-> "idle", user |-> None, set |-> FALSE]
Ready   == [at |-> "none", user |-> None, set |-> FALSE, stale |-> FALSE]
AtLoad  == [b \in Boots |-> IF b = Shared THEN [Ready EXCEPT !.at = "sent"] ELSE Ready]

Busy(j) == job[j].at \notin {"idle", "form"}

To(j, at) == job' = [job EXCEPT ![j].at = at]
End(j) == job' = [job EXCEPT ![j] = Idle]

-----------------------------------------------------------------------------
SetUserRaw(u) ==
  /\ user' = IF u = None THEN Open ELSE u
  /\ boot' = [b \in Boots |-> [boot[b] EXCEPT !.stale = TRUE]]
  /\ stands' = u

\* setUser: whatever a boot is still waiting for is stale.
SetUser(u) ==
  /\ user' = u
  /\ boot' = [b \in Boots |-> [boot[b] EXCEPT !.stale = TRUE]]
  /\ stands' = u

KeepPersisted == stored' = stored

ClearPersistedDEK == stored' = None

\* Something under way may still bring a key; or one of another user is left.
MayBringKey(o) == Busy(o) \/ job[o].kind = "unlock"
OthersBusy(j) == \E o \in Jobs \ {j} : MayBringKey(o)
LeavesKey(j, u) == OthersBusy(j) \/ {dek, stored} \ {None, u} # {}

ClearSession(j) ==
  /\ dek' = None
  /\ ClearPersistedDEK
  /\ SetUser(None)
  /\ excused' = OthersBusy(j)

-----------------------------------------------------------------------------
\* ensureBooted(true): the shared read begins with the document.
ForceBoot(b) ==
  /\ boot[b].at \in {"none", "done"}
  /\ boot' = [boot EXCEPT ![b] = [Ready EXCEPT !.at = "sent"]]
  /\ stands' = Open
  /\ UNCHANGED <<cookie, enc, tab, job, excused>>

ServeBoot(b) ==
  /\ boot[b].at = "sent"
  /\ \E failed \in BOOLEAN :
       boot' = [boot EXCEPT ![b] = [at |-> "served", stale |-> @.stale,
                                    user |-> IF failed THEN None ELSE cookie,
                                    set |-> ~failed /\ cookie \in enc]]
  /\ UNCHANGED <<cookie, enc, tab, job, stands, excused>>

NeverStale(b) == FALSE

Stale(b) == boot[b].stale

\* The cookie has become another account's under what is open in the tab.
Switches(b) == user \notin {None, boot[b].user}

\* Any failure, no user, or a user without encryption: nothing to unlock.
Anonymous(b) ==
  /\ dek' = None /\ pending' = FALSE /\ ClearPersistedDEK
  /\ excused' = IF boot[b].user = None
                THEN (\E o \in Jobs : MayBringKey(o)) \/ \E c \in Boots : boot[c].at = "loading"
                ELSE excused \/ Switches(b)
  /\ boot' = [boot EXCEPT ![b].at = "done"]

\* The persisted key is read now; using it takes another await.
Load(b) ==
  /\ boot' = [boot EXCEPT ![b] = [@ EXCEPT !.at = "loading", !.user = stored]]
  /\ excused' = (excused \/ Switches(b))
  /\ UNCHANGED <<dek, pending, stored>>

AnswerBoot(b) ==
  /\ boot[b].at = "served"
  /\ IF Stale(b) THEN boot' = [boot EXCEPT ![b].at = "done"] /\ UNCHANGED <<tab, excused>>
     ELSE user' = boot[b].user /\ IF boot[b].set THEN Load(b) ELSE Anonymous(b)
  /\ UNCHANGED <<cookie, enc, job, stands>>

LoadBoot(b) ==
  /\ boot[b].at = "loading"
  /\ IF Stale(b) THEN UNCHANGED <<dek, pending>>
     ELSE dek' = boot[b].user /\ pending' = (boot[b].user = None)
  /\ boot' = [boot EXCEPT ![b].at = "done"]
  /\ UNCHANGED <<cookie, enc, user, stored, job, stands, excused>>

-----------------------------------------------------------------------------
\* The forms: sign-in is offered to visitors, unlock to a user without key,
\* a reset link may be followed in any tab; wipe gives the library up.
OpenForm(j) ==
  /\ job[j] = Idle
  /\ \E kind \in {"login", "unlock", "reset", "wipe", "signout", "refresh"}, u \in Users :
       /\ kind = "login" => user = None
       /\ kind = "unlock" => user = u /\ dek = None
       /\ kind \in {"signout", "refresh"} => user = u
       /\ kind = "reset" => u \in enc
       /\ job' = [job EXCEPT ![j] = [kind |-> kind, at |-> "form", user |-> u, set |-> FALSE]]
  /\ UNCHANGED <<cookie, enc, tab, boot, stands, excused>>

CloseForm(j) ==
  /\ job[j].at = "form"
  /\ End(j)
  /\ UNCHANGED <<cookie, enc, tab, boot, stands, excused>>

\* One sign-in at a time; a reset unwraps the key before it asks the server.
Submit(j) ==
  /\ job[j].at = "form"
  /\ job[j].kind = "login" => \A o \in Jobs : ~(Busy(o) /\ job[o].kind = "login")
  /\ To(j, IF job[j].kind = "reset" THEN "deriving" ELSE "sent")
  /\ excused' = (excused \/ job[j].kind = "reset")
  /\ UNCHANGED <<cookie, enc, tab, boot, stands>>

\* The server answers for the account of the cookie, or signs one in.
Serve(j) ==
  /\ job[j].at = "sent"
  /\ LET u == job[j].user  kind == job[j].kind IN
     \/ /\ cookie' = CASE kind \in {"login", "reset", "wipe"} -> u
                       [] kind = "signout" -> None
                       [] OTHER -> cookie
        /\ enc' = IF kind = "wipe" THEN enc \ {u} ELSE enc
        /\ job' = [job EXCEPT ![j] = [kind |-> kind, at |-> "served",
                                      user |-> IF kind \in {"unlock", "refresh"} THEN cookie ELSE u,
                                      set |-> cookie' = u /\ u \in enc]]
        /\ excused' = (excused \/ (kind \in {"login", "reset", "wipe"} /\ LeavesKey(j, u)))
     \/ /\ UNCHANGED <<cookie, enc, excused>>
        /\ IF kind = "signout" THEN To(j, "served") ELSE End(j)
  /\ UNCHANGED <<tab, boot, stands>>

Answers(j, kind) == job[j].at = "served" /\ job[j].kind = kind

\* doLogin: the user is set, and the key follows, unwrapped or made.
AnswerLogin(j) ==
  /\ Answers(j, "login")
  /\ SetUser(job[j].user)
  /\ excused' = (excused \/ LeavesKey(j, job[j].user))
  /\ To(j, "deriving")
  /\ UNCHANGED <<cookie, enc, dek, stored, pending>>

\* doUnlock: gone with its form; the session may have ended since; an account
\* without encryption, or another's, has nothing this password unwraps.
AnswerUnlock(j) ==
  /\ Answers(j, "unlock")
  /\ \/ End(j) /\ UNCHANGED <<tab, boot, stands, excused>>
     \/ job[j].user = None /\ ClearSession(j) /\ End(j) /\ UNCHANGED pending
     \/ job[j].set /\ To(j, "deriving") /\ UNCHANGED <<tab, boot, stands, excused>>
  /\ UNCHANGED <<cookie, enc>>

\* doResetPassword: the library is open already, or it was given up.
AnswerReset(j) ==
  /\ \/ Answers(j, "reset") /\ pending' = FALSE /\ UNCHANGED <<dek, stored, excused>>
     \/ /\ Answers(j, "wipe")
        /\ pending' = TRUE /\ dek' = None /\ ClearPersistedDEK
        /\ excused' = OthersBusy(j)
  /\ SetUser(job[j].user)
  /\ End(j)
  /\ UNCHANGED <<cookie, enc>>

\* signOut: the tab is cleared whether or not the server answered.
AnswerSignOut(j) ==
  /\ Answers(j, "signout")
  /\ ClearSession(j)
  /\ End(j)
  /\ UNCHANGED <<cookie, enc, pending>>

\* A list that answers 401 ends the user, and leaves the key.
AnswerRefresh(j) ==
  /\ Answers(j, "refresh")
  /\ IF job[j].user = None
       THEN SetUser(None) /\ excused' = (excused \/ LeavesKey(j, None))
       ELSE UNCHANGED <<user, boot, stands, excused>>
  /\ End(j)
  /\ UNCHANGED <<cookie, enc, dek, stored, pending>>

\* openFromPassword, bootstrap, importDEKFromBytes: the key is derived ...
Derived(j) ==
  /\ job[j].at = "deriving"
  /\ \/ dek' = job[j].user /\ To(j, "saving")
     \/ job[j].kind = "unlock" /\ End(j) /\ UNCHANGED dek
  /\ UNCHANGED <<cookie, enc, user, stored, pending, boot, stands, excused>>

\* ... and, an await later, persisted.  A reset then asks the server, and a
\* first sign-in has the server keep the wraps.
Saved(j) ==
  /\ job[j].at = "saving"
  /\ stored' = job[j].user
  /\ CASE job[j].kind = "reset" -> To(j, "sent")
       [] job[j].kind = "login" /\ ~job[j].set -> To(j, "setup")
       [] OTHER -> End(j)
  /\ UNCHANGED <<cookie, enc, user, dek, pending, boot, stands, excused>>

SetupEncryption(j) ==
  /\ job[j].at = "setup"
  /\ enc' = enc \cup ({cookie} \ {None})
  /\ End(j)
  /\ UNCHANGED <<cookie, tab, boot, stands, excused>>

-----------------------------------------------------------------------------
\* A new document: what is under way dies, the cookie and the tab's storage stay.
Document ==
  /\ user' = None /\ dek' = None /\ pending' = FALSE
  /\ boot' = AtLoad /\ job' = [j \in Jobs |-> Idle]
  /\ stands' = Open

Reload == Document /\ UNCHANGED <<cookie, enc, stored, excused>>

\* The account page signs out by itself, and knows nothing of the key.
AccountSignOut ==
  /\ cookie # None
  /\ cookie' \in {None, cookie}
  /\ excused' = (excused \/ stored # None)
  /\ Document
  /\ UNCHANGED <<enc, stored>>

\* The cookie of all tabs expires, is ended, or becomes another account's.
OtherTab(u) ==
  /\ cookie' = u
  /\ excused' = (excused \/ u # None)
  /\ UNCHANGED <<enc, tab, boot, job, stands>>

-----------------------------------------------------------------------------
Init ==
  /\ cookie \in Account /\ enc \in SUBSET Users /\ stored = None
  /\ user = None /\ dek = None /\ pending = FALSE
  /\ boot = AtLoad /\ job = [j \in Jobs |-> Idle]
  /\ stands = Open /\ excused = FALSE

Next ==
  \/ \E b \in Boots : ForceBoot(b) \/ ServeBoot(b) \/ AnswerBoot(b) \/ LoadBoot(b)
  \/ \E j \in Jobs :
       \/ OpenForm(j) \/ CloseForm(j) \/ Submit(j) \/ Serve(j)
       \/ AnswerLogin(j) \/ AnswerUnlock(j) \/ AnswerReset(j) \/ AnswerSignOut(j) \/ AnswerRefresh(j)
       \/ Derived(j) \/ Saved(j) \/ SetupEncryption(j)
  \/ Reload \/ AccountSignOut
  \/ \E u \in Account \ {cookie} : OtherTab(u)

Spec == Init /\ [][Next]_vars

-----------------------------------------------------------------------------
TypeOK ==
  /\ cookie \in Account /\ enc \subseteq Users
  /\ user \in Account /\ dek \in Account /\ stored \in Account /\ pending \in BOOLEAN
  /\ boot \in [Boots -> [at : {"none", "sent", "served", "loading", "done"}, user : Account,
                         set : BOOLEAN, stale : BOOLEAN]]
  /\ job \in [Jobs -> [kind : {"none", "login", "unlock", "reset", "wipe", "signout", "refresh"},
                       at : {"idle", "form", "sent", "served", "deriving", "saving", "setup"},
                       user : Account, set : BOOLEAN]]
  /\ stands \in Account \cup {Open} /\ excused \in BOOLEAN

\* A boot never overrules what the user has done since it began.
UserStands == stands # Open => user = stands

Known == stands # Open \/ \A b \in Boots : boot[b].at \in {"none", "done"}

\* The key in memory and the one a reload would restore are the signed-in
\* user's, and nobody's when nobody is signed in.
KeyIsUsers == Known /\ ~excused => {dek, stored} \subseteq {None, user}

\* A sign-in or unlock form never brings a key to a tab nobody is signed in to
\* any more: signing out wipes the key.  False of the code, which does not look
\* at the session again when a derivation ends.
NoKeyForNobody ==
  [][ \A j \in Jobs : job[j].kind \in {"login", "unlock"} /\ Derived(j) /\ dek' # dek => user # None ]_vars
=============================================================================
