---------------------------- MODULE AuthSessions ----------------------------
(***************************************************************************)
(* Sign-in sessions of the ortbtools server: the session Map and login     *)
(* proofs of auth.js, the revocation journal of lib/session-recovery.js,   *)
(* the sessions and users tables of db.js, and the handlers of             *)
(* modules/auth/handler.js that mint or revoke a session.                  *)
(*                                                                         *)
(* Node runs one handler at a time, so code between two awaits is one      *)
(* action.  The awaits that matter are bcrypt and the request body: a      *)
(* request suspended on one is a record of reqs holding what it read       *)
(* before.  Durable state (users, sessions, checkpoint.json) survives a    *)
(* stop; everything else is lost.  The exclusive lock on owner.sqlite      *)
(* leaves at most one serving process, hence one phase.                    *)
(*                                                                         *)
(* Abstractions: a bcrypt hash is a version number (salted, so no two      *)
(* hashes are equal); the session cookie and its keyed identity are one    *)
(* token (a fence destroys every row, so no row of an old key is left to   *)
(* look up); one millisecond clock.  Left out: rate limits, the optional   *)
(* recovery-less wiring of the tests, and reset links mailed before links  *)
(* were bound to a password version (none outlives its hour).              *)
(***************************************************************************)
EXTENDS Naturals, FiniteSets

CONSTANTS
  Users,       \* account ids; AUTOINCREMENT hands each out once
  Tokens,      \* session cookies, each minted at most once
  Legacy,      \* those of a release before the keyed identities (raw rows)
  Requests,    \* concurrent requests that suspend on an await
  Nobody,      \* the owner of a cookie not minted yet
  MaxEntries,  \* capacity of the revocation journal
  Ttl,         \* SESSION_TTL_MS
  MaxHash,     \* bound: passwords an account can have had
  MaxClock     \* bound: last instant

ASSUME LegacyAssumption == Legacy \subseteq Tokens
ASSUME NobodyAssumption == Nobody \notin Users
ASSUME NumberAssumption ==
  /\ MaxEntries \in Nat \ {0} /\ Ttl \in Nat \ {0}
  /\ MaxHash \in Nat \ {0} /\ MaxClock \in Nat

VARIABLES
  \* durable
  hash,        \* users.password_hash of an account, 0 for no row
  fresh,       \* account ids AUTOINCREMENT has not handed out
  rows,        \* the sessions table
  disk,        \* checkpoint.json; an unreadable or missing one counts as dirty
  \* the serving process
  phase,       \* "down", "serving", or "closing" after beginShutdown
  live,        \* the session Map
  journal,     \* state.revocations of the open checkpoint
  uncertain,   \* session-recovery.js: a journal write failed
  unaccounted, \* auth.js: a revocation was not journaled
  epoch,       \* epochs: how often a user's sessions were invalidated
  reqs,        \* requests suspended on an await
  \* fixed at mint
  owner, expiry,
  clock,
  \* history
  grant,       \* the password version a session was granted under
  revoked      \* sessions some logout, reset or deletion set out to end

durable == <<hash, fresh, rows, disk>>
memory  == <<live, journal, uncertain, unaccounted, epoch>>
minting == <<owner, expiry, grant>>
vars == <<durable, memory, minting, phase, reqs, clock, revoked>>

Modern == Tokens \ Legacy
Minted == {t \in Tokens : owner[t] # Nobody}
SessionsOf(u) == {t \in Tokens : owner[t] = u}

Idle == [op |-> "idle", user |-> Nobody, hash |-> 0, epoch |-> 0]
Ops  == {"idle", "register", "login", "reset", "deleteBody", "delete"}
Request ==
  {q \in [op : Ops, user : Users \cup {Nobody}, hash : 0 .. MaxHash, epoch : Nat] :
     /\ q.op \in {"idle", "register"} \/ q.user \in Users
     /\ q.op \in {"login", "reset", "delete"} => q.hash # 0}

WriteOutcome == {"ok", "lost", "late"}  \* lost: before the rename; late: after it

\* getCurrentUser finds a user for cookie t.
Accepted(t) ==
  /\ phase # "down" /\ t \in live
  /\ expiry[t] >= clock
  /\ hash[owner[t]] # 0

-----------------------------------------------------------------------------
\* session-recovery.js revoke: merge the unexpired entries, write, adopt.
Merged(entries) == {t \in journal \cup entries : expiry[t] > clock}

\* auth.js recordRevocations: any failure latches both "uncertain" marks.
RecordRevocations(entries, w) ==
  /\ w # "lost" => Cardinality(Merged(entries)) =< MaxEntries
  /\ disk' = IF w = "lost" THEN disk
             ELSE [clean |-> FALSE, revoked |-> Merged(entries)]
  /\ journal' = IF w = "ok" THEN Merged(entries) ELSE journal
  /\ uncertain' = (uncertain \/ w # "ok")
  /\ unaccounted' = (unaccounted \/ w # "ok")

\* What a journal write that fails or succeeds, and the deletion of the rows
\* that follows it, leave for the caller: the revocation is durable somewhere.
Confirmed(w, dbFails) == w = "ok" \/ ~dbFails

\* A new cookie, or none when Sessions.create throws.
NewSession == {{}} \cup {{t} : t \in {x \in Modern : owner[x] = Nobody}}

Mint(ts, u, h) ==
  /\ owner'  = [t \in Tokens |-> IF t \in ts THEN u ELSE owner[t]]
  /\ expiry' = [t \in Tokens |-> IF t \in ts THEN clock + Ttl ELSE expiry[t]]
  /\ grant'  = [t \in Tokens |-> IF t \in ts THEN h ELSE grant[t]]

\* createSession persists the row first, then sets the Map entry.
AdmitUnpersisted(ts) ==
  /\ rows' \in {rows, rows \cup ts}
  /\ live' = live \cup ts

Admit(ts) ==
  /\ rows' = rows \cup ts
  /\ live' = live \cup ts

\* createSession and the handlers recheck what they read before bcrypt: the
\* account still has the password that was proved, and nobody has since
\* invalidated its sessions.
NoRecheck(r) == TRUE

StillCurrent(r) == reqs[r].hash = hash[reqs[r].user]

ProofHolds(r) ==
  /\ reqs[r].epoch = epoch[reqs[r].user]
  /\ reqs[r].hash = hash[reqs[r].user]

Suspend(r, op, u, h, e) ==
  reqs' = [reqs EXCEPT ![r] = [op |-> op, user |-> u, hash |-> h, epoch |-> e]]

Done(r) == reqs' = [reqs EXCEPT ![r] = Idle]

-----------------------------------------------------------------------------
\* auth.js register up to bcrypt.hash.
StartRegister(r) ==
  /\ phase = "serving" /\ reqs[r].op = "idle"
  /\ Suspend(r, "register", Nobody, 0, 0)
  /\ UNCHANGED <<durable, memory, minting, phase, clock, revoked>>

\* The rest of handleRegister: create the account, then its first session.
FinishRegister(r) ==
  /\ phase = "serving" /\ reqs[r].op = "register"
  /\ \E u \in fresh, ts \in NewSession :
       /\ hash'  = [hash EXCEPT ![u] = 1]
       /\ fresh' = fresh \ {u}
       /\ Mint(ts, u, 1)
       /\ Admit(ts)
  /\ Done(r)
  /\ UNCHANGED <<disk, journal, uncertain, unaccounted, epoch, phase, clock, revoked>>

\* auth.js login up to bcrypt.compare: the row and the epoch are read first.
StartLogin(r, u) ==
  /\ phase = "serving" /\ reqs[r].op = "idle" /\ hash[u] # 0
  /\ Suspend(r, "login", u, hash[u], epoch[u])
  /\ UNCHANGED <<durable, memory, minting, phase, clock, revoked>>

\* The password matched the captured hash; createSession rechecks the proof.
FinishLogin(r) ==
  LET u == reqs[r].user IN
  /\ phase = "serving" /\ reqs[r].op = "login"
  /\ ProofHolds(r)
  /\ \E ts \in NewSession : Mint(ts, u, reqs[r].hash) /\ Admit(ts)
  /\ Done(r)
  /\ UNCHANGED <<hash, fresh, disk, journal, uncertain, unaccounted, epoch, phase, clock, revoked>>

\* auth.js destroySession for a cookie the Map knows (others change nothing).
\* The answer is 500 exactly when ~Confirmed(w, dbFails); the state is the same.
Logout(t, w, dbFails) ==
  /\ phase # "down" /\ t \in live
  /\ RecordRevocations({t}, w)
  /\ live' = live \ {t}
  /\ rows' = IF dbFails THEN rows ELSE rows \ {t}
  /\ revoked' = revoked \cup {t}
  /\ UNCHANGED <<hash, fresh, epoch, reqs, minting, phase, clock>>

\* auth.js invalidateUserSessions: retire login proofs, journal what the Map
\* knows.  Its callers have already deleted the rows in their transaction.
InvalidateUser(u, w) ==
  /\ epoch' = [epoch EXCEPT ![u] = @ + 1]
  /\ RecordRevocations(live \cap SessionsOf(u), w)
  /\ revoked' = revoked \cup SessionsOf(u)

\* handleResetPassword up to bcrypt: the link is bound to the password version
\* it was mailed for, which must still be the account's.
StartReset(r, u) ==
  /\ phase # "down" /\ reqs[r].op = "idle" /\ hash[u] # 0
  /\ Suspend(r, "reset", u, hash[u], 0)
  /\ UNCHANGED <<durable, memory, minting, phase, clock, revoked>>

\* The rest of it, every mode: password and session rows in one transaction,
\* account-wide invalidation, and a fresh session unless neither store
\* confirmed the invalidation.
FinishReset(r, w, dbFails) ==
  LET u == reqs[r].user IN
  /\ phase = "serving" /\ reqs[r].op = "reset"
  /\ StillCurrent(r)
  /\ hash[u] < MaxHash
  /\ hash' = [hash EXCEPT ![u] = @ + 1]
  /\ InvalidateUser(u, w)
  /\ \E ts \in NewSession :
       /\ ~Confirmed(w, dbFails) => ts = {}
       /\ Mint(ts, u, hash[u] + 1)
       /\ rows' = (rows \ SessionsOf(u)) \cup ts
       /\ live' = (live \ SessionsOf(u)) \cup ts
  /\ Done(r)
  /\ UNCHANGED <<fresh, phase, clock>>

\* handleDeleteAccount: the session is checked before the body is read ...
StartDelete(r, t) ==
  /\ reqs[r].op = "idle" /\ Accepted(t)
  /\ Suspend(r, "deleteBody", owner[t], 0, 0)
  /\ UNCHANGED <<durable, memory, minting, phase, clock, revoked>>

\* ... the password after it ...
ReadDeleteBody(r) ==
  LET u == reqs[r].user IN
  /\ reqs[r].op = "deleteBody" /\ hash[u] # 0
  /\ Suspend(r, "delete", u, hash[u], 0)
  /\ UNCHANGED <<durable, memory, minting, phase, clock, revoked>>

\* ... and once it matched, the account goes if it still has that password.
\* The destroySession that follows finds the cookie already gone from the Map.
FinishDelete(r, w) ==
  LET u == reqs[r].user IN
  /\ phase = "serving" /\ reqs[r].op = "delete"
  /\ StillCurrent(r)
  /\ hash' = [hash EXCEPT ![u] = 0]
  /\ InvalidateUser(u, w)
  /\ rows' = rows \ SessionsOf(u)
  /\ live' = live \ SessionsOf(u)
  /\ Done(r)
  /\ UNCHANGED <<fresh, minting, phase, clock>>

\* A suspended request answers an error: wrong password, taken address, stale
\* proof or link, a failed transaction, or 503 once the server is closing.
Fail(r) ==
  /\ reqs[r].op # "idle"
  /\ Done(r)
  /\ UNCHANGED <<durable, memory, minting, phase, clock, revoked>>

\* getCurrentUser drops an expired entry it looks up.
LookupExpired(t) ==
  /\ t \in live /\ expiry[t] < clock
  /\ live' = live \ {t}
  /\ UNCHANGED <<durable, journal, uncertain, unaccounted, epoch, minting, phase, reqs, clock, revoked>>

\* The hourly sweep of the Map and the table.
Sweep(dbFails) ==
  /\ phase # "down"
  /\ live' = {t \in live : expiry[t] >= clock}
  /\ rows' = IF dbFails THEN rows ELSE {t \in rows : expiry[t] > clock}
  /\ UNCHANGED <<hash, fresh, disk, journal, uncertain, unaccounted, epoch,
                 minting, phase, reqs, clock, revoked>>

-----------------------------------------------------------------------------
\* A startup distrusts the whole table unless the last process certified it;
\* and, beside any checkpoint, a table with a raw row of an old release.
TrustLegacy(active) == ~disk.clean
FenceAlways(active) == TRUE

Fenced(active) == ~disk.clean \/ active \cap Legacy # {}

\* The checkpoint is dirty on disk before the process serves.
Armed(recorded) == [clean |-> FALSE, revoked |-> recorded]

\* Rows the journal lists stay out of the Map.
HydrateAll(kept, recorded) == kept

Hydrated(kept, recorded) == kept \ recorded

\* createSessionRecovery and the hydration of createAuth.  The rows are read
\* at clock and the revocations pruned at later: the code reads the time twice.
\* A write that fails leaves the server unavailable, the table as it is by then.
Start(w, later) ==
  LET active   == {t \in rows : expiry[t] > clock}
      kept     == IF Fenced(active) THEN {} ELSE active
      recorded == IF Fenced(active) THEN {} ELSE {t \in disk.revoked : expiry[t] > later}
  IN
  /\ phase = "down"
  /\ later \in {clock, clock + 1} /\ later =< MaxClock
  /\ clock' = later
  /\ rows' = kept
  /\ disk' = IF w = "lost" THEN disk ELSE Armed(recorded)
  /\ IF w = "ok"
       THEN /\ phase' = "serving"
            /\ live' = Hydrated(kept, recorded)
            /\ journal' = recorded
       ELSE UNCHANGED <<phase, live, journal>>
  /\ UNCHANGED <<hash, fresh, uncertain, unaccounted, epoch, minting, reqs, revoked>>

\* server.js on SIGTERM: no session is minted from here on.
BeginShutdown ==
  /\ phase = "serving"
  /\ phase' = "closing"
  /\ UNCHANGED <<durable, memory, minting, reqs, clock, revoked>>

\* The process is gone, and its memory and suspended requests with it.
Stop ==
  /\ phase' = "down"
  /\ live' = {} /\ journal' = {}
  /\ uncertain' = FALSE /\ unaccounted' = FALSE
  /\ epoch' = [u \in Users |-> 0]
  /\ reqs' = [r \in Requests |-> Idle]
  /\ UNCHANGED <<hash, fresh, rows, minting, clock, revoked>>

\* The two latches are independent: either failure forbids the certificate.
CertifiableAnyway(w) == w # "lost"

Certifiable(w) == ~unaccounted /\ ~uncertain /\ w # "lost"

\* Connections drained: certify the checkpoint if every revocation reached it.
\* A request whose client went away may still be suspended.
CleanShutdown(w) ==
  /\ phase = "closing"
  /\ disk' = IF Certifiable(w)
               THEN [clean |-> TRUE, revoked |-> journal]
               ELSE disk
  /\ Stop

\* A crash, or the five-second timer of the shutdown: nothing is certified.
Crash ==
  /\ phase # "down"
  /\ Stop
  /\ UNCHANGED disk

\* The operator restores an older database and, as OPERATIONS.md asks, moves
\* the checkpoint aside; or the checkpoint is lost or damaged.
RestoreDatabase ==
  /\ phase = "down"
  /\ rows' \in SUBSET Minted
  /\ disk' = [clean |-> FALSE, revoked |-> {}]
  /\ UNCHANGED <<hash, fresh, memory, minting, phase, reqs, clock, revoked>>

\* A rolled-back release of before the journal serves for a while and leaves a
\* row of its own kind beside whatever checkpoint there is.
OldReleaseLogin(t, u) ==
  /\ phase = "down"
  /\ t \in Legacy /\ owner[t] = Nobody /\ hash[u] # 0
  /\ Mint({t}, u, hash[u])
  /\ rows' = rows \cup {t}
  /\ UNCHANGED <<hash, fresh, disk, memory, phase, reqs, clock, revoked>>

Tick ==
  /\ clock < MaxClock
  /\ clock' = clock + 1
  /\ UNCHANGED <<durable, memory, minting, phase, reqs, revoked>>

-----------------------------------------------------------------------------
Init ==
  /\ hash \in [Users -> {0, 1}]
  /\ fresh = {u \in Users : hash[u] = 0}
  /\ rows = {} /\ disk = [clean |-> FALSE, revoked |-> {}]
  /\ phase = "down"
  /\ live = {} /\ journal = {}
  /\ uncertain = FALSE /\ unaccounted = FALSE
  /\ epoch = [u \in Users |-> 0]
  /\ reqs = [r \in Requests |-> Idle]
  /\ owner = [t \in Tokens |-> Nobody]
  /\ expiry = [t \in Tokens |-> 0]
  /\ grant = [t \in Tokens |-> 0]
  /\ clock = 0 /\ revoked = {}

RequestStep(r) ==
  \/ StartRegister(r) \/ FinishRegister(r)
  \/ \E u \in Users : StartLogin(r, u) \/ StartReset(r, u)
  \/ FinishLogin(r)
  \/ \E w \in WriteOutcome, dbFails \in BOOLEAN : FinishReset(r, w, dbFails)
  \/ \E t \in Tokens : StartDelete(r, t)
  \/ ReadDeleteBody(r)
  \/ \E w \in WriteOutcome : FinishDelete(r, w)
  \/ Fail(r)

SessionStep(t) ==
  \/ \E w \in WriteOutcome, dbFails \in BOOLEAN : Logout(t, w, dbFails)
  \/ LookupExpired(t)
  \/ \E u \in Users : OldReleaseLogin(t, u)

ProcessStep ==
  \/ \E dbFails \in BOOLEAN : Sweep(dbFails)
  \/ \E w \in WriteOutcome, later \in {clock, clock + 1} : Start(w, later)
  \/ BeginShutdown
  \/ \E w \in WriteOutcome : CleanShutdown(w)
  \/ Crash \/ RestoreDatabase \/ Tick

Next ==
  \/ \E r \in Requests : RequestStep(r)
  \/ \E t \in Tokens : SessionStep(t)
  \/ ProcessStep

Spec == Init /\ [][Next]_vars

-----------------------------------------------------------------------------
\* Types.  No raw-token session of an old release ever reaches the Map.
TypeOK ==
  /\ hash \in [Users -> 0 .. MaxHash] /\ fresh \subseteq Users
  /\ rows \subseteq Minted
  /\ disk \in [clean : BOOLEAN, revoked : SUBSET Tokens]
  /\ phase \in {"down", "serving", "closing"}
  /\ live \subseteq Modern \cap Minted /\ journal \subseteq Tokens
  /\ uncertain \in BOOLEAN /\ unaccounted \in BOOLEAN
  /\ epoch \in [Users -> Nat]
  /\ reqs \in [Requests -> Request]
  /\ owner \in [Tokens -> Users \cup {Nobody}]
  /\ expiry \in [Tokens -> Nat] /\ grant \in [Tokens -> 0 .. MaxHash]
  /\ clock \in 0 .. MaxClock
  /\ revoked \subseteq Minted

\* A session that a logout, a password reset or an account deletion set out to
\* end is never accepted again, whatever stores failed on the way and through
\* crashes, restarts and restores (auth.js destroySession and
\* invalidateUserSessions, session-recovery.js).  The instant expiry = clock is
\* left out: a restart reads the time twice, so a journal entry can be pruned
\* in the very millisecond in which its row was still hydrated.
RevokedStaysDead ==
  \A t \in revoked : Accepted(t) => expiry[t] = clock

\* An accepted session was granted under the password its account has now: no
\* login or link that started before a reset or a deletion, and no row that
\* outlived one, gives access after it (createSession, handleResetPassword).
SessionMatchesPassword ==
  \A t \in Tokens :
    Accepted(t) /\ expiry[t] > clock => grant[t] = hash[owner[t]]

\* A checkpoint is certified clean only if it lists every ended session whose
\* row is still in the table (session-recovery.js close, auth.js shutdown).
CleanIsAccounted ==
  disk.clean =>
    \A t \in revoked \cap rows : expiry[t] > clock => t \in disk.revoked

\* A serving process has a durably dirty checkpoint, so a crash is recognised
\* as one however far the process got (session-recovery.js, startup fence).
ServingIsDirty == phase # "down" => ~disk.clean

\* A session the Map accepts is also in the table, so an ordinary restart does
\* not log anyone out silently (createSession persists first).
AcceptedIsDurable == \A t \in Tokens : Accepted(t) /\ expiry[t] > clock => t \in rows

\* A password changes, and an account goes, only by a request that proved the
\* password version it replaces: of two requests holding one mailed link, or
\* one old password, the slower is refused (handleResetPassword and
\* handleDeleteAccount recheck after bcrypt).
ProofsAreCurrent ==
  [][\A u \in Users :
       hash[u] \notin {0, hash'[u]} =>
         \E r \in Requests :
           /\ reqs[r].op = IF hash'[u] = 0 THEN "delete" ELSE "reset"
           /\ reqs[r].user = u /\ reqs[r].hash = hash[u]
           /\ reqs'[r] = Idle]_vars

\* A restart whose checkpoint is clean brings back every unexpired session that
\* nobody ended, unless an old release left its rows.
CleanRestartKeepsSessions ==
  [][phase = "down" /\ phase' = "serving" /\ disk.clean /\ rows \cap Legacy = {}
       => \A t \in rows \ revoked : expiry[t] > clock' => t \in live']_vars

\* Whatever the server does, it does no more than the promise allows: sessions
\* are granted under the current password, end for good, and come back after a
\* restart only if nobody ended them.  In its last instant (expiry = clock) a
\* session counts as lapsed, as above.
Promise == INSTANCE SessionPromise WITH
  password <- hash, holder <- owner, version <- grant, ended <- revoked,
  accepted <- {t \in Tokens : Accepted(t) /\ expiry[t] > clock}

PromiseKept == Promise!Spec
=============================================================================
