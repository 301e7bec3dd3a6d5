# A TLA+ model of ortbtools

ortbtools (this repository) is a web tool for inspecting OpenRTB traffic: a
Node server with an SQLite database and ClickHouse behind it, a single-page
browser application, and a validator core that both share. This directory holds
TLA+ models of the parts whose correctness depends on the *order* of things
(awaits, failures, restarts, several tabs, late answers) or on agreements
between pieces of code written apart; the TLC configurations that check them on
small instances; and proofs, checked by TLAPS, of what matters most.

`PROJECT.json` maps every definition to the source lines it stands for and
lists the runs, for each property a plausible bug that breaks it (a definition
and its mutated form, which stands right before it in the module), the hazards,
and the theorems. Paths below are relative to `src/`.

| Module | Models | Run | Proved in |
| --- | --- | --- | --- |
| `AuthSessions` | accounts, sign-in sessions, revocation journal, restarts | `sessions` | `AuthSessionsProofs` |
| `SessionPromise` | what a session promises; implemented by `AuthSessions` | `sessions` | `AuthSessionsProofs` |
| `AccountCrypto` | the zero-knowledge key of one account, over several tabs | `key_and_feed`, `setup_twice` | `KeyAndFeedProofs` |
| `BrowserSession` | who is signed in, and whose key is held, inside one tab | `browser` | `BrowserSessionProofs` |
| `ConcurrencyGate` | the gate in front of the local model, and its route | `gate` | `GateAndServicesProofs` |
| `SectionRegistry` | navigation in the shell, overlapping activations | `sections` | `SectionRegistryProofs` |
| `InspectorPane` | the editor and the analysis shown for it | `inspector`, `verdict_stands` | `InspectorPaneProofs` |
| `Deploy` | deploy and rollback scripts, reboots, two scripts at once | `deploy` | `DeployAndCoreProofs` |
| `AccountData` | dialects, mappings, their cache; telemetry and erasure | `account_data` | `AccountDataProofs` |
| `Validator` | detection, rule families, findings, the analyze answer | `core` | `DeployAndCoreProofs` |
| `Mirror` | the mirror generator and the semantic crosscheck | `core` | `DeployAndCoreProofs` |
| `Migration` | the 2.5 to 2.6 advisor and its tab | `core` | `DeployAndCoreProofs` |
| `Listing` | sorting a set, filtering a sequence; used by `Validator` and `Mirror` | `core` | `DeployAndCoreProofs` |
| `Editorial` | drafts, articles, administrator and news moderator | `services` | `GateAndServicesProofs` |
| `ShareLinks` | encrypted share links and their three ceilings | `services` | `GateAndServicesProofs` |
| `CreativePreview` | the sandboxed creative, its probe, what is concluded | `services` | `GateAndServicesProofs` |
| `LiveStream` | the live feed: generator, endpoint, the page that reads it | `key_and_feed` | `KeyAndFeedProofs` |

An `MC...` module and a `.cfg` of the same name instantiate a module for TLC.
`MCCore` and `MCServices` each put three parts together that share no state: a
behaviour is one of one part, chosen in `Init`, while the others keep their
variables idle; every property carries the name of its part as its guard.
`MCKeyAndFeed` does the same with `AccountCrypto`, on the instance that
`MCAccountCrypto` names, and `LiveStream`. Their constants are parameters there
too, with named assumptions (`ServicesAssumption`, `FeedLimits`,
`FeedConstants`, `LinksAssumption`, `JobsAssumption`, `DefaultIdsAssumption`,
`DocumentsAssumption`), and the parts' theorems are about the same
specifications, for every value that satisfies them.

## 1. Inventory

**Accounts and sessions** (`auth.js`, `lib/session-recovery.js`, `db.js`,
`modules/auth/handler.js`, the wiring in `server.js`). State: the `users` and
`sessions` tables, the session Map that answers every lookup, an epoch per user
and a password hash per pending login proof, the revocation checkpoint on disk
and its copy in memory. Hard: bcrypt and the request body are awaits, so what a
handler checked may be gone when it writes; four stores fail independently; a
crash can come anywhere. Correct when no ended or superseded session is ever
accepted, a stale proof changes nothing, a clean restart keeps sessions, and a
certificate is true. *Modelled.*

**The account key** (`handleSetupEncryption`, `handleResetPassword`, the samples
routes; in the browser `core/session.js` and the auth, unlock, password-reset
and save-sample modules). State: six key columns of the users row, the
encrypted samples, and per tab a key in memory and in sessionStorage. The
server never sees the key, so nothing can repair a wrong wrap. *Modelled*, over
several tabs; what overlaps inside one tab is the **browser session service**
(`core/session.js`: who is signed in, the key, `_authGen`). *Modelled.*

**The model gate** (`lib/concurrency-gate.js`, `modules/ai-label/handler.js`,
`lib/ollama.js`): a slot count and a queue of entries with timers. *Modelled.*

**Section registry and router** (`public/core/registry.js`, `router.js`,
`shell-boot.js`, `lang-switch.js`): navigation while an import, a stylesheet, a
prepare or a mount is in flight. *Modelled.*

**The Inspector** (`ortbtools.app.js`, `modules/inspector/*`, the mirror window):
the editor, the text before it was pretty-printed, the analysis that may paint;
beside it the **creative preview** (the frame, `creative-probe.js`,
`modules/behavior/behavior-tab.js`, `creative-assets.js`) and the **Migration
tab** (`packages/core/migrate`, `modules/migrate`). Order of answers, loads,
edits and messages; *modelled*, but for the panels' content, what the probe's
hooks recognise and the rules that score events.

**Deploy and rollback** (`scripts/deploy.sh`, `rollback.sh`, `deploy-lib.sh`):
`deploy-state.env`, `.env` and the container's restart policy, which no
transaction covers. *Modelled.*

**Telemetry, event log, erasure** (`lib/product-telemetry.js`, `event-log.js`,
`analytics-purge.js`) and the **library** (`modules/dialects`, `lib/library-quota.js`,
`user-dialect-runtime.js`): rows of one account, on their way and at rest.
*Modelled* for dialects, mappings, their cache and the account's analytics;
partners, corpus and saved samples are rows of the same kind with no cache.

**Blog and news** (`modules/admin/blog.js`, `lib/blog-service.js`,
`lib/news-moderator.js`): files and ClickHouse without a transaction. *Modelled*,
the crawler as a source of drafts. **Share links and limiters**
(`modules/gists/handler.js`, `db.js`, `server.js`). *Modelled*; the limiters of
other routes have the same two forms.

**The live feed** (`samples/synthetic-generator.js`, the ring in `server.js`,
`modules/stream/handler.js`, `modules/stream/index.js`): a generator that runs for
viewers only, frames kept in a ring that every connection replays and in a table
of specimens, slots for an address, and a page that reconnects, pauses, filters
and asks for grades. *Modelled*, but for cells, labels and rates.

**Core validator** (`packages/core`): detection, the frame that runs the rule
families and unites two panes, mirror and crosscheck. *Modelled*; the rules
themselves, thousands of field checks that a corpus covers, are not.

*Not modelled*: modal host, exchange rates, asset fetch, SEO pages, mail, diff; section 12 says why.

How they meet: handlers share `auth` and the tables; browser modules share the
session facade, the modal root and one document; tabs of a browser share one
cookie; server and operator share the data directory. The compositions that
matter are inside the modules: handlers with stores and restarts
(`AuthSessions`), tabs with the server (`AccountCrypto`), registry with router
and language switch (`SectionRegistry`), editor with loaders, session and
remounts (`InspectorPane`), library with request logging and erasure
(`AccountData`), administrator with moderator and two stores (`Editorial`),
page with frame (`CreativePreview`), generator with endpoint and page (`LiveStream`).

## 2. Sessions: AuthSessions, SessionPromise

One action is the code between two awaits. A request that waits for bcrypt or
its body is a record of `reqs` with what it read before: the password version,
and for a login the user's epoch. `StartLogin`/`FinishLogin`,
`StartReset`/`FinishReset`, `StartDelete`/`ReadDeleteBody`/`FinishDelete` are
the halves of the handlers; `Fail` is every error answer; `Logout`, `Sweep`,
`LookupExpired` are synchronous. `rows`, `hash` and `disk` survive a stop;
`live`, `journal`, the epochs and two latches do not. `Start` is the whole of
`createSessionRecovery` with the hydration after it. `CleanShutdown`, `Crash`,
`RestoreDatabase` and `OldReleaseLogin` are the ways the next start can find its
files. A journal write succeeds, fails before its rename or fails after it (the
disk has the entry, the process does not know); a row deletion fails
independently. A password is a version number, since a bcrypt hash never
repeats; a cookie and its keyed identity are one token.

`SessionPromise` is what the people who sign in are promised, with no store,
journal, request or clock: a session is granted under the current password,
ends for good, and may lapse. `PromiseKept` is the refinement, with `hash`,
`owner`, `grant`, `revoked` and the sessions the Map accepts as the mapping.

Run `sessions`: one account with two password versions, two requests, two
cookies and one of an old release, a journal of one entry, three instants and a
lifetime of one. Two requests are what a race needs; one entry makes the
journal overflow; three instants let a session expire during and between
processes.

`RevokedStaysDead` and the mapping leave out the instant `expiry = clock`: the
Map accepts a session up to and including its expiry, the journal keeps a
revocation only before it, and the start reads the time twice, so a revoked row
can be hydrated in the millisecond in which its revocation is pruned.

Proved for any sets of accounts, cookies and requests, any capacity, lifetime
and bounds: types, `RevokedStaysDead`, `SessionMatchesPassword`,
`CleanIsAccounted`, `AcceptedIsDurable`, `ProofsAreCurrent`, and the refinement.
None is inductive alone: that an ended session stays dead needs what journal,
checkpoint and latches say of each other. The invariant adds that a revoked
session is never live while the process serves; that its row, if it is still
there, is in the journal or the process is latched as uncertain; that the
checkpoint on disk is dirty while a process serves (`ServingIsDirty`) and
complete when it is clean; and that every session in Map and table carries its
account's password version. The refinement is then one step of the promise, or
none, per action.

`CleanRestartKeepsSessions` is proved from the other side (`JournalIsFair`):
journal and checkpoint list ended sessions only, so a start that trusts a clean
checkpoint refuses no session that nobody ended.

## 3. The account key: AccountCrypto

One account, several tabs. `wraps` is the six key columns: password version and
key of the password wrap, key of the recovery wrap; the library is the set of
keys its samples are encrypted under. `doing` says what a tab is in the middle
of, with what it fetched before. A request is two steps, `Ask...` (session and
other checks, before the body or bcrypt) and `Store...` (after it). `answered =
FALSE` is a lost answer. `Reload` is `ensureBooted` in a new document.

Run `key_and_feed`, first half: two tabs of one browser, three password versions, two keys.
The constraint `OverlapFree` stops at states in which a bootstrap was stored
over a change it had not seen; each property is conditional on that, so nothing
is lost. `LibraryReadable` names its conditions as history: no bootstrap was
stored over a change (`stale`), none was refused or lost after its key had been
installed (`refused`), the account was not wiped under a tab that still had the
key (`wiped`). The first two are findings (section 11); the third is a sample
encrypted before a wipe that reaches `samples/handler.js:73` after it.

Proved for any tabs, browsers, passwords and keys: types, `WrapsMatchAccount`,
`LibraryReadable`, `ResetKeepsKeys`. The strengthening: a tab that holds a link
of the current password has fetched the wraps as they still are, because only a
reset (which ends the link) or a first bootstrap may replace them
(`LinkSeesWraps`); what a submitted reset carries is what it unwrapped
(`CarriesUnwrapped`); and while nothing went wrong every key outside a bootstrap
under way is the account's.

## 4. One tab: BrowserSession

`boot` is a read of `/api/auth/me` (with the late import that loads the stored
key), `job` a form or request: sign-in, unlock, reset in three modes, sign-out,
refresh. Keys are the accounts they belong to. `stands` is history: what the
user did last, until a read of the session begins after it.

`UserStands`: a read begun before an explicit act never overrules it. `KeyIsUsers`:
the key in memory and the stored one are the signed-in user's. The second has
exceptions, recorded in `excused`, because the code does install or keep a key
there: a 401 on a refresh keeps the key; a reset imports it before the server
accepts; `clear` or `setUser` with a form or derivation under way; signing in
over another account's key; the account page's own sign-out (`account.js:999-1006`),
which leaves the stored key until the next anonymous boot; another tab that
signs another account in, since a stored key names no user; a boot that
switches accounts.

Run `browser`: two accounts, one read at a time, two forms or requests at a
time. Two reads at a time share one generation, so an older one can overrule a
newer one: `UserStands` does not speak of that (both are begun by no explicit
act). Proved for any number of accounts, reads and forms: types and
`UserStands`. The invariant is that an explicit act marks every read under way
as stale, and only a later read lifts the mark. Also proved, for any number of
reads and forms that overlap, is `KeyIsUsers` (`KeysInv`): a key is only ever on
its way for the account that is the user, and while it is, nobody else becomes
the user, or the step is one of the excused; after a reload the user is not known
yet, and the stored key is that of the account the reads under way will name.

## 5. The gate: ConcurrencyGate

`Enter` is `gate.run`; `Begin`, `Settle`, `Finish` are the function given to it,
the model call, and `finally(release)` with the rest of the handler;
`WaitTimeout` is an entry's timer; `Leave` is the response closing early, at any
moment. The call starts in a later microtask than the one that took the slot, so
admission and start are two steps; `release` decrements and the entry it starts
increments again in the same microtask: one step.

Run `gate`: four calls, one slot as in production, two places: slots and queue
are full together, and one more call is refused. `EveryCallAnswered` is checked
under weak fairness of each call's own progress, which the code justifies: the
health check and the model call have abort timers (`lib/ollama.js`), a waiting
entry has its own, and microtasks run before anything else. Nothing is assumed
of clients.

Proved for any finite set of calls, any slots and places: types, the slot count
(`SlotsAccounted`), `QueueHonest`, `NoOvertaking`. The invariants hold only
together: a slot is handed on without changing the count because the queue holds
exactly the waiting calls, once each; nobody enters past a waiter because a
waiter implies that every slot is taken.

## 6. The shell: SectionRegistry

Each `activate()` is an attempt: it loads code, prepares stylesheet and
template, commits (tears the visible section down) and mounts, and can be
outlived by a newer attempt at each await. `SwitchLanguage` and the 404 branch
of `activateFromUrl` are as the shell drives them. `Late` are sections whose
mount paints after an unguarded await (`stream/index.js:165`).

Run `sections`: a section, one that paints late, a landing page, four
activations. Safety: one live section, cleanups released even when registered
late, the open editor survives failed and superseded navigations, the URL's
section is on screen when nothing is in flight; liveness: every attempt ends,
under weak fairness of each attempt, since the browser ends every import, fetch
and stylesheet one way or the other. `UrlIsShown` leaves out what the code does
not prevent (`crossed`, `Overpainted`): section 11. Proved for any sections and
number of attempts: types, `OneLiveSection`, `NothingLeftBehind`,
`EditorSurvives`, `UrlIsShown`, and that what is painted is the visible
section's. The invariant adds that attempts are numbered by their beginning and
that the pending one is the newest; for the URL (`AddressInv`), that the newest
attempt is always for the URL's section, unless the excused language switch
crossed it, so that with nothing in flight it is the one on screen.

## 7. The Inspector: InspectorPane, CreativePreview, Migration

**InspectorPane.** `Analyze` starts a run, which goes through the dialect probe,
the fetch and the intelligence call; `current` is the run that may still paint,
`panel` the one that did. Writers of the editor are actions: typing, pasting,
history, saved and demo loads (an await before they land), the mirror, clearing,
the language switch with its parked text. `rawBefore` and `prettyPrinted` keep
the bytes the server must get.

Run `inspector`: one payload in two spellings, two settings, two analyses, one
load, two mounts. `VerdictIsForPane` (what is on screen, or may still come, is
about the text and settings on screen), `EvidenceTravels` (the server gets the
bytes last put into the editor), `NoAnalysisLost` (a saved sample never lands on
an analysis started after it was asked for), `AnalysisEnds` under weak fairness
of each run, since fetches end. A demo payload has no such guard: it may land on
edits made meanwhile (`ortbtools.app.js:7451`). Proved for any payloads,
settings and bounds: types and the three safety properties; the invariant says
that a run is current or on screen only while nobody changed the text it was
started with, but for the run's own pretty-print.

**CreativePreview.** A document in the frame is a number, which stands for its
channel and creative revision. The probe observes events, refuses resources and
beats; `mail` is on its way to the page, and survives its document. `SetAdPreview`
replaces everything; a batch of images ends by pointing the *same* frame to a
rewritten document (`RePoint`). Every render of the Behavior tab outdates the
requests before it. `EvidenceIsItsOwn`: the log is the newest part of what the
document on screen reported, in order, and a thread that fell silent after it was
heard is called frozen, whatever is refused or late. `ColumnIsOneDocument`: the
ledger counts this document's refusals, each once, or says it is not whole; the
bytes the static rules read are those in the frame; findings are painted for the
log and bytes as they are; the frame is what was asked for last. Bounds: two
previews (or one re-pointed), two events over a log of one, two refusals over a
ledger of one and a third too long to list, two messages on their way: the
smallest at which log and ledger overflow and a message outlives its document.
`PreviewIsOneDocument` is the two together. It is proved for any caps (a log of
at least one), documents, events, refusals and messages on their way. The
invariant (`PreviewInv`): the number of the document on screen is newer than
whatever earlier documents still have in the mail; its own mail arrives in the
order it was posted; of its events the log has the newest and the mail the rest;
and each of its refusals is in the ledger, on its way, or behind a sign that the
ledger is not whole. The watchdog's alert is late at most, never early.

**Migration.** The nine promotion rules with their pairing, the list as drawn,
ticks, Apply (which asks the advisor again) and Undo, beside an editor that
changes under the list. `NothingLost`: whatever is ticked and however old the
list, Apply loses no value and overwrites none. `AdviceIsSpent` (what was applied
is not proposed again) also holds on these instances; no run keeps it.

`NothingLost` is proved for any texts, contexts and impressions, any edits and any
ticks. It needs no invariant, since Apply asks the advisor about the text as it is
and applies only what both lists propose. The argument: a promotion's target is
nobody's source and no other promotion's target; a removal is proposed only where
the value is in its place already or together with the addition that puts it
there; and the pairing keeps the two halves in one tick, so a removal is never
applied without its addition.

## 8. Production: Deploy

An action is one command of a script that changes the state file, `.env` or the
container. A script can be killed between two of them (`Kill`), the host can
reboot, the process can die, an operator can `docker compose up`, and nothing
keeps two scripts apart. `smoke.sh` is one step: it passes on the build whose
SHA it asked for.

Run `deploy`: two builds, three invocations. `EnvIsVerified` holds even when
scripts overlap; `BootServesVerified` and `StateTellsTruth` except behaviours in
which a script began to act while another was acting (`mixed`), since `docker
update` then arms the other's container. Proved for any builds and scripts: types
and all three. The invariant: while one script acts at a time the status is in
flight, the container is the one that script made, and what it has pinned and
armed still stands, so a settled status, written last, finds all three as it says.
A deploy after a failed one takes over a rollback target that may never have been
verified (`deploy.sh:136`); it is not what a boot would serve.

## 9. One account's data: AccountData

A request is one step up to the await of its body, one from it, and one when the
request logger writes its row. Three routes store mappings; `Import` moves them;
`Consult` is analyze reading through the cache. Time is in ticks that divide the
flush timeout and the purge's wait, which are equal in the code (five seconds):
timers of equal length fire in the order they were set, the tie the model
allows. `Restart` loses buffers and an unfinished purge.

Run `account_data`: any three requests in any overlap, two dialects, two
mappings, timers of two ticks, one deletion. `ErasedStaysErased` is about what
the purge did erase; it assumes that ClickHouse does not apply an insert later
that was aborted. `SecondDefaultIsStaleEdit` says the one way to two default
dialects (section 11). Proved for any requests, dialects, mappings and any
timers with flush timeout at most the wait: types and all four. The argument:
from the deletion's turn no row gets the id, what is on its way ages with the
wait, so nothing is on its way at the first DELETE; ids are never reused, so a
request that read a mapping before its body can only mean that mapping.

## 10. Core and services

**Listing.** What `packages/core` does with `sort` and `filter`, without
recursion: the place of an element is the number of those before it. Lemmas say
what the two return for any finite set and any sequence: each element once, in
order, and no other. With them `Validator` and `Mirror` need no fold.

**Validator** (run `core`): a job is one analyze request. Each pane is detected,
its rule families run (each may find things of every level, or throw), findings
are filtered, deduplicated and sorted, panes united, the status recomputed.
`ValidatorIsSound`: no error gets lost on that way (`ErrorsAreSaid`), an analysis
in which a family threw is never called clean (`CleanIsComplete`), the report is
in its public order with no finding twice (`ReportIsCanonical`), and the browser's
hand-written copy of the detector commits to a side only as the validator does
(`DetectorsAgree`). Proved for any jobs whose panes have shapes the detectors
tell apart (`JobsAssumption`), and any number of findings and failing families.
The invariant (`VInv`): whatever was raised for a pane is in hand or in the pane's
result, filtered by what the user asked for; a pane's result is its findings, each
once and in order, with a status no better than they are; a family that threw is remembered
in one of the two; and the report, once made, is the union of the panes.

**Mirror** (run `core`): `MirrorIsSound`: the generator's output passes the
crosscheck at once where its fixed creative fits the document
(`FittingIsClean`), and once both documents are its own, unless two bids share an
impression (`SettlesClean`);
a mirrored bid of a cent or more clears its floor (`BidsClear`). Over
30,000 documents, mirrored up to three times. Money is in mills, so rounding to
cents shows; floats' binary fractions do not. `vastDurationGuess` needs whole
seconds; the structured carrier `bid.native` is left out.

Proved for any documents no longer than the list of given ids (`imp-1`, `imp-2`,
..., none of which spells a number; `DefaultIdsAssumption`) whose members have the
types `DocumentsAssumption` names, mirrored any number of times. The invariant
(`MInv`): the newest document was written for the other, and from the second press
on the other was written for one that has been replaced. The rest is about two
documents, not about steps: what each direction writes fits the other
(`RequestIsFitting`, `ResponseIsFitting`), and a written document is clean against
the one it was written for (`AnswerIsClean`, `SlotIsClean`). Two exceptions are in
the property because the proof asked for them and TLC confirmed each with a
document of its own: `Twinned`, two impressions of one id (the generator bids on
both, the crosscheck holds both bids against the last), and two bids whose ids are
one key spelled as a string and as a number (`Doubled`).

**Editorial** (run `services`): a ClickHouse update is a mutation, registered and
applied later in order, and one whose request timed out may still be registered.
`PromotedHasArticle` and `ArticlesAreKept` hold through every late mutation,
retry, crash and second decision. Three decisions about two drafts: a decision, a
retry and one from the other producer. Both are proved for any drafts, slugs,
administrators, attempts and limits, with finitely many slugs and with names for
nobody, the operator and a torn file that are no draft's (`ServicesAssumption`).
The invariant (`EditorialInv`): whatever could still promote a draft (a row, a
registered or late mutation, a decision under way that has written) finds the
draft's article at its slug; and an attempt that may take an article away again
made it itself and has no update left that could be applied.

**ShareLinks** (run `services`): `CeilingsHold`: no address stores more than two
budgets in any day unless its period was forgotten in it, and once a process has
swept, the table stays within twice the cap. Five ticks, two days of two.
It is proved for any addresses, sizes and limits, from a link living at least as
long as a budget's period (`LinksAssumption`: `MIN_TTL_DAYS` is one day). The
invariant (`LinksInv`) says why twice: what an address stored since its period
began is charged to it, what it stored on the day before that was one budget too,
and any day is covered by the two; what is on disk is alive, or was alive together
with the rest at the last sweep. Table and sweep recur over the rows (`Sums`,
`Keeping`), unfolded by the well-foundedness of the naturals as in `LiveStream`.

**LiveStream** (run `key_and_feed`, second half): `server` is the process with the
table of specimens, `line` the page's socket and probes, `table` the rows and what
Pause holds back, `grading` the FINDINGS column. A frame is its number, since each
emission has its own hash; what is written to a connection is `wire`, lost when it
drops. A slot is held until the server notices: by a close, or an error and then a
close. A refusal ends the socket for good, so the page retries and asks why with a
probe that takes a slot itself. `TableIsFeed`: after any drops, restarts, replays,
pauses and evictions the table is the newest frames taken, once each and in order
of emission; a new connection owes none that the ring can still give; rows are
shown as their grade and the filter say, and one without a grade is being asked
for, unless the page gave up. `SlotsAreViewers`: slots are the viewers not yet
cleaned up, the generator runs just while there is one, and what is replayed can
be opened by its link. Three frames overflow a ring, a table of specimens and a
memory of hashes that hold fewer; one slot is what two tabs contend for; one
request of one source is overtaken by the second source, and is the budget. The
limits satisfy what the code's do (`FeedLimits`). Grading that ends at all is not
claimed: it rests on a fetch and is stated as the safety above.

Both are proved for any limits that satisfy `FeedLimits`, any corpus, frames,
connections and probes. For the slots (`FeedInv`): the count is that of the
connections not cleaned up, the page's own connection is always one of them, and
ring and specimens both end with the newest frame, the ring the shorter. For the
table (`PageInv`), which needs all of it at once: frames on their way are in
order, and each was taken already or is newer than all that were; a replay brings
back no frame the page passed over, because frames are numbered one by one and
the page remembers at least as many as a replay has (`ReplayMax <= SeenMax`);
rows and what Pause holds, read from their newest end, are what was taken, also
while a resume adds what was held, row by row; each row has its source's grade or
its source is queued; and what is queued has a request. The two loops of the page
that recur over a sequence, `Adding` and `Leaving`, are unfolded by the
well-foundedness of the naturals. The memory of hashes being as long as a replay
is thus what the page's correctness rests on: `SEEN_MAX` is 400, `STREAM_REPLAY_MAX`
50.

## 11. Where code and documents disagree

Found while modelling. Two are runs that end in a counterexample:

* `setup_twice`: `handleSetupEncryption` checks, awaits the body, and writes
  without looking again; PRIVACY.md and the comment say the second call is
  rejected. The second replaces a recovery key the user was already shown.
* `verdict_stands`: `setEditorValue` calls itself "the one way to put text into
  an editor from code"; the mirror window and the parked text go past it.

The others are read from the code; where a property states them, it is in the
module, marked false, and no run checks it:

* *Sessions.* `db.js:1072` says a session survives a crash; since the journal it
  does not, by design (OPERATIONS.md says so). `session.js:169` installs a new key
  before the server has its wrap: refused or lost, samples are saved under a key
  no wrap holds. `session.js:163-176` brings a key back after sign-out wiped it
  (`NoKeyForNobody`), against `session.js:24` and data-retention.md:41.
* *Shell.* A late mount paints over its successor (`stream/index.js:165`); a
  language switch asks for the section still visible, not the URL's
  (`shell-boot.js:331`, `lang-switch.js:374-387`); an older activation takes the
  newer one's failure notice away (`shell-boot.js:135`); a landing page is mounted
  again by a guard that looks at the wrong thing (`shell-boot.js:166`); a language
  switch and the mirror lose the original bytes (`ortbtools.app.js:715`,
  `lang-switch.js:578`).
* *Live feed.* A probe answered 429 after the retry has opened is recorded all the
  same (`stream/index.js:402`), so the next plain drop is explained as too many
  open streams, against the comment at 142.
* *Preview.* A re-pointed frame keeps the watchdog's clock
  (`ortbtools.app.js:2541-2554`), so a freeze can be reported for a document that
  has not spoken (`AlertIsItsOwn`), against the comments at 1308-1311 and
  "watchdog must reset alongside the iframe ref". Specification 012 §3 promises a
  word on refusals too long to list; when only those came, the ledger renders
  nothing. §2 promises no image button on Native creatives; the branch offers it.
  §4 says the analysed bytes are those mounted; the frame guard rewrites the
  mounted ones. `creative-probe.js` wraps `addEventListener` (hook 4), so
  `removeEventListener` of the original listener matches nothing, and the `on*`
  setters (hook 5) keep every earlier handler. `rules/malicious.js:126` speaks of
  800 ms after a click; the probe's grace is 500.
* *Deploy.* OPERATIONS.md says a rollback cut off in ROLLING_BACK can be repeated;
  no target is recorded there (`rollback.sh:55-61`, `RollbackResumes`). Its table
  of interrupted states does not cover a kill before `up` or after arming.
* *Data.* `dialects/handler.js:257-275` reads a dialect before the body: an edit
  overtaken by another default leaves two rows with `is_default = 1`, and
  `getDefaultDialectForUser` takes either; an activating edit of a dialect dropped
  meanwhile unsets the others and answers 200. A purge lives in memory: shutdown
  or crash loses it, while PRIVACY.md:412-417 names only ClickHouse refusing.
  `event-log.js:19` says the buffer is drained on exit; `process.exit` does not
  wait.
* *Core.* `index.js:590` says "a clean self-test is the contract" (`SelfTestClean`):
  audio-only slots, video without protocol 7, mp4 or a fitting duration, numeric
  ids, two impressions of one id and block lists naming the generator's advertiser give a CRIT;
  `mirror.js:412` is not true of prices under a cent. An `openrtb` envelope with
  both children raises no ambiguity finding (core-validator.md:79). `{imp,
  seatbid}` with `bid.item` is a BidRequest of version 3.0, though `detect.js` says
  its two axes cannot drift apart. With `payload.*` disabled an invalid pane loses
  its status in the union (`analyze/handler.js:310`). `lib/replay.js` takes its
  status from the request's validation alone.
* *Migration.* Editing the text and applying a list that is stale throughout shows
  an Undo, which may bring older text back (`UndoIsHonest`); a `cattax` drawn as
  certain is applied when the edited text makes it a matter of review
  (`ReviewIsChosen`).
* *Editorial.* The moderator decides about what it read before its model calls and
  overwrites a rejection made since (`RejectionStands`); a file torn by a crash
  makes the promised retry answer 409 `slug_exists`; the daily limit is read once
  per run.
* *Share links.* The byte budget is of a fixed period, not "rolling 24 h"
  (`gists/handler.js:83`); the daily sweep starts over with each process, so it
  never runs where none lives a day (`SweptDaily`, PRIVACY.md:181-182).

## 12. What the checks do not show

*Only model-checked*: liveness (`EveryCallAnswered`, `AttemptsEnd`,
`AnalysisEnds`), which is out of the prover's reach as ENABLED is. Every safety
invariant and action property of a passing run is a theorem. What the proofs take
from the instances is nothing but the named assumptions; what they do not cover is
what the models leave out.

*Not modelled.* Modal host: one node and one handle, closed before another
opens. Exchange rates: one object replaced as a whole and shown with its age.
Of the live feed: cells, labels and rates, other
addresses, and `lib/replay.js` beyond the grade it gives, which keeps nothing.
Asset fetch: no state between two calls; here only what it answers. SEO, landings, static
assets: text rendered from what does not change. Mail: best-effort calls; the
link it carries is in `AuthSessions` and `AccountCrypto`. Diff: a pure recursive
comparison whose interesting inputs are deep trees. The rule families, TC-string
and vendor-format checks, behaviour rules, probe hooks, and all markup: pure
functions over data, or the browser's. The cryptography itself, cookie
attributes and rate limits in front of sign-in are taken as they are. Most of
the repository's lines are of these kinds: rules, text, translations, markup.

*Left open.* Overlapping reads of the session in one tab are run with one at a
time (the theorems are for any number); a moderator's run across midnight, two frames, and ClickHouse applying
an insert it was told to abandon.
