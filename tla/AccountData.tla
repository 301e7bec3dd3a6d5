----------------------------- MODULE AccountData -----------------------------
(***************************************************************************)
(* What the server keeps of one account outside its sign-in: the custom    *)
(* dialects with their mappings and the cache analyze reads them through   *)
(* (modules/dialects/handler.js, user-dialect-runtime.js), the rows that   *)
(* carry its id in ClickHouse on their way through two write buffers       *)
(* (lib/event-log.js, lib/product-telemetry.js), and the deletion of the   *)
(* account, which must empty both (handleDeleteAccount, analytics-purge.js).*)
(*                                                                         *)
(* A request is one step up to the await of its body, one from it, and one *)
(* when its response has gone out and the request logger writes its row.   *)
(*                                                                         *)
(* Abstractions: names, labels and notes are left out, and the signals are *)
(* one path: a mapping is for the path (version 2) or for a value at it.   *)
(* A buffer, a post or a table either holds a row of the account or not;   *)
(* rows of nobody are not followed.  Time is in ticks that divide the two  *)
(* five-second timers.  ClickHouse is external: a post that was aborted is *)
(* not applied later, and DELETE is done when it is answered.              *)
(***************************************************************************)
EXTENDS Naturals, FiniteSets

CONSTANTS
  Requests,      \* requests that reach the server, each once
  DialectCap,    \* library-quota: dialects of an account
  MappingCap,    \* library-quota: mappings of an account
  FlushTimeout,  \* ticks until an insert is given up
  Settle,        \* ticks the purge waits after flushing
  DialectIds, MappingIds  \* bounds: 1 .. the ids AUTOINCREMENT can reach

ASSUME CapAssumption == DialectCap \in Nat /\ MappingCap \in Nat
ASSUME TimerAssumption == FlushTimeout \in Nat \ {0} /\ Settle \in Nat /\ FlushTimeout <= Settle
ASSUME IdAssumption ==
  /\ DialectIds \subseteq Nat \ {0} /\ IsFiniteSet(DialectIds)
  /\ MappingIds \subseteq Nat \ {0} /\ IsFiniteSet(MappingIds) /\ 1 \in MappingIds

VARIABLES
  \* SQLite
  account,   \* the users row is there
  dialects,  \* rows of user_dialects
  default,   \* those with is_default = 1
  mappings,  \* rows of dialect_mappings
  used,      \* ids given out: AUTOINCREMENT never gives one twice
  \* the server process
  cache,     \* dialects loaded for analyze, with their mappings
  request,   \* how far a request is, with what it read before its body came
  buffer,    \* the write buffer of a table holds a row of the account
  posts,     \* ages of the inserts under way that carry one
  purge,     \* the erasure that follows the deletion
  \* ClickHouse
  table      \* a table holds a row of the account

library   == <<account, dialects, default, mappings, used>>
analytics == <<buffer, posts, purge, table>>
vars == <<library, cache, request, analytics>>

Tables == {"events", "product"}
Mapping == [id : MappingIds, dialect : DialectIds, path : BOOLEAN]

\* A request waits for its body on one of these routes.
Routes == {"create", "edit", "map", "remap", "import", "beacon", "delete"}
Nothing == [at |-> "unsent", route |-> "none", dialect |-> 0, mapping |-> 0, was |-> FALSE]

RowsOf(d) == {m \in mappings : m.dialect = d}
Cleared == [held |-> FALSE, rows |-> {}]

\* The next ids AUTOINCREMENT gives out.
Fresh(ids, taken) == {i \in ids \ taken : \A j \in ids \ taken : i <= j}

-----------------------------------------------------------------------------
(* Requests.                                                               *)
Answered(r) == request' = [request EXCEPT ![r] = [Nothing EXCEPT !.at = "answered"]]
Awaiting(r, step) == request' = [request EXCEPT ![r] = step]

\* A handler up to its readJson: the caller is known, the dialect or mapping
\* it is about is read and is the caller's.
Open(r, route) ==
  /\ request[r] = Nothing /\ account
  /\ route \in {"create", "import", "beacon", "delete"}
  /\ Awaiting(r, [Nothing EXCEPT !.at = "body", !.route = route])
  /\ UNCHANGED <<library, cache, analytics>>

OpenOnDialect(r, route, d) ==
  /\ request[r] = Nothing /\ account
  /\ route \in {"edit", "map"} /\ d \in dialects
  /\ Awaiting(r, [Nothing EXCEPT !.at = "body", !.route = route, !.dialect = d,
                                 !.was = d \in default])
  /\ UNCHANGED <<library, cache, analytics>>

OpenOnMapping(r, m) ==
  /\ request[r] = Nothing /\ account
  /\ m \in mappings
  /\ Awaiting(r, [Nothing EXCEPT !.at = "body", !.route = "remap",
                                 !.dialect = m.dialect, !.mapping = m.id])
  /\ UNCHANGED <<library, cache, analytics>>

Due(r, route) == request[r].at = "body" /\ request[r].route = route

\* 400, 401, 404, 413, 429: before the body or after it.
Refuse(r) ==
  /\ request[r].at \in {"unsent", "body"}
  /\ Answered(r)
  /\ UNCHANGED <<library, cache, analytics>>

-----------------------------------------------------------------------------
(* Dialects.  The transactions are synchronous: each is one step.          *)

\* unsetDefaults; the rows of one account are all there are.
KeepDefaults == default
UnsetDefaults == {}

\* handleCreate after the body: an INSERT for an account that is gone fails.
Create(r, d, active) ==
  /\ Due(r, "create") /\ account
  /\ Cardinality(dialects) + 1 <= DialectCap
  /\ d \in Fresh(DialectIds, used.dialects)
  /\ dialects' = dialects \cup {d}
  /\ default' = IF active THEN UnsetDefaults \cup {d} ELSE default
  /\ used' = [used EXCEPT !.dialects = @ \cup {d}]
  /\ Answered(r)
  /\ UNCHANGED <<account, mappings, cache, analytics>>

\* handleUpdate after the body: what the dialect was is what it was before.  A
\* dialect dropped meanwhile is updated in no row, and answered all the same.
Edit(r, asked) ==
  LET d == request[r].dialect
      active == IF asked = "absent" THEN request[r].was ELSE asked = "on"
      others == IF active /\ ~request[r].was THEN UnsetDefaults ELSE default
  IN  /\ Due(r, "edit")
      /\ default' = IF active THEN others \cup ({d} \cap dialects) ELSE others \ {d}
      /\ Answered(r)
      /\ UNCHANGED <<account, dialects, mappings, used, cache, analytics>>

\* clearCacheForDb
Clear(d) == cache' = [cache EXCEPT ![d] = Cleared]

\* handleDelete: the mappings go with the row.
Drop(r, d) ==
  /\ request[r] = Nothing /\ account
  /\ d \in dialects
  /\ dialects' = dialects \ {d} /\ default' = default \ {d}
  /\ mappings' = mappings \ RowsOf(d)
  /\ Clear(d)
  /\ Answered(r)
  /\ UNCHANGED <<account, used, analytics>>

\* assertPathAvailable, for all rows but one.
PathFree(d, path, but) ==
  path => ~ \E m \in RowsOf(d) : m.path /\ m.id # but

\* handleCreateMapping after the body.
Map(r, i, path) ==
  LET d == request[r].dialect
  IN  /\ Due(r, "map") /\ d \in dialects
      /\ Cardinality(mappings) + 1 <= MappingCap
      /\ PathFree(d, path, 0)
      /\ i \in Fresh(MappingIds, used.mappings)
      /\ mappings' = mappings \cup {[id |-> i, dialect |-> d, path |-> path]}
      /\ used' = [used EXCEPT !.mappings = @ \cup {i}]
      /\ Clear(d)
      /\ Answered(r)
      /\ UNCHANGED <<account, dialects, default, analytics>>

\* handleUpdateMapping after the body, which may ask for either scope; a
\* mapping removed meanwhile stays removed.
RemapKept(r, path) ==
  /\ Due(r, "remap")
  /\ PathFree(request[r].dialect, path, request[r].mapping)
  /\ mappings' = {IF m.id = request[r].mapping THEN [m EXCEPT !.path = path] ELSE m : m \in mappings}
  /\ Answered(r)
  /\ UNCHANGED <<account, dialects, default, used, cache, analytics>>

Remap(r, path) ==
  /\ Due(r, "remap")
  /\ PathFree(request[r].dialect, path, request[r].mapping)
  /\ mappings' = {IF m.id = request[r].mapping THEN [m EXCEPT !.path = path] ELSE m : m \in mappings}
  /\ Clear(request[r].dialect)
  /\ Answered(r)
  /\ UNCHANGED <<account, dialects, default, used, analytics>>

\* handleDeleteMapping
Unmap(r, m) ==
  /\ request[r] = Nothing /\ account
  /\ m \in mappings
  /\ mappings' = mappings \ {m}
  /\ Clear(m.dialect)
  /\ Answered(r)
  /\ UNCHANGED <<account, dialects, default, used, analytics>>

\* handleImport: pathIdentities refuses a file that maps the path twice.
Repeated(paths) == FALSE
Duplicate(paths) == Cardinality(paths) > 1

\* handleImport after the body: a new dialect, never active, with the value
\* mappings and the path mappings of the file.
Import(r, d, rows, paths) ==
  /\ Due(r, "import") /\ account
  /\ paths \subseteq rows /\ ~Duplicate(paths)
  /\ Cardinality(dialects) + 1 <= DialectCap
  /\ Cardinality(mappings) + Cardinality(rows) <= MappingCap
  /\ d \in Fresh(DialectIds, used.dialects)
  /\ rows \subseteq MappingIds \ used.mappings
  /\ \A i \in rows : \A j \in MappingIds \ (used.mappings \cup rows) : i < j
  /\ dialects' = dialects \cup {d}
  /\ mappings' = mappings \cup {[id |-> i, dialect |-> d, path |-> i \in paths] : i \in rows}
  /\ used' = [dialects |-> used.dialects \cup {d}, mappings |-> used.mappings \cup rows]
  /\ Answered(r)
  /\ UNCHANGED <<account, default, cache, analytics>>

\* analyze and suggest: getDefaultDialectForUser takes one of the defaults, and
\* loadUserDialect the cached copy unless its minute is over.
Consult(r, d, expired) ==
  /\ request[r] = Nothing /\ account
  /\ d \in default
  /\ cache' = IF cache[d].held /\ ~expired THEN cache
              ELSE [cache EXCEPT ![d] = [held |-> TRUE, rows |-> RowsOf(d)]]
  /\ Answered(r)
  /\ UNCHANGED <<library, analytics>>

-----------------------------------------------------------------------------
(* Analytics rows.                                                         *)

\* getCurrentUser at the moment a row is written.
CallerKnown == account

\* record and recordProductEvent: a row with the caller's id, or with none.
Buffered(t) == buffer' = IF CallerKnown THEN [buffer EXCEPT ![t] = TRUE] ELSE buffer

\* handleBeacon after the body.
Beacon(r) ==
  /\ Due(r, "beacon")
  /\ Buffered("product")
  /\ Answered(r)
  /\ UNCHANGED <<library, cache, posts, purge, table>>

\* attachRequestLogger on 'finish': errors always, one in ten of the rest.
Finish(r, logged) ==
  /\ request[r].at = "answered"
  /\ IF logged THEN Buffered("events") ELSE UNCHANGED buffer
  /\ request' = [request EXCEPT ![r].at = "done"]
  /\ UNCHANGED <<library, cache, posts, purge, table>>

\* flushNow: the rows leave the buffer in an insert nobody waits for.
Posted(t) == IF buffer[t] THEN posts[t] \cup {0} ELSE posts[t]

Flush(t) ==
  /\ buffer[t]
  /\ buffer' = [buffer EXCEPT ![t] = FALSE]
  /\ posts' = [posts EXCEPT ![t] = Posted(t)]
  /\ UNCHANGED <<library, cache, request, purge, table>>

\* postBatch, chInsert: ClickHouse applies the insert ...
Land(t) ==
  /\ posts[t] # {} /\ ~table[t]
  /\ table' = [table EXCEPT ![t] = TRUE]
  /\ UNCHANGED <<library, cache, request, buffer, posts, purge>>

\* ... and answers, or fails, or is given up; the rows are dropped then.
PostEnds(t, age) ==
  /\ age \in posts[t]
  /\ posts' = [posts EXCEPT ![t] = @ \ {age}]
  /\ UNCHANGED <<library, cache, request, buffer, purge, table>>

Overdue == \E t \in Tables : FlushTimeout \in posts[t]
Settling == purge.at = "settle"

\* Time passes up to the next timer.
Tick ==
  /\ ~Overdue /\ ~(Settling /\ purge.age = Settle)
  /\ Settling \/ \E t \in Tables : posts[t] # {}
  /\ posts' = [t \in Tables |-> {age + 1 : age \in posts[t]}]
  /\ purge' = IF Settling THEN [purge EXCEPT !.age = @ + 1] ELSE purge
  /\ UNCHANGED <<library, cache, request, buffer, table>>

\* handleDeleteAccount once the password is proved: the transaction, and in the
\* same turn of the loop purgeUserAnalytics up to its wait.
DeleteAccount(r) ==
  /\ Due(r, "delete") /\ account
  /\ account' = FALSE
  /\ dialects' = {} /\ default' = {} /\ mappings' = {}
  /\ posts' = [t \in Tables |-> Posted(t)]
  /\ buffer' = [t \in Tables |-> FALSE]
  /\ purge' = [purge EXCEPT !.at = "settle"]
  /\ Answered(r)
  /\ UNCHANGED <<used, cache, table>>

\* settleMs is over; a timer set earlier for the same length has fired.
SettledEarly == purge.age + 1 >= Settle
Settled == purge.age = Settle /\ ~Overdue

SettleEnds ==
  /\ Settling /\ Settled
  /\ purge' = [purge EXCEPT !.at = "events", !.age = 0]
  /\ UNCHANGED <<library, cache, request, buffer, posts, table>>

Following(t) == IF t = "events" THEN "product" ELSE "ended"

\* DELETE FROM t: answered; or refused or timed out, done or not.
Delete(t, worked, applied) ==
  /\ purge.at = t /\ (worked => applied)
  /\ table' = IF applied THEN [table EXCEPT ![t] = FALSE] ELSE table
  /\ purge' = [purge EXCEPT !.at = Following(t), !.erased = IF worked THEN @ \cup {t} ELSE @]
  /\ UNCHANGED <<library, cache, request, buffer, posts>>

\* The process ends: the shutdown hook posts what is buffered and process.exit
\* does not wait for it; a purge under way is forgotten.
Restart(landed) ==
  /\ landed \subseteq {t \in Tables : buffer[t] \/ posts[t] # {}}
  /\ request' = [r \in Requests |-> IF request[r] = Nothing THEN Nothing
                                    ELSE [Nothing EXCEPT !.at = "done"]]
  /\ cache' = [d \in DialectIds |-> Cleared]
  /\ buffer' = [t \in Tables |-> FALSE] /\ posts' = [t \in Tables |-> {}]
  /\ table' = [t \in Tables |-> table[t] \/ t \in landed]
  /\ purge' = IF purge.at = "none" THEN purge ELSE [purge EXCEPT !.at = "ended", !.age = 0]
  /\ UNCHANGED library

-----------------------------------------------------------------------------
\* A database as earlier requests can have left it: within its caps, and with at
\* most one default.
Init ==
  /\ account = TRUE
  /\ \E n \in 0 .. Cardinality(DialectIds) : dialects = {d \in DialectIds : d <= n}
  /\ default \in {{}} \cup {{d} : d \in dialects}
  /\ mappings \in {{}} \cup {{[id |-> 1, dialect |-> d, path |-> p]} : d \in dialects, p \in BOOLEAN}
  /\ Cardinality(dialects) <= DialectCap /\ Cardinality(mappings) <= MappingCap
  /\ used = [dialects |-> dialects, mappings |-> {m.id : m \in mappings}]
  /\ cache = [d \in DialectIds |-> Cleared]
  /\ request = [r \in Requests |-> Nothing]
  /\ buffer = [t \in Tables |-> FALSE] /\ posts = [t \in Tables |-> {}]
  /\ table = [t \in Tables |-> FALSE]
  /\ purge = [at |-> "none", age |-> 0, erased |-> {}]

RequestComes(r) ==
  \/ \E route \in Routes : Open(r, route) \/ \E d \in DialectIds : OpenOnDialect(r, route, d)
  \/ \E m \in mappings : OpenOnMapping(r, m) \/ Unmap(r, m)
  \/ \E d \in DialectIds : Drop(r, d) \/ \E expired \in BOOLEAN : Consult(r, d, expired)

BodyComes(r) ==
  \/ \E d \in DialectIds, active \in BOOLEAN : Create(r, d, active)
  \/ \E asked \in {"absent", "on", "off"} : Edit(r, asked)
  \/ \E i \in MappingIds, path \in BOOLEAN : Map(r, i, path)
  \/ \E path \in BOOLEAN : Remap(r, path)
  \/ \E d \in DialectIds, rows, paths \in SUBSET MappingIds : Import(r, d, rows, paths)
  \/ Beacon(r) \/ DeleteAccount(r)

Writes ==
  \/ \E t \in Tables : Flush(t) \/ Land(t) \/ \E age \in 0 .. FlushTimeout : PostEnds(t, age)
  \/ Tick \/ SettleEnds
  \/ \E t \in Tables, worked, applied \in BOOLEAN : Delete(t, worked, applied)

Next ==
  \/ \E r \in Requests :
       \/ RequestComes(r) \/ BodyComes(r) \/ Refuse(r)
       \/ \E logged \in BOOLEAN : Finish(r, logged)
  \/ Writes
  \/ \E landed \in SUBSET Tables : Restart(landed)

Spec == Init /\ [][Next]_vars

-----------------------------------------------------------------------------
\* Once the purge deleted a table's rows of the account, none is there again,
\* none is buffered and none is on its way: no request that was under way, no
\* beacon and no insert comes in behind the DELETE (analytics-purge.js: "so a
\* late INSERT does not land after the DELETE"); and nothing is stored in the
\* library of an account that is gone.
ErasedStaysErased ==
  /\ \A t \in purge.erased : ~table[t] /\ ~buffer[t] /\ posts[t] = {}
  /\ ~account => dialects = {} /\ mappings = {}

\* An account that has at most one default dialect gets a second one in one way
\* only: an edit that read its dialect as the default, and was overtaken while
\* its body came, writes it back without unsetting the other (handleUpdate).
SecondDefaultIsStaleEdit ==
  [][Cardinality(default) <= 1 /\ Cardinality(default') > 1
       => \E r \in Requests :
            /\ Due(r, "edit") /\ request[r].was
            /\ request[r].dialect \in default' \ default]_vars

\* "analyze must see the new mapping immediately" (dialects/handler.js): a copy
\* analyze would use holds what is saved.
AnalyzeSeesSaved ==
  \A d \in dialects : cache[d].held => cache[d].rows = RowsOf(d)

\* A dialect has at most one mapping for the path, by whichever of the three
\* routes they came, and the account stays within its caps.
LibraryInOrder ==
  /\ \A m, n \in mappings : m.path /\ n.path /\ m.dialect = n.dialect => m = n
  /\ Cardinality(dialects) <= DialectCap /\ Cardinality(mappings) <= MappingCap

Request ==
  [at : {"unsent", "body", "answered", "done"}, route : Routes \cup {"none"},
   dialect : DialectIds \cup {0}, mapping : MappingIds \cup {0}, was : BOOLEAN]

\* Types; an id is a row's only once, and mappings belong to a dialect.
TypeOK ==
  /\ account \in BOOLEAN
  /\ default \subseteq dialects /\ dialects \subseteq used.dialects
  /\ mappings \subseteq Mapping /\ \A m \in mappings : m.dialect \in dialects /\ m.id \in used.mappings
  /\ used \in [dialects : SUBSET DialectIds, mappings : SUBSET MappingIds]
  /\ \A m, n \in mappings : m.id = n.id => m = n
  /\ cache \in [DialectIds -> [held : BOOLEAN, rows : SUBSET Mapping]]
  /\ request \in [Requests -> Request]
  /\ \A r \in Requests : request[r].route \in {"edit", "map", "remap"} => request[r].dialect \in DialectIds
  /\ buffer \in [Tables -> BOOLEAN] /\ table \in [Tables -> BOOLEAN]
  /\ posts \in [Tables -> SUBSET (0 .. FlushTimeout)]
  /\ purge \in [at : {"none", "settle", "ended"} \cup Tables, age : 0 .. Settle, erased : SUBSET Tables]

=============================================================================
