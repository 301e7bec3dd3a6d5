-------------------------- MODULE AccountDataProofs --------------------------
(***************************************************************************)
(* Proofs about AccountData, for any number of requests, dialects and      *)
(* mappings and any timers.  The erasure: from the turn of the loop that   *)
(* deletes the account no row gets its id, so what is still on its way     *)
(* ages with the wait; as no insert lives longer than the wait, nothing is *)
(* on its way when the first DELETE leaves.  The library: an id is never   *)
(* given twice, so a request that read a mapping before its body came can  *)
(* only mean that mapping, and a copy in the cache only that dialect.      *)
(***************************************************************************)
EXTENDS AccountData, FiniteSetTheorems, TLAPS

\* The parts of TypeOK, by the variables they are about.
LibraryTyped ==
  /\ account \in BOOLEAN
  /\ default \subseteq dialects /\ dialects \subseteq used.dialects
  /\ mappings \subseteq Mapping /\ \A m \in mappings : m.dialect \in dialects /\ m.id \in used.mappings
  /\ used \in [dialects : SUBSET DialectIds, mappings : SUBSET MappingIds]
  /\ \A m, n \in mappings : m.id = n.id => m = n

CacheTyped == cache \in [DialectIds -> [held : BOOLEAN, rows : SUBSET Mapping]]

RequestTyped ==
  /\ request \in [Requests -> Request]
  /\ \A r \in Requests : request[r].route \in {"edit", "map", "remap"} => request[r].dialect \in DialectIds

AnalyticsTyped ==
  /\ buffer \in [Tables -> BOOLEAN] /\ table \in [Tables -> BOOLEAN]
  /\ posts \in [Tables -> SUBSET (0 .. FlushTimeout)]
  /\ purge \in [at : {"none", "settle", "ended"} \cup Tables, age : 0 .. Settle, erased : SUBSET Tables]

\* The rows an account leaves behind grow older together with the wait, and
\* none is on its way once the wait is over.
Erasing ==
  /\ account <=> purge.at = "none"
  /\ purge.at = "none" => purge.age = 0
  /\ purge.at \in {"none", "settle"} => purge.erased = {}
  /\ ~account => dialects = {} /\ mappings = {} /\ \A t \in Tables : ~buffer[t]
  /\ purge.at = "settle" => \A t \in Tables : \A age \in posts[t] : purge.age <= age
  /\ purge.at \notin {"none", "settle"} => \A t \in Tables : posts[t] = {}
  /\ \A t \in purge.erased : ~table[t]

\* The mapping a request read before its body came is still of that dialect.
MeansOne ==
  \A r \in Requests : Due(r, "remap") =>
    /\ request[r].mapping \in used.mappings
    /\ \A m \in mappings : m.id = request[r].mapping => m.dialect = request[r].dialect

\* Only a dialect that has been there is cached.
CachedWasThere == \A d \in DialectIds : cache[d].held => d \in used.dialects

Inv ==
  /\ TypeOK /\ Erasing /\ MeansOne /\ CachedWasThere
  /\ AnalyzeSeesSaved /\ LibraryInOrder /\ IsFiniteSet(mappings)

-----------------------------------------------------------------------------
(* Which steps touch what.                                                 *)
LibraryAct(r) ==
  \/ \E d \in DialectIds, active \in BOOLEAN : Create(r, d, active)
  \/ \E asked \in {"absent", "on", "off"} : Edit(r, asked)
  \/ \E d \in DialectIds : Drop(r, d)
  \/ \E i \in MappingIds, path \in BOOLEAN : Map(r, i, path)
  \/ \E path \in BOOLEAN : Remap(r, path)
  \/ \E m \in mappings : Unmap(r, m)
  \/ \E d \in DialectIds, rows, paths \in SUBSET MappingIds : Import(r, d, rows, paths)
  \/ DeleteAccount(r)

OtherAct(r) ==
  \/ \E route \in Routes : Open(r, route) \/ \E d \in DialectIds : OpenOnDialect(r, route, d)
  \/ \E m \in mappings : OpenOnMapping(r, m)
  \/ \E d \in DialectIds, expired \in BOOLEAN : Consult(r, d, expired)
  \/ Beacon(r) \/ Refuse(r) \/ \E logged \in BOOLEAN : Finish(r, logged)

LEMMA Acts ==
  ASSUME [Next]_vars
  PROVE  \/ UNCHANGED vars
         \/ \E r \in Requests : LibraryAct(r) \/ OtherAct(r)
         \/ Writes
         \/ \E landed \in SUBSET Tables : Restart(landed)
BY Zenon DEF Next, RequestComes, BodyComes, LibraryAct, OtherAct

LEMMA LibraryFrame ==
  ASSUME \/ UNCHANGED vars \/ Writes
         \/ \E r \in Requests : OtherAct(r)
         \/ \E landed \in SUBSET Tables : Restart(landed)
  PROVE  UNCHANGED library
BY DEF vars, Writes, OtherAct, Restart, Open, OpenOnDialect, OpenOnMapping, Consult, Beacon,
   Refuse, Finish, Flush, Land, PostEnds, Tick, SettleEnds, Delete

LEMMA TypeParts == TypeOK <=> LibraryTyped /\ CacheTyped /\ RequestTyped /\ AnalyticsTyped
BY DEF TypeOK, LibraryTyped, CacheTyped, RequestTyped, AnalyticsTyped

LEMMA InitInv == Init => Inv
<1> SUFFICES ASSUME Init PROVE Inv
  OBVIOUS
<1> USE CapAssumption, TimerAssumption, IdAssumption
<1>1. PICK n \in 0 .. Cardinality(DialectIds) : dialects = {d \in DialectIds : d <= n}
  BY DEF Init
<1>2. default \subseteq dialects /\ account = TRUE
  BY DEF Init
<1>3. mappings = {} \/ \E d \in dialects, p \in BOOLEAN : mappings = {[id |-> 1, dialect |-> d, path |-> p]}
  BY DEF Init
<1>4. used = [dialects |-> dialects, mappings |-> {m.id : m \in mappings}]
  BY DEF Init
<1>5. IsFiniteSet(mappings)
  <2>1. IsFiniteSet({}) /\ \A x : IsFiniteSet({x})
    BY FS_EmptySet, FS_Singleton
  <2> QED
    BY <1>3, <2>1, Zenon
<1>6. LibraryTyped
  BY <1>1, <1>2, <1>3, <1>4 DEF LibraryTyped, Mapping
<1>7. CacheTyped /\ CachedWasThere /\ AnalyzeSeesSaved
  BY <1>1 DEF Init, CacheTyped, Cleared, CachedWasThere, AnalyzeSeesSaved
<1>8. RequestTyped /\ MeansOne
  BY DEF Init, RequestTyped, Request, Nothing, MeansOne, Due
<1>9. AnalyticsTyped /\ Erasing
  BY DEF Init, AnalyticsTyped, Erasing, Tables
<1>10. LibraryInOrder
  BY <1>3 DEF Init, LibraryInOrder
<1> QED
  BY <1>5, <1>6, <1>7, <1>8, <1>9, <1>10, TypeParts DEF Inv

-----------------------------------------------------------------------------
(* Types.                                                                  *)
LEMMA LibraryTypes == TypeOK /\ [Next]_vars => LibraryTyped'
<1> SUFFICES ASSUME TypeOK, [Next]_vars PROVE LibraryTyped'
  OBVIOUS
<1> USE IdAssumption DEF LibraryTyped, Mapping
<1>0. LibraryTyped
  BY TypeParts
<1>1. ASSUME NEW r \in Requests, NEW d \in DialectIds, NEW active \in BOOLEAN, Create(r, d, active)
      PROVE  LibraryTyped'
  BY <1>0, <1>1 DEF Create, UnsetDefaults
<1>2. ASSUME NEW r \in Requests, NEW asked \in {"absent", "on", "off"}, Edit(r, asked) PROVE LibraryTyped'
  BY <1>0, <1>2 DEF Edit, UnsetDefaults
<1>3. ASSUME NEW r \in Requests, NEW d \in DialectIds, Drop(r, d) PROVE LibraryTyped'
  BY <1>0, <1>3 DEF Drop, RowsOf
<1>4. ASSUME NEW r \in Requests, NEW i \in MappingIds, NEW path \in BOOLEAN, Map(r, i, path)
      PROVE  LibraryTyped'
  <2>1. request[r].dialect \in dialects /\ i \notin used.mappings
    BY <1>4 DEF Map, Fresh
  <2>2. PICK d \in dialects : d = request[r].dialect
    BY <2>1
  <2>3. /\ mappings' = mappings \cup {[id |-> i, dialect |-> d, path |-> path]}
        /\ used' = [used EXCEPT !.mappings = @ \cup {i}] /\ UNCHANGED <<account, dialects, default>>
    BY <1>4, <2>2 DEF Map
  <2> QED
    BY <1>0, <2>1, <2>2, <2>3
<1>5. ASSUME NEW r \in Requests, NEW path \in BOOLEAN, Remap(r, path) PROVE LibraryTyped'
  <2> DEFINE New(m) == IF m.id = request[r].mapping THEN [m EXCEPT !.path = path] ELSE m
  <2>1. \A m \in Mapping : New(m) \in Mapping /\ New(m).id = m.id /\ New(m).dialect = m.dialect
    OBVIOUS
  <2>2. mappings' = {New(m) : m \in mappings} /\ UNCHANGED <<account, dialects, default, used>>
    BY <1>5 DEF Remap
  <2> HIDE DEF New
  <2> QED
    BY <1>0, <2>1, <2>2
<1>6. ASSUME NEW r \in Requests, NEW m \in mappings, Unmap(r, m) PROVE LibraryTyped'
  BY <1>0, <1>6 DEF Unmap
<1>7. ASSUME NEW r \in Requests, NEW d \in DialectIds, NEW rows \in SUBSET MappingIds,
             NEW paths \in SUBSET MappingIds, Import(r, d, rows, paths)
      PROVE  LibraryTyped'
  <2> DEFINE New(i) == [id |-> i, dialect |-> d, path |-> i \in paths]
  <2>0. \A i \in rows : (i \in paths) \in BOOLEAN
    OBVIOUS
  <2>1. \A i \in rows : New(i) \in Mapping /\ New(i).id = i /\ New(i).dialect = d
    BY <2>0
  <2>2. /\ mappings' = mappings \cup {New(i) : i \in rows} /\ dialects' = dialects \cup {d}
        /\ used' = [dialects |-> used.dialects \cup {d}, mappings |-> used.mappings \cup rows]
        /\ rows \cap used.mappings = {} /\ UNCHANGED <<account, default>>
    BY <1>7 DEF Import
  <2> HIDE DEF New
  <2>3. used'.dialects = used.dialects \cup {d} /\ used'.mappings = used.mappings \cup rows
        /\ used' \in [dialects : SUBSET DialectIds, mappings : SUBSET MappingIds]
    BY <1>0, <2>2
  <2>4. /\ mappings' \subseteq Mapping
        /\ \A m \in mappings' : m.dialect \in dialects' /\ m.id \in used'.mappings
    BY <1>0, <2>1, <2>2, <2>3
  <2>5. \A m, n \in mappings' : m.id = n.id => m = n
    BY <1>0, <2>1, <2>2
  <2> QED
    BY <1>0, <2>2, <2>3, <2>4, <2>5
<1>8. ASSUME NEW r \in Requests, DeleteAccount(r) PROVE LibraryTyped'
  BY <1>0, <1>8 DEF DeleteAccount
<1>9. ASSUME UNCHANGED library PROVE LibraryTyped'
  BY <1>0, <1>9 DEF library
<1> QED
  BY Acts, LibraryFrame, <1>1, <1>2, <1>3, <1>4, <1>5, <1>6, <1>7, <1>8, <1>9 DEF LibraryAct

LEMMA RowsType == LibraryTyped => \A d : RowsOf(d) \subseteq Mapping
BY DEF LibraryTyped, RowsOf

LEMMA CacheTypes == TypeOK /\ [Next]_vars => CacheTyped'
<1> SUFFICES ASSUME TypeOK, [Next]_vars PROVE CacheTyped'
  OBVIOUS
<1>0. CacheTyped /\ Cleared \in [held : BOOLEAN, rows : SUBSET Mapping]
      /\ \A d : RowsOf(d) \subseteq Mapping
  BY TypeParts, RowsType DEF Cleared
<1>1. ASSUME NEW d, Clear(d) PROVE CacheTyped'
  BY <1>0, <1>1 DEF CacheTyped, Clear
<1>2. ASSUME NEW r \in Requests, LibraryAct(r) PROVE CacheTyped'
  <2>1. UNCHANGED cache \/ \E d : Clear(d)
    BY <1>2 DEF LibraryAct, Create, Edit, Drop, Map, Remap, Unmap, Import, DeleteAccount
  <2> QED
    BY <1>0, <1>1, <2>1 DEF CacheTyped
<1>3. ASSUME NEW r \in Requests, NEW d \in DialectIds, NEW expired \in BOOLEAN, Consult(r, d, expired)
      PROVE  CacheTyped'
  BY <1>0, <1>3 DEF CacheTyped, Consult
<1>4. ASSUME NEW landed, Restart(landed) PROVE CacheTyped'
  BY <1>0, <1>4 DEF CacheTyped, Restart
<1>5. ASSUME UNCHANGED cache PROVE CacheTyped'
  BY <1>0, <1>5 DEF CacheTyped
<1>6. ASSUME NEW r \in Requests, OtherAct(r) PROVE CacheTyped'
  BY <1>3, <1>5, <1>6 DEF OtherAct, Open, OpenOnDialect, OpenOnMapping, Beacon, Refuse, Finish
<1>7. Writes \/ UNCHANGED vars => UNCHANGED cache
  BY DEF Writes, vars, Flush, Land, PostEnds, Tick, SettleEnds, Delete
<1> QED
  BY Acts, <1>2, <1>4, <1>5, <1>6, <1>7

LEMMA RequestTypes == TypeOK /\ [Next]_vars => RequestTyped'
<1> SUFFICES ASSUME TypeOK, [Next]_vars PROVE RequestTyped'
  OBVIOUS
<1> USE DEF RequestTyped
<1>0. RequestTyped /\ LibraryTyped
  BY TypeParts
<1> DEFINE Good(q) == q \in Request /\ (q.route \in {"edit", "map", "remap"} => q.dialect \in DialectIds)
<1>1. /\ Nothing \in Request
      /\ \A a \in {"unsent", "body", "answered", "done"} : Good([Nothing EXCEPT !.at = a])
  BY DEF Nothing, Request
<1>2. ASSUME NEW r \in Requests, NEW q, Good(q), request' = [request EXCEPT ![r] = q] PROVE RequestTyped'
  BY <1>0, <1>2
<1>3. ASSUME NEW r \in Requests, Answered(r) PROVE RequestTyped'
  BY <1>1, <1>2, <1>3 DEF Answered
<1>4. ASSUME NEW r \in Requests, LibraryAct(r) PROVE RequestTyped'
  BY <1>3, <1>4 DEF LibraryAct, Create, Edit, Drop, Map, Remap, Unmap, Import, DeleteAccount
<1>5. ASSUME NEW r \in Requests, NEW route \in Routes, Open(r, route) PROVE RequestTyped'
  <2>1. Good([Nothing EXCEPT !.at = "body", !.route = route])
    BY <1>5 DEF Open, Nothing, Request, Routes
  <2> QED
    BY <1>2, <1>5, <2>1 DEF Open, Awaiting
<1>6. ASSUME NEW r \in Requests, NEW route \in Routes, NEW d \in DialectIds, OpenOnDialect(r, route, d)
      PROVE  RequestTyped'
  <2>0. (d \in default) \in BOOLEAN
    OBVIOUS
  <2>1. Good([Nothing EXCEPT !.at = "body", !.route = route, !.dialect = d, !.was = d \in default])
    BY <2>0 DEF Nothing, Request, Routes
  <2> QED
    BY <1>2, <1>6, <2>1 DEF OpenOnDialect, Awaiting
<1>7. ASSUME NEW r \in Requests, NEW m \in mappings, OpenOnMapping(r, m) PROVE RequestTyped'
  <2>0. m.dialect \in DialectIds /\ m.id \in MappingIds
    BY <1>0 DEF LibraryTyped, Mapping
  <2>1. Good([Nothing EXCEPT !.at = "body", !.route = "remap", !.dialect = m.dialect, !.mapping = m.id])
    BY <2>0 DEF Nothing, Request, Routes
  <2> QED
    BY <1>2, <1>7, <2>1 DEF OpenOnMapping, Awaiting
<1>8. ASSUME NEW r \in Requests, NEW logged \in BOOLEAN, Finish(r, logged) PROVE RequestTyped'
  <2>1. Good([request[r] EXCEPT !.at = "done"])
    BY <1>0 DEF Request
  <2>2. request' = [request EXCEPT ![r] = [request[r] EXCEPT !.at = "done"]]
    BY <1>8 DEF Finish
  <2> QED
    BY <1>2, <2>1, <2>2
<1>9. ASSUME NEW r \in Requests, OtherAct(r) PROVE RequestTyped'
  BY <1>3, <1>5, <1>6, <1>7, <1>8, <1>9 DEF OtherAct, Consult, Beacon, Refuse
<1>10. ASSUME NEW landed, Restart(landed) PROVE RequestTyped'
  <2>1. request' = [r \in Requests |-> IF request[r] = Nothing THEN Nothing
                                       ELSE [Nothing EXCEPT !.at = "done"]]
    BY <1>10 DEF Restart
  <2>2. Good(Nothing)
    BY DEF Nothing, Request
  <2> QED
    BY <1>1, <2>1, <2>2
<1>11. Writes \/ UNCHANGED vars => UNCHANGED request
  BY DEF Writes, vars, Flush, Land, PostEnds, Tick, SettleEnds, Delete
<1> QED
  BY Acts, <1>0, <1>4, <1>9, <1>10, <1>11

LEMMA PostedType == AnalyticsTyped => \A t \in Tables : Posted(t) \subseteq 0 .. FlushTimeout
BY TimerAssumption DEF AnalyticsTyped, Posted

\* A purge that goes on to another stage, whatever its fields may be.
LEMMA Advanced ==
  ASSUME NEW X, NEW Y, NEW Z, NEW p \in [at : X, age : Y, erased : Z], NEW x \in X, NEW y \in Y
  PROVE  /\ [p EXCEPT !.at = x, !.age = y] \in [at : X, age : Y, erased : Z]
         /\ [p EXCEPT !.at = x, !.age = y].at = x
         /\ [p EXCEPT !.at = x, !.age = y].age = y
         /\ [p EXCEPT !.at = x, !.age = y].erased = p.erased
OBVIOUS

PurgeStages == {"none", "settle", "ended"} \cup Tables
PurgeAges == 0 .. Settle
PurgeRecord == [at : PurgeStages, age : PurgeAges, erased : SUBSET Tables]

LEMMA PurgeType ==
  ASSUME NEW a \in PurgeStages, purge \in PurgeRecord, purge' = [purge EXCEPT !.at = a, !.age = 0]
  PROVE  purge' \in PurgeRecord /\ purge'.at = a /\ purge'.age = 0 /\ purge'.erased = purge.erased
<1>1. 0 \in PurgeAges
  BY TimerAssumption DEF PurgeAges
<1> QED
  BY <1>1, Advanced DEF PurgeRecord

LEMMA AnalyticsTypes == TypeOK /\ [Next]_vars => AnalyticsTyped'
<1> SUFFICES ASSUME TypeOK, [Next]_vars PROVE AnalyticsTyped'
  OBVIOUS
<1> USE TimerAssumption DEF AnalyticsTyped, Tables
<1>0. AnalyticsTyped
  BY TypeParts
<1>1. ASSUME UNCHANGED analytics PROVE AnalyticsTyped'
  BY <1>0, <1>1 DEF analytics
<1>2. ASSUME NEW t \in Tables, Buffered(t), UNCHANGED <<posts, purge, table>> PROVE AnalyticsTyped'
  BY <1>0, <1>2 DEF Buffered
<1>3. ASSUME NEW r \in Requests, OtherAct(r) PROVE AnalyticsTyped'
  <2>1. UNCHANGED analytics \/ \E t \in Tables : Buffered(t) /\ UNCHANGED <<posts, purge, table>>
    BY <1>3 DEF OtherAct, Open, OpenOnDialect, OpenOnMapping, Consult, Beacon, Refuse, Finish, analytics
  <2> QED
    BY <1>1, <1>2, <2>1
<1>4. ASSUME NEW r \in Requests, DeleteAccount(r) PROVE AnalyticsTyped'
  <2>1. posts' = [t \in Tables |-> Posted(t)] /\ buffer' = [t \in Tables |-> FALSE]
        /\ purge' = [purge EXCEPT !.at = "settle"] /\ table' = table
    BY <1>4 DEF DeleteAccount
  <2> QED
    BY <1>0, <2>1, PostedType
<1>5. ASSUME NEW r \in Requests, LibraryAct(r) PROVE AnalyticsTyped'
  <2>1. UNCHANGED analytics \/ DeleteAccount(r)
    BY <1>5 DEF LibraryAct, Create, Edit, Drop, Map, Remap, Unmap, Import, analytics
  <2> QED
    BY <1>1, <1>4, <2>1
<1>6. ASSUME NEW t \in Tables, Flush(t) PROVE AnalyticsTyped'
  <2>1. buffer' = [buffer EXCEPT ![t] = FALSE] /\ posts' = [posts EXCEPT ![t] = Posted(t)]
        /\ UNCHANGED <<purge, table>>
    BY <1>6 DEF Flush
  <2> QED
    BY <1>0, <2>1, PostedType
<1>7. ASSUME NEW t \in Tables, Land(t) PROVE AnalyticsTyped'
  BY <1>0, <1>7 DEF Land
<1>8. ASSUME NEW t \in Tables, NEW age \in 0 .. FlushTimeout, PostEnds(t, age) PROVE AnalyticsTyped'
  BY <1>0, <1>8 DEF PostEnds
<1>9. ASSUME Tick PROVE AnalyticsTyped'
  <2>1. /\ posts' = [t \in Tables |-> {age + 1 : age \in posts[t]}] /\ UNCHANGED <<buffer, table>>
        /\ \A t \in Tables : FlushTimeout \notin posts[t]
    BY <1>9 DEF Tick, Overdue
  <2>2. posts' \in [Tables -> SUBSET (0 .. FlushTimeout)]
    <3>1. \A t \in Tables : \A age \in posts[t] : age + 1 \in 0 .. FlushTimeout
      BY <1>0, <2>1
    <3> QED
      BY <2>1, <3>1
  <2>3. purge' = purge \/ (purge.age # Settle /\ purge' = [purge EXCEPT !.age = @ + 1])
    BY <1>9 DEF Tick, Settling
  <2>4. purge' \in [at : {"none", "settle", "ended"} \cup Tables, age : 0 .. Settle, erased : SUBSET Tables]
    BY <1>0, <2>3
  <2> QED
    BY <1>0, <2>1, <2>2, <2>4
<1>10. ASSUME SettleEnds PROVE AnalyticsTyped'
  <2>1. purge' = [purge EXCEPT !.at = "events", !.age = 0] /\ UNCHANGED <<buffer, posts, table>>
    BY <1>10 DEF SettleEnds
  <2>2. purge' \in PurgeRecord
    BY <1>0, <2>1, PurgeType DEF PurgeRecord, PurgeStages, PurgeAges
  <2> QED
    BY <1>0, <2>1, <2>2 DEF PurgeRecord, PurgeStages, PurgeAges
<1>11. ASSUME NEW t \in Tables, NEW worked \in BOOLEAN, NEW applied \in BOOLEAN, Delete(t, worked, applied)
       PROVE  AnalyticsTyped'
  <2>1. table' = IF applied THEN [table EXCEPT ![t] = FALSE] ELSE table
    BY <1>11 DEF Delete
  <2>2. /\ purge' = [purge EXCEPT !.at = Following(t), !.erased = IF worked THEN @ \cup {t} ELSE @]
        /\ UNCHANGED <<buffer, posts>>
    BY <1>11 DEF Delete
  <2>3. Following(t) \in {"product", "ended"}
    BY DEF Following
  <2>4. table' \in [Tables -> BOOLEAN]
    BY <1>0, <2>1
  <2>5. purge' \in [at : {"none", "settle", "ended"} \cup Tables, age : 0 .. Settle, erased : SUBSET Tables]
    BY <1>0, <2>2, <2>3
  <2> QED
    BY <1>0, <2>2, <2>4, <2>5
<1>12. ASSUME Writes PROVE AnalyticsTyped'
  BY <1>6, <1>7, <1>8, <1>9, <1>10, <1>11, <1>12 DEF Writes
<1>13. ASSUME NEW landed \in SUBSET Tables, Restart(landed) PROVE AnalyticsTyped'
  <2>1. /\ buffer' = [t \in Tables |-> FALSE] /\ posts' = [t \in Tables |-> {}]
        /\ purge' = IF purge.at = "none" THEN purge ELSE [purge EXCEPT !.at = "ended", !.age = 0]
    BY <1>13 DEF Restart
  <2>2. table' = [t \in Tables |-> table[t] \/ t \in landed]
    BY <1>13 DEF Restart
  <2>3. table' \in [Tables -> BOOLEAN]
    BY <2>2, Zenon
  <2>4. purge' \in [at : {"none", "settle", "ended"} \cup Tables, age : 0 .. Settle, erased : SUBSET Tables]
    <3> USE DEF PurgeRecord, PurgeStages, PurgeAges
    <3>1. CASE purge' = purge
      BY <1>0, <3>1
    <3>2. CASE purge' = [purge EXCEPT !.at = "ended", !.age = 0]
      <4>1. purge \in PurgeRecord /\ "ended" \in PurgeStages
        BY <1>0
      <4>2. purge' \in PurgeRecord
        BY <4>1, <3>2, PurgeType
      <4> QED
        BY <4>2
    <3> QED
      BY <2>1, <3>1, <3>2
  <2> QED
    BY <2>1, <2>3, <2>4
<1>14. UNCHANGED vars => UNCHANGED analytics
  BY DEF vars
<1> QED
  BY Acts, <1>1, <1>3, <1>5, <1>12, <1>13, <1>14

LEMMA TypeStep == TypeOK /\ [Next]_vars => TypeOK'
<1>1. TypeOK' <=> LibraryTyped' /\ CacheTyped' /\ RequestTyped' /\ AnalyticsTyped'
  BY DEF TypeOK, LibraryTyped, CacheTyped, RequestTyped, AnalyticsTyped
<1> QED
  BY <1>1, LibraryTypes, CacheTypes, RequestTypes, AnalyticsTypes

-----------------------------------------------------------------------------
(* The erasure.                                                            *)

\* What a step of the account does to the rows: only its deletion ends it.
LEMMA AccountGoesOnce ==
  ASSUME NEW r \in Requests, LibraryAct(r)
  PROVE  \/ DeleteAccount(r)
         \/ /\ UNCHANGED <<account, analytics>>
            /\ ~account /\ dialects = {} /\ mappings = {} /\ LibraryTyped => dialects' = {} /\ mappings' = {}
BY Zenon DEF LibraryAct, Create, Edit, Drop, Map, Remap, Unmap, Import, analytics

LEMMA EraseStep == TypeOK /\ Erasing /\ [Next]_vars => Erasing'
<1> SUFFICES ASSUME TypeOK, Erasing, [Next]_vars PROVE Erasing'
  OBVIOUS
<1> USE TimerAssumption DEF Erasing, Tables
<1>0. AnalyticsTyped /\ LibraryTyped
  BY TypeParts
<1>1. ASSUME UNCHANGED <<account, analytics>>, ~account => dialects' = {} /\ mappings' = {} PROVE Erasing'
  BY <1>1 DEF analytics
<1>2. ASSUME NEW t \in Tables, Buffered(t), UNCHANGED <<library, posts, purge, table>> PROVE Erasing'
  BY <1>0, <1>2 DEF Buffered, CallerKnown, library, AnalyticsTyped
<1>3. ASSUME NEW r \in Requests, OtherAct(r) PROVE Erasing'
  <2>1. \/ UNCHANGED <<library, analytics>>
        \/ \E t \in Tables : Buffered(t) /\ UNCHANGED <<library, posts, purge, table>>
    BY <1>3 DEF OtherAct, Open, OpenOnDialect, OpenOnMapping, Consult, Beacon, Refuse, Finish, analytics
  <2> QED
    BY <1>1, <1>2, <2>1 DEF library
<1>4. ASSUME NEW r \in Requests, DeleteAccount(r) PROVE Erasing'
  <2>1. /\ account /\ ~account' /\ dialects' = {} /\ mappings' = {} /\ table' = table
        /\ posts' = [t \in Tables |-> Posted(t)] /\ buffer' = [t \in Tables |-> FALSE]
        /\ purge' = [purge EXCEPT !.at = "settle"]
    BY <1>4 DEF DeleteAccount
  <2>2. purge'.at = "settle" /\ purge'.age = 0 /\ purge'.erased = {}
    BY <1>0, <2>1 DEF AnalyticsTyped
  <2>3. \A t \in Tables : \A age \in posts'[t] : 0 <= age
    BY <1>0, <2>1, PostedType
  <2> QED
    BY <2>1, <2>2, <2>3
<1>5. ASSUME NEW r \in Requests, LibraryAct(r) PROVE Erasing'
  BY <1>0, <1>1, <1>4, <1>5, AccountGoesOnce
<1>6. ASSUME NEW t \in Tables, Flush(t) PROVE Erasing'
  <2>1. account
    BY <1>6 DEF Flush
  <2> QED
    BY <1>0, <1>6, <2>1 DEF Flush, AnalyticsTyped, library
<1>7. ASSUME NEW t \in Tables, Land(t) PROVE Erasing'
  <2>1. purge.at \in {"none", "settle"}
    BY <1>7 DEF Land
  <2> QED
    BY <1>0, <1>7, <2>1 DEF Land, AnalyticsTyped, library
<1>8. ASSUME NEW t \in Tables, NEW age \in 0 .. FlushTimeout, PostEnds(t, age) PROVE Erasing'
  BY <1>0, <1>8 DEF PostEnds, AnalyticsTyped, library
<1>9. ASSUME Tick PROVE Erasing'
  <2>1. /\ posts' = [t \in Tables |-> {age + 1 : age \in posts[t]}]
        /\ UNCHANGED <<account, dialects, mappings, buffer, table>>
    BY <1>9 DEF Tick, library
  <2>2. CASE purge.at = "settle"
    <3>1. purge' = [purge EXCEPT !.age = purge.age + 1]
      BY <1>9, <2>2 DEF Tick, Settling
    <3>2. purge'.at = "settle" /\ purge'.age = purge.age + 1 /\ purge'.erased = purge.erased
      BY <1>0, <2>2, <3>1 DEF AnalyticsTyped
    <3>3. \A t \in Tables : posts[t] \subseteq 0 .. FlushTimeout /\ \A age \in posts[t] : purge.age <= age
      BY <1>0, <2>2 DEF AnalyticsTyped
    <3>4. purge.age \in Nat
      BY <1>0 DEF AnalyticsTyped
    <3>5. \A t \in Tables : \A age \in posts'[t] : purge'.age <= age
      BY <2>1, <3>2, <3>3, <3>4
    <3> QED
      BY <2>1, <2>2, <3>2, <3>5
  <2>3. CASE purge.at # "settle"
    <3>1. purge' = purge
      BY <1>9, <2>3 DEF Tick, Settling
    <3> QED
      BY <2>1, <2>3, <3>1
  <2> QED
    BY <2>2, <2>3
<1>10. ASSUME SettleEnds PROVE Erasing'
  <2>1. /\ purge.at = "settle" /\ purge.age = Settle /\ \A t \in Tables : FlushTimeout \notin posts[t]
        /\ purge' = [purge EXCEPT !.at = "events", !.age = 0]
        /\ UNCHANGED <<account, dialects, mappings, buffer, posts, table>>
    BY <1>10 DEF SettleEnds, Settling, Settled, Overdue, library
  <2>2. \A t \in Tables : posts[t] = {}
    <3> SUFFICES ASSUME NEW t \in Tables, NEW age \in posts[t] PROVE FALSE
      BY <1>0 DEF AnalyticsTyped
    <3>1. age \in 0 .. FlushTimeout /\ Settle <= age /\ age # FlushTimeout
      BY <1>0, <2>1 DEF AnalyticsTyped
    <3> QED
      BY <3>1
  <2>3. purge'.at = "events" /\ purge'.erased = purge.erased
    BY <1>0, <2>1, PurgeType DEF AnalyticsTyped, PurgeRecord, PurgeStages, PurgeAges
  <2> QED
    BY <2>1, <2>2, <2>3
<1>11. ASSUME NEW t \in Tables, NEW worked \in BOOLEAN, NEW applied \in BOOLEAN, Delete(t, worked, applied)
       PROVE  Erasing'
  <2>1. /\ purge.at = t /\ (worked => applied)
        /\ table' = IF applied THEN [table EXCEPT ![t] = FALSE] ELSE table
        /\ UNCHANGED <<account, dialects, mappings, buffer, posts>>
    BY <1>11 DEF Delete, library
  <2>2. purge' = [purge EXCEPT !.at = Following(t), !.erased = IF worked THEN @ \cup {t} ELSE @]
    BY <1>11 DEF Delete
  <2>3. /\ purge'.at = Following(t)
        /\ purge'.erased = IF worked THEN purge.erased \cup {t} ELSE purge.erased
    BY <1>0, <2>2 DEF AnalyticsTyped
  <2>4. Following(t) \in {"product", "ended"}
    BY DEF Following
  <2>5. \A u \in purge'.erased : ~table'[u]
    <3>1. purge'.erased \subseteq Tables /\ \A u \in purge'.erased : u \in purge.erased \/ (u = t /\ applied)
      BY <1>0, <2>1, <2>3 DEF AnalyticsTyped
    <3>2. \A u \in Tables : table'[u] => table[u] /\ ~(u = t /\ applied)
      BY <1>0, <2>1 DEF AnalyticsTyped
    <3> QED
      BY <3>1, <3>2, Zenon
  <2>6. purge.at \notin {"none", "settle"}
    BY <2>1
  <2>7. purge'.at \notin {"none", "settle"} /\ ~account /\ \A u \in Tables : posts[u] = {}
    BY <2>3, <2>4, <2>6
  <2> QED
    BY <2>1, <2>5, <2>7
<1>12. ASSUME Writes PROVE Erasing'
  BY <1>6, <1>7, <1>8, <1>9, <1>10, <1>11, <1>12 DEF Writes
<1>13. ASSUME NEW landed \in SUBSET Tables, Restart(landed) PROVE Erasing'
  <2>1. /\ buffer' = [t \in Tables |-> FALSE] /\ posts' = [t \in Tables |-> {}]
        /\ purge' = IF purge.at = "none" THEN purge ELSE [purge EXCEPT !.at = "ended", !.age = 0]
        /\ UNCHANGED <<account, dialects, mappings>>
    BY <1>13 DEF Restart, library
  <2>2. /\ landed \subseteq {t \in Tables : buffer[t] \/ posts[t] # {}}
        /\ table' = [t \in Tables |-> table[t] \/ t \in landed]
    BY <1>13 DEF Restart
  <2>3. purge.at = "none" => purge' = purge
    BY <2>1
  <2>4. purge.at # "none" => purge'.at = "ended" /\ purge'.erased = purge.erased
    <3> SUFFICES ASSUME purge.at # "none" PROVE purge'.at = "ended" /\ purge'.erased = purge.erased
      OBVIOUS
    <3>1. purge \in PurgeRecord /\ "ended" \in PurgeStages
      BY <1>0 DEF AnalyticsTyped, PurgeRecord, PurgeStages, PurgeAges
    <3>2. purge' = [purge EXCEPT !.at = "ended", !.age = 0]
      BY <2>1
    <3> QED
      BY <3>1, <3>2, PurgeType
  <2>5. \A t \in purge.erased : t \in Tables /\ ~table[t] /\ ~buffer[t] /\ posts[t] = {}
    <3>1. purge.erased \subseteq Tables
      BY <1>0 DEF AnalyticsTyped
    <3>2. purge.erased # {} => purge.at \notin {"none", "settle"}
      OBVIOUS
    <3>3. purge.at # "none" => ~account
      BY Zenon
    <3> QED
      BY <3>1, <3>2, <3>3, Zenon
  <2>6. \A t \in purge.erased : ~table'[t]
    BY <2>2, <2>5, Zenon
  <2> QED
    BY <2>1, <2>3, <2>4, <2>6
<1>14. UNCHANGED vars => UNCHANGED <<library, analytics>>
  BY DEF vars
<1> QED
  BY Acts, <1>1, <1>3, <1>5, <1>12, <1>13, <1>14 DEF library

\* What the erasure leaves behind it.
LEMMA ErasingErases == TypeOK /\ Erasing => ErasedStaysErased
<1>1. TypeOK => AnalyticsTyped
  BY TypeParts
<1> QED
  BY <1>1 DEF Erasing, ErasedStaysErased, AnalyticsTyped, Tables

-----------------------------------------------------------------------------
(* The library and its cache.                                              *)

\* A step changes the rows of one dialect, and clears its copy; ids stay with
\* their dialect, and are only ever added.
RowsChange ==
  /\ used.dialects \subseteq used'.dialects /\ used.mappings \subseteq used'.mappings
  /\ \A d \in dialects' : d \in dialects \/ d \notin used.dialects
  /\ \A m \in mappings' : m.id \in used.mappings =>
       \E n \in mappings : n.id = m.id /\ n.dialect = m.dialect
  /\ \/ UNCHANGED cache /\ \A d \in dialects \cap dialects' : RowsOf(d)' = RowsOf(d)
     \/ \E e \in DialectIds : Clear(e) /\ \A d \in dialects \cap dialects' : d # e => RowsOf(d)' = RowsOf(d)

LEMMA RowsStep ==
  ASSUME TypeOK, MeansOne, NEW r \in Requests, LibraryAct(r)
  PROVE  RowsChange
<1> USE IdAssumption DEF RowsChange, RowsOf
<1>0. LibraryTyped /\ RequestTyped
  BY TypeParts
<1>1. ASSUME NEW d \in DialectIds, NEW active \in BOOLEAN, Create(r, d, active) PROVE RowsChange
  <2>1. d \notin used.dialects /\ dialects' = dialects \cup {d} /\ UNCHANGED <<mappings, cache>>
        /\ used' = [used EXCEPT !.dialects = @ \cup {d}]
    BY <1>1 DEF Create, Fresh
  <2> QED
    BY <1>0, <2>1 DEF LibraryTyped
<1>2. ASSUME NEW asked \in {"absent", "on", "off"}, Edit(r, asked) PROVE RowsChange
  <2>1. UNCHANGED <<dialects, mappings, used, cache>>
    BY <1>2 DEF Edit
  <2> QED
    BY <2>1
<1>3. ASSUME NEW d \in DialectIds, Drop(r, d) PROVE RowsChange
  <2>1. dialects' = dialects \ {d} /\ mappings' = mappings \ {m \in mappings : m.dialect = d} /\ used' = used
        /\ Clear(d)
    BY <1>3 DEF Drop
  <2> QED
    BY <2>1
<1>4. ASSUME NEW i \in MappingIds, NEW path \in BOOLEAN, Map(r, i, path) PROVE RowsChange
  <2>1. PICK d \in dialects : d = request[r].dialect
    BY <1>4 DEF Map
  <2>2. /\ i \notin used.mappings /\ mappings' = mappings \cup {[id |-> i, dialect |-> d, path |-> path]}
        /\ used' = [used EXCEPT !.mappings = @ \cup {i}] /\ dialects' = dialects /\ Clear(d)
    BY <1>4, <2>1 DEF Map, Fresh
  <2>3. d \in DialectIds
    BY <1>0 DEF LibraryTyped
  <2> QED
    BY <1>0, <2>2, <2>3 DEF LibraryTyped
<1>5. ASSUME NEW path \in BOOLEAN, Remap(r, path) PROVE RowsChange
  <2> DEFINE d == request[r].dialect
             New(m) == IF m.id = request[r].mapping THEN [m EXCEPT !.path = path] ELSE m
  <2>1. \A m \in Mapping : New(m).id = m.id /\ New(m).dialect = m.dialect
    BY DEF Mapping
  <2>2. \A m \in mappings : m.dialect # d => New(m) = m
    BY <1>5 DEF Remap, MeansOne
  <2>3. mappings' = {New(m) : m \in mappings} /\ UNCHANGED <<dialects, used>> /\ Clear(d)
    BY <1>5 DEF Remap
  <2>4. d \in DialectIds /\ mappings \subseteq Mapping
    BY <1>0, <1>5 DEF Remap, Due, RequestTyped, LibraryTyped
  <2> HIDE DEF d, New
  <2>5. \A e : e # d => {m \in mappings' : m.dialect = e} = {m \in mappings : m.dialect = e}
    BY <2>1, <2>2, <2>3, <2>4
  <2>6. \A m \in mappings' : \E n \in mappings : n.id = m.id /\ n.dialect = m.dialect
    BY <2>1, <2>3, <2>4
  <2> QED
    BY <2>3, <2>4, <2>5, <2>6
<1>6. ASSUME NEW m \in mappings, Unmap(r, m) PROVE RowsChange
  <2>1. mappings' = mappings \ {m} /\ UNCHANGED <<dialects, used>> /\ Clear(m.dialect)
    BY <1>6 DEF Unmap
  <2>2. m.dialect \in DialectIds
    BY <1>0 DEF LibraryTyped
  <2> QED
    BY <2>1, <2>2
<1>7. ASSUME NEW d \in DialectIds, NEW rows \in SUBSET MappingIds, NEW paths \in SUBSET MappingIds,
             Import(r, d, rows, paths)
      PROVE  RowsChange
  <2> DEFINE New(i) == [id |-> i, dialect |-> d, path |-> i \in paths]
  <2>1. \A i \in rows : New(i).id = i /\ New(i).dialect = d
    OBVIOUS
  <2>2. /\ mappings' = mappings \cup {New(i) : i \in rows} /\ dialects' = dialects \cup {d}
        /\ used' = [dialects |-> used.dialects \cup {d}, mappings |-> used.mappings \cup rows]
        /\ rows \cap used.mappings = {} /\ d \notin used.dialects /\ cache' = cache
    BY <1>7 DEF Import, Fresh
  <2> HIDE DEF New
  <2>3. d \notin dialects /\ \A m \in mappings : m.dialect # d
    BY <1>0, <2>2 DEF LibraryTyped
  <2>4. \A e \in dialects : {m \in mappings' : m.dialect = e} = {m \in mappings : m.dialect = e}
    BY <2>1, <2>2, <2>3
  <2>5. \A m \in mappings' : m.id \in used.mappings => m \in mappings
    BY <2>1, <2>2
  <2>6. used.dialects \subseteq used'.dialects /\ used.mappings \subseteq used'.mappings
    BY <2>2
  <2> QED
    BY <2>2, <2>4, <2>5, <2>6
<1>8. ASSUME DeleteAccount(r) PROVE RowsChange
  BY <1>8 DEF DeleteAccount
<1> QED
  BY <1>1, <1>2, <1>3, <1>4, <1>5, <1>6, <1>7, <1>8 DEF LibraryAct

\* A request comes to wait on a mapping only by reading it.
LEMMA RemapReads ==
  ASSUME RequestTyped, [Next]_vars, NEW q \in Requests, Due(q, "remap")'
  PROVE  \/ request'[q] = request[q]
         \/ /\ UNCHANGED library
            /\ \E m \in mappings : request'[q].mapping = m.id /\ request'[q].dialect = m.dialect
<1> USE DEF RequestTyped, Due
<1>1. ASSUME NEW r \in Requests, NEW s, s.at = "body" => s.route # "remap",
             request' = [request EXCEPT ![r] = s]
      PROVE  request'[q] = request[q]
  BY <1>1
<1>2. ASSUME NEW r \in Requests, Answered(r) PROVE request'[q] = request[q]
  BY <1>1, <1>2 DEF Answered, Nothing
<1>3. ASSUME NEW r \in Requests, LibraryAct(r) PROVE request'[q] = request[q]
  BY <1>2, <1>3 DEF LibraryAct, Create, Edit, Drop, Map, Remap, Unmap, Import, DeleteAccount
<1>4. ASSUME NEW r \in Requests, NEW route \in Routes, Open(r, route) PROVE request'[q] = request[q]
  BY <1>1, <1>4 DEF Open, Awaiting, Nothing
<1>5. ASSUME NEW r \in Requests, NEW route \in Routes, NEW d \in DialectIds, OpenOnDialect(r, route, d)
      PROVE  request'[q] = request[q]
  BY <1>1, <1>5 DEF OpenOnDialect, Awaiting, Nothing
<1>6. ASSUME NEW r \in Requests, NEW m \in mappings, OpenOnMapping(r, m)
      PROVE  \/ request'[q] = request[q]
             \/ UNCHANGED library /\ request'[q].mapping = m.id /\ request'[q].dialect = m.dialect
  <2>1. UNCHANGED library
        /\ request' = [request EXCEPT ![r] = [Nothing EXCEPT !.at = "body", !.route = "remap",
                                                            !.dialect = m.dialect, !.mapping = m.id]]
    BY <1>6 DEF OpenOnMapping, Awaiting
  <2> QED
    BY <2>1 DEF Nothing
<1>7. ASSUME NEW r \in Requests, NEW logged \in BOOLEAN, Finish(r, logged) PROVE request'[q] = request[q]
  BY <1>7 DEF Finish, Request
<1>8. ASSUME NEW landed, Restart(landed) PROVE request'[q] = request[q]
  BY <1>8 DEF Restart, Nothing
<1>9. Writes \/ UNCHANGED vars => UNCHANGED request
  BY DEF Writes, vars, Flush, Land, PostEnds, Tick, SettleEnds, Delete
<1>10. ASSUME NEW r \in Requests, OtherAct(r)
       PROVE  \/ request'[q] = request[q]
              \/ UNCHANGED library /\ \E m \in mappings : request'[q].mapping = m.id /\ request'[q].dialect = m.dialect
  BY <1>2, <1>4, <1>5, <1>6, <1>7, <1>10 DEF OtherAct, Consult, Beacon, Refuse
<1> QED
  BY Acts, <1>3, <1>8, <1>9, <1>10

LEMMA MeansStep == TypeOK /\ MeansOne /\ [Next]_vars => MeansOne'
<1> SUFFICES ASSUME TypeOK, MeansOne, [Next]_vars, NEW q \in Requests, Due(q, "remap")'
             PROVE  /\ request'[q].mapping \in used'.mappings
                    /\ \A m \in mappings' : m.id = request'[q].mapping => m.dialect = request'[q].dialect
  BY DEF MeansOne
<1>0. LibraryTyped /\ RequestTyped
  BY TypeParts
<1>1. CASE UNCHANGED library /\ \E m \in mappings : request'[q].mapping = m.id /\ request'[q].dialect = m.dialect
  <2>1. UNCHANGED <<mappings, used>>
    BY <1>1 DEF library
  <2> QED
    BY <1>0, <1>1, <2>1 DEF LibraryTyped
<1>2. CASE request'[q] = request[q]
  <2>1. request[q].mapping \in used.mappings
        /\ \A m \in mappings : m.id = request[q].mapping => m.dialect = request[q].dialect
    BY <1>2 DEF MeansOne, Due
  <2>2. used.mappings \subseteq used'.mappings /\ \A m \in mappings' : m.id \in used.mappings =>
          \E n \in mappings : n.id = m.id /\ n.dialect = m.dialect
    <3>1. ASSUME NEW r \in Requests, LibraryAct(r) PROVE RowsChange
      BY <3>1, RowsStep
    <3>2. ASSUME UNCHANGED library
          PROVE  used.mappings \subseteq used'.mappings /\ \A m \in mappings' : m.id \in used.mappings =>
                   \E n \in mappings : n.id = m.id /\ n.dialect = m.dialect
      BY <3>2 DEF library
    <3> QED
      BY Acts, LibraryFrame, <3>1, <3>2 DEF RowsChange
  <2> QED
    BY <1>2, <2>1, <2>2
<1> QED
  BY <1>0, <1>1, <1>2, RemapReads

\* The cache follows the rows.
LEMMA CacheStep ==
  TypeOK /\ MeansOne /\ CachedWasThere /\ AnalyzeSeesSaved /\ [Next]_vars => CachedWasThere' /\ AnalyzeSeesSaved'
<1> SUFFICES ASSUME TypeOK, MeansOne, CachedWasThere, AnalyzeSeesSaved, [Next]_vars
             PROVE  CachedWasThere' /\ AnalyzeSeesSaved'
  OBVIOUS
<1> USE DEF CachedWasThere, AnalyzeSeesSaved
<1>0. LibraryTyped /\ CacheTyped /\ dialects \subseteq DialectIds
  BY TypeParts DEF LibraryTyped
<1>1. ASSUME NEW r \in Requests, LibraryAct(r) PROVE CachedWasThere' /\ AnalyzeSeesSaved'
  <2>1. RowsChange
    BY <1>1, RowsStep
  <2>2. dialects' \subseteq DialectIds
    BY LibraryTypes DEF LibraryTyped
  <2>3. \A d \in DialectIds : cache'[d].held =>
          /\ cache'[d] = cache[d]
          /\ d \in dialects \cap dialects' => RowsOf(d)' = RowsOf(d)
    <3>1. CASE UNCHANGED cache /\ \A d \in dialects \cap dialects' : RowsOf(d)' = RowsOf(d)
      BY <3>1
    <3>2. ASSUME NEW e \in DialectIds, Clear(e),
                 \A d \in dialects \cap dialects' : d # e => RowsOf(d)' = RowsOf(d)
          PROVE  \A d \in DialectIds : cache'[d].held =>
                   cache'[d] = cache[d] /\ (d \in dialects \cap dialects' => RowsOf(d)' = RowsOf(d))
      BY <1>0, <3>2 DEF Clear, Cleared, CacheTyped
    <3> QED
      BY <2>1, <3>1, <3>2 DEF RowsChange
  <2> QED
    BY <1>0, <2>1, <2>2, <2>3 DEF RowsChange
<1>2. ASSUME NEW r \in Requests, NEW d \in DialectIds, NEW expired \in BOOLEAN, Consult(r, d, expired)
      PROVE  CachedWasThere' /\ AnalyzeSeesSaved'
  <2>1. /\ d \in dialects /\ UNCHANGED <<dialects, mappings, used>>
        /\ cache' = cache \/ cache' = [cache EXCEPT ![d] = [held |-> TRUE, rows |-> RowsOf(d)]]
    BY <1>0, <1>2 DEF Consult, LibraryTyped, library
  <2>2. \A e : RowsOf(e)' = RowsOf(e)
    BY <2>1 DEF RowsOf
  <2> QED
    BY <1>0, <2>1, <2>2 DEF CacheTyped, LibraryTyped
<1>3. ASSUME NEW landed, Restart(landed) PROVE CachedWasThere' /\ AnalyzeSeesSaved'
  BY <1>0, <1>3 DEF Restart, Cleared, library
<1>4. ASSUME UNCHANGED <<library, cache>> PROVE CachedWasThere' /\ AnalyzeSeesSaved'
  BY <1>4 DEF library, RowsOf
<1>5. ASSUME NEW r \in Requests, OtherAct(r) PROVE CachedWasThere' /\ AnalyzeSeesSaved'
  BY <1>2, <1>4, <1>5 DEF OtherAct, Open, OpenOnDialect, OpenOnMapping, Beacon, Refuse, Finish
<1>6. Writes \/ UNCHANGED vars => UNCHANGED <<library, cache>>
  BY DEF Writes, vars, Flush, Land, PostEnds, Tick, SettleEnds, Delete
<1> QED
  BY Acts, <1>1, <1>3, <1>4, <1>5, <1>6

-----------------------------------------------------------------------------
(* One mapping of the path, and the caps.                                  *)
OnePath == \A m, n \in mappings : m.path /\ n.path /\ m.dialect = n.dialect => m = n

LEMMA OnePathStep ==
  ASSUME TypeOK, MeansOne, OnePath, IsFiniteSet(mappings), NEW r \in Requests, LibraryAct(r)
  PROVE  OnePath'
<1> USE IdAssumption DEF OnePath
<1>0. LibraryTyped /\ RequestTyped
  BY TypeParts
<1>1. ASSUME mappings' \subseteq mappings PROVE OnePath'
  BY <1>1
<1>2. ASSUME NEW i \in MappingIds, NEW path \in BOOLEAN, Map(r, i, path) PROVE OnePath'
  <2>1. PICK d \in dialects : d = request[r].dialect
    BY <1>2 DEF Map
  <2>2. /\ mappings' = mappings \cup {[id |-> i, dialect |-> d, path |-> path]}
        /\ path => ~ \E m \in mappings : m.dialect = d /\ m.path /\ m.id # 0
    BY <1>2, <2>1 DEF Map, PathFree, RowsOf
  <2>3. \A m \in mappings : m.id # 0
    BY <1>0 DEF LibraryTyped, Mapping
  <2> QED
    BY <2>2, <2>3
<1>3. ASSUME NEW path \in BOOLEAN, Remap(r, path) PROVE OnePath'
  <2> DEFINE d == request[r].dialect
             e == request[r].mapping
             New(m) == IF m.id = e THEN [m EXCEPT !.path = path] ELSE m
  <2>1. \A m \in Mapping : /\ New(m).dialect = m.dialect
                           /\ m.id = e => New(m).path = path
                           /\ m.id # e => New(m) = m
    BY DEF Mapping
  <2>2. \A m \in mappings : m.id = e => m.dialect = d
    BY <1>3 DEF Remap, MeansOne
  <2>3. /\ mappings' = {New(m) : m \in mappings}
        /\ path => ~ \E m \in mappings : m.dialect = d /\ m.path /\ m.id # e
    BY <1>3 DEF Remap, PathFree, RowsOf
  <2>4. mappings \subseteq Mapping /\ \A m, n \in mappings : m.id = n.id => m = n
    BY <1>0 DEF LibraryTyped
  <2> HIDE DEF d, e, New
  <2>5. ASSUME NEW m \in mappings, NEW n \in mappings, New(m).path, New(n).path,
               New(m).dialect = New(n).dialect
        PROVE  New(m) = New(n)
    <3>1. CASE m.id = e /\ n.id = e
      BY <2>4, <3>1
    <3>2. CASE m.id = e /\ n.id # e
      BY <2>1, <2>2, <2>3, <2>4, <2>5, <3>2
    <3>3. CASE m.id # e /\ n.id = e
      BY <2>1, <2>2, <2>3, <2>4, <2>5, <3>3
    <3>4. CASE m.id # e /\ n.id # e
      BY <2>1, <2>4, <2>5, <3>4
    <3> QED
      BY <3>1, <3>2, <3>3, <3>4
  <2> QED
    BY <2>3, <2>5
<1>4. ASSUME NEW d \in DialectIds, NEW rows \in SUBSET MappingIds, NEW paths \in SUBSET MappingIds,
             Import(r, d, rows, paths)
      PROVE  OnePath'
  <2> DEFINE New(i) == [id |-> i, dialect |-> d, path |-> i \in paths]
  <2>1. \A i \in rows : New(i).dialect = d /\ (New(i).path => i \in paths)
    OBVIOUS
  <2>2. mappings' = mappings \cup {New(i) : i \in rows} /\ d \notin used.dialects
        /\ ~(Cardinality(paths) > 1)
    BY <1>4 DEF Import, Fresh, Duplicate
  <2>3. \A m \in mappings : m.dialect # d
    BY <1>0, <2>2 DEF LibraryTyped
  <2>4. \A i, j \in paths : i = j
    <3> SUFFICES ASSUME NEW i \in paths, NEW j \in paths, i # j PROVE FALSE
      OBVIOUS
    <3>1. IsFiniteSet(paths) /\ Cardinality(paths) \in Nat
      BY FS_Subset, FS_CardinalityType
    <3>2. IsFiniteSet({i}) /\ Cardinality({i}) = 1
      BY FS_Singleton
    <3>3. Cardinality({i} \cup {j}) = 2
      <4>1. Cardinality({i} \cup {j}) = IF j \in {i} THEN Cardinality({i}) ELSE Cardinality({i}) + 1
        BY <3>2, FS_AddElement
      <4> QED
        BY <3>2, <4>1
    <3>4. Cardinality({i} \cup {j}) <= Cardinality(paths)
      <4>1. {i} \cup {j} \in SUBSET paths
        OBVIOUS
      <4> QED
        BY <3>1, <4>1, FS_Subset
    <3> QED
      BY <2>2, <3>1, <3>3, <3>4
  <2> HIDE DEF New
  <2> QED
    BY <2>1, <2>2, <2>3, <2>4
<1>5. DeleteAccount(r) => mappings' \subseteq mappings
  BY DEF DeleteAccount
<1> QED
  BY <1>1, <1>2, <1>3, <1>4, <1>5 DEF LibraryAct, Create, Edit, Drop, Unmap

\* The set the mappings become is no larger than one mapping each.
LEMMA RemapSize ==
  ASSUME IsFiniteSet(mappings), NEW r \in Requests, NEW path \in BOOLEAN, Remap(r, path)
  PROVE  IsFiniteSet(mappings') /\ Cardinality(mappings') <= Cardinality(mappings)
<1> DEFINE f == [m \in mappings |-> IF m.id = request[r].mapping THEN [m EXCEPT !.path = path] ELSE m]
<1>1. mappings' = {f[m] : m \in mappings}
  BY DEF Remap
<1> HIDE DEF f
<1>2. f \in Surjection(mappings, mappings')
  BY <1>1 DEF f, Surjection
<1> QED
  BY <1>2, FS_Surjection

LEMMA ImportSize ==
  ASSUME IsFiniteSet(mappings), NEW r \in Requests, NEW d, NEW rows \in SUBSET MappingIds, NEW paths,
         Import(r, d, rows, paths)
  PROVE  IsFiniteSet(mappings') /\ Cardinality(mappings') <= MappingCap
<1> DEFINE f == [i \in rows |-> [id |-> i, dialect |-> d, path |-> i \in paths]]
           new == {f[i] : i \in rows}
<1>1. mappings' = mappings \cup new /\ Cardinality(mappings) + Cardinality(rows) <= MappingCap
  BY DEF Import
<1>2. f \in Surjection(rows, new)
  BY DEF Surjection
<1> HIDE DEF f, new
<1>3. IsFiniteSet(rows)
  BY IdAssumption, FS_Subset
<1>4. IsFiniteSet(new) /\ Cardinality(new) <= Cardinality(rows)
  BY <1>2, <1>3, FS_Surjection
<1>5. /\ IsFiniteSet(mappings \cup new) /\ IsFiniteSet(mappings \cap new)
      /\ Cardinality(mappings \cup new) = Cardinality(mappings) + Cardinality(new) - Cardinality(mappings \cap new)
  BY <1>4, FS_Union, FS_Intersection
<1>6. Cardinality(mappings) \in Nat /\ Cardinality(new) \in Nat /\ Cardinality(mappings \cap new) \in Nat
      /\ Cardinality(rows) \in Nat
  BY <1>3, <1>4, <1>5, FS_CardinalityType
<1> QED
  BY <1>1, <1>4, <1>5, <1>6, CapAssumption

Sized ==
  /\ IsFiniteSet(mappings)
  /\ Cardinality(dialects) <= DialectCap /\ Cardinality(mappings) <= MappingCap

LEMMA SizeStep ==
  ASSUME TypeOK, Sized, NEW r \in Requests, LibraryAct(r)
  PROVE  Sized'
<1> USE CapAssumption DEF Sized
<1>0. IsFiniteSet(dialects) /\ Cardinality(dialects) \in Nat /\ Cardinality(mappings) \in Nat
  BY TypeParts, IdAssumption, FS_Subset, FS_CardinalityType DEF LibraryTyped
<1>1. ASSUME NEW S, NEW T, IsFiniteSet(S), T \subseteq S
      PROVE  IsFiniteSet(T) /\ Cardinality(T) <= Cardinality(S) /\ Cardinality(S) \in Nat /\ Cardinality(T) \in Nat
  BY <1>1, FS_Subset, FS_CardinalityType
<1>2. ASSUME dialects' \subseteq dialects PROVE Cardinality(dialects') <= DialectCap
  BY <1>0, <1>1, <1>2
<1>3. ASSUME mappings' \subseteq mappings PROVE IsFiniteSet(mappings') /\ Cardinality(mappings') <= MappingCap
  BY <1>0, <1>1, <1>3
<1>4. ASSUME NEW d, dialects' = dialects \cup {d}, Cardinality(dialects) + 1 <= DialectCap
      PROVE  Cardinality(dialects') <= DialectCap
  BY <1>0, <1>4, FS_AddElement
<1>5. ASSUME NEW m, mappings' = mappings \cup {m}, Cardinality(mappings) + 1 <= MappingCap
      PROVE  IsFiniteSet(mappings') /\ Cardinality(mappings') <= MappingCap
  BY <1>0, <1>5, FS_AddElement
<1>6. ASSUME NEW path \in BOOLEAN, Remap(r, path) PROVE Sized'
  <2>1. IsFiniteSet(mappings') /\ Cardinality(mappings') <= Cardinality(mappings) /\ dialects' = dialects
    BY <1>6, RemapSize DEF Remap
  <2>2. Cardinality(mappings') \in Nat
    BY <2>1, FS_CardinalityType
  <2> QED
    BY <1>0, <2>1, <2>2
<1>7. ASSUME NEW d \in DialectIds, NEW rows \in SUBSET MappingIds, NEW paths \in SUBSET MappingIds,
             Import(r, d, rows, paths)
      PROVE  Sized'
  <2>1. dialects' = dialects \cup {d} /\ Cardinality(dialects) + 1 <= DialectCap
    BY <1>7 DEF Import
  <2> QED
    BY <1>4, <1>7, <2>1, ImportSize
<1>8. ASSUME NEW d \in DialectIds, NEW active \in BOOLEAN, Create(r, d, active) PROVE Sized'
  BY <1>3, <1>4, <1>8 DEF Create
<1>9. ASSUME NEW i \in MappingIds, NEW path \in BOOLEAN, Map(r, i, path) PROVE Sized'
  BY <1>2, <1>5, <1>9 DEF Map
<1>10. (\E d \in DialectIds : Drop(r, d)) \/ (\E m \in mappings : Unmap(r, m)) \/ DeleteAccount(r)
       \/ (\E asked \in {"absent", "on", "off"} : Edit(r, asked))
         => mappings' \subseteq mappings /\ dialects' \subseteq dialects
  BY DEF Drop, Unmap, DeleteAccount, Edit
<1> QED
  BY <1>2, <1>3, <1>6, <1>7, <1>8, <1>9, <1>10 DEF LibraryAct

LEMMA OrderStep ==
  TypeOK /\ MeansOne /\ LibraryInOrder /\ IsFiniteSet(mappings) /\ [Next]_vars
    => LibraryInOrder' /\ IsFiniteSet(mappings')
<1> SUFFICES ASSUME TypeOK, MeansOne, LibraryInOrder, IsFiniteSet(mappings), [Next]_vars
             PROVE  LibraryInOrder' /\ IsFiniteSet(mappings')
  OBVIOUS
<1>1. LibraryInOrder /\ IsFiniteSet(mappings) <=> OnePath /\ Sized
  BY DEF LibraryInOrder, OnePath, Sized
<1>2. LibraryInOrder' /\ IsFiniteSet(mappings') <=> OnePath' /\ Sized'
  BY DEF LibraryInOrder, OnePath, Sized
<1>3. ASSUME NEW r \in Requests, LibraryAct(r) PROVE OnePath' /\ Sized'
  BY <1>1, <1>3, OnePathStep, SizeStep
<1>4. ASSUME UNCHANGED library PROVE OnePath' /\ Sized'
  BY <1>1, <1>4 DEF library, OnePath, Sized
<1> QED
  BY Acts, LibraryFrame, <1>2, <1>3, <1>4

-----------------------------------------------------------------------------
(* A second default.                                                       *)
LEMMA StaleEdit ==
  ASSUME TypeOK, [Next]_vars, Cardinality(default) <= 1, Cardinality(default') > 1
  PROVE  \E r \in Requests : /\ Due(r, "edit") /\ request[r].was
                             /\ request[r].dialect \in default' \ default
<1>0. default \subseteq DialectIds /\ IsFiniteSet(default)
  BY TypeParts, IdAssumption, FS_Subset DEF LibraryTyped
<1>1. \A d : Cardinality({d}) = 1 /\ Cardinality({}) = 0
  BY FS_Singleton, FS_EmptySet
<1>2. \A T : T \subseteq default => Cardinality(T) <= Cardinality(default) /\ Cardinality(T) \in Nat
                                  /\ Cardinality(default) \in Nat
  BY <1>0, FS_Subset, FS_CardinalityType
<1>3. ~(default' \subseteq default) /\ default' # {} /\ \A d : default' # {d}
  <2>1. ASSUME default' \subseteq default PROVE FALSE
    <3>1. Cardinality(default') <= Cardinality(default) /\ Cardinality(default') \in Nat
          /\ Cardinality(default) \in Nat
      BY <1>2, <2>1
    <3> QED
      BY <3>1
  <2>2. ASSUME default' = {} PROVE FALSE
    <3>1. Cardinality(default') = 0
      BY <1>1, <2>2
    <3> QED
      BY <3>1
  <2>3. ASSUME NEW d, default' = {d} PROVE FALSE
    <3>1. Cardinality(default') = 1
      BY <1>1, <2>3
    <3> QED
      BY <3>1
  <2> QED
    BY <2>1, <2>2, <2>3
<1>4. PICK r \in Requests : LibraryAct(r)
  BY Acts, LibraryFrame, <1>3 DEF library
<1>5. ASSUME NEW d \in DialectIds, NEW active \in BOOLEAN, Create(r, d, active) PROVE FALSE
  BY <1>3, <1>5 DEF Create, UnsetDefaults
<1>6. PICK asked \in {"absent", "on", "off"} : Edit(r, asked)
  BY <1>3, <1>4, <1>5 DEF LibraryAct, Drop, Map, Remap, Unmap, Import, DeleteAccount
<1>7. ~request[r].was => default' \subseteq {request[r].dialect} \/ default' \subseteq default
  BY <1>6 DEF Edit, UnsetDefaults
<1>8. default' \subseteq {request[r].dialect} => default' = {} \/ default' = {request[r].dialect}
  OBVIOUS
<1>9. request[r].was
  BY <1>3, <1>7, <1>8
<1>10. default' \subseteq default \cup {request[r].dialect}
  BY <1>6, <1>9 DEF Edit
<1>11. request[r].dialect \in default' \ default
  BY <1>3, <1>10
<1> QED
  BY <1>6, <1>9, <1>11 DEF Edit

-----------------------------------------------------------------------------
LEMMA InvStep == Inv /\ [Next]_vars => Inv'
<1> SUFFICES ASSUME Inv, [Next]_vars PROVE Inv'
  OBVIOUS
<1>1. TypeOK' /\ Erasing' /\ MeansOne'
  BY TypeStep, EraseStep, MeansStep DEF Inv
<1>2. CachedWasThere' /\ AnalyzeSeesSaved' /\ LibraryInOrder' /\ IsFiniteSet(mappings')
  BY CacheStep, OrderStep DEF Inv
<1> QED
  BY <1>1, <1>2 DEF Inv

LEMMA Invariance == Spec => []Inv
BY InitInv, InvStep, PTL DEF Spec

\* Types, and ids that are never given twice.
THEOREM TypeCorrect == Spec => []TypeOK
<1>1. Inv => TypeOK
  BY DEF Inv
<1> QED
  BY <1>1, Invariance, PTL

\* After a DELETE that worked nothing of the account is stored, buffered or on
\* its way, whatever was under way when the account was deleted: as long as an
\* insert is given up within the wait (TimerAssumption).
THEOREM ErasedTheorem == Spec => []ErasedStaysErased
<1>1. Inv => ErasedStaysErased
  BY ErasingErases DEF Inv
<1> QED
  BY <1>1, Invariance, PTL

\* No mapping route leaves a stale copy for analyze.
THEOREM AnalyzeTheorem == Spec => []AnalyzeSeesSaved
<1>1. Inv => AnalyzeSeesSaved
  BY DEF Inv
<1> QED
  BY <1>1, Invariance, PTL

\* One mapping for the path, and the caps of the library.
THEOREM OrderTheorem == Spec => []LibraryInOrder
<1>1. Inv => LibraryInOrder
  BY DEF Inv
<1> QED
  BY <1>1, Invariance, PTL

\* The overtaken edit is the only way to a second default dialect.
THEOREM SecondDefaultTheorem == Spec => SecondDefaultIsStaleEdit
<1>1. Inv /\ [Next]_vars =>
        [Cardinality(default) <= 1 /\ Cardinality(default') > 1
           => \E r \in Requests :
                /\ Due(r, "edit") /\ request[r].was
                /\ request[r].dialect \in default' \ default]_vars
  BY StaleEdit DEF Inv
<1> QED
  BY <1>1, Invariance, PTL DEF Spec, SecondDefaultIsStaleEdit

=============================================================================
