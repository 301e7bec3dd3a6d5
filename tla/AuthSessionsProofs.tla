------------------------ MODULE AuthSessionsProofs ------------------------
(***************************************************************************)
(* What AuthSessions promises for every number of accounts, sessions,      *)
(* requests and journal entries.  The argument: the table may keep a row   *)
(* of an ended session only while the journal lists it or a latch forbids  *)
(* the clean certificate, and a restart trusts the table only under that   *)
(* certificate.  Nobody else is refused under it: journal and checkpoint   *)
(* only ever list sessions that were ended.                                *)
(***************************************************************************)
EXTENDS AuthSessions, TLAPS

USE LegacyAssumption, NobodyAssumption, NumberAssumption

\* What a suspended request, a mint or a journal write does to the types.
LEMMA IdleType == Idle \in Request
<1>1. 0 \in 0 .. MaxHash
  OBVIOUS
<1> QED
  BY <1>1 DEF Idle, Request, Ops

LEMMA SameMinted == owner' = owner => Minted' = Minted
BY DEF Minted

LEMMA SuspendType ==
  ASSUME TypeOK, NEW r \in Requests, NEW op \in Ops,
         NEW u \in Users \cup {Nobody}, NEW h \in 0 .. MaxHash, NEW e \in Nat,
         op = "register" \/ u \in Users, op \in {"register", "deleteBody"} \/ h # 0,
         Suspend(r, op, u, h, e)
  PROVE  reqs' \in [Requests -> Request]
BY DEF TypeOK, Suspend, Request

LEMMA DoneType ==
  ASSUME TypeOK, NEW r \in Requests, Done(r)
  PROVE  reqs' \in [Requests -> Request]
BY IdleType DEF TypeOK, Done

LEMMA MintType ==
  ASSUME TypeOK, NEW ts \in SUBSET Tokens, NEW u \in Users,
         NEW h \in 0 .. MaxHash, Mint(ts, u, h)
  PROVE  /\ owner' \in [Tokens -> Users \cup {Nobody}]
         /\ expiry' \in [Tokens -> Nat]
         /\ grant' \in [Tokens -> 0 .. MaxHash]
         /\ Minted' = Minted \cup ts
BY DEF TypeOK, Mint, Minted

LEMMA RecordType ==
  ASSUME TypeOK, NEW entries \in SUBSET Tokens, NEW w \in WriteOutcome,
         RecordRevocations(entries, w)
  PROVE  /\ disk' \in [clean : BOOLEAN, revoked : SUBSET Tokens]
         /\ journal' \subseteq Tokens
         /\ uncertain' \in BOOLEAN /\ unaccounted' \in BOOLEAN
BY DEF TypeOK, RecordRevocations, Merged

LEMMA NewSessionType ==
  ASSUME NEW ts \in NewSession
  PROVE  ts \subseteq Modern /\ \A t \in ts : owner[t] = Nobody
<1>1. ts = {} \/ \E t \in {x \in Modern : owner[x] = Nobody} : ts = {t}
  BY DEF NewSession
<1> QED
  BY <1>1

LEMMA StopType ==
  ASSUME TypeOK, Stop
  PROVE  /\ phase' \in {"down", "serving", "closing"}
         /\ live' \subseteq Modern \cap Minted' /\ journal' \subseteq Tokens
         /\ uncertain' \in BOOLEAN /\ unaccounted' \in BOOLEAN
         /\ epoch' \in [Users -> Nat] /\ reqs' \in [Requests -> Request]
BY IdleType, SameMinted DEF Stop, TypeOK, minting

-----------------------------------------------------------------------------
\* Every step keeps the types; no raw-token session ever reaches the Map.
LEMMA TypeInductive == TypeOK /\ [Next]_vars => TypeOK'
<1> SUFFICES ASSUME TypeOK, [Next]_vars PROVE TypeOK'
  OBVIOUS
<1> USE DEF durable, memory, minting
<1>1. ASSUME NEW r \in Requests, RequestStep(r) PROVE TypeOK'
  <2>1. CASE StartRegister(r)
    BY SameMinted, <2>1, SuspendType DEF StartRegister, TypeOK, Ops
  <2>2. CASE FinishRegister(r)
    <3>1. PICK u \in fresh, ts \in NewSession :
             /\ hash' = [hash EXCEPT ![u] = 1] /\ fresh' = fresh \ {u}
             /\ Mint(ts, u, 1) /\ rows' = rows \cup ts /\ live' = live \cup ts
      BY <2>2 DEF FinishRegister, Admit
    <3>2. u \in Users /\ ts \subseteq Modern /\ Modern \subseteq Tokens
      BY SameMinted, <3>1, NewSessionType DEF TypeOK, Modern
    <3>3. 1 \in 0 .. MaxHash
      OBVIOUS
    <3>4. /\ owner' \in [Tokens -> Users \cup {Nobody}] /\ expiry' \in [Tokens -> Nat]
          /\ grant' \in [Tokens -> 0 .. MaxHash] /\ Minted' = Minted \cup ts
      BY <3>1, <3>2, <3>3, MintType
    <3> QED
      BY <2>2, <3>1, <3>2, <3>3, <3>4, DoneType DEF FinishRegister, Admit, TypeOK
  <2>3. ASSUME NEW u \in Users, StartLogin(r, u) \/ StartReset(r, u) PROVE TypeOK'
    BY SameMinted, <2>3, SuspendType DEF StartLogin, StartReset, TypeOK, Ops
  <2>4. CASE FinishLogin(r)
    <3>1. reqs[r].hash \in 0 .. MaxHash /\ reqs[r].user \in Users
      BY <2>4 DEF TypeOK, Request, FinishLogin, Admit, ProofHolds
    <3>2. PICK ts \in NewSession :
             /\ Mint(ts, reqs[r].user, reqs[r].hash)
             /\ rows' = rows \cup ts /\ live' = live \cup ts
      BY <2>4 DEF FinishLogin, Admit, ProofHolds
    <3>3. ts \subseteq Modern /\ Modern \subseteq Tokens
      BY NewSessionType DEF Modern
    <3>4. /\ owner' \in [Tokens -> Users \cup {Nobody}] /\ expiry' \in [Tokens -> Nat]
          /\ grant' \in [Tokens -> 0 .. MaxHash] /\ Minted' = Minted \cup ts
      BY <3>1, <3>2, <3>3, MintType
    <3> QED
      BY <2>4, <3>2, <3>3, <3>4, DoneType DEF FinishLogin, Admit, ProofHolds, TypeOK
  <2>5. ASSUME NEW w \in WriteOutcome, NEW dbFails \in BOOLEAN, FinishReset(r, w, dbFails)
        PROVE  TypeOK'
    <3> DEFINE u == reqs[r].user
    <3>1. u \in Users
      BY <2>5 DEF TypeOK, Request, FinishReset, StillCurrent
    <3>2. PICK ts \in NewSession :
             /\ Mint(ts, u, hash[u] + 1)
             /\ rows' = (rows \ SessionsOf(u)) \cup ts
             /\ live' = (live \ SessionsOf(u)) \cup ts
      BY <2>5 DEF FinishReset, StillCurrent
    <3>3. ts \subseteq Modern /\ Modern \subseteq Tokens
      BY NewSessionType DEF Modern
    <3>4. hash[u] + 1 \in 0 .. MaxHash
      BY SameMinted, <2>5, <3>1 DEF FinishReset, StillCurrent, TypeOK
    <3>5. hash' \in [Users -> 0 .. MaxHash]
      BY SameMinted, <2>5, <3>1, <3>4 DEF FinishReset, StillCurrent, TypeOK
    <3>6. live \cap SessionsOf(u) \in SUBSET Tokens /\ SessionsOf(u) \subseteq Minted
      BY <3>1 DEF SessionsOf, Minted
    <3>7. RecordRevocations(live \cap SessionsOf(u), w) /\ epoch' \in [Users -> Nat]
      BY SameMinted, <2>5, <3>1 DEF FinishReset, StillCurrent, InvalidateUser, TypeOK
    <3>8. revoked' \subseteq Minted
      BY SameMinted, <2>5, <3>6 DEF FinishReset, StillCurrent, InvalidateUser, TypeOK
    <3>9. /\ disk' \in [clean : BOOLEAN, revoked : SUBSET Tokens]
          /\ journal' \subseteq Tokens
          /\ uncertain' \in BOOLEAN /\ unaccounted' \in BOOLEAN
      BY <3>6, <3>7, RecordType
    <3>10. /\ owner' \in [Tokens -> Users \cup {Nobody}] /\ expiry' \in [Tokens -> Nat]
           /\ grant' \in [Tokens -> 0 .. MaxHash] /\ Minted' = Minted \cup ts
      BY <3>1, <3>2, <3>3, <3>4, MintType
    <3> QED
      BY <2>5, <3>2, <3>3, <3>5, <3>7, <3>8, <3>9, <3>10, DoneType
      DEF FinishReset, StillCurrent, TypeOK
  <2>6. ASSUME NEW t \in Tokens, StartDelete(r, t) PROVE TypeOK'
    <3>1. owner[t] \in Users
      BY SameMinted, <2>6 DEF StartDelete, Accepted, TypeOK, Minted
    <3> QED
      BY SameMinted, <2>6, <3>1, SuspendType DEF StartDelete, TypeOK, Ops
  <2>7. CASE ReadDeleteBody(r)
    <3>1. reqs[r].user \in Users
      BY <2>7 DEF TypeOK, Request, ReadDeleteBody
    <3> QED
      BY SameMinted, <2>7, <3>1, SuspendType DEF ReadDeleteBody, TypeOK, Ops
  <2>8. ASSUME NEW w \in WriteOutcome, FinishDelete(r, w) PROVE TypeOK'
    <3> DEFINE u == reqs[r].user
    <3>1. u \in Users
      BY <2>8 DEF TypeOK, Request, FinishDelete, StillCurrent
    <3>2. live \cap SessionsOf(u) \in SUBSET Tokens /\ SessionsOf(u) \subseteq Minted
      BY <3>1 DEF SessionsOf, Minted
    <3>3. RecordRevocations(live \cap SessionsOf(u), w) /\ epoch' \in [Users -> Nat]
      BY SameMinted, <2>8, <3>1 DEF FinishDelete, StillCurrent, InvalidateUser, TypeOK
    <3>4. revoked' \subseteq Minted /\ hash' \in [Users -> 0 .. MaxHash]
      BY SameMinted, <2>8, <3>1, <3>2 DEF FinishDelete, StillCurrent, InvalidateUser, TypeOK
    <3> QED
      BY SameMinted, <2>8, <3>2, <3>3, <3>4, RecordType, DoneType
      DEF FinishDelete, StillCurrent, TypeOK
  <2>9. CASE Fail(r)
    BY SameMinted, <2>9, DoneType DEF Fail, TypeOK
  <2> QED
    BY <1>1, <2>1, <2>2, <2>3, <2>4, <2>5, <2>6, <2>7, <2>8, <2>9 DEF RequestStep
<1>2. ASSUME NEW t \in Tokens, SessionStep(t) PROVE TypeOK'
  <2>1. ASSUME NEW w \in WriteOutcome, NEW dbFails \in BOOLEAN, Logout(t, w, dbFails)
        PROVE  TypeOK'
    <3>1. /\ rows' \subseteq Minted /\ live' \subseteq Modern \cap Minted
          /\ revoked' \subseteq Minted
      BY SameMinted, <2>1 DEF Logout, TypeOK
    <3> QED
      BY SameMinted, <2>1, <3>1, RecordType DEF Logout, TypeOK
  <2>2. CASE LookupExpired(t)
    BY SameMinted, <2>2 DEF LookupExpired, TypeOK
  <2>3. ASSUME NEW u \in Users, OldReleaseLogin(t, u) PROVE TypeOK'
    <3>1. hash[u] \in 0 .. MaxHash
      BY DEF TypeOK
    <3>2. /\ owner' \in [Tokens -> Users \cup {Nobody}] /\ expiry' \in [Tokens -> Nat]
          /\ grant' \in [Tokens -> 0 .. MaxHash] /\ Minted' = Minted \cup {t}
      BY <2>3, <3>1, MintType DEF OldReleaseLogin
    <3> QED
      BY <2>3, <3>2 DEF OldReleaseLogin, TypeOK
  <2> QED
    BY <1>2, <2>1, <2>2, <2>3 DEF SessionStep
<1>3. ASSUME ProcessStep PROVE TypeOK'
  <2>1. ASSUME NEW dbFails \in BOOLEAN, Sweep(dbFails) PROVE TypeOK'
    BY SameMinted, <2>1 DEF Sweep, TypeOK
  <2>2. ASSUME NEW w \in WriteOutcome, NEW later \in {clock, clock + 1}, Start(w, later)
        PROVE  TypeOK'
    <3> DEFINE active   == {t \in rows : expiry[t] > clock}
               fence    == ~disk.clean \/ active \cap Legacy # {}
               kept     == IF fence THEN {} ELSE active
               recorded == IF fence THEN {} ELSE {t \in disk.revoked : expiry[t] > later}
    <3>1. kept \subseteq Modern
      <4>1. CASE fence
        BY <4>1
      <4>2. CASE ~fence
        BY <4>2 DEF TypeOK, Modern, Minted
      <4> QED
        BY <4>1, <4>2
    <3>2. kept \subseteq Minted /\ recorded \subseteq Tokens
      BY DEF TypeOK
    <3>3. clock' \in 0 .. MaxClock
      BY SameMinted, <2>2 DEF Start, Fenced, Armed, Hydrated, TypeOK
    <3>4. rows' = kept /\ disk' \in [clean : BOOLEAN, revoked : SUBSET Tokens]
      BY SameMinted, <2>2, <3>2 DEF Start, Fenced, Armed, Hydrated, TypeOK
    <3>5. /\ phase' \in {"down", "serving", "closing"}
          /\ live' \subseteq Modern \cap Minted /\ journal' \subseteq Tokens
      BY SameMinted, <2>2, <3>1, <3>2 DEF Start, Fenced, Armed, Hydrated, TypeOK
    <3> QED
      BY SameMinted, <2>2, <3>2, <3>3, <3>4, <3>5 DEF Start, Fenced, Armed, Hydrated, TypeOK
  <2>3. CASE BeginShutdown
    BY SameMinted, <2>3 DEF BeginShutdown, TypeOK
  <2>4. ASSUME NEW w \in WriteOutcome, CleanShutdown(w) PROVE TypeOK'
    <3>1. disk' \in [clean : BOOLEAN, revoked : SUBSET Tokens]
      BY SameMinted, <2>4 DEF CleanShutdown, Certifiable, TypeOK
    <3> QED
      BY SameMinted, <2>4, <3>1, StopType DEF CleanShutdown, Certifiable, Stop, TypeOK
  <2>5. CASE Crash
    BY SameMinted, <2>5, StopType DEF Crash, Stop, TypeOK
  <2>6. CASE RestoreDatabase
    BY SameMinted, <2>6 DEF RestoreDatabase, Minted, TypeOK
  <2>7. CASE Tick
    BY SameMinted, <2>7 DEF Tick, TypeOK
  <2> QED
    BY <1>3, <2>1, <2>2, <2>3, <2>4, <2>5, <2>6, <2>7 DEF ProcessStep
<1>4. CASE UNCHANGED vars
  BY SameMinted, <1>4 DEF TypeOK, vars
<1> QED
  BY <1>1, <1>2, <1>3, <1>4 DEF Next

LEMMA InitType == Init => TypeOK
<1> SUFFICES ASSUME Init PROVE TypeOK
  OBVIOUS
<1>1. {0, 1} \subseteq 0 .. MaxHash
  OBVIOUS
<1>2. hash \in [Users -> 0 .. MaxHash]
  BY <1>1 DEF Init
<1>3. reqs \in [Requests -> Request]
  BY IdleType DEF Init
<1>4. clock \in 0 .. MaxClock /\ grant \in [Tokens -> 0 .. MaxHash]
    BY DEF Init
<1>5. /\ owner \in [Tokens -> Users \cup {Nobody}] /\ expiry \in [Tokens -> Nat]
        /\ epoch \in [Users -> Nat] /\ disk \in [clean : BOOLEAN, revoked : SUBSET Tokens]
    BY DEF Init
<1> QED
  BY <1>2, <1>3, <1>4, <1>5 DEF Init, TypeOK

\* TypeOK is an invariant of every behaviour, for all constants.
THEOREM TypeCorrect == Spec => []TypeOK
BY InitType, TypeInductive, PTL DEF Spec

-----------------------------------------------------------------------------
(***************************************************************************)
(* The inductive invariant, in named parts.                                *)
(***************************************************************************)
\* An account id not handed out yet has no password and no session.
FreshHaveNothing ==
  \A u \in fresh : hash[u] = 0 /\ \A t \in Tokens : owner[t] # u

\* Every session nobody ended was granted under the current password.
GrantedNow == \A t \in Minted \ revoked : grant[t] = hash[owner[t]]

\* While no latch is set, the open journal lists each ended session that is
\* still in the table: the fact a clean certificate rests on.
JournalIsAccounted ==
  phase # "down" /\ ~uncertain /\ ~unaccounted =>
    \A t \in revoked \cap rows : expiry[t] > clock => t \in journal

\* The Map holds no ended session that still has time left, and nothing that
\* the table would not restore; a stopped server has no Map.
LiveIsRight ==
  /\ \A t \in live \cap revoked : expiry[t] =< clock
  /\ \A t \in live : expiry[t] > clock => t \in rows
  /\ phase = "down" => live = {}

IInv ==
  /\ TypeOK /\ FreshHaveNothing /\ GrantedNow
  /\ ServingIsDirty /\ CleanIsAccounted /\ JournalIsAccounted /\ LiveIsRight

Parts == FreshHaveNothing /\ GrantedNow /\ ServingIsDirty /\ CleanIsAccounted
           /\ JournalIsAccounted /\ LiveIsRight

\* A step that only moves requests between awaits disturbs no part.
LEMMA QuietStep ==
  ASSUME IInv, UNCHANGED <<durable, live, journal, uncertain, unaccounted, minting,
                           phase, clock, revoked>>
  PROVE  Parts'
BY DEF IInv, Parts, FreshHaveNothing, GrantedNow, ServingIsDirty, CleanIsAccounted,
       JournalIsAccounted, LiveIsRight, Minted, durable, minting

\* A journal write either leaves a latch, or lists every unexpired session it
\* was given or already listed; the checkpoint stays dirty unless untouched.
LEMMA RecordEffect ==
  ASSUME TypeOK, NEW entries \in SUBSET Tokens, NEW w \in WriteOutcome,
         RecordRevocations(entries, w)
  PROVE  /\ disk' = disk \/ ~disk'.clean
         /\ ~uncertain' /\ ~unaccounted' =>
              /\ ~uncertain /\ ~unaccounted
              /\ \A t \in entries \cup journal : expiry[t] > clock => t \in journal'
BY DEF RecordRevocations, Merged, TypeOK

LEMMA PartsInductive == IInv /\ [Next]_vars => Parts'
<1> SUFFICES ASSUME IInv, [Next]_vars PROVE Parts'
  OBVIOUS
<1>ty. TypeOK /\ TypeOK'
  BY TypeInductive DEF IInv
<1>1. ASSUME NEW r \in Requests, RequestStep(r) PROVE Parts'
  <2>1. ASSUME StartRegister(r) \/ ReadDeleteBody(r) \/ Fail(r) PROVE Parts'
    BY <2>1, QuietStep DEF StartRegister, ReadDeleteBody, Fail, memory
  <2>2. ASSUME NEW u \in Users, StartLogin(r, u) \/ StartReset(r, u) PROVE Parts'
    BY <2>2, QuietStep DEF StartLogin, StartReset, memory
  <2>3. ASSUME NEW t \in Tokens, StartDelete(r, t) PROVE Parts'
    BY <2>3, QuietStep DEF StartDelete, memory
  <2>4. CASE FinishRegister(r)
    <3>1. PICK u \in fresh, ts \in NewSession :
             /\ hash' = [hash EXCEPT ![u] = 1] /\ fresh' = fresh \ {u}
             /\ Mint(ts, u, 1) /\ rows' = rows \cup ts /\ live' = live \cup ts
      BY <2>4 DEF FinishRegister, Admit
    <3>2. u \in Users /\ ts \subseteq Tokens /\ \A t \in ts : owner[t] = Nobody
      BY <1>ty, <3>1, NewSessionType DEF TypeOK, Modern
    <3>3. FreshHaveNothing' /\ GrantedNow'
      BY <1>ty, <2>4, <3>1, <3>2
      DEF IInv, FinishRegister, Admit, FreshHaveNothing, GrantedNow, Minted, Mint, TypeOK
    <3>4. ts \cap revoked = {} /\ \A t \in Tokens \ ts : expiry'[t] = expiry[t]
      BY <1>ty, <3>1, <3>2 DEF Mint, TypeOK, Minted
    <3> QED
      BY <1>ty, <2>4, <3>1, <3>2, <3>3, <3>4
      DEF IInv, Parts, FinishRegister, Admit, ServingIsDirty, CleanIsAccounted,
          JournalIsAccounted, LiveIsRight, TypeOK, Minted
  <2>5. CASE FinishLogin(r)
    <3> DEFINE u == reqs[r].user
    <3>1. PICK ts \in NewSession :
             /\ Mint(ts, u, reqs[r].hash) /\ rows' = rows \cup ts /\ live' = live \cup ts
      BY <2>5 DEF FinishLogin, Admit, ProofHolds
    <3>2. /\ u \in Users /\ hash[u] # 0
          /\ ts \subseteq Tokens /\ \A t \in ts : owner[t] = Nobody
      BY <1>ty, <2>5, <3>1, NewSessionType
      DEF Modern, TypeOK, Request, FinishLogin, Admit, ProofHolds
    <3>3. FreshHaveNothing' /\ GrantedNow'
      BY <1>ty, <2>5, <3>1, <3>2
      DEF IInv, FinishLogin, Admit, ProofHolds, FreshHaveNothing, GrantedNow, Minted, Mint, TypeOK
    <3>4. ts \cap revoked = {} /\ \A t \in Tokens \ ts : expiry'[t] = expiry[t]
      BY <1>ty, <3>1, <3>2 DEF Mint, TypeOK, Minted
    <3> QED
      BY <1>ty, <2>5, <3>1, <3>2, <3>3, <3>4
      DEF IInv, Parts, FinishLogin, Admit, ProofHolds, ServingIsDirty, CleanIsAccounted,
          JournalIsAccounted, LiveIsRight, TypeOK, Minted
  <2>6. ASSUME NEW w \in WriteOutcome, NEW dbFails \in BOOLEAN, FinishReset(r, w, dbFails)
        PROVE  Parts'
    <3> DEFINE u == reqs[r].user
    <3>1. PICK ts \in NewSession :
             /\ Mint(ts, u, hash[u] + 1)
             /\ rows' = (rows \ SessionsOf(u)) \cup ts
             /\ live' = (live \ SessionsOf(u)) \cup ts
      BY <2>6 DEF FinishReset, StillCurrent
    <3>2. u \in Users /\ ts \subseteq Tokens /\ \A t \in ts : owner[t] = Nobody
      BY <1>ty, <2>6, <3>1, NewSessionType DEF Modern, TypeOK, Request, FinishReset, StillCurrent
    <3>3. /\ revoked' = revoked \cup SessionsOf(u) /\ SessionsOf(u) \subseteq Tokens
          /\ RecordRevocations(live \cap SessionsOf(u), w)
          /\ hash' = [hash EXCEPT ![u] = @ + 1] /\ UNCHANGED <<fresh, phase, clock>>
      BY <2>6 DEF FinishReset, StillCurrent, InvalidateUser, SessionsOf
    <3>4. /\ ts \cap revoked' = {} /\ \A t \in Tokens \ ts : expiry'[t] = expiry[t]
      BY <1>ty, <3>1, <3>2, <3>3 DEF Mint, TypeOK, Minted, SessionsOf
    <3>5. FreshHaveNothing' /\ GrantedNow'
      <4>1. hash[u] # 0
        BY <1>ty, <2>6, <3>2 DEF TypeOK, Request, FinishReset, StillCurrent
      <4>2. FreshHaveNothing'
        BY <1>ty, <3>1, <3>2, <3>3, <4>1 DEF IInv, FreshHaveNothing, Mint, TypeOK
      <4>3. ASSUME NEW t \in Tokens, owner'[t] # Nobody, t \notin revoked'
            PROVE  grant'[t] = hash'[owner'[t]]
        <5>1. CASE t \in ts
          BY <1>ty, <3>1, <3>2, <3>3, <5>1 DEF Mint, TypeOK
        <5>2. CASE t \notin ts
          <6>1. owner'[t] = owner[t] /\ grant'[t] = grant[t] /\ owner[t] # u
            BY <1>ty, <3>1, <3>2, <3>3, <4>3, <5>2 DEF Mint, SessionsOf
          <6> QED
            BY <1>ty, <3>3, <4>3, <6>1 DEF IInv, GrantedNow, Minted, TypeOK
        <5> QED
          BY <5>1, <5>2
      <4> QED
        BY <4>2, <4>3 DEF GrantedNow, Minted
    <3>6. /\ disk' = disk \/ ~disk'.clean
          /\ ~uncertain' /\ ~unaccounted' =>
               /\ ~uncertain /\ ~unaccounted
               /\ \A t \in journal : expiry[t] > clock => t \in journal'
      BY <1>ty, <3>3, RecordEffect DEF TypeOK
    <3> QED
      BY <1>ty, <2>6, <3>1, <3>2, <3>3, <3>4, <3>5, <3>6
      DEF IInv, Parts, ServingIsDirty, CleanIsAccounted,
          JournalIsAccounted, LiveIsRight, TypeOK, Minted, FinishReset, StillCurrent
  <2>7. ASSUME NEW w \in WriteOutcome, FinishDelete(r, w) PROVE Parts'
    <3> DEFINE u == reqs[r].user
    <3>1. u \in Users /\ hash[u] # 0
      BY <1>ty, <2>7 DEF TypeOK, Request, FinishDelete, StillCurrent
    <3>2. /\ revoked' = revoked \cup SessionsOf(u)
          /\ RecordRevocations(live \cap SessionsOf(u), w)
          /\ live \cap SessionsOf(u) \in SUBSET Tokens
      BY <2>7 DEF FinishDelete, StillCurrent, InvalidateUser, SessionsOf
    <3>3. FreshHaveNothing' /\ GrantedNow'
      BY <1>ty, <2>7, <3>1, <3>2
      DEF IInv, FinishDelete, StillCurrent, FreshHaveNothing, GrantedNow, Minted,
          SessionsOf, TypeOK, minting
    <3>4. /\ disk' = disk \/ ~disk'.clean
          /\ ~uncertain' /\ ~unaccounted' =>
               /\ ~uncertain /\ ~unaccounted
               /\ \A t \in journal : expiry[t] > clock => t \in journal'
      BY <1>ty, <3>2, RecordEffect
    <3> QED
      BY <1>ty, <2>7, <3>1, <3>2, <3>3, <3>4
      DEF IInv, Parts, ServingIsDirty, CleanIsAccounted,
          JournalIsAccounted, LiveIsRight, FinishDelete, StillCurrent, minting
  <2> QED
    BY <1>1, <2>1, <2>2, <2>3, <2>4, <2>5, <2>6, <2>7 DEF RequestStep
<1>2. ASSUME NEW t \in Tokens, SessionStep(t) PROVE Parts'
  <2>1. ASSUME NEW w \in WriteOutcome, NEW dbFails \in BOOLEAN, Logout(t, w, dbFails)
        PROVE  Parts'
    <3>1. RecordRevocations({t}, w) /\ {t} \in SUBSET Tokens
      BY <2>1 DEF Logout
    <3>2. /\ disk' = disk \/ ~disk'.clean
          /\ ~uncertain' /\ ~unaccounted' =>
               /\ ~uncertain /\ ~unaccounted
               /\ \A x \in {t} \cup journal : expiry[x] > clock => x \in journal'
      BY <1>ty, <3>1, RecordEffect
    <3>3. FreshHaveNothing' /\ GrantedNow'
      BY <2>1 DEF IInv, Logout, FreshHaveNothing, GrantedNow, Minted, minting
    <3> QED
      BY <2>1, <3>2, <3>3
      DEF IInv, Parts, ServingIsDirty, CleanIsAccounted,
          JournalIsAccounted, LiveIsRight, Logout, minting
  <2>2. CASE LookupExpired(t)
    BY <2>2 DEF IInv, Parts, FreshHaveNothing, GrantedNow, ServingIsDirty, CleanIsAccounted,
                JournalIsAccounted, LiveIsRight, LookupExpired, Minted, durable, minting
  <2>3. ASSUME NEW u \in Users, OldReleaseLogin(t, u) PROVE Parts'
    <3>1. FreshHaveNothing' /\ GrantedNow'
      BY <1>ty, <2>3
      DEF IInv, OldReleaseLogin, FreshHaveNothing, GrantedNow, Minted, Mint, TypeOK
    <3>2. t \notin revoked /\ \A x \in Tokens \ {t} : expiry'[x] = expiry[x]
      BY <1>ty, <2>3 DEF OldReleaseLogin, Mint, TypeOK, Minted
    <3> QED
      BY <1>ty, <2>3, <3>1, <3>2
      DEF IInv, Parts, ServingIsDirty, CleanIsAccounted, JournalIsAccounted, LiveIsRight,
          OldReleaseLogin, TypeOK, Minted, memory
  <2> QED
    BY <1>2, <2>1, <2>2, <2>3 DEF SessionStep
<1>3. ASSUME ProcessStep PROVE Parts'
  <2>1. ASSUME NEW dbFails \in BOOLEAN, Sweep(dbFails) PROVE Parts'
    BY <1>ty, <2>1 DEF IInv, Parts, FreshHaveNothing, GrantedNow, ServingIsDirty,
         CleanIsAccounted, JournalIsAccounted, LiveIsRight, Sweep, Minted, minting, TypeOK
  <2>2. ASSUME NEW w \in WriteOutcome, NEW later \in {clock, clock + 1}, Start(w, later)
        PROVE  Parts'
    <3> DEFINE active   == {t \in rows : expiry[t] > clock}
               fence    == ~disk.clean \/ active \cap Legacy # {}
               kept     == IF fence THEN {} ELSE active
               recorded == IF fence THEN {} ELSE {t \in disk.revoked : expiry[t] > later}
    <3>1. /\ phase = "down" /\ clock' = later /\ rows' = kept
          /\ disk' = IF w = "lost" THEN disk ELSE [clean |-> FALSE, revoked |-> recorded]
          /\ w = "ok" => live' = kept \ recorded /\ journal' = recorded
          /\ w # "ok" => UNCHANGED <<phase, live, journal>>
          /\ UNCHANGED <<hash, fresh, uncertain, unaccounted, minting, revoked>>
      BY <2>2 DEF Start, Fenced, Armed, Hydrated
    <3>2. later >= clock /\ clock \in Nat /\ \A t \in Tokens : expiry[t] \in Nat
      BY <1>ty DEF TypeOK
    <3>3. kept \subseteq rows /\ live = {}
      BY <3>1 DEF IInv, LiveIsRight
    <3>4. \A t \in revoked \cap kept : expiry[t] > later => t \in recorded
      BY <1>ty, <3>2 DEF IInv, CleanIsAccounted, TypeOK
    <3>5. FreshHaveNothing' /\ GrantedNow'
      BY <3>1 DEF IInv, FreshHaveNothing, GrantedNow, Minted, minting
    <3>6. ServingIsDirty' /\ CleanIsAccounted'
      <4>1. CASE w = "lost"
        BY <1>ty, <3>1, <3>2, <3>3, <4>1
        DEF IInv, ServingIsDirty, CleanIsAccounted, minting, TypeOK, Minted
      <4>2. CASE w # "lost"
        BY <3>1, <4>2 DEF ServingIsDirty, CleanIsAccounted
      <4> QED
        BY <4>1, <4>2
    <3>7. JournalIsAccounted'
      BY <3>1, <3>4 DEF JournalIsAccounted, minting
    <3>8. LiveIsRight'
      <4>1. CASE w = "ok"
        <5>1. \A t \in kept : t \in Tokens
          BY <1>ty DEF TypeOK, Minted
        <5>2. phase' # "down"
          BY <2>2, <4>1 DEF Start, Fenced, Armed, Hydrated
        <5> QED
          BY <3>1, <3>2, <3>4, <4>1, <5>1, <5>2 DEF LiveIsRight, minting
      <4>2. CASE w # "ok"
        BY <3>1, <3>3, <4>2 DEF LiveIsRight
      <4> QED
        BY <4>1, <4>2
    <3> QED
      BY <3>5, <3>6, <3>7, <3>8 DEF Parts
  <2>3. CASE BeginShutdown
    BY <2>3 DEF IInv, Parts, FreshHaveNothing, GrantedNow, ServingIsDirty, CleanIsAccounted,
         JournalIsAccounted, LiveIsRight, BeginShutdown, Minted, durable, memory, minting
  <2>4. ASSUME NEW w \in WriteOutcome, CleanShutdown(w) PROVE Parts'
    BY <1>ty, <2>4 DEF IInv, Parts, FreshHaveNothing, GrantedNow, ServingIsDirty,
         CleanIsAccounted, JournalIsAccounted, LiveIsRight, CleanShutdown, Certifiable, Stop, Minted,
         minting, TypeOK
  <2>5. CASE Crash
    BY <2>5 DEF IInv, Parts, FreshHaveNothing, GrantedNow, ServingIsDirty, CleanIsAccounted,
         JournalIsAccounted, LiveIsRight, Crash, Stop, Minted, minting
  <2>6. CASE RestoreDatabase
    BY <2>6 DEF IInv, Parts, FreshHaveNothing, GrantedNow, ServingIsDirty, CleanIsAccounted,
         JournalIsAccounted, LiveIsRight, RestoreDatabase, Minted, memory, minting
  <2>7. CASE Tick
    BY <1>ty, <2>7 DEF IInv, Parts, FreshHaveNothing, GrantedNow, ServingIsDirty,
         CleanIsAccounted, JournalIsAccounted, LiveIsRight, Tick, Minted, durable, memory,
         minting, TypeOK
  <2> QED
    BY <1>3, <2>1, <2>2, <2>3, <2>4, <2>5, <2>6, <2>7 DEF ProcessStep
<1>4. CASE UNCHANGED vars
  BY <1>4, QuietStep DEF vars, memory
<1> QED
  BY <1>1, <1>2, <1>3, <1>4 DEF Next

THEOREM Invariant == Spec => []IInv
<1>1. ASSUME Init PROVE Parts
  BY <1>1 DEF Init, Parts, FreshHaveNothing, GrantedNow, ServingIsDirty, CleanIsAccounted,
       JournalIsAccounted, LiveIsRight, Minted
<1>2. IInv /\ [Next]_vars => IInv'
  BY PartsInductive, TypeInductive DEF IInv, Parts
<1>3. Init => TypeOK
  BY InitType
<1> QED
  BY <1>1, <1>2, <1>3, PTL DEF Spec, IInv, Parts

\* No session that a logout, a reset or a deletion set out to end is accepted
\* again before its last instant: through failed journal writes and row
\* deletions, crashes, shutdowns, restores and rolled-back releases.
THEOREM RevocationTheorem == Spec => []RevokedStaysDead
<1>1. IInv => RevokedStaysDead
  BY DEF IInv, LiveIsRight, RevokedStaysDead, Accepted, TypeOK, Minted
<1> QED
  BY <1>1, Invariant, PTL

\* Whoever is accepted was let in under the password the account has now: the
\* bcrypt wait of a login or a reset gives a stale proof no session.
THEOREM PasswordTheorem == Spec => []SessionMatchesPassword
<1>1. IInv => SessionMatchesPassword
  BY DEF IInv, LiveIsRight, GrantedNow, SessionMatchesPassword, Accepted, TypeOK, Minted
<1> QED
  BY <1>1, Invariant, PTL

\* A clean certificate is never given to a checkpoint that misses an ended
\* session still in the table.
THEOREM CertificateTheorem == Spec => []CleanIsAccounted
<1>1. IInv => CleanIsAccounted
  BY DEF IInv
<1> QED
  BY <1>1, Invariant, PTL

\* A process that serves, or is closing, has a checkpoint that says dirty.
THEOREM DirtyTheorem == Spec => []ServingIsDirty
<1>1. IInv => ServingIsDirty
  BY DEF IInv
<1> QED
  BY <1>1, Invariant, PTL

\* What the Map accepts, the table would restore.
THEOREM DurabilityTheorem == Spec => []AcceptedIsDurable
<1>1. IInv => AcceptedIsDurable
  BY DEF IInv, LiveIsRight, AcceptedIsDurable, Accepted
<1> QED
  BY <1>1, Invariant, PTL

\* A password is replaced, and an account deleted, only by a request whose
\* proof is for the password being replaced: a mailed link works once.
THEOREM ProofsTheorem == Spec => ProofsAreCurrent
<1> DEFINE Proved(u) == \E r \in Requests :
             /\ reqs[r].op = IF hash'[u] = 0 THEN "delete" ELSE "reset"
             /\ reqs[r].user = u /\ reqs[r].hash = hash[u]
             /\ reqs'[r] = Idle
<1>1. ASSUME IInv, Next, NEW u \in Users, hash[u] \notin {0, hash'[u]} PROVE Proved(u)
  <2>1. ASSUME UNCHANGED hash PROVE FALSE
    BY <1>1, <2>1
  <2>2. ASSUME NEW r \in Requests, RequestStep(r) PROVE Proved(u)
    <3>1. CASE FinishRegister(r)
      BY <1>1, <3>1 DEF FinishRegister, Admit, IInv, FreshHaveNothing, TypeOK
    <3>2. ASSUME NEW w \in WriteOutcome, NEW dbFails \in BOOLEAN, FinishReset(r, w, dbFails)
          PROVE  Proved(u)
      <4>1. reqs[r].user = u /\ hash'[u] = hash[u] + 1 /\ hash[u] \in Nat
        BY <1>1, <3>2 DEF FinishReset, StillCurrent, IInv, TypeOK
      <4> QED
        BY <1>1, <3>2, <4>1 DEF FinishReset, StillCurrent, Done, IInv, TypeOK
    <3>3. ASSUME NEW w \in WriteOutcome, FinishDelete(r, w) PROVE Proved(u)
      BY <1>1, <3>3 DEF FinishDelete, StillCurrent, Done, IInv, TypeOK
    <3> QED
      BY <2>1, <2>2, <3>1, <3>2, <3>3
      DEF RequestStep, StartRegister, StartLogin, StartReset, FinishLogin, Admit, ProofHolds, StartDelete,
          ReadDeleteBody, Fail, durable
  <2>3. ASSUME NEW t \in Tokens, SessionStep(t) PROVE FALSE
    BY <2>1, <2>3 DEF SessionStep, Logout, LookupExpired, OldReleaseLogin, durable
  <2>4. ASSUME ProcessStep PROVE FALSE
    BY <2>1, <2>4 DEF ProcessStep, Sweep, Start, Fenced, Armed, Hydrated, BeginShutdown, CleanShutdown, Certifiable, Crash, Stop,
                      RestoreDatabase, Tick, durable
  <2> QED
    BY <1>1, <2>2, <2>3, <2>4 DEF Next
<1>2. IInv /\ [Next]_vars =>
        [\A u \in Users : hash[u] \notin {0, hash'[u]} => Proved(u)]_vars
  BY <1>1
<1> QED
  BY <1>2, Invariant, PTL DEF Spec, ProofsAreCurrent
-----------------------------------------------------------------------------
(***************************************************************************)
(* A restart ends nobody's session by itself: the journal blames only who  *)
(* was ended.                                                              *)
(***************************************************************************)
JournalIsFair == journal \subseteq revoked /\ disk.revoked \subseteq revoked

LEMMA FairRecord ==
  ASSUME JournalIsFair, NEW entries, NEW w, RecordRevocations(entries, w),
         revoked \subseteq revoked', entries \subseteq revoked'
  PROVE  JournalIsFair'
<1>1. Merged(entries) \subseteq revoked'
  BY DEF Merged, JournalIsFair
<1> QED
  BY <1>1 DEF JournalIsFair, RecordRevocations

LEMMA FairStep == JournalIsFair /\ [Next]_vars => JournalIsFair'
<1> SUFFICES ASSUME JournalIsFair, [Next]_vars PROVE JournalIsFair'
  OBVIOUS
<1> USE DEF durable, memory, minting
<1>1. ASSUME UNCHANGED <<journal, disk, revoked>> PROVE JournalIsFair'
  BY <1>1 DEF JournalIsFair
<1>2. ASSUME NEW u, NEW w, InvalidateUser(u, w) PROVE JournalIsFair'
  BY <1>2, FairRecord DEF InvalidateUser
<1>3. ASSUME NEW r \in Requests, RequestStep(r) PROVE JournalIsFair'
  <2>1. ASSUME NEW w, NEW dbFails, FinishReset(r, w, dbFails) \/ FinishDelete(r, w)
        PROVE  JournalIsFair'
    BY <1>2, <2>1 DEF FinishReset, FinishDelete
  <2>2. CASE FinishRegister(r) \/ FinishLogin(r)
    BY <1>1, <2>2 DEF FinishRegister, FinishLogin
  <2>3. CASE StartRegister(r) \/ ReadDeleteBody(r) \/ Fail(r)
    BY <1>1, <2>3 DEF StartRegister, ReadDeleteBody, Fail
  <2>4. ASSUME NEW u, StartLogin(r, u) \/ StartReset(r, u) \/ StartDelete(r, u)
        PROVE  JournalIsFair'
    BY <1>1, <2>4 DEF StartLogin, StartReset, StartDelete
  <2> QED
    BY <1>3, <2>1, <2>2, <2>3, <2>4 DEF RequestStep
<1>4. ASSUME NEW t \in Tokens, SessionStep(t) PROVE JournalIsFair'
  <2>1. ASSUME NEW w, NEW dbFails, Logout(t, w, dbFails) PROVE JournalIsFair'
    <3>1. RecordRevocations({t}, w) /\ revoked' = revoked \cup {t}
      BY <2>1 DEF Logout
    <3> QED
      BY <3>1, FairRecord
  <2>2. CASE LookupExpired(t) \/ \E u \in Users : OldReleaseLogin(t, u)
    BY <1>1, <2>2 DEF LookupExpired, OldReleaseLogin
  <2> QED
    BY <1>4, <2>1, <2>2 DEF SessionStep
<1>5. CASE ProcessStep
  <2>1. ASSUME NEW w, NEW later, Start(w, later) PROVE JournalIsFair'
    BY <2>1 DEF Start, Armed, JournalIsFair
  <2>2. ASSUME NEW w, CleanShutdown(w) PROVE JournalIsFair'
    BY <2>2 DEF CleanShutdown, Stop, JournalIsFair
  <2>3. CASE Crash
    BY <2>3 DEF Crash, Stop, JournalIsFair
  <2>4. CASE RestoreDatabase
    BY <2>4 DEF RestoreDatabase, JournalIsFair
  <2>5. CASE BeginShutdown \/ Tick \/ \E dbFails \in BOOLEAN : Sweep(dbFails)
    BY <1>1, <2>5 DEF BeginShutdown, Tick, Sweep
  <2> QED
    BY <1>5, <2>1, <2>2, <2>3, <2>4, <2>5 DEF ProcessStep
<1>6. CASE UNCHANGED vars
  BY <1>1, <1>6 DEF vars
<1> QED
  BY <1>3, <1>4, <1>5, <1>6 DEF Next

\* After an orderly stop, a session that nobody ended is still there: only its
\* age takes it, whatever was written, lost or retried in the journal before.
THEOREM RestartTheorem == Spec => CleanRestartKeepsSessions
<1> DEFINE Kept == phase = "down" /\ phase' = "serving" /\ disk.clean /\ rows \cap Legacy = {}
                     => \A t \in rows \ revoked : expiry[t] > clock' => t \in live'
<1>1. ASSUME TypeOK, JournalIsFair, [Next]_vars PROVE Kept
  <2> SUFFICES ASSUME phase = "down", phase' = "serving", disk.clean, rows \cap Legacy = {},
                      NEW t \in rows \ revoked, expiry[t] > clock'
               PROVE  t \in live'
    OBVIOUS
  <2>1. PICK w \in WriteOutcome, later \in {clock, clock + 1} : Start(w, later)
    <3>1. ASSUME NEW r \in Requests, RequestStep(r) PROVE phase' = phase
      BY <3>1 DEF RequestStep, StartRegister, FinishRegister, StartLogin, StartReset, FinishLogin,
                  FinishReset, StartDelete, ReadDeleteBody, FinishDelete, Fail
    <3>2. ASSUME NEW s \in Tokens, SessionStep(s) PROVE phase' = phase
      BY <3>2 DEF SessionStep, Logout, LookupExpired, OldReleaseLogin
    <3> QED
      BY <1>1, <3>1, <3>2
         DEF Next, ProcessStep, Sweep, BeginShutdown, CleanShutdown, Crash, Stop, RestoreDatabase, Tick, vars
  <2>2. expiry[t] \in Nat /\ clock \in Nat /\ later \in Nat /\ clock =< later /\ clock' = later
    BY <1>1, <2>1 DEF TypeOK, Minted, Start
  <2>3. w = "ok"
    BY <2>1 DEF Start
  <2> DEFINE here == {x \in rows : expiry[x] > clock}
  <2>4. t \in here /\ here \subseteq rows
    BY <2>2
  <2>5. ~Fenced(here)
    BY <2>4 DEF Fenced
  <2>6. live' = here \ {x \in disk.revoked : expiry[x] > later}
    BY <2>1, <2>3, <2>5, Zenon DEF Start, Hydrated
  <2> QED
    BY <1>1, <2>4, <2>6 DEF JournalIsFair
<1>2. Init => JournalIsFair
  BY DEF Init, JournalIsFair
<1>3. TypeOK /\ JournalIsFair /\ [Next]_vars => [Kept]_vars
  BY <1>1
<1> QED
  BY <1>2, <1>3, FairStep, TypeCorrect, PTL DEF Spec, CleanRestartKeepsSessions
-----------------------------------------------------------------------------
(***************************************************************************)
(* The server implements SessionPromise.                                   *)
(***************************************************************************)
Acc == {t \in Tokens : Accepted(t) /\ expiry[t] > clock}

LEMMA AccFacts ==
  IInv => /\ Acc = {t \in live : phase # "down" /\ expiry[t] > clock /\ hash[owner[t]] # 0}
          /\ Acc \subseteq Minted \ revoked
BY DEF IInv, LiveIsRight, Acc, Accepted, TypeOK, Minted

\* A step that grants nothing, ends nothing and changes no password.
LEMMA LapseStep ==
  ASSUME IInv, IInv', UNCHANGED <<hash, owner, grant, revoked>>
  PROVE  Promise!Next
<1>1. Acc' \subseteq Minted' \ revoked'
  BY DEF IInv, LiveIsRight, Acc, Accepted, TypeOK, Minted
<1>2. Promise!Lapse
  BY <1>1 DEF Promise!Lapse, Promise!Granted, Acc, Minted
<1> QED
  BY <1>2 DEF Promise!Next

\* What a mint does to the promise: its sessions are new, and accepted at once.
LEMMA GrantStep ==
  ASSUME IInv, NEW ts \in NewSession, NEW u \in Users, NEW h \in 0 .. MaxHash, Mint(ts, u, h)
  PROVE  /\ Promise!Grant(ts, u, h) /\ ts \in Promise!One
         /\ \A t \in Tokens : expiry'[t] = IF t \in ts THEN clock + Ttl ELSE expiry[t]
         /\ \A t \in ts : clock + Ttl > clock /\ owner'[t] = u
<1>1. ts \subseteq Tokens /\ \A t \in ts : owner[t] = Nobody
  BY NewSessionType DEF Modern
<1>2. Promise!Grant(ts, u, h)
  BY <1>1 DEF Promise!Grant, Promise!Granted, Mint
<1>3. ts \in Promise!One
  BY <1>1 DEF Promise!One, NewSession, Modern
<1>4. clock + Ttl > clock
  BY DEF IInv, TypeOK
<1> QED
  BY <1>1, <1>2, <1>3, <1>4 DEF Mint, IInv, TypeOK

LEMMA InitPromise == Init => Promise!Init
BY DEF Init, Promise!Init, Accepted
\* Every step the server takes is one the promise allows.
LEMMA StepPromise ==
  ASSUME IInv, IInv', Next
  PROVE  Promise!Next \/ UNCHANGED Promise!vars
<1> USE DEF Acc
<1>1. CASE UNCHANGED <<hash, owner, grant, revoked>>
  BY <1>1, LapseStep
<1>2. /\ Acc = {t \in live : phase # "down" /\ expiry[t] > clock /\ hash[owner[t]] # 0}
      /\ Acc' = {t \in live' : phase' # "down" /\ expiry'[t] > clock' /\ hash'[owner'[t]] # 0}
  BY DEF IInv, Accepted, TypeOK, Minted
<1>3. TypeOK /\ TypeOK'
  BY DEF IInv
<1> HIDE DEF Acc
<1>4. ASSUME NEW r \in Requests, FinishRegister(r) PROVE Promise!Next
  <2>1. PICK u \in fresh, ts \in NewSession :
           /\ hash' = [hash EXCEPT ![u] = 1]
           /\ Mint(ts, u, 1) /\ live' = live \cup ts
    BY <1>4 DEF FinishRegister, Admit
  <2>2. /\ u \in Users /\ hash[u] = 0 /\ 1 \in 0 .. MaxHash
        /\ \A t \in Tokens : owner[t] # u
    BY <1>3, <2>1 DEF TypeOK, IInv, FreshHaveNothing
  <2>3. UNCHANGED <<revoked, phase, clock>> /\ phase = "serving"
    BY <1>4 DEF FinishRegister
  <2>4. /\ Promise!Grant(ts, u, 1) /\ ts \in Promise!One
        /\ \A t \in Tokens : expiry'[t] = IF t \in ts THEN clock + Ttl ELSE expiry[t]
        /\ \A t \in ts : clock + Ttl > clock /\ owner'[t] = u
    BY <2>1, <2>2, GrantStep
  <2>5. Acc' = Acc \cup ts
    <3>1. \A t \in Tokens : owner'[t] = IF t \in ts THEN u ELSE owner[t]
      BY <2>1 DEF Mint
    <3>2. hash'[u] = 1 /\ \A v \in Users : v # u => hash'[v] = hash[v]
      BY <1>3, <2>1, <2>2 DEF TypeOK
    <3>3. ts \subseteq Tokens /\ live \subseteq Tokens /\ \A t \in live : owner[t] \in Users \ {u}
      BY <1>3, <2>1, <2>2, NewSessionType DEF TypeOK, Minted, Modern
    <3> QED
      BY <1>2, <2>1, <2>3, <2>4, <3>1, <3>2, <3>3
  <2>6. Promise!SignUp(u, ts)
    BY <2>1, <2>2, <2>3, <2>4, <2>5 DEF Promise!SignUp, Promise!SessionsOf, Acc
  <2> QED
    BY <2>2, <2>4, <2>6 DEF Promise!Next
<1>5. ASSUME NEW r \in Requests, FinishLogin(r) PROVE Promise!Next
  <2> DEFINE u == reqs[r].user
  <2>1. PICK ts \in NewSession : Mint(ts, u, reqs[r].hash) /\ live' = live \cup ts
    BY <1>5 DEF FinishLogin, Admit
  <2>2. /\ u \in Users /\ reqs[r].hash = hash[u] /\ hash[u] # 0 /\ hash[u] \in 0 .. MaxHash
    BY <1>3, <1>5 DEF TypeOK, Request, FinishLogin, ProofHolds
  <2>3. UNCHANGED <<hash, revoked, phase, clock>> /\ phase = "serving"
    BY <1>5 DEF FinishLogin
  <2> HIDE DEF u
  <2>4. /\ Promise!Grant(ts, u, hash[u]) /\ ts \in Promise!One
        /\ \A t \in Tokens : expiry'[t] = IF t \in ts THEN clock + Ttl ELSE expiry[t]
        /\ \A t \in ts : clock + Ttl > clock /\ owner'[t] = u
    BY <2>1, <2>2, GrantStep
  <2>5. Acc' = Acc \cup ts
    <3>1. \A t \in Tokens : owner'[t] = IF t \in ts THEN u ELSE owner[t]
      BY <2>1 DEF Mint
    <3>2. /\ ts \subseteq Tokens /\ live \subseteq Tokens
          /\ \A t \in live : t \notin ts
      BY <1>3, <2>1, NewSessionType DEF TypeOK, Minted, Modern
    <3> QED
      BY <1>2, <2>1, <2>2, <2>3, <2>4, <3>1, <3>2
  <2>6. Promise!SignIn(u, ts)
    BY <2>2, <2>3, <2>4, <2>5 DEF Promise!SignIn, Acc
  <2> QED
    BY <2>2, <2>4, <2>6 DEF Promise!Next
<1>6. ASSUME NEW t \in Tokens, NEW w \in WriteOutcome, NEW dbFails \in BOOLEAN, Logout(t, w, dbFails)
      PROVE  Promise!Next
  <2>1. Acc' = Acc \ {t}
    BY <1>2, <1>6 DEF Logout, minting
  <2>2. t \in Minted
    BY <1>3, <1>6 DEF TypeOK, Logout
  <2>3. Promise!SignOut(t)
    BY <1>6, <2>1, <2>2 DEF Logout, minting, Promise!SignOut, Promise!Granted, Minted, Acc
  <2> QED
    BY <2>3 DEF Promise!Next
<1>7. ASSUME NEW t \in Tokens, NEW u \in Users, OldReleaseLogin(t, u) PROVE Promise!Next
  <2>1. /\ Mint({t}, u, hash[u]) /\ owner[t] = Nobody /\ hash[u] # 0 /\ phase = "down"
        /\ UNCHANGED <<hash, phase, revoked>>
    BY <1>7 DEF OldReleaseLogin
  <2>2. Promise!Grant({t}, u, hash[u])
    BY <2>1 DEF Mint, Promise!Grant, Promise!Granted
  <2>3. Acc' = Acc
    BY <1>2, <2>1
  <2>4. Promise!SignIn(u, {t}) /\ {t} \in Promise!One
    BY <2>1, <2>2, <2>3 DEF Promise!SignIn, Promise!One, Acc
  <2> QED
    BY <2>4 DEF Promise!Next
<1>8. ASSUME NEW r \in Requests, NEW w \in WriteOutcome, NEW dbFails \in BOOLEAN,
             FinishReset(r, w, dbFails)
      PROVE  Promise!Next
  <2> DEFINE u == reqs[r].user
  <2>1. PICK ts \in NewSession : /\ Mint(ts, u, hash[u] + 1)
                                 /\ live' = (live \ SessionsOf(u)) \cup ts
    BY <1>8 DEF FinishReset
  <2>2. /\ u \in Users /\ hash[u] # 0 /\ hash[u] \in Nat /\ hash[u] + 1 \in 0 .. MaxHash
    BY <1>3, <1>8 DEF TypeOK, Request, FinishReset, StillCurrent
  <2>3. /\ UNCHANGED <<phase, clock>> /\ phase = "serving"
        /\ revoked' = revoked \cup SessionsOf(u)
        /\ hash' = [hash EXCEPT ![u] = @ + 1]
    BY <1>8 DEF FinishReset, InvalidateUser
  <2> HIDE DEF u
  <2>4. /\ Promise!Grant(ts, u, hash[u] + 1) /\ ts \in Promise!One
        /\ \A t \in Tokens : expiry'[t] = IF t \in ts THEN clock + Ttl ELSE expiry[t]
        /\ \A t \in ts : clock + Ttl > clock /\ owner'[t] = u
    BY <2>1, <2>2, GrantStep
  <2>5. Acc' = (Acc \ SessionsOf(u)) \cup ts
    <3>1. \A t \in Tokens : owner'[t] = IF t \in ts THEN u ELSE owner[t]
      BY <2>1 DEF Mint
    <3>2. hash'[u] = hash[u] + 1 /\ \A v \in Users : v # u => hash'[v] = hash[v]
      BY <1>3, <2>2, <2>3 DEF TypeOK
    <3>3. hash'[u] # 0
      BY <2>2, <3>2
    <3>4. /\ ts \subseteq Tokens /\ live \subseteq Tokens
          /\ \A t \in live : t \notin ts /\ owner[t] \in Users
          /\ \A t \in Tokens : t \in SessionsOf(u) <=> owner[t] = u
      BY <1>3, <2>1, NewSessionType DEF TypeOK, Minted, Modern, SessionsOf
    <3> QED
      BY <1>2, <2>1, <2>3, <2>4, <3>1, <3>2, <3>3, <3>4
  <2>6. Promise!ChangePassword(u, ts)
    BY <2>2, <2>3, <2>4, <2>5
       DEF Promise!ChangePassword, Promise!SessionsOf, SessionsOf, Acc
  <2> QED
    BY <2>2, <2>4, <2>6 DEF Promise!Next
<1>9. ASSUME NEW r \in Requests, NEW w \in WriteOutcome, FinishDelete(r, w) PROVE Promise!Next
  <2>0. PICK u \in Users : u = reqs[r].user
    BY <1>3, <1>9 DEF TypeOK, Request, FinishDelete
  <2>1. u \in Users /\ hash[u] # 0
    BY <1>3, <1>9, <2>0 DEF TypeOK, Request, FinishDelete, StillCurrent
  <2>2. /\ UNCHANGED <<phase, clock, minting>>
        /\ revoked' = revoked \cup SessionsOf(u) /\ live' = live \ SessionsOf(u)
        /\ hash' = [hash EXCEPT ![u] = 0]
    BY <1>9, <2>0 DEF FinishDelete, InvalidateUser
  <2>3. Acc' = Acc \ SessionsOf(u)
    <3>1. hash'[u] = 0 /\ \A v \in Users : v # u => hash'[v] = hash[v]
      BY <1>3, <2>1, <2>2 DEF TypeOK
    <3>2. \A t \in live : owner[t] \in Users /\ (t \in SessionsOf(u) <=> owner[t] = u)
      BY <1>3 DEF TypeOK, Minted, SessionsOf
    <3> QED
      BY <1>2, <2>2, <3>1, <3>2 DEF minting
  <2>4. Promise!DeleteAccount(u)
    BY <2>1, <2>2, <2>3
       DEF minting, Promise!DeleteAccount, Promise!SessionsOf, SessionsOf, Acc
  <2> QED
    BY <2>4 DEF Promise!Next
<1>10. CASE ProcessStep
  BY <1>1, <1>10
     DEF ProcessStep, Sweep, Start, BeginShutdown, CleanShutdown, Crash, Stop, RestoreDatabase,
         Tick, durable, minting
<1> QED
  BY <1>1, <1>4, <1>5, <1>6, <1>7, <1>8, <1>9, <1>10
     DEF Next, RequestStep, SessionStep, StartRegister, StartLogin, StartReset, StartDelete,
         ReadDeleteBody, Fail, LookupExpired, durable, minting

\* The server keeps the promise: for any number of accounts, sessions,
\* requests and failures, what it does is what SessionPromise allows.
THEOREM RefinementTheorem == Spec => PromiseKept
<1>1. IInv /\ IInv' /\ [Next]_vars => [Promise!Next]_(Promise!vars)
  <2> SUFFICES ASSUME IInv, IInv', [Next]_vars PROVE Promise!Next \/ UNCHANGED Promise!vars
    OBVIOUS
  <2>1. CASE UNCHANGED vars
    BY <2>1, LapseStep DEF vars, durable, minting
  <2> QED
    BY <2>1, StepPromise
<1> QED
  BY <1>1, InitPromise, Invariant, PTL DEF Spec, PromiseKept, Promise!Spec
=============================================================================
