------------------------ MODULE BrowserSessionProofs ------------------------
(***************************************************************************)
(* Proofs about BrowserSession, for any number of accounts, of overlapping *)
(* reads of the session and of forms.  The user: an explicit act marks     *)
(* every read under way as stale, and only a read begun later lifts it; so *)
(* while the act stands no fresh read is there to overrule it.  The key:   *)
(* one only comes for the account that is the user, and while it is coming *)
(* nobody else becomes the user, or the step is one of those named.        *)
(***************************************************************************)
EXTENDS BrowserSession, TLAPS

BootRecord == [at : {"none", "sent", "served", "loading", "done"}, user : Account,
               set : BOOLEAN, stale : BOOLEAN]

JobRecord == [kind : {"none", "login", "unlock", "reset", "wipe", "signout", "refresh"},
              at : {"idle", "form", "sent", "served", "deriving", "saving", "setup"},
              user : Account, set : BOOLEAN]

\* The parts of TypeOK.
KeysTyped ==
  /\ cookie \in Account /\ enc \subseteq Users
  /\ user \in Account /\ dek \in Account /\ stored \in Account
  /\ stands \in Account \cup {Open}
FlagsTyped == pending \in BOOLEAN /\ excused \in BOOLEAN
BootsTyped == boot \in [Boots -> BootRecord]
JobsTyped == job \in [Jobs -> JobRecord]

\* While an explicit act stands, whatever is still being read is stale.
NoneFresh ==
  stands # Open => \A b \in Boots : boot[b].at \in {"sent", "served", "loading"} => Stale(b)

USE SessionAssumption

LEMMA TypeParts == TypeOK <=> KeysTyped /\ FlagsTyped /\ BootsTyped /\ JobsTyped
BY DEF TypeOK, KeysTyped, FlagsTyped, BootsTyped, JobsTyped, BootRecord, JobRecord

LEMMA AccountType == None \in Account /\ Users \subseteq Account /\ Open \notin Account
BY DEF Account

LEMMA Consts ==
  /\ Idle \in JobRecord /\ Ready \in BootRecord /\ AtLoad \in [Boots -> BootRecord]
  /\ Idle.kind = "none" /\ Idle.at = "idle" /\ ~Ready.stale
<1>1. Idle \in JobRecord /\ Ready \in BootRecord /\ Idle.kind = "none" /\ Idle.at = "idle" /\ ~Ready.stale
  BY AccountType DEF Idle, Ready, JobRecord, BootRecord
<1>2. [Ready EXCEPT !.at = "sent"] \in BootRecord
  BY <1>1 DEF BootRecord
<1> QED
  BY <1>1, <1>2 DEF AtLoad

-----------------------------------------------------------------------------
(* What becomes of a form, and of a boot.                                  *)
LEMMA JobMoves ==
  ASSUME JobsTyped, NEW j \in Jobs
  PROVE  /\ End(j) => JobsTyped'
         /\ \A a \in {"sent", "served", "deriving", "saving", "setup"} : To(j, a) => JobsTyped'
BY Consts DEF JobsTyped, End, To, JobRecord

LEMMA JobsStep == TypeOK /\ [Next]_vars => JobsTyped'
<1> SUFFICES ASSUME TypeOK, [Next]_vars PROVE JobsTyped'
  OBVIOUS
<1>0. JobsTyped /\ KeysTyped
  BY TypeParts
<1>1. ASSUME UNCHANGED job PROVE JobsTyped'
  BY <1>0, <1>1 DEF JobsTyped
<1>2. ASSUME NEW j \in Jobs, OpenForm(j) PROVE JobsTyped'
  <2>1. PICK kind \in {"login", "unlock", "reset", "wipe", "signout", "refresh"}, u \in Users :
          job' = [job EXCEPT ![j] = [kind |-> kind, at |-> "form", user |-> u, set |-> FALSE]]
    BY <1>2 DEF OpenForm
  <2>2. [kind |-> kind, at |-> "form", user |-> u, set |-> FALSE] \in JobRecord
    BY AccountType DEF JobRecord
  <2> QED
    BY <1>0, <2>1, <2>2 DEF JobsTyped
<1>3. ASSUME NEW j \in Jobs, Serve(j) PROVE JobsTyped'
  <2>1. CASE End(j) \/ To(j, "served")
    BY <1>0, <2>1, JobMoves
  <2>2. ASSUME NEW u, u = (IF job[j].kind \in {"unlock", "refresh"} THEN cookie ELSE job[j].user),
               job' = [job EXCEPT ![j] = [kind |-> job[j].kind, at |-> "served", user |-> u,
                                          set |-> cookie' = job[j].user /\ job[j].user \in enc]]
        PROVE  JobsTyped'
    <3>1. job[j] \in JobRecord /\ cookie \in Account
      BY <1>0 DEF JobsTyped, KeysTyped
    <3>2. (cookie' = job[j].user /\ job[j].user \in enc) \in BOOLEAN
      BY Zenon
    <3>3. PICK s \in BOOLEAN : s = (cookie' = job[j].user /\ job[j].user \in enc)
      BY <3>2, Zenon
    <3>4. u \in Account /\ job[j].kind \in {"none", "login", "unlock", "reset", "wipe", "signout", "refresh"}
      BY <2>2, <3>1 DEF JobRecord
    <3>5. [kind |-> job[j].kind, at |-> "served", user |-> u, set |-> s] \in JobRecord
      BY <3>4 DEF JobRecord
    <3>6. job' = [job EXCEPT ![j] = [kind |-> job[j].kind, at |-> "served", user |-> u, set |-> s]]
      BY <2>2, <3>3, Zenon
    <3> QED
      BY <1>0, <3>5, <3>6 DEF JobsTyped
  <2> QED
    BY <1>3, <2>1, <2>2, Zenon DEF Serve
<1>4. ASSUME NEW j \in Jobs, CloseForm(j) \/ Submit(j) \/ Saved(j) \/ SetupEncryption(j) PROVE JobsTyped'
  BY <1>0, <1>4, JobMoves DEF CloseForm, Submit, Saved, SetupEncryption
<1>5. ASSUME NEW j \in Jobs, AnswerLogin(j) \/ AnswerUnlock(j) \/ AnswerReset(j) \/ AnswerSignOut(j)
             \/ AnswerRefresh(j) \/ Derived(j)
      PROVE  JobsTyped'
  <2>1. End(j) \/ To(j, "deriving") \/ To(j, "saving")
    BY <1>5, Zenon DEF AnswerLogin, AnswerUnlock, AnswerReset, AnswerSignOut, AnswerRefresh, Derived
  <2> QED
    BY <1>0, <2>1, JobMoves
<1>6. ASSUME NEW b \in Boots, ForceBoot(b) \/ ServeBoot(b) \/ AnswerBoot(b) \/ LoadBoot(b) PROVE JobsTyped'
  BY <1>1, <1>6 DEF ForceBoot, ServeBoot, AnswerBoot, LoadBoot
<1>7. ASSUME Document PROVE JobsTyped'
  BY <1>7, Consts DEF Document, JobsTyped
<1>8. UNCHANGED vars \/ (\E u \in Account \ {cookie} : OtherTab(u)) => UNCHANGED job
  BY DEF vars, OtherTab
<1> QED
  BY <1>1, <1>2, <1>3, <1>4, <1>5, <1>6, <1>7, <1>8 DEF Next, Reload, AccountSignOut

-----------------------------------------------------------------------------
(* Accounts and keys.                                                      *)
LEMMA Fields ==
  ASSUME TypeOK
  PROVE  /\ \A b \in Boots : boot[b].user \in Account
         /\ \A j \in Jobs : job[j].user \in Account
BY TypeParts DEF BootsTyped, JobsTyped, BootRecord, JobRecord

LEMMA KeysStep == TypeOK /\ [Next]_vars => KeysTyped'
<1> SUFFICES ASSUME TypeOK, [Next]_vars PROVE KeysTyped'
  OBVIOUS
<1>0. KeysTyped
  BY TypeParts
<1> USE AccountType, Fields
<1>1. ASSUME UNCHANGED <<cookie, enc, user, dek, stored, stands>> PROVE KeysTyped'
  BY <1>0, <1>1 DEF KeysTyped
<1>2. ASSUME NEW b \in Boots, ForceBoot(b) \/ ServeBoot(b) \/ LoadBoot(b) PROVE KeysTyped'
  BY <1>0, <1>2 DEF ForceBoot, ServeBoot, LoadBoot, KeysTyped, tab
<1>3. ASSUME NEW b \in Boots, AnswerBoot(b) PROVE KeysTyped'
  <2>1. CASE UNCHANGED tab
    BY <1>0, <1>3, <2>1 DEF AnswerBoot, KeysTyped, tab
  <2>2. CASE user' = boot[b].user /\ (Load(b) \/ Anonymous(b))
    BY <1>0, <1>3, <2>2 DEF AnswerBoot, Load, Anonymous, ClearPersistedDEK, KeysTyped
  <2> QED
    BY <1>3, <2>1, <2>2, Zenon DEF AnswerBoot
<1>4. ASSUME NEW j \in Jobs, OpenForm(j) \/ CloseForm(j) \/ Submit(j) PROVE KeysTyped'
  BY <1>1, <1>4 DEF OpenForm, CloseForm, Submit, tab
<1>5. ASSUME NEW j \in Jobs, Serve(j) PROVE KeysTyped'
  <2>1. UNCHANGED <<user, dek, stored, stands>>
    BY <1>5 DEF Serve, tab
  <2>2. cookie' \in {cookie, None, job[j].user} /\ enc' \in {enc, enc \ {job[j].user}}
    BY <1>5 DEF Serve
  <2> QED
    BY <1>0, <2>1, <2>2 DEF KeysTyped
<1>6. ASSUME NEW j \in Jobs, AnswerLogin(j) PROVE KeysTyped'
  BY <1>0, <1>6 DEF AnswerLogin, SetUser, KeysTyped
<1>7. ASSUME NEW j \in Jobs, AnswerUnlock(j) PROVE KeysTyped'
  BY <1>0, <1>7 DEF AnswerUnlock, ClearSession, ClearPersistedDEK, SetUser, KeysTyped, tab
<1>8. ASSUME NEW j \in Jobs, AnswerReset(j) PROVE KeysTyped'
  BY <1>0, <1>8 DEF AnswerReset, ClearPersistedDEK, SetUser, KeysTyped
<1>9. ASSUME NEW j \in Jobs, AnswerSignOut(j) PROVE KeysTyped'
  BY <1>0, <1>9 DEF AnswerSignOut, ClearSession, ClearPersistedDEK, SetUser, KeysTyped
<1>10. ASSUME NEW j \in Jobs, AnswerRefresh(j) PROVE KeysTyped'
  BY <1>0, <1>10 DEF AnswerRefresh, SetUser, KeysTyped
<1>11. ASSUME NEW j \in Jobs, Derived(j) \/ Saved(j) \/ SetupEncryption(j) PROVE KeysTyped'
  BY <1>0, <1>11 DEF Derived, Saved, SetupEncryption, KeysTyped, tab, Account
<1>12. ASSUME Reload \/ AccountSignOut PROVE KeysTyped'
  BY <1>0, <1>12 DEF Reload, AccountSignOut, Document, KeysTyped
<1>13. ASSUME NEW u \in Account, OtherTab(u) PROVE KeysTyped'
  BY <1>0, <1>13 DEF OtherTab, KeysTyped, tab
<1>14. CASE UNCHANGED vars
  BY <1>1, <1>14 DEF vars, tab
<1> QED
  BY <1>2, <1>3, <1>4, <1>5, <1>6, <1>7, <1>8, <1>9, <1>10, <1>11, <1>12, <1>13, <1>14, Zenon DEF Next

(* The two flags.                                                          *)
LEMMA FlagsStep == TypeOK /\ [Next]_vars => FlagsTyped'
<1> SUFFICES ASSUME TypeOK, [Next]_vars PROVE FlagsTyped'
  OBVIOUS
<1>0. pending \in BOOLEAN /\ excused \in BOOLEAN
  BY TypeParts DEF FlagsTyped
<1>1. \A b, c : Switches(b) \in BOOLEAN /\ OthersBusy(b) \in BOOLEAN /\ LeavesKey(b, c) \in BOOLEAN
  BY Zenon DEF Switches, OthersBusy, LeavesKey
<1>2. UNCHANGED excused => excused' \in BOOLEAN
  BY <1>0, Zenon
<1>3. UNCHANGED pending => pending' \in BOOLEAN
  BY <1>0, Zenon
<1>4. ASSUME NEW b \in Boots, ForceBoot(b) \/ ServeBoot(b) PROVE FlagsTyped'
  BY <1>2, <1>3, <1>4 DEF ForceBoot, ServeBoot, tab, FlagsTyped
<1>5. ASSUME NEW b \in Boots, AnswerBoot(b) PROVE FlagsTyped'
  <2>1. UNCHANGED <<tab, excused>> \/ Load(b) \/ Anonymous(b)
    BY <1>5, Zenon DEF AnswerBoot
  <2>2. CASE UNCHANGED <<tab, excused>>
    BY <1>2, <1>3, <2>2 DEF tab, FlagsTyped
  <2>3. CASE Load(b)
    <3>1. excused' = (excused \/ Switches(b)) /\ UNCHANGED pending
      BY <2>3, Zenon DEF Load
    <3> QED
      BY <1>3, <3>1, Zenon DEF FlagsTyped
  <2>4. CASE Anonymous(b)
    <3>1. pending' = FALSE
      BY <2>4, Zenon DEF Anonymous
    <3>2. CASE boot[b].user = None
      <4>1. excused' = ((\E o \in Jobs : MayBringKey(o)) \/ \E c \in Boots : boot[c].at = "loading")
        BY <2>4, <3>2, Zenon DEF Anonymous
      <4> QED
        BY <3>1, <4>1, Zenon DEF FlagsTyped
    <3>3. CASE boot[b].user # None
      <4>1. excused' = (excused \/ Switches(b))
        BY <2>4, <3>3, Zenon DEF Anonymous
      <4> QED
        BY <3>1, <4>1, Zenon DEF FlagsTyped
    <3> QED
      BY <3>2, <3>3, Zenon
  <2> QED
    BY <2>1, <2>2, <2>3, <2>4, Zenon
<1>6. ASSUME NEW b \in Boots, LoadBoot(b) PROVE FlagsTyped'
  <2>1. UNCHANGED excused
    BY <1>6, Zenon DEF LoadBoot
  <2>2. pending' = pending \/ pending' = (boot[b].user = None)
    BY <1>6, Zenon DEF LoadBoot
  <2>3. pending' \in BOOLEAN
    BY <1>0, <2>2, Zenon
  <2> QED
    BY <1>2, <2>1, <2>3, Zenon DEF FlagsTyped
<1>7. ASSUME NEW j \in Jobs, OpenForm(j) \/ CloseForm(j) \/ SetupEncryption(j) PROVE FlagsTyped'
  BY <1>2, <1>3, <1>7 DEF OpenForm, CloseForm, SetupEncryption, tab, FlagsTyped
<1>8. ASSUME NEW j \in Jobs, Derived(j) \/ Saved(j) PROVE FlagsTyped'
  BY <1>2, <1>3, <1>8 DEF Derived, Saved, FlagsTyped
<1>9. ASSUME NEW j \in Jobs, Submit(j) \/ Serve(j) \/ AnswerLogin(j) \/ AnswerRefresh(j) PROVE FlagsTyped'
  <2>1. UNCHANGED pending
    BY <1>9 DEF Submit, Serve, AnswerLogin, AnswerRefresh, tab
  <2>2. excused' \in BOOLEAN
    BY <1>0, <1>9, Zenon DEF Submit, Serve, AnswerLogin, AnswerRefresh, LeavesKey
  <2> QED
    BY <1>3, <2>1, <2>2, Zenon DEF FlagsTyped
<1>10. ASSUME NEW j \in Jobs, AnswerUnlock(j) PROVE FlagsTyped'
  <2>1. UNCHANGED pending
    BY <1>10 DEF AnswerUnlock, tab
  <2>2. excused' = excused \/ excused' = OthersBusy(j)
    BY <1>10, Zenon DEF AnswerUnlock, ClearSession
  <2> QED
    BY <1>0, <1>1, <1>3, <2>1, <2>2, Zenon DEF FlagsTyped
<1>11. ASSUME NEW j \in Jobs, AnswerReset(j) PROVE FlagsTyped'
  <2>1. excused' = excused \/ excused' = OthersBusy(j)
    BY <1>11 DEF AnswerReset
  <2>2. pending' \in BOOLEAN
    BY <1>11, Zenon DEF AnswerReset
  <2> QED
    BY <1>0, <1>1, <2>1, <2>2, Zenon DEF FlagsTyped
<1>12. ASSUME NEW j \in Jobs, AnswerSignOut(j) PROVE FlagsTyped'
  <2>1. UNCHANGED pending /\ excused' = OthersBusy(j)
    BY <1>12, Zenon DEF AnswerSignOut, ClearSession
  <2> QED
    BY <1>1, <1>3, <2>1, Zenon DEF FlagsTyped
<1>13. ASSUME Reload \/ AccountSignOut PROVE FlagsTyped'
  <2>1. pending' = FALSE
    BY <1>13, Zenon DEF Reload, AccountSignOut, Document
  <2>2. UNCHANGED excused \/ excused' = (excused \/ stored # None)
    BY <1>13 DEF Reload, AccountSignOut
  <2> QED
    BY <1>2, <2>1, <2>2, Zenon DEF FlagsTyped
<1>14. ASSUME NEW u \in Account, OtherTab(u) PROVE FlagsTyped'
  <2>1. UNCHANGED pending /\ excused' = (excused \/ u # None)
    BY <1>14 DEF OtherTab, tab
  <2> QED
    BY <1>3, <2>1, Zenon DEF FlagsTyped
<1>15. CASE UNCHANGED vars
  BY <1>2, <1>3, <1>15 DEF vars, tab, FlagsTyped
<1> QED
  BY <1>4, <1>5, <1>6, <1>7, <1>8, <1>9, <1>10, <1>11, <1>12, <1>13, <1>14, <1>15, Zenon DEF Next

-----------------------------------------------------------------------------
(* The reads of the session.                                               *)
LEMMA BootMoves ==
  ASSUME BootsTyped, NEW b \in Boots
  PROVE  boot' = [boot EXCEPT ![b].at = "done"] => BootsTyped'
BY DEF BootsTyped, BootRecord

LEMMA AllStale ==
  ASSUME BootsTyped, NEW u, SetUser(u)
  PROVE  BootsTyped' /\ \A b \in Boots : Stale(b)'
BY DEF BootsTyped, BootRecord, SetUser, Stale

LEMMA BootsStep == TypeOK /\ [Next]_vars => BootsTyped'
<1> SUFFICES ASSUME TypeOK, [Next]_vars PROVE BootsTyped'
  OBVIOUS
<1>0. BootsTyped /\ KeysTyped
  BY TypeParts
<1>1. ASSUME UNCHANGED boot PROVE BootsTyped'
  BY <1>0, <1>1 DEF BootsTyped
<1>2. ASSUME NEW b \in Boots, ForceBoot(b) PROVE BootsTyped'
  <2>1. [Ready EXCEPT !.at = "sent"] \in BootRecord
    BY Consts DEF BootRecord
  <2> QED
    BY <1>0, <1>2, <2>1 DEF ForceBoot, BootsTyped
<1>3. ASSUME NEW b \in Boots, ServeBoot(b) PROVE BootsTyped'
  <2>1. PICK failed \in BOOLEAN :
          boot' = [boot EXCEPT ![b] = [at |-> "served", stale |-> @.stale,
                                       user |-> IF failed THEN None ELSE cookie,
                                       set |-> ~failed /\ cookie \in enc]]
    BY <1>3 DEF ServeBoot
  <2>2. PICK s \in BOOLEAN : s = (~failed /\ cookie \in enc)
    BY Zenon
  <2>3. PICK u \in Account : u = IF failed THEN None ELSE cookie
    BY <1>0, AccountType DEF KeysTyped
  <2>4. [at |-> "served", stale |-> boot[b].stale, user |-> u, set |-> s] \in BootRecord
    BY <1>0 DEF BootsTyped, BootRecord
  <2>5. boot' = [boot EXCEPT ![b] = [at |-> "served", stale |-> boot[b].stale, user |-> u, set |-> s]]
    BY <2>1, <2>2, <2>3, Zenon
  <2> QED
    BY <1>0, <2>4, <2>5 DEF BootsTyped
<1>4. ASSUME NEW b \in Boots, Load(b) PROVE BootsTyped'
  <2>1. boot[b] \in BootRecord /\ stored \in Account
    BY <1>0 DEF BootsTyped, KeysTyped
  <2>2. [boot[b] EXCEPT !.at = "loading", !.user = stored] \in BootRecord
    BY <2>1 DEF BootRecord
  <2> QED
    BY <1>0, <1>4, <2>2 DEF Load, BootsTyped
<1>5. ASSUME NEW b \in Boots, AnswerBoot(b) \/ LoadBoot(b) PROVE BootsTyped'
  <2>1. boot' = [boot EXCEPT ![b].at = "done"] \/ Load(b)
    BY <1>5, Zenon DEF AnswerBoot, LoadBoot, Anonymous
  <2> QED
    BY <1>0, <1>4, <2>1, BootMoves
<1>6. ASSUME NEW u, SetUser(u) PROVE BootsTyped'
  BY <1>0, <1>6, AllStale
<1>7. ASSUME NEW j \in Jobs, OpenForm(j) \/ CloseForm(j) \/ Submit(j) \/ Serve(j) PROVE BootsTyped'
  BY <1>1, <1>7 DEF OpenForm, CloseForm, Submit, Serve
<1>8. ASSUME NEW j \in Jobs, Derived(j) \/ Saved(j) \/ SetupEncryption(j) PROVE BootsTyped'
  BY <1>1, <1>8 DEF Derived, Saved, SetupEncryption
<1>9. ASSUME NEW j \in Jobs, AnswerLogin(j) \/ AnswerUnlock(j) \/ AnswerReset(j) \/ AnswerSignOut(j)
             \/ AnswerRefresh(j)
      PROVE  BootsTyped'
  BY <1>1, <1>6, <1>9 DEF AnswerLogin, AnswerUnlock, AnswerReset, AnswerSignOut, AnswerRefresh, ClearSession
<1>10. ASSUME Document PROVE BootsTyped'
  BY <1>10, Consts DEF Document, BootsTyped
<1>11. UNCHANGED vars \/ (\E u \in Account \ {cookie} : OtherTab(u)) => UNCHANGED boot
  BY DEF vars, OtherTab
<1> QED
  BY <1>1, <1>2, <1>3, <1>5, <1>7, <1>8, <1>9, <1>10, <1>11 DEF Next, Reload, AccountSignOut

LEMMA TypeStep == TypeOK /\ [Next]_vars => TypeOK'
<1> SUFFICES ASSUME TypeOK, [Next]_vars PROVE TypeOK'
  OBVIOUS
<1>1. KeysTyped' /\ FlagsTyped' /\ BootsTyped' /\ JobsTyped'
  BY KeysStep, FlagsStep, BootsStep, JobsStep, Zenon
<1> QED
  BY <1>1 DEF TypeOK, KeysTyped, FlagsTyped, BootsTyped, JobsTyped, BootRecord, JobRecord

-----------------------------------------------------------------------------
(* The user a visitor has chosen stands.                                   *)
IInv == TypeOK /\ NoneFresh /\ UserStands

LEMMA InitInv == Init => IInv
<1> SUFFICES ASSUME Init PROVE IInv
  OBVIOUS
<1>1. KeysTyped
  BY AccountType DEF Init, KeysTyped
<1>2. BootsTyped /\ JobsTyped
  BY Consts DEF Init, BootsTyped, JobsTyped
<1>3. FlagsTyped
  BY DEF Init, FlagsTyped
<1>4. NoneFresh /\ UserStands
  BY DEF Init, NoneFresh, UserStands
<1> QED
  BY <1>1, <1>2, <1>3, <1>4, TypeParts DEF IInv

\* A read that is neither begun nor given a newer lease keeps NoneFresh.
LEMMA StandsStep == IInv /\ [Next]_vars => NoneFresh' /\ UserStands'
<1> SUFFICES ASSUME IInv, [Next]_vars PROVE NoneFresh' /\ UserStands'
  OBVIOUS
<1>0. BootsTyped /\ NoneFresh /\ UserStands
  BY TypeParts DEF IInv
<1>1. ASSUME UNCHANGED <<boot, user, stands>> PROVE NoneFresh' /\ UserStands'
  BY <1>0, <1>1 DEF NoneFresh, UserStands, Stale
<1>2. ASSUME stands' = Open PROVE NoneFresh' /\ UserStands'
  BY <1>2 DEF NoneFresh, UserStands
<1>3. ASSUME NEW u, SetUser(u) PROVE NoneFresh' /\ UserStands'
  <2>1. UserStands'
    BY <1>3 DEF SetUser, UserStands
  <2>2. NoneFresh'
    BY <1>0, <1>3, AllStale DEF NoneFresh
  <2> QED
    BY <2>1, <2>2
<1>4. ASSUME NEW b \in Boots, ForceBoot(b) PROVE NoneFresh' /\ UserStands'
  BY <1>2, <1>4 DEF ForceBoot
<1>5. ASSUME NEW b \in Boots, ServeBoot(b) PROVE NoneFresh' /\ UserStands'
  <2>1. UNCHANGED <<user, stands>> /\ boot[b].at = "sent"
    BY <1>5 DEF ServeBoot, tab
  <2>2. \A c \in Boots : /\ c # b => boot'[c] = boot[c]
                         /\ boot'[b].stale = boot[b].stale
    BY <1>0, <1>5 DEF ServeBoot, BootsTyped, BootRecord
  <2> QED
    BY <1>0, <2>1, <2>2 DEF NoneFresh, UserStands, Stale
<1>6. ASSUME NEW b \in Boots, AnswerBoot(b) PROVE NoneFresh' /\ UserStands'
  <2>1. UNCHANGED stands /\ boot[b].at = "served"
    BY <1>6 DEF AnswerBoot
  <2>2. CASE Stale(b)
    <3>1. UNCHANGED user /\ boot' = [boot EXCEPT ![b].at = "done"]
      BY <1>6, <2>2 DEF AnswerBoot, tab
    <3> QED
      BY <1>0, <2>1, <3>1 DEF NoneFresh, UserStands, Stale, BootsTyped, BootRecord
  <2>3. CASE ~Stale(b)
    <3>1. stands = Open
      BY <1>0, <2>1, <2>3 DEF NoneFresh
    <3> QED
      BY <1>2, <2>1, <3>1
  <2> QED
    BY <2>2, <2>3
<1>7. ASSUME NEW b \in Boots, LoadBoot(b) PROVE NoneFresh' /\ UserStands'
  <2>1. UNCHANGED <<user, stands>> /\ boot' = [boot EXCEPT ![b].at = "done"]
    BY <1>7 DEF LoadBoot
  <2> QED
    BY <1>0, <2>1 DEF NoneFresh, UserStands, Stale, BootsTyped, BootRecord
<1>8. ASSUME NEW j \in Jobs, OpenForm(j) \/ CloseForm(j) \/ Submit(j) \/ Serve(j) PROVE NoneFresh' /\ UserStands'
  BY <1>1, <1>8 DEF OpenForm, CloseForm, Submit, Serve, tab
<1>9. ASSUME NEW j \in Jobs, Derived(j) \/ Saved(j) \/ SetupEncryption(j) PROVE NoneFresh' /\ UserStands'
  BY <1>1, <1>9 DEF Derived, Saved, SetupEncryption, tab
<1>10. ASSUME NEW j \in Jobs, AnswerLogin(j) \/ AnswerUnlock(j) \/ AnswerReset(j) \/ AnswerSignOut(j)
             \/ AnswerRefresh(j)
       PROVE  NoneFresh' /\ UserStands'
  <2>1. (\E u \in {None, job[j].user} : SetUser(u)) \/ UNCHANGED <<boot, user, stands>>
    BY <1>10 DEF AnswerLogin, AnswerUnlock, AnswerReset, AnswerSignOut, AnswerRefresh, ClearSession, tab
  <2> QED
    BY <1>1, <1>3, <2>1
<1>11. ASSUME Reload \/ AccountSignOut PROVE NoneFresh' /\ UserStands'
  BY <1>2, <1>11 DEF Reload, AccountSignOut, Document
<1>12. ASSUME NEW u \in Account, OtherTab(u) PROVE NoneFresh' /\ UserStands'
  BY <1>1, <1>12 DEF OtherTab, tab
<1>13. CASE UNCHANGED vars
  BY <1>1, <1>13 DEF vars, tab
<1> QED
  BY <1>4, <1>5, <1>6, <1>7, <1>8, <1>9, <1>10, <1>11, <1>12, <1>13 DEF Next

LEMMA InvStep == IInv /\ [Next]_vars => IInv'
BY TypeStep, StandsStep DEF IInv

LEMMA Invariance == Spec => []IInv
BY InitInv, InvStep, PTL DEF Spec

\* Types: what the tab, the cookie and every form hold is what their code gives them.
THEOREM TypeCorrect == Spec => []TypeOK
<1>1. IInv => TypeOK
  BY DEF IInv
<1> QED
  BY <1>1, Invariance, PTL

\* A read of the session begun before the visitor signed in or out never says
\* who the user is afterwards, however late it is answered.
THEOREM UserTheorem == Spec => []UserStands
<1>1. IInv => UserStands
  BY DEF IInv
<1> QED
  BY <1>1, Invariance, PTL

-----------------------------------------------------------------------------
(* The keys.  A key in the tab, or on its way there, is the user's, and the *)
(* cookie is that user's or nobody's, so that no read begun from now on can *)
(* name another one.  After a reload the user is not known yet, and the     *)
(* stored key is that of the account which the reads under way will name.   *)

Awaited(b) == boot[b].at \in {"sent", "served"} /\ ~Stale(b)

NamesUser == \A b \in Boots : boot[b].at = "served" /\ boot[b].set => boot[b].user # None

JobNamed(j) ==
  job[j].at # "idle" /\ (job[j].kind \in {"unlock", "refresh"} /\ job[j].at = "served" => job[j].set)
    => job[j].user # None

KeyHere ==
  /\ dek \in {None, user}
  /\ \A b \in Boots : boot[b].at = "loading" /\ ~Stale(b) => boot[b].user \in {None, user}

KeyStored ==
  stored # None =>
    /\ cookie \in {None, stored}
    /\ user # stored => user = None /\ stands = Open /\ \E b \in Boots : Awaited(b)
    /\ \A b \in Boots :
         user = None /\ boot[b].at = "served" /\ ~Stale(b) => boot[b].user \in {None, stored}

KeyComing(j) ==
  /\ job[j].kind = "reset" => ~Busy(j)
  /\ job[j].at \in {"deriving", "saving"} =>
       job[j].kind \in {"login", "unlock"} /\ job[j].user = user /\ cookie \in {None, user}
  /\ job[j].kind = "login" /\ job[j].at = "served" => cookie \in {None, job[j].user}
  /\ job[j].kind = "unlock" /\ job[j].at \in {"form", "sent"} => job[j].user = user
  /\ job[j].kind = "unlock" /\ job[j].at = "served" /\ job[j].set =>
       job[j].user = user /\ cookie \in {None, user}

KeysKept == KeyHere /\ KeyStored /\ \A j \in Jobs : KeyComing(j)
KeysInv  == ~excused => KeysKept

LEMMA Types ==
  ASSUME TypeOK
  PROVE  /\ boot \in [Boots -> BootRecord] /\ job \in [Jobs -> JobRecord]
         /\ cookie \in Account /\ user \in Account /\ dek \in Account /\ stored \in Account
         /\ enc \subseteq Users /\ excused \in BOOLEAN
BY TypeParts DEF KeysTyped, FlagsTyped, BootsTyped, JobsTyped

\* Nobody but the account itself has encryption set up.
LEMMA NamesUserStep == TypeOK /\ NamesUser /\ [Next]_vars => NamesUser'
<1> SUFFICES ASSUME TypeOK, NamesUser, [Next]_vars PROVE NamesUser'
  OBVIOUS
<1>1. ASSUME UNCHANGED boot PROVE NamesUser'
  BY <1>1 DEF NamesUser
<1>2. ASSUME NEW b \in Boots, NEW r, boot' = [boot EXCEPT ![b] = r],
             r.at = "served" /\ r.set => r.user # None
      PROVE  NamesUser'
  BY <1>2, Types DEF NamesUser
<1>3. ASSUME NEW b \in Boots, ForceBoot(b) PROVE NamesUser'
  <2>1. [Ready EXCEPT !.at = "sent"].at # "served"
    BY DEF Ready
  <2> QED
    BY <1>2, <1>3, <2>1 DEF ForceBoot
<1>4. ASSUME NEW b \in Boots, ServeBoot(b) PROVE NamesUser'
  BY <1>2, <1>4, Types DEF ServeBoot
<1>5. ASSUME NEW b \in Boots, AnswerBoot(b) \/ LoadBoot(b) PROVE NamesUser'
  <2>1. boot' = [boot EXCEPT ![b].at = "done"] \/ Load(b)
    BY <1>5, Zenon DEF AnswerBoot, LoadBoot, Anonymous
  <2>2. boot[b] \in BootRecord
    BY Types
  <2>3. [boot[b] EXCEPT !.at = "done"].at = "done"
        /\ [boot[b] EXCEPT !.at = "loading", !.user = stored].at = "loading"
    BY <2>2 DEF BootRecord
  <2> QED
    BY <1>2, <2>1, <2>3 DEF Load
<1>6. ASSUME NEW u, SetUser(u) PROVE NamesUser'
  BY <1>6, Types DEF SetUser, NamesUser, BootRecord
<1>7. ASSUME NEW j \in Jobs, AnswerLogin(j) \/ AnswerUnlock(j) \/ AnswerReset(j) \/ AnswerSignOut(j)
             \/ AnswerRefresh(j)
      PROVE  NamesUser'
  BY <1>1, <1>6, <1>7 DEF AnswerLogin, AnswerUnlock, AnswerReset, AnswerSignOut, AnswerRefresh, ClearSession
<1>8. ASSUME NEW j \in Jobs, \/ OpenForm(j) \/ CloseForm(j) \/ Submit(j) \/ Serve(j)
                             \/ Derived(j) \/ Saved(j) \/ SetupEncryption(j)
      PROVE  NamesUser'
  BY <1>1, <1>8 DEF OpenForm, CloseForm, Submit, Serve, Derived, Saved, SetupEncryption
<1>9. ASSUME Document PROVE NamesUser'
  BY <1>9 DEF Document, AtLoad, Ready, NamesUser
<1>10. UNCHANGED vars \/ (\E u \in Account \ {cookie} : OtherTab(u)) => UNCHANGED boot
  BY DEF vars, OtherTab
<1> QED
  BY <1>1, <1>3, <1>4, <1>5, <1>7, <1>8, <1>9, <1>10 DEF Next, Reload, AccountSignOut

\* What a form that ends, or moves on, leaves of itself and of the others.
LEMMA EndAfter ==
  ASSUME TypeOK, NEW j \in Jobs, End(j)
  PROVE  /\ \A o \in Jobs \ {j} : job'[o] = job[o]
         /\ KeyComing(j)' /\ JobNamed(j)'
<1>1. \A o \in Jobs \ {j} : job'[o] = job[o]
  BY DEF End
<1>2. KeyComing(j)' /\ JobNamed(j)'
  BY Types, Consts DEF End, KeyComing, Busy, JobNamed
<1> QED
  BY <1>1, <1>2

LEMMA ToAfter ==
  ASSUME TypeOK, NEW j \in Jobs, NEW at, To(j, at)
  PROVE  /\ \A o \in Jobs \ {j} : job'[o] = job[o]
         /\ job'[j].at = at /\ job'[j].kind = job[j].kind
         /\ job'[j].user = job[j].user /\ job'[j].set = job[j].set
BY Types DEF To, JobRecord

\* A form is about an account, and its answer, unless the cookie had gone.
LEMMA JobNamedStep == TypeOK /\ (\A j \in Jobs : JobNamed(j)) /\ [Next]_vars => \A j \in Jobs : JobNamed(j)'
<1> SUFFICES ASSUME TypeOK, \A j \in Jobs : JobNamed(j), [Next]_vars PROVE \A j \in Jobs : JobNamed(j)'
  OBVIOUS
<1>1. ASSUME UNCHANGED job PROVE \A j \in Jobs : JobNamed(j)'
  BY <1>1 DEF JobNamed
<1>2. ASSUME NEW j \in Jobs, \A o \in Jobs \ {j} : job'[o] = job[o], JobNamed(j)'
      PROVE  \A o \in Jobs : JobNamed(o)'
  BY <1>2 DEF JobNamed
<1>3. ASSUME NEW j \in Jobs, End(j) PROVE \A o \in Jobs : JobNamed(o)'
  BY <1>2, <1>3, EndAfter
<1>4. ASSUME NEW j \in Jobs, NEW at, To(j, at), job[j].at # "idle",
             job[j].kind \in {"unlock", "refresh"} /\ job[j].at = "served" => job[j].set
      PROVE  \A o \in Jobs : JobNamed(o)'
  BY <1>2, <1>4, ToAfter DEF JobNamed
<1>5. ASSUME NEW j \in Jobs, OpenForm(j) PROVE \A o \in Jobs : JobNamed(o)'
  <2>1. PICK kind \in {"login", "unlock", "reset", "wipe", "signout", "refresh"}, u \in Users :
          job' = [job EXCEPT ![j] = [kind |-> kind, at |-> "form", user |-> u, set |-> FALSE]]
    BY <1>5 DEF OpenForm
  <2>2. job'[j].user \in Users /\ \A o \in Jobs \ {j} : job'[o] = job[o]
    BY <2>1, Types
  <2> QED
    BY <1>2, <2>2 DEF JobNamed
<1>6. ASSUME NEW j \in Jobs, Serve(j) PROVE \A o \in Jobs : JobNamed(o)'
  <2>1. CASE End(j) \/ (To(j, "served") /\ job[j].kind = "signout")
    BY <1>3, <1>4, <1>6, <2>1 DEF Serve
  <2>2. CASE /\ cookie' = CASE job[j].kind \in {"login", "reset", "wipe"} -> job[j].user
                            [] job[j].kind = "signout" -> None
                            [] OTHER -> cookie
             /\ job' = [job EXCEPT ![j] = [kind |-> job[j].kind, at |-> "served",
                            user |-> IF job[j].kind \in {"unlock", "refresh"} THEN cookie ELSE job[j].user,
                            set |-> cookie' = job[j].user /\ job[j].user \in enc]]
    <3>1. job[j].user # None
      BY <1>6 DEF Serve, JobNamed
    <3>2. /\ job'[j].kind = job[j].kind /\ job'[j].at = "served"
          /\ job'[j].user = IF job[j].kind \in {"unlock", "refresh"} THEN cookie ELSE job[j].user
          /\ job'[j].set => cookie' = job[j].user
          /\ \A o \in Jobs \ {j} : job'[o] = job[o]
      BY <2>2, Types
    <3>3. job[j].kind \in {"unlock", "refresh"} => cookie' = cookie
      BY <2>2
    <3> QED
      BY <1>2, <3>1, <3>2, <3>3 DEF JobNamed
  <2> QED
    BY <1>6, <2>1, <2>2, Zenon DEF Serve
<1>7. ASSUME NEW j \in Jobs, CloseForm(j) \/ Submit(j) \/ Derived(j) \/ Saved(j) \/ SetupEncryption(j)
      PROVE  \A o \in Jobs : JobNamed(o)'
  <2>1. End(j) \/ /\ job[j].at \in {"form", "deriving", "saving"}
                  /\ To(j, "sent") \/ To(j, "deriving") \/ To(j, "saving") \/ To(j, "setup")
    BY <1>7, Zenon DEF CloseForm, Submit, Derived, Saved, SetupEncryption
  <2> QED
    BY <1>3, <1>4, <2>1
<1>8. ASSUME NEW j \in Jobs, AnswerLogin(j) \/ AnswerUnlock(j) \/ AnswerReset(j) \/ AnswerSignOut(j)
             \/ AnswerRefresh(j)
      PROVE  \A o \in Jobs : JobNamed(o)'
  <2>1. End(j) \/ (To(j, "deriving") /\ job[j].at = "served" /\ (job[j].kind = "login" \/ job[j].set))
    BY <1>8, Zenon DEF AnswerLogin, AnswerUnlock, AnswerReset, AnswerSignOut, AnswerRefresh, Answers
  <2> QED
    BY <1>3, <1>4, <2>1
<1>9. ASSUME NEW b \in Boots, ForceBoot(b) \/ ServeBoot(b) \/ AnswerBoot(b) \/ LoadBoot(b)
      PROVE  \A o \in Jobs : JobNamed(o)'
  BY <1>1, <1>9 DEF ForceBoot, ServeBoot, AnswerBoot, LoadBoot
<1>10. ASSUME Document PROVE \A o \in Jobs : JobNamed(o)'
  BY <1>10 DEF Document, Idle, JobNamed
<1>11. UNCHANGED vars \/ (\E u \in Account \ {cookie} : OtherTab(u)) => UNCHANGED job
  BY DEF vars, OtherTab
<1> QED
  BY <1>1, <1>5, <1>6, <1>7, <1>8, <1>9, <1>10, <1>11 DEF Next, Reload, AccountSignOut

\* Who brings no key.
LEMMA Harmless ==
  ASSUME NEW j \in Jobs, job[j].at \in {"idle", "form"}, job[j].kind # "unlock"
  PROVE  KeyComing(j)
BY DEF KeyComing, Busy

LEMMA OthersHarmless ==
  ASSUME NEW j \in Jobs, ~OthersBusy(j), NEW o \in Jobs \ {j}, job'[o] = job[o]
  PROVE  KeyComing(o)'
<1>1. job[o].at \in {"idle", "form"} /\ job[o].kind # "unlock"
  BY DEF OthersBusy, MayBringKey, Busy
<1> QED
  BY <1>1 DEF KeyComing, Busy

\* A step of the forms alone: the keys, the user and the reads stay.
LEMMA FormStep ==
  ASSUME TypeOK, KeysInv, ~excused, cookie' \in {None, cookie},
         UNCHANGED <<user, dek, stored, boot, stands>>,
         \A o \in Jobs : job'[o] = job[o] \/ KeyComing(o)'
  PROVE  KeysInv'
<1>1. KeyHere'
  BY DEF KeysInv, KeysKept, KeyHere, Stale
<1>2. KeyStored'
  BY DEF KeysInv, KeysKept, KeyStored, Awaited, Stale
<1>3. ASSUME NEW o \in Jobs, job'[o] = job[o] PROVE KeyComing(o)'
  BY <1>3 DEF KeysInv, KeysKept, KeyComing, Busy
<1> QED
  BY <1>1, <1>2, <1>3 DEF KeysInv, KeysKept

\* An explicit act while nothing else brings a key: every read is stale.
LEMMA ActStep ==
  ASSUME TypeOK, NEW j \in Jobs, ~OthersBusy(j), NEW u \in Account, SetUser(u),
         dek' \in {None, u}, stored' \in {None, u},
         stored' # None => cookie' \in {None, stored'},
         \A o \in Jobs \ {j} : job'[o] = job[o], KeyComing(j)'
  PROVE  KeysInv'
<1>1. \A b \in Boots : Stale(b)'
  BY Types, AllStale DEF BootsTyped
<1>2. user' = u
  BY DEF SetUser
<1>3. KeyHere' /\ KeyStored'
  BY <1>1, <1>2 DEF KeyHere, KeyStored
<1>4. \A o \in Jobs : KeyComing(o)'
  BY OthersHarmless
<1> QED
  BY <1>3, <1>4 DEF KeysInv, KeysKept

LEMMA KeysForms ==
  ASSUME TypeOK, KeysInv, ~excused', NEW j \in Jobs,
         OpenForm(j) \/ CloseForm(j) \/ Submit(j) \/ SetupEncryption(j)
  PROVE  KeysInv'
<1>1. CASE OpenForm(j)
  <2>1. PICK kind \in {"login", "unlock", "reset", "wipe", "signout", "refresh"}, u \in Users :
          /\ kind = "unlock" => user = u
          /\ job' = [job EXCEPT ![j] = [kind |-> kind, at |-> "form", user |-> u, set |-> FALSE]]
    BY <1>1 DEF OpenForm
  <2>2. UNCHANGED <<cookie, tab, boot, stands, excused>>
    BY <1>1 DEF OpenForm
  <2>3. job'[j] = [kind |-> kind, at |-> "form", user |-> u, set |-> FALSE]
        /\ \A o \in Jobs \ {j} : job'[o] = job[o]
    BY <2>1, Types
  <2>4. KeyComing(j)'
    BY <2>1, <2>2, <2>3 DEF KeyComing, Busy, tab
  <2> QED
    BY <2>2, <2>3, <2>4, FormStep DEF tab
<1>2. CASE CloseForm(j)
  BY <1>2, EndAfter, ToAfter, FormStep DEF CloseForm, tab
<1>3. CASE Submit(j)
  <2>1. job[j].kind # "reset" /\ ~excused /\ UNCHANGED <<cookie, tab, boot, stands>>
    BY <1>3, Types DEF Submit
  <2>2. To(j, "sent") /\ job[j].at = "form"
    BY <1>3, <2>1 DEF Submit
  <2>3. KeyComing(j)
    BY <2>1 DEF KeysInv, KeysKept
  <2>4. KeyComing(j)'
    BY <2>1, <2>2, <2>3, EndAfter, ToAfter DEF KeyComing, Busy, tab
  <2> QED
    BY <2>1, <2>2, <2>4, EndAfter, ToAfter, FormStep DEF tab
<1>4. CASE SetupEncryption(j)
  BY <1>4, EndAfter, ToAfter, FormStep DEF SetupEncryption, tab
<1> QED
  BY <1>1, <1>2, <1>3, <1>4

\* The cookie becomes another account's only while no key is here or coming.
LEMMA KeysServe ==
  ASSUME TypeOK, KeysInv, ~excused', NEW j \in Jobs, Serve(j)
  PROVE  KeysInv'
<1> DEFINE u == job[j].user
           named == IF job[j].kind \in {"unlock", "refresh"} THEN cookie ELSE u
<1>1. /\ ~excused /\ UNCHANGED <<user, dek, stored, boot, stands>>
      /\ job[j].at = "sent" /\ KeyComing(j) /\ job[j] \in JobRecord
  BY Types DEF Serve, tab, KeysInv, KeysKept
<1>2. CASE UNCHANGED cookie /\ job[j].kind = "signout" /\ To(j, "served")
  <2>1. KeyComing(j)'
    BY <1>1, <1>2, EndAfter, ToAfter DEF KeyComing, Busy
  <2> QED
    BY <1>1, <1>2, <2>1, EndAfter, ToAfter, FormStep
<1>3. CASE UNCHANGED cookie /\ End(j)
  BY <1>1, <1>3, EndAfter, ToAfter, FormStep
<1>4. ASSUME cookie' = CASE job[j].kind \in {"login", "reset", "wipe"} -> u
                         [] job[j].kind = "signout" -> None
                         [] OTHER -> cookie,
             job' = [job EXCEPT ![j] = [kind |-> job[j].kind, at |-> "served", user |-> named,
                                        set |-> cookie' = u /\ u \in enc]],
             job[j].kind \in {"login", "reset", "wipe"} => ~LeavesKey(j, u)
      PROVE  KeysInv'
  <2> HIDE DEF u, named
  <2>1. /\ \A o \in Jobs \ {j} : job'[o] = job[o]
        /\ job'[j].kind = job[j].kind /\ job'[j].at = "served" /\ job'[j].user = named
        /\ job'[j].set => cookie' = u
    BY <1>4, Types
  <2>2. job[j].kind # "reset"
    BY <1>1 DEF KeyComing, Busy
  <2>3. KeyComing(j)'
    <3>1. CASE job[j].kind = "login"
      BY <1>4, <2>1, <3>1 DEF KeyComing, Busy, named
    <3>2. CASE job[j].kind = "unlock"
      BY <1>1, <1>4, <2>1, <3>2 DEF KeyComing, Busy, named, u
    <3>3. CASE job[j].kind \notin {"login", "unlock"}
      BY <2>1, <2>2, <3>3 DEF KeyComing
    <3> QED
      BY <3>1, <3>2, <3>3
  <2>4. CASE job[j].kind \notin {"login", "wipe"}
    <3>1. cookie' \in {None, cookie}
      BY <1>4, <2>2, <2>4
    <3> QED
      BY <1>1, <2>1, <2>3, <3>1, FormStep
  <2>5. CASE job[j].kind \in {"login", "wipe"}
    <3>1. cookie' = u /\ ~OthersBusy(j) /\ {dek, stored} \ {None, u} = {}
      BY <1>4, <2>5 DEF LeavesKey
    <3>2. KeyHere'
      BY <1>1 DEF KeysInv, KeysKept, KeyHere, Stale
    <3>3. KeyStored'
      BY <1>1, <3>1 DEF KeysInv, KeysKept, KeyStored, Awaited, Stale
    <3>4. \A o \in Jobs : KeyComing(o)'
      BY <2>1, <2>3, <3>1, OthersHarmless
    <3> QED
      BY <3>2, <3>3, <3>4 DEF KeysInv, KeysKept
  <2> QED
    BY <2>4, <2>5
<1> QED
  BY <1>1, <1>2, <1>3, <1>4, Zenon DEF Serve

LEMMA KeysCleared ==
  ASSUME TypeOK, ~excused', NEW j \in Jobs, ClearSession(j), End(j)
  PROVE  KeysInv'
<1>1. ~OthersBusy(j) /\ SetUser(None) /\ dek' = None /\ stored' = None
  BY DEF ClearSession, ClearPersistedDEK
<1> QED
  BY <1>1, EndAfter, AccountType, ActStep

LEMMA KeysActs ==
  ASSUME TypeOK, KeysInv, ~excused', NEW j \in Jobs,
         AnswerLogin(j) \/ AnswerUnlock(j) \/ AnswerReset(j) \/ AnswerSignOut(j) \/ AnswerRefresh(j)
  PROVE  KeysInv'
<1>0. job[j].user \in Account /\ None \in Account
  BY Fields, AccountType
<1>1. CASE AnswerLogin(j)
  <2>1. /\ ~excused /\ ~OthersBusy(j) /\ {dek, stored} \ {None, job[j].user} = {}
        /\ SetUser(job[j].user) /\ To(j, "deriving") /\ UNCHANGED <<cookie, dek, stored>>
        /\ job[j].at = "served" /\ job[j].kind = "login"
    BY <1>1, Zenon DEF AnswerLogin, LeavesKey, Answers
  <2>2. cookie \in {None, job[j].user}
    BY <2>1 DEF KeysInv, KeysKept, KeyComing
  <2>3. KeyComing(j)'
    BY <2>1, <2>2, ToAfter DEF KeyComing, Busy, SetUser
  <2> QED
    BY <1>0, <2>1, <2>2, <2>3, ToAfter, ActStep
<1>2. CASE AnswerUnlock(j)
  <2>0. job[j].at = "served" /\ job[j].kind = "unlock" /\ UNCHANGED cookie
    BY <1>2 DEF AnswerUnlock, Answers
  <2>1. CASE End(j) /\ UNCHANGED <<tab, boot, stands, excused>>
    BY <2>0, <2>1, EndAfter, FormStep DEF tab
  <2>2. CASE ClearSession(j) /\ End(j)
    BY <2>2, KeysCleared
  <2>3. CASE job[j].set /\ To(j, "deriving") /\ UNCHANGED <<tab, boot, stands, excused>>
    <3>1. KeyComing(j)
      BY <2>3 DEF KeysInv, KeysKept
    <3>2. KeyComing(j)'
      BY <2>0, <2>3, <3>1, ToAfter DEF KeyComing, tab
    <3> QED
      BY <2>0, <2>3, <3>2, ToAfter, FormStep DEF tab
  <2> QED
    BY <1>2, <2>1, <2>2, <2>3, Zenon DEF AnswerUnlock
<1>3. CASE AnswerReset(j)
  <2>1. /\ SetUser(job[j].user) /\ End(j) /\ UNCHANGED cookie /\ job[j].at = "served"
        /\ \/ job[j].kind = "reset" /\ UNCHANGED excused
           \/ dek' = None /\ stored' = None /\ excused' = OthersBusy(j)
    BY <1>3 DEF AnswerReset, Answers, ClearPersistedDEK
  <2>2. ~(job[j].kind = "reset" /\ UNCHANGED excused)
    BY <2>1 DEF KeysInv, KeysKept, KeyComing, Busy
  <2> QED
    BY <1>0, <2>1, <2>2, EndAfter, ActStep
<1>4. CASE AnswerSignOut(j)
  BY <1>4, KeysCleared DEF AnswerSignOut
<1>5. CASE AnswerRefresh(j)
  <2>1. End(j) /\ UNCHANGED <<cookie, dek, stored, pending>>
    BY <1>5 DEF AnswerRefresh
  <2>2. CASE UNCHANGED <<user, boot, stands, excused>>
    BY <2>1, <2>2, EndAfter, FormStep DEF tab
  <2>3. CASE SetUser(None) /\ excused' = (excused \/ LeavesKey(j, None))
    <3>1. ~OthersBusy(j) /\ dek = None /\ stored = None
      BY <2>3 DEF LeavesKey
    <3> QED
      BY <1>0, <2>1, <2>3, <3>1, EndAfter, ActStep
  <2> QED
    BY <1>5, <2>2, <2>3, Zenon DEF AnswerRefresh
<1> QED
  BY <1>1, <1>2, <1>3, <1>4, <1>5

\* The key arrives while its account is the user.
LEMMA KeysDerived ==
  ASSUME TypeOK, KeysInv, ~excused', NEW j \in Jobs, Derived(j) \/ Saved(j)
  PROVE  KeysInv'
<1>1. /\ KeyHere /\ KeyStored /\ KeyComing(j) /\ job[j].at \in {"deriving", "saving"}
      /\ UNCHANGED <<cookie, user, boot, stands, excused>> /\ ~excused
  BY DEF Derived, Saved, KeysInv, KeysKept
<1>2. job[j].kind \in {"login", "unlock"} /\ job[j].user = user /\ cookie \in {None, user}
  BY <1>1 DEF KeyComing
<1>3. /\ dek' \in {dek, user} /\ stored' \in {stored, user}
      /\ stored' # stored => stored' = user
      /\ \/ End(j) \/ To(j, "saving") \/ To(j, "setup")
  BY <1>2, Zenon DEF Derived, Saved
<1>4. KeyHere'
  BY <1>1, <1>3 DEF KeyHere, Stale
<1>5. KeyStored'
  BY <1>1, <1>2, <1>3 DEF KeyStored, Awaited, Stale
<1>6. KeyComing(j)' /\ \A o \in Jobs \ {j} : job'[o] = job[o]
  <2>1. CASE End(j)
    BY <2>1, EndAfter
  <2>2. ASSUME NEW at \in {"saving", "setup"}, To(j, at) PROVE KeyComing(j)' /\ \A o \in Jobs \ {j} : job'[o] = job[o]
    BY <1>1, <1>2, <2>2, ToAfter DEF KeyComing
  <2> QED
    BY <1>3, <2>1, <2>2
<1>7. ASSUME NEW o \in Jobs \ {j} PROVE KeyComing(o)'
  <2>1. KeyComing(o) /\ job'[o] = job[o]
    BY <1>1, <1>6 DEF KeysInv, KeysKept
  <2> QED
    BY <1>1, <2>1 DEF KeyComing, Busy
<1> QED
  BY <1>4, <1>5, <1>6, <1>7 DEF KeysInv, KeysKept

\* A read that takes a step, and the others, which do not.
LEMMA BootAfter ==
  ASSUME TypeOK, NEW b \in Boots, NEW r, boot' = [boot EXCEPT ![b] = r]
  PROVE  boot'[b] = r /\ \A c \in Boots \ {b} : boot'[c] = boot[c]
BY Types

\* Neither the forms nor who the user is: what a read is answered.
LEMMA KeysServeBoot ==
  ASSUME TypeOK, KeysInv, ~excused', NEW b \in Boots, ForceBoot(b) \/ ServeBoot(b)
  PROVE  KeysInv'
<1>1. /\ UNCHANGED <<cookie, user, dek, stored, job, excused>> /\ ~excused
      /\ KeyHere /\ KeyStored /\ \A j \in Jobs : KeyComing(j)
  BY DEF ForceBoot, ServeBoot, tab, KeysInv, KeysKept
<1>2. \A c \in Boots \ {b} : boot'[c] = boot[c]
  BY BootAfter DEF ForceBoot, ServeBoot
<1>3. \A j \in Jobs : KeyComing(j)'
  BY <1>1 DEF KeyComing, Busy
<1>4. CASE ForceBoot(b)
  <2>1. boot'[b].at = "sent" /\ ~boot'[b].stale /\ stands' = Open
    BY <1>4, Types DEF ForceBoot, Ready
  <2>2. KeyHere'
    BY <1>1, <1>2, <2>1 DEF KeyHere, Stale
  <2>3. KeyStored'
    BY <1>1, <1>2, <2>1 DEF KeyStored, Awaited, Stale
  <2> QED
    BY <1>3, <2>2, <2>3 DEF KeysInv, KeysKept
<1>5. CASE ServeBoot(b)
  <2>1. /\ boot'[b].at = "served" /\ boot'[b].stale = boot[b].stale /\ boot[b].at = "sent"
        /\ boot'[b].user \in {None, cookie} /\ UNCHANGED stands
    BY <1>5, Types DEF ServeBoot
  <2>2. KeyHere'
    BY <1>1, <1>2, <2>1 DEF KeyHere, Stale
  <2>3. KeyStored'
    BY <1>1, <1>2, <2>1 DEF KeyStored, Awaited, Stale
  <2> QED
    BY <1>3, <2>2, <2>3 DEF KeysInv, KeysKept
<1> QED
  BY <1>4, <1>5

LEMMA KeysLoad ==
  ASSUME TypeOK, NamesUser, \A j \in Jobs : JobNamed(j), KeysInv, ~excused',
         NEW b \in Boots, AnswerBoot(b), ~Stale(b), Load(b), boot[b].set
  PROVE  KeysInv'
<1> DEFINE u == boot[b].user
<1>1. /\ user' = u /\ UNCHANGED <<cookie, job, stands, dek, stored>> /\ boot[b].at = "served"
      /\ ~excused /\ user \in {None, u} /\ u # None
  BY Zenon DEF AnswerBoot, Load, Switches, NamesUser
<1>2. KeyHere /\ KeyStored /\ \A j \in Jobs : KeyComing(j)
  BY <1>1 DEF KeysInv, KeysKept
<1>3. /\ boot'[b].at = "loading" /\ boot'[b].user = stored
      /\ \A c \in Boots \ {b} : boot'[c] = boot[c]
  BY Types DEF Load, BootRecord
<1>4. stored \in {None, u}
  BY <1>1, <1>2 DEF KeyStored
<1>5. KeyHere'
  BY <1>1, <1>2, <1>3, <1>4 DEF KeyHere, Stale
<1>6. KeyStored'
  BY <1>1, <1>2, <1>4 DEF KeyStored
<1>7. ASSUME NEW j \in Jobs PROVE KeyComing(j)'
  BY <1>1, <1>2 DEF KeyComing, Busy, JobNamed
<1> QED
  BY <1>5, <1>6, <1>7 DEF KeysInv, KeysKept

LEMMA KeysAnonymous ==
  ASSUME TypeOK, \A j \in Jobs : JobNamed(j), KeysInv, ~excused',
         NEW b \in Boots, AnswerBoot(b), ~Stale(b), Anonymous(b)
  PROVE  KeysInv'
<1> DEFINE u == boot[b].user
<1>1. /\ user' = u /\ UNCHANGED <<cookie, job, stands>> /\ boot[b].at = "served"
      /\ dek' = None /\ stored' = None
      /\ excused' = IF u = None THEN (\E o \in Jobs : MayBringKey(o)) \/ \E c \in Boots : boot[c].at = "loading"
                                ELSE excused \/ Switches(b)
  BY Zenon DEF AnswerBoot, Anonymous, ClearPersistedDEK
<1>2. \A c \in Boots : boot'[c].at # "done" => boot'[c] = boot[c]
  BY Types DEF Anonymous, BootRecord
<1>3. KeyStored'
  BY <1>1 DEF KeyStored
<1>4. CASE u = None
  <2>1. KeyHere'
    BY <1>1, <1>2, <1>4 DEF KeyHere
  <2>2. ASSUME NEW j \in Jobs PROVE KeyComing(j)'
    <3>1. job[j].at \in {"idle", "form"} /\ job[j].kind # "unlock"
      BY <1>1, <1>4 DEF MayBringKey, Busy
    <3> QED
      BY <1>1, <3>1 DEF KeyComing, Busy
  <2> QED
    BY <1>3, <2>1, <2>2 DEF KeysInv, KeysKept
<1>5. CASE u # None
  <2>1. ~excused /\ user \in {None, u}
    BY <1>1, <1>5 DEF Switches
  <2>2. KeyHere /\ \A j \in Jobs : KeyComing(j)
    BY <2>1 DEF KeysInv, KeysKept
  <2>3. KeyHere'
    BY <1>1, <1>2, <2>1, <2>2 DEF KeyHere, Stale
  <2>4. ASSUME NEW j \in Jobs PROVE KeyComing(j)'
    BY <1>1, <2>1, <2>2 DEF KeyComing, Busy, JobNamed
  <2> QED
    BY <1>3, <2>3, <2>4 DEF KeysInv, KeysKept
<1> QED
  BY <1>4, <1>5

LEMMA KeysBoots ==
  ASSUME TypeOK, NamesUser, \A j \in Jobs : JobNamed(j), KeysInv, ~excused',
         NEW b \in Boots, AnswerBoot(b) \/ LoadBoot(b)
  PROVE  KeysInv'
<1>1. ASSUME AnswerBoot(b), Stale(b) PROVE KeysInv'
  <2>1. /\ UNCHANGED <<cookie, user, dek, stored, job, stands, excused>> /\ ~excused
        /\ KeyHere /\ KeyStored /\ \A j \in Jobs : KeyComing(j)
    BY <1>1 DEF AnswerBoot, tab, KeysInv, KeysKept
  <2>2. \A c \in Boots : ~Stale(c) \/ ~Stale(c)' => boot'[c] = boot[c]
    <3>1. boot' = [boot EXCEPT ![b].at = "done"]
      BY <1>1 DEF AnswerBoot
    <3> QED
      BY <1>1, <3>1, Types DEF Stale, BootRecord
  <2>3. KeyHere'
    BY <2>1, <2>2 DEF KeyHere, Stale
  <2>4. KeyStored'
    BY <2>1, <2>2 DEF KeyStored, Awaited, Stale
  <2>5. \A j \in Jobs : KeyComing(j)'
    BY <2>1 DEF KeyComing, Busy
  <2> QED
    BY <2>3, <2>4, <2>5 DEF KeysInv, KeysKept
<1>2. ASSUME AnswerBoot(b), ~Stale(b) PROVE KeysInv'
  <2>1. (boot[b].set /\ Load(b)) \/ Anonymous(b)
    BY <1>2, Zenon DEF AnswerBoot
  <2> QED
    BY <1>2, <2>1, KeysLoad, KeysAnonymous
<1>3. ASSUME LoadBoot(b) PROVE KeysInv'
  <2>1. /\ UNCHANGED <<cookie, user, stored, job, stands, excused>> /\ ~excused /\ boot[b].at = "loading"
        /\ KeyHere /\ KeyStored /\ \A j \in Jobs : KeyComing(j)
    BY <1>3 DEF LoadBoot, KeysInv, KeysKept
  <2>2. \A c \in Boots : IF c = b THEN boot'[c].at = "done" ELSE boot'[c] = boot[c]
    BY <1>3, Types DEF LoadBoot, BootRecord
  <2>3. dek' \in {None, user}
    BY <1>3, <2>1 DEF LoadBoot, KeyHere
  <2>4. KeyHere'
    BY <2>1, <2>2, <2>3 DEF KeyHere, Stale
  <2>5. KeyStored'
    BY <2>1, <2>2 DEF KeyStored, Awaited, Stale
  <2>6. \A j \in Jobs : KeyComing(j)'
    BY <2>1 DEF KeyComing, Busy
  <2> QED
    BY <2>4, <2>5, <2>6 DEF KeysInv, KeysKept
<1> QED
  BY <1>1, <1>2, <1>3

\* A new document knows nobody, and its own read will name the cookie's account.
LEMMA KeysDocument ==
  ASSUME TypeOK, KeysInv, ~excused', Reload \/ AccountSignOut
  PROVE  KeysInv'
<1>1. /\ ~excused /\ user' = None /\ dek' = None /\ UNCHANGED stored /\ stands' = Open
      /\ boot' = AtLoad /\ job' = [j \in Jobs |-> Idle]
      /\ (stored # None => cookie' = cookie)
  <2>1. CASE Reload
    BY <2>1 DEF Reload, Document
  <2>2. CASE AccountSignOut
    BY <2>2 DEF AccountSignOut, Document
  <2> QED
    BY <2>1, <2>2
<1>2. KeyStored
  BY <1>1 DEF KeysInv, KeysKept
<1>3. \A b \in Boots : boot'[b].at \in {"none", "sent"}
  BY <1>1 DEF AtLoad, Ready
<1>4. boot'[Shared].at = "sent" /\ ~boot'[Shared].stale
  BY <1>1 DEF AtLoad, Ready
<1>5. KeyHere'
  BY <1>1, <1>3 DEF KeyHere
<1>6. KeyStored'
  BY <1>1, <1>2, <1>3, <1>4 DEF KeyStored, Awaited, Stale
<1>7. \A j \in Jobs : KeyComing(j)'
  BY <1>1 DEF KeyComing, Busy, Idle
<1> QED
  BY <1>5, <1>6, <1>7 DEF KeysInv, KeysKept

LEMMA KeysInvStep ==
  TypeOK /\ NamesUser /\ (\A j \in Jobs : JobNamed(j)) /\ KeysInv /\ [Next]_vars => KeysInv'
<1> SUFFICES ASSUME TypeOK, NamesUser, \A j \in Jobs : JobNamed(j), KeysInv, [Next]_vars PROVE KeysInv'
  OBVIOUS
<1>1. CASE excused'
  BY <1>1 DEF KeysInv
<1>2. CASE ~excused'
  <2>1. ASSUME NEW u \in Account, OtherTab(u) PROVE KeysInv'
    BY <1>2, <2>1, FormStep DEF OtherTab, tab
  <2>2. CASE UNCHANGED vars
    BY <1>2, <2>2, FormStep DEF vars, tab
  <2>3. ASSUME NEW b \in Boots, ForceBoot(b) \/ ServeBoot(b) \/ AnswerBoot(b) \/ LoadBoot(b) PROVE KeysInv'
    BY <1>2, <2>3, KeysServeBoot, KeysBoots
  <2>4. ASSUME NEW j \in Jobs, OpenForm(j) \/ CloseForm(j) \/ Submit(j) \/ SetupEncryption(j) \/ Serve(j) PROVE KeysInv'
    BY <1>2, <2>4, KeysForms, KeysServe
  <2>5. ASSUME NEW j \in Jobs, \/ AnswerLogin(j) \/ AnswerUnlock(j) \/ AnswerReset(j) \/ AnswerSignOut(j)
                               \/ AnswerRefresh(j) \/ Derived(j) \/ Saved(j)
        PROVE  KeysInv'
    BY <1>2, <2>5, KeysActs, KeysDerived
  <2>6. CASE Reload \/ AccountSignOut
    BY <1>2, <2>6, KeysDocument
  <2> QED
    BY <2>1, <2>2, <2>3, <2>4, <2>5, <2>6 DEF Next
<1> QED
  BY <1>1, <1>2

\* Whoever signs in, out or over whom, in this tab or another, and however late
\* the answers come: the library key is never left to anyone but its user, but
\* along the ways that are named.
THEOREM KeyTheorem == Spec => []KeyIsUsers
<1> DEFINE KInv == NamesUser /\ (\A j \in Jobs : JobNamed(j)) /\ KeysInv
<1>1. Init => KInv
  <2> SUFFICES ASSUME Init PROVE KInv
    OBVIOUS
  <2>1. \A b \in Boots : boot[b].at \notin {"served", "loading"}
    BY DEF Init, AtLoad, Ready
  <2>2. \A j \in Jobs : job[j].kind = "none" /\ job[j].at = "idle"
    BY Consts DEF Init
  <2> QED
    BY <2>1, <2>2 DEF Init, NamesUser, JobNamed, KeysInv, KeysKept, KeyHere, KeyStored, KeyComing, Busy
<1>2. TypeOK /\ KInv /\ [Next]_vars => KInv'
  BY NamesUserStep, JobNamedStep, KeysInvStep
<1>3. TypeOK /\ KInv => KeyIsUsers
  BY DEF KeysInv, KeysKept, KeyHere, KeyStored, Awaited, KeyIsUsers, Known
<1> QED
  BY <1>1, <1>2, <1>3, TypeCorrect, PTL DEF Spec
=============================================================================
