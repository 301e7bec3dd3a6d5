------------------------ MODULE GateAndServicesProofs ------------------------
(***************************************************************************)
(* The model gate and the three services, one argument each.               *)
(*                                                                         *)
(* The gate keeps count, for every number of calls, slots and places in    *)
(* the queue: the invariants of ConcurrencyGate hold together, because     *)
(* each step moves at most one call into and one call out of the slots,    *)
(* and only into a slot that is counted.                                   *)
(*                                                                         *)
(* The editorial pipeline keeps files and ClickHouse in agreement, for     *)
(* every number of drafts, slugs, administrators and attempts: whatever    *)
(* could still promote a draft, be it registered, late or in a decision    *)
(* under way, finds the draft's article in its place, and an article is    *)
(* withdrawn only by the attempt that made it, once the update of that     *)
(* attempt can no longer be applied.                                       *)
(*                                                                         *)
(* The creative preview speaks of one document, for any caps, documents,   *)
(* events and refusals: a document's number is newer than whatever is on   *)
(* its way, its mail arrives in the order it was posted, and a refusal is  *)
(* in the ledger, on its way, or hidden behind a sign that more is coming. *)
(*                                                                         *)
(* The ceilings of the share links hold, for any addresses, sizes and      *)
(* limits: a day of an address splits where its period began, and what is  *)
(* on disk splits at the last sweep, into parts that one limit bounds each.*)
(***************************************************************************)
EXTENDS ConcurrencyGate, MCServices, FiniteSetTheorems, SequenceTheorems, TLAPS

USE CallsAssumption, LimitsAssumption

IInv == TypeOK /\ SlotsAccounted /\ QueueHonest

\* What happens to the count when calls enter and leave the slots.
LEMMA HoldersFinite == IsFiniteSet(Holders) /\ Cardinality(Holders) \in Nat
<1>1. Holders \subseteq Calls
  BY DEF Holders
<1> QED
  BY <1>1, FS_Subset, FS_CardinalityType

LEMMA OneMore ==
  ASSUME NEW c \in Calls, c \notin Holders, Holders' = Holders \cup {c}
  PROVE  Cardinality(Holders') = Cardinality(Holders) + 1
BY HoldersFinite, FS_AddElement

LEMMA OneLess ==
  ASSUME NEW c \in Calls, c \in Holders, Holders' = Holders \ {c}
  PROVE  Cardinality(Holders') = Cardinality(Holders) - 1
BY HoldersFinite, FS_RemoveElement

LEMMA Swapped ==
  ASSUME NEW c \in Calls, c \in Holders, NEW d \in Calls, d \notin Holders,
         Holders' = (Holders \ {c}) \cup {d}
  PROVE  Cardinality(Holders') = Cardinality(Holders)
<1> DEFINE Rest == Holders \ {c}
<1>1. IsFiniteSet(Rest) /\ Cardinality(Rest) = Cardinality(Holders) - 1
  BY HoldersFinite, FS_RemoveElement
<1>2. Cardinality(Rest \cup {d}) = Cardinality(Rest) + 1
  BY <1>1, FS_AddElement
<1> QED
  BY <1>1, <1>2, HoldersFinite

\* A sequence with one entry taken out, wherever it stands.
LEMMA Without ==
  ASSUME NEW S, NEW q \in Seq(S), NEW i \in 1 .. Len(q)
  PROVE  LET r == SubSeq(q, 1, i - 1) \o SubSeq(q, i + 1, Len(q)) IN
         /\ r \in Seq(S) /\ Len(r) = Len(q) - 1
         /\ \A j \in 1 .. (Len(q) - 1) : r[j] = IF j < i THEN q[j] ELSE q[j + 1]
<1> DEFINE n == Len(q)
           s == SubSeq(q, 1, i - 1)
           u == SubSeq(q, i + 1, n)
<1>1. n \in Nat /\ i \in 1 .. n /\ i - 1 \in Int /\ i + 1 \in Int /\ 1 \in Int /\ n \in Int
  OBVIOUS
<1>2. /\ \A j \in 1 .. (i - 1) : q[j] \in S
      /\ \A j \in (i + 1) .. n : q[j] \in S
  BY <1>1
<1>3. s \in Seq(S)
  BY <1>1, <1>2
<1>4. u \in Seq(S)
  BY <1>1, <1>2, SubSeqProperties, SubSeqEmpty
<1>5. Len(s) = i - 1 /\ \A j \in 1 .. (i - 1) : s[j] = q[j]
  BY <1>1
<1>6. Len(u) = n - i /\ \A j \in 1 .. (n - i) : u[j] = q[i + j]
  <2>1. CASE i = n
    BY <1>1, <2>1, SubSeqEmpty, EmptySeq
  <2>2. CASE i < n
    BY <1>1, <2>2
  <2> QED
    BY <1>1, <2>1, <2>2
<1> HIDE DEF s, u, n
<1>7. /\ s \o u \in Seq(S) /\ Len(s \o u) = Len(s) + Len(u)
      /\ \A j \in 1 .. (Len(s) + Len(u)) :
           (s \o u)[j] = IF j =< Len(s) THEN s[j] ELSE u[j - Len(s)]
  BY <1>3, <1>4, ConcatProperties, Zenon
<1>8. s \o u \in Seq(S) /\ Len(s \o u) = n - 1
  BY <1>1, <1>5, <1>6, <1>7
<1>9. ASSUME NEW j \in 1 .. (n - 1) PROVE (s \o u)[j] = IF j < i THEN q[j] ELSE q[j + 1]
  <2>1. CASE j < i
    BY <1>1, <1>5, <1>6, <1>7, <2>1
  <2>2. CASE j >= i
    <3>1. j \in 1 .. (Len(s) + Len(u)) /\ ~(j =< Len(s)) /\ j - Len(s) \in 1 .. (n - i)
          /\ i + (j - Len(s)) = j + 1
      BY <1>1, <1>5, <1>6, <2>2
    <3> QED
      BY <1>1, <1>6, <1>7, <2>2, <3>1
  <2>3. j < i \/ j >= i
    BY <1>1
  <2> QED
    BY <2>1, <2>2, <2>3, Zenon
<1> QED
  BY <1>8, <1>9 DEF s, u, n

\* What that does to the queue: the entry is gone, the others are there once.
LEMMA Spliced ==
  ASSUME TypeOK, QueueHonest, NEW i \in DOMAIN waiting,
         waiting' = SubSeq(waiting, 1, i - 1) \o SubSeq(waiting, i + 1, Len(waiting))
  PROVE  /\ waiting' \in Seq(Calls) /\ Len(waiting') = Len(waiting) - 1
         /\ \A j, k \in DOMAIN waiting' : waiting'[j] = waiting'[k] => j = k
         /\ {waiting'[j] : j \in DOMAIN waiting'}
              = {waiting[j] : j \in DOMAIN waiting} \ {waiting[i]}
<1>1. waiting \in Seq(Calls) /\ Len(waiting) \in Nat /\ i \in 1 .. Len(waiting)
      /\ DOMAIN waiting = 1 .. Len(waiting)
  BY DEF TypeOK
<1>2. /\ waiting' \in Seq(Calls) /\ Len(waiting') = Len(waiting) - 1
      /\ \A j \in 1 .. (Len(waiting) - 1) :
           waiting'[j] = IF j < i THEN waiting[j] ELSE waiting[j + 1]
  BY <1>1, Without, Zenon
<1>3. DOMAIN waiting' = 1 .. (Len(waiting) - 1)
  BY <1>2, LenProperties
<1> DEFINE n == Len(waiting)
           after(j) == waiting'[j]
           before(j) == waiting[j]
<1>4. /\ n \in Nat /\ i \in 1 .. n
      /\ \A j \in 1 .. (n - 1) : after(j) = IF j < i THEN before(j) ELSE before(j + 1)
      /\ \A j, k \in 1 .. n : before(j) = before(k) => j = k
  BY <1>1, <1>2 DEF QueueHonest
<1> HIDE DEF n, after, before
<1>5. \A j, k \in 1 .. (n - 1) : after(j) = after(k) => j = k
  BY <1>4
<1>6. ASSUME NEW j \in 1 .. (n - 1)
      PROVE  \E k \in 1 .. n : k # i /\ after(j) = before(k)
  <2>1. CASE j < i
    BY <1>4, <2>1
  <2>2. CASE ~(j < i)
    <3>1. j + 1 \in 1 .. n /\ j + 1 # i
      BY <1>4, <2>2
    <3> QED
      BY <1>4, <2>2, <3>1
  <2> QED
    BY <2>1, <2>2
<1>7. \A j \in 1 .. n : j # i => \E k \in 1 .. (n - 1) : after(k) = before(j)
  <2> SUFFICES ASSUME NEW j \in 1 .. n, j # i PROVE \E k \in 1 .. (n - 1) : after(k) = before(j)
    OBVIOUS
  <2>1. CASE j < i
    BY <1>4, <2>1
  <2>2. CASE j > i
    <3>1. j - 1 \in 1 .. (n - 1) /\ ~(j - 1 < i) /\ (j - 1) + 1 = j
      BY <1>4, <2>2
    <3> QED
      BY <1>4, <3>1
  <2>3. j < i \/ j > i
    BY <1>4
  <2> QED
    BY <2>1, <2>2, <2>3, Zenon
<1>8. \A j \in 1 .. n : j # i => before(j) # before(i)
  BY <1>4
<1>9. {after(j) : j \in 1 .. (n - 1)} = {before(j) : j \in 1 .. n} \ {before(i)}
  <2>1. ASSUME NEW j \in 1 .. (n - 1)
        PROVE  after(j) \in {before(k) : k \in 1 .. n} \ {before(i)}
    BY <1>6, <1>8
  <2>2. ASSUME NEW j \in 1 .. n, before(j) # before(i)
        PROVE  before(j) \in {after(k) : k \in 1 .. (n - 1)}
    BY <1>7, <2>2
  <2> QED
    BY <2>1, <2>2
<1> QED
  BY <1>1, <1>2, <1>3, <1>5, <1>9, Zenon DEF n, after, before

LEMMA TailSpliced ==
  ASSUME TypeOK, waiting # <<>>
  PROVE  /\ 1 \in DOMAIN waiting /\ Head(waiting) = waiting[1]
         /\ Tail(waiting) = SubSeq(waiting, 1, 1 - 1) \o SubSeq(waiting, 1 + 1, Len(waiting))
<1>1. waiting \in Seq(Calls) /\ Len(waiting) \in Nat \ {0}
  BY EmptySeq DEF TypeOK
<1>2. SubSeq(waiting, 1, 0) = <<>> /\ Tail(waiting) = SubSeq(waiting, 2, Len(waiting))
  BY <1>1, SubSeqEmpty, TailIsSubSeq
<1>3. Tail(waiting) \in Seq(Calls) /\ Head(waiting) = waiting[1]
  BY <1>1, HeadTailProperties
<1>4. <<>> \o Tail(waiting) = Tail(waiting)
  BY <1>3, ConcatEmptySeq
<1> QED
  BY <1>1, <1>2, <1>4

-----------------------------------------------------------------------------
\* The queue as a set, and the calls that should be in it.
Entries == {waiting[i] : i \in DOMAIN waiting}
Waiters == {c \in Calls : at[c] = "waiting"}

\* A step that leaves the slots, the queue and their calls as they are.
LEMMA Untouched ==
  ASSUME IInv, active' = active, waiting' = waiting, Holders' = Holders, Waiters' = Waiters,
         at' \in [Calls -> Places], gone' \subseteq Calls, answer' \in [Calls -> Answers]
  PROVE  IInv'
BY DEF IInv, TypeOK, SlotsAccounted, QueueHonest, Waiters

LEMMA EnterKeeps == ASSUME IInv, NEW c \in Calls, Enter(c) PROVE IInv'
<1> USE DEF IInv, TypeOK
<1>1. CASE active < MaxActive /\ active' = active + 1 /\ Move(c, "admitted")
           /\ UNCHANGED <<waiting, answer>>
  <2>1. Holders' = Holders \cup {c} /\ c \notin Holders /\ Waiters' = Waiters
    BY <1>1 DEF Enter, Move, Holders, Waiters, Places
  <2>2. SlotsAccounted'
    <3>1. Cardinality(Holders') = Cardinality(Holders) + 1
      BY <2>1, OneMore
    <3> QED
      BY <1>1, <3>1 DEF SlotsAccounted
  <2>3. waiting = <<>>
    BY <1>1 DEF QueueHonest
  <2>4. QueueHonest'
    BY <1>1, <2>1, <2>3 DEF QueueHonest, Waiters
  <2>5. TypeOK'
    BY <1>1 DEF Enter, Move, Places
  <2> QED
    BY <2>2, <2>4, <2>5
<1>2. CASE active >= MaxActive /\ QueueFull /\ Answer(c, "busy") /\ UNCHANGED <<active, waiting>>
  <2>1. Holders' = Holders /\ Waiters' = Waiters
    BY <1>2 DEF Enter, Answer, Move, Holders, Waiters, Places
  <2>2. at' \in [Calls -> Places] /\ gone' \subseteq Calls /\ answer' \in [Calls -> Answers]
    BY <1>2 DEF Enter, Answer, Move, Places, Answers
  <2> QED
    BY <1>2, <2>1, <2>2, Untouched
<1>3. CASE active >= MaxActive /\ ~QueueFull /\ waiting' = Append(waiting, c)
           /\ Move(c, "waiting") /\ UNCHANGED <<active, answer>>
  <2>1. Holders' = Holders /\ Waiters' = Waiters \cup {c} /\ c \notin Waiters
    BY <1>3 DEF Enter, Move, Holders, Waiters, Places
  <2>2. /\ waiting' \in Seq(Calls) /\ Len(waiting') = Len(waiting) + 1
        /\ DOMAIN waiting' = 1 .. (Len(waiting) + 1) /\ DOMAIN waiting = 1 .. Len(waiting)
        /\ waiting'[Len(waiting) + 1] = c
        /\ \A i \in 1 .. Len(waiting) : waiting'[i] = waiting[i]
    BY <1>3
  <2>3. TypeOK'
    <3>1. Len(waiting') =< MaxQueue
      BY <1>3, <2>2 DEF QueueFull
    <3>2. at' \in [Calls -> Places] /\ gone' \subseteq Calls
      BY <1>3 DEF Enter, Move, Places
    <3> QED
      BY <1>3, <2>2, <3>1, <3>2
  <2>4. SlotsAccounted'
    BY <1>3, <2>1 DEF SlotsAccounted
  <2>5. Entries' = Entries \cup {c} /\ Entries = Waiters
    <3>1. Entries = Waiters
      BY DEF QueueHonest, Entries, Waiters
    <3>2. \A x \in Entries \cup {c} : x \in Entries'
      BY <2>2 DEF Entries
    <3>3. \A x \in Entries' : x \in Entries \cup {c}
      BY <2>2 DEF Entries
    <3> QED
      BY <3>1, <3>2, <3>3
  <2>6. \A i \in 1 .. Len(waiting) : waiting[i] # c
    BY <2>1, <2>2, <2>5 DEF Entries
  <2>7. \A i, j \in DOMAIN waiting' : waiting'[i] = waiting'[j] => i = j
    BY <2>2, <2>6 DEF QueueHonest
  <2>8. active' = MaxActive
    BY <1>3 DEF SlotsAccounted
  <2> QED
    BY <2>1, <2>3, <2>4, <2>5, <2>7, <2>8 DEF QueueHonest, Entries, Waiters
<1> QED
  BY <1>1, <1>2, <1>3 DEF Enter

LEMMA FinishKeeps == ASSUME IInv, NEW c \in Calls, Finish(c) PROVE IInv'
<1> USE DEF IInv, TypeOK
<1>1. PICK a \in Answers : Release(c, a)
  BY DEF Finish, Answers
<1>2. c \in Holders /\ c \notin Waiters
  BY DEF Finish, Holders, Waiters
<1>3. CASE waiting = <<>>
  <2>1. Holders' = Holders \ {c} /\ Waiters' = Waiters
    BY <1>1, <1>3 DEF Release, Answer, Move, Finish, Holders, Waiters, Places
  <2>2. Cardinality(Holders) > 0
    BY <1>2, HoldersFinite, FS_EmptySet
  <2>3. SlotsAccounted' /\ active' \in Nat
    <3>1. Cardinality(Holders') = Cardinality(Holders) - 1
      BY <1>2, <2>1, OneLess
    <3>2. active' = active - 1
      BY <1>1, <1>3 DEF Release
    <3> QED
      BY <2>2, <3>1, <3>2 DEF SlotsAccounted
  <2>4. QueueHonest'
    BY <1>1, <1>3, <2>1 DEF QueueHonest, Waiters, Release
  <2>5. TypeOK'
    BY <1>1, <1>3, <2>3 DEF Release, Answer, Move, Finish, Places, Answers
  <2> QED
    BY <2>3, <2>4, <2>5
<1>4. CASE waiting # <<>>
  <2> DEFINE d == Head(waiting)
  <2>1. 1 \in DOMAIN waiting /\ d = waiting[1] /\ waiting' = Tail(waiting)
        /\ waiting' = SubSeq(waiting, 1, 1 - 1) \o SubSeq(waiting, 1 + 1, Len(waiting))
    BY <1>1, <1>4, TailSpliced DEF Release
  <2>2. d \in Waiters /\ d \in Calls /\ d # c /\ d \notin Holders
    BY <1>2, <2>1 DEF QueueHonest, Waiters, Holders
  <2>3. at' = [at EXCEPT ![c] = "away", ![d] = "admitted"] /\ active' = active
        /\ answer' = [answer EXCEPT ![c] = a] /\ gone' = gone
    BY <1>1, <1>4 DEF Release, Finish
  <2> HIDE DEF d
  <2>4. Holders' = (Holders \ {c}) \cup {d} /\ Waiters' = Waiters \ {d}
    BY <1>2, <2>2, <2>3 DEF Holders, Waiters, Places
  <2>5. SlotsAccounted'
    BY <1>2, <2>2, <2>3, <2>4, Swapped DEF SlotsAccounted
  <2>6. /\ waiting' \in Seq(Calls) /\ Len(waiting') = Len(waiting) - 1
        /\ \A j, k \in DOMAIN waiting' : waiting'[j] = waiting'[k] => j = k
        /\ Entries' = Entries \ {d}
    BY <2>1, Spliced DEF Entries
  <2>7. Entries' = Waiters'
    BY <2>4, <2>6 DEF QueueHonest, Entries, Waiters
  <2>8. TypeOK'
    BY <1>1, <2>2, <2>3, <2>6 DEF Places, Answers
  <2>9. active' = MaxActive
    BY <1>4, <2>3 DEF QueueHonest
  <2> QED
    BY <2>5, <2>6, <2>7, <2>8, <2>9 DEF QueueHonest, Entries, Waiters
<1> QED
  BY <1>3, <1>4

LEMMA TimeoutKeeps == ASSUME IInv, NEW c \in Calls, WaitTimeout(c) PROVE IInv'
<1> USE DEF IInv, TypeOK
<1>1. PICK i \in DOMAIN waiting : waiting[i] = c /\ Cancel(c, i)
  BY DEF WaitTimeout
<1>2. /\ waiting' = SubSeq(waiting, 1, i - 1) \o SubSeq(waiting, i + 1, Len(waiting))
      /\ at' = [at EXCEPT ![c] = "away"] /\ answer' = [answer EXCEPT ![c] = "busy"]
      /\ active' = active /\ gone' = gone
  BY <1>1 DEF Cancel, Answer, Move, WaitTimeout
<1>3. c \in Waiters /\ c \notin Holders /\ waiting # <<>>
  BY <1>1 DEF QueueHonest, Waiters, Holders
<1>4. Holders' = Holders /\ Waiters' = Waiters \ {c}
  BY <1>2, <1>3 DEF Holders, Waiters, Places
<1>5. /\ waiting' \in Seq(Calls) /\ Len(waiting') = Len(waiting) - 1
      /\ \A j, k \in DOMAIN waiting' : waiting'[j] = waiting'[k] => j = k
      /\ Entries' = Entries \ {c}
  BY <1>1, <1>2, Spliced DEF Entries
<1>6. Entries' = Waiters'
  BY <1>4, <1>5 DEF QueueHonest, Entries, Waiters
<1>7. TypeOK'
  BY <1>2, <1>5 DEF Places, Answers
<1>8. SlotsAccounted' /\ active' = MaxActive
  BY <1>2, <1>3, <1>4 DEF SlotsAccounted, QueueHonest
<1> QED
  BY <1>5, <1>6, <1>7, <1>8 DEF QueueHonest, Entries, Waiters

\* The other steps of a call leave the slots and the queue alone.
LEMMA OthersKeep ==
  ASSUME IInv, NEW c \in Calls, Ask(c) \/ Leave(c) \/ Refuse(c) \/ Begin(c) \/ Settle(c)
  PROVE  IInv'
<1>1. /\ active' = active /\ waiting' = waiting
      /\ at' \in [Calls -> Places] /\ gone' \subseteq Calls /\ answer' \in [Calls -> Answers]
  BY DEF IInv, TypeOK, Ask, Leave, Refuse, Begin, Settle, Answer, Move, Places, Answers
<1>2. Holders' = Holders /\ Waiters' = Waiters
  BY DEF IInv, TypeOK, Ask, Leave, Refuse, Begin, Settle, Answer, Move, Places,
         Holders, Waiters
<1> QED
  BY <1>1, <1>2, Untouched

\* The invariants hold together at the start and through every step.
THEOREM Invariant == Spec => []IInv
<1>1. Init => IInv
  <2> SUFFICES ASSUME Init PROVE IInv
    OBVIOUS
  <2>1. Holders = {} /\ DOMAIN waiting = {} /\ waiting \in Seq(Calls) /\ Len(waiting) = 0
    BY DEF Init, Holders
  <2>2. Cardinality(Holders) = 0
    BY <2>1, FS_EmptySet
  <2> QED
    BY <2>1, <2>2 DEF Init, IInv, TypeOK, SlotsAccounted, QueueHonest, Places, Answers
<1>2. IInv /\ [Next]_vars => IInv'
  <2> SUFFICES ASSUME IInv, [Next]_vars PROVE IInv'
    OBVIOUS
  <2>1. CASE UNCHANGED vars
    BY <2>1 DEF vars, IInv, TypeOK, SlotsAccounted, QueueHonest, Holders
  <2>2. CASE Next
    BY <2>2, EnterKeeps, FinishKeeps, TimeoutKeeps, OthersKeep DEF Next, Progress
  <2> QED
    BY <2>1, <2>2
<1> QED
  BY <1>1, <1>2, PTL DEF Spec

\* However calls fail, leave or time out, and however many there are, the
\* queue stays within its bound (createGate run).
THEOREM TypeCorrect == Spec => []TypeOK
BY Invariant, PTL DEF IInv

\* No slot is leaked or handed out twice (createGate run and release).
THEOREM SlotsTheorem == Spec => []SlotsAccounted
BY Invariant, PTL DEF IInv

\* The queue is exact, and nobody waits beside a free slot.
THEOREM QueueTheorem == Spec => []QueueHonest
BY Invariant, PTL DEF IInv

\* Slots are handed out in the order of arrival.
THEOREM OrderTheorem == Spec => NoOvertaking
<1> DEFINE InOrder ==
      \A c \in Calls : at[c] # "admitted" /\ at'[c] = "admitted" =>
        IF at[c] = "waiting" THEN c = Head(waiting) ELSE waiting = <<>>
<1>1. IInv /\ [Next]_vars => [InOrder]_vars
  <2> SUFFICES ASSUME IInv, Next, NEW c \in Calls, at[c] # "admitted", at'[c] = "admitted"
               PROVE  IF at[c] = "waiting" THEN c = Head(waiting) ELSE waiting = <<>>
    BY DEF vars
  <2> USE DEF IInv, TypeOK
  <2>1. PICK d \in Calls : Ask(d) \/ Leave(d) \/ Progress(d)
    BY DEF Next
  <2>2. CASE Enter(d)
    <3>1. d = c /\ active < MaxActive /\ at[c] = "checking"
      BY <2>2 DEF Enter, Move, Answer
    <3> QED
      BY <3>1 DEF QueueHonest
  <2>3. CASE Finish(d)
    <3>1. PICK a \in Answers : Release(d, a)
      BY <2>3 DEF Finish, Answers
    <3>2. waiting # <<>>
      BY <3>1 DEF Release, Answer, Move
    <3>3. c = Head(waiting)
      BY <3>1, <3>2 DEF Release
    <3>4. 1 \in DOMAIN waiting /\ c = waiting[1]
      BY <3>2, <3>3, TailSpliced
    <3>5. at[c] = "waiting"
      BY <3>4 DEF QueueHonest
    <3> QED
      BY <3>3, <3>5
  <2>4. CASE Ask(d) \/ Leave(d) \/ Refuse(d) \/ Begin(d) \/ Settle(d)
    BY <2>4 DEF Ask, Leave, Refuse, Begin, Settle, Answer, Move
  <2>5. CASE WaitTimeout(d)
    BY <2>5 DEF WaitTimeout, Cancel, Answer, Move
  <2> QED
    BY <2>1, <2>2, <2>3, <2>4, <2>5 DEF Progress
<1> QED
  BY <1>1, Invariant, PTL DEF Spec, NoOvertaking



-----------------------------------------------------------------------------
(* The editorial pipeline.                                                 *)

AdminSteps == {"idle", "reject", "publish", "promote", "insert", "mark", "update", "wait", "check"}
ModSteps == {"idle", "fetch", "loop", "reject", "translate", "insert", "mark"}
AdminShape == [at : AdminSteps, draft : Drafts \cup {None}, slug : Slugs \cup {None}, made : BOOLEAN]
ModShape == [at : ModSteps, count : Nat, batch : SUBSET Drafts, draft : Drafts \cup {None},
             slug : Slugs \cup {None}, left : Nat]
MutationShape == [draft : Drafts \cup {None}, to : E!Statuses, slug : Slugs \cup {None},
                  from : SUBSET E!Statuses]

EditorialType ==
  /\ status \in [Drafts -> E!Statuses] /\ slug \in [Drafts -> Slugs \cup {None}]
  /\ file \in [Slugs -> Drafts \cup {None, Operator, Torn}]
  /\ queue \in Seq(MutationShape) /\ sent \subseteq MutationShape
  /\ admin \in [Admins -> AdminShape] /\ mod \in ModShape

Registered(m) == \E i \in 1 .. Len(queue) : queue[i] = m
Mine(a) == E!MarkPromoted(admin[a].draft, admin[a].slug)

\* The article is there before anything can promote its draft.
Promised ==
  \A m \in MutationShape : m.to = "promoted" /\ (Registered(m) \/ m \in sent) =>
    /\ m.draft \in Drafts /\ m.slug \in Slugs /\ m = E!MarkPromoted(m.draft, m.slug)
    /\ file[m.slug] = m.draft

OneEach ==
  \A a, b \in Admins : a # b /\ admin[a].draft = admin[b].draft => admin[a].draft = None

\* And it is only taken away by the attempt that made it, once its own update can
\* no longer come.
Deciding ==
  \A a \in Admins :
    /\ admin[a].at # "idle" => admin[a].draft \in Drafts
    /\ admin[a].at \in {"promote", "update", "wait", "check"} => admin[a].slug \in Slugs
    /\ admin[a].at \in {"update", "wait", "check"} => file[admin[a].slug] = admin[a].draft
    /\ admin[a].made => /\ admin[a].at \in {"update", "wait", "check"}
                        /\ Mine(a) \notin sent
                        /\ admin[a].at # "wait" => ~Registered(Mine(a))

OwnArticle ==
  \A d \in Drafts : status[d] = "promoted" => slug[d] \in Slugs /\ file[slug[d]] = d

EditorialInv == EditorialType /\ Promised /\ OneEach /\ Deciding /\ OwnArticle

LEMMA Distinct ==
  /\ None \notin Drafts /\ None \notin Slugs
  /\ Operator \notin Drafts /\ Operator # None /\ Torn \notin Drafts /\ Torn # None
BY ServicesAssumption

LEMMA RestType ==
  /\ E!Rest \in AdminShape
  /\ E!Rest.at = "idle" /\ E!Rest.draft = None /\ E!Rest.slug = None /\ E!Rest.made = FALSE
BY DEF E!Rest, AdminShape, AdminSteps

LEMMA PromotedFields ==
  ASSUME NEW d \in Drafts, NEW s \in Slugs
  PROVE  /\ E!MarkPromoted(d, s) \in MutationShape
         /\ E!MarkPromoted(d, s).to = "promoted" /\ E!MarkPromoted(d, s).draft = d
         /\ E!MarkPromoted(d, s).slug = s
BY DEF E!MarkPromoted, E!Mutation, MutationShape, E!Statuses

LEMMA PlainFields ==
  ASSUME NEW d \in Drafts \cup {None}, NEW s \in Slugs \cup {None}
  PROVE  /\ E!MarkPublished(d, s) \in MutationShape /\ E!MarkPublished(d, s).to = "published"
         /\ E!MarkRejected(d) \in MutationShape /\ E!MarkRejected(d).to = "rejected"
BY DEF E!MarkPublished, E!MarkRejected, E!Mutation, MutationShape, E!Statuses

LEMMA Enqueued ==
  ASSUME queue \in Seq(MutationShape), NEW n \in MutationShape, queue' = Append(queue, n)
  PROVE  /\ queue' \in Seq(MutationShape)
         /\ \A m : Registered(m)' => Registered(m) \/ m = n
<1>1. /\ queue' \in Seq(MutationShape) /\ Len(queue') = Len(queue) + 1 /\ Len(queue) \in Nat
      /\ queue'[Len(queue) + 1] = n /\ \A i \in 1 .. Len(queue) : queue'[i] = queue[i]
  OBVIOUS
<1>2. ASSUME NEW m, Registered(m)' PROVE Registered(m) \/ m = n
  <2>1. PICK i \in 1 .. Len(queue') : queue'[i] = m
    BY <1>2 DEF Registered
  <2>2. CASE i = Len(queue) + 1
    BY <1>1, <2>1, <2>2
  <2>3. CASE i # Len(queue) + 1
    <3>1. i \in 1 .. Len(queue)
      BY <1>1, <2>1, <2>3
    <3> QED
      BY <1>1, <2>1, <3>1 DEF Registered
  <2> QED
    BY <2>2, <2>3
<1> QED
  BY <1>1, <1>2

LEMMA Dequeued ==
  ASSUME queue \in Seq(MutationShape), queue # <<>>, queue' = Tail(queue)
  PROVE  /\ queue' \in Seq(MutationShape) /\ Head(queue) \in MutationShape /\ Registered(Head(queue))
         /\ \A m : Registered(m)' => Registered(m)
<1>1. /\ queue' \in Seq(MutationShape) /\ Len(queue') = Len(queue) - 1 /\ Len(queue) \in Nat \ {0}
      /\ \A i \in 1 .. (Len(queue) - 1) : queue'[i] = queue[i + 1]
      /\ Head(queue) = queue[1] /\ queue[1] \in MutationShape
  OBVIOUS
<1>2. ASSUME NEW m, Registered(m)' PROVE Registered(m)
  <2>1. PICK i \in 1 .. Len(queue') : queue'[i] = m
    BY <1>2 DEF Registered
  <2>2. i + 1 \in 1 .. Len(queue) /\ queue[i + 1] = m
    BY <1>1, <2>1
  <2> QED
    BY <2>2 DEF Registered
<1>3. Registered(Head(queue))
  BY <1>1 DEF Registered
<1> QED
  BY <1>1, <1>2, <1>3

-----------------------------------------------------------------------------
\* What a decision under way turns into when it is not over.
GoesOn(a) ==
  /\ admin'[a].draft = admin[a].draft /\ admin'[a].slug = admin[a].slug
  /\ admin'[a].made = admin[a].made
  /\ \/ admin'[a].at = admin[a].at
     \/ admin[a].at = "publish" /\ admin'[a].at = "insert"
     \/ admin[a].at = "insert" /\ admin'[a].at = "mark"
     \/ admin[a].at = "promote" /\ admin'[a].at = "update" /\ file[admin[a].slug] = admin[a].draft
     \/ admin[a].at = "update" /\ admin'[a].at = "wait"
     \/ admin[a].at = "wait" /\ admin'[a].at = "check" /\ ~Registered(Mine(a))

\* Promotions enter the queue and the network only as the update of an attempt.
SentByUpdates ==
  \A m \in MutationShape : m.to = "promoted" /\ m \in sent' =>
    m \in sent \/ \E a \in Admins : admin[a].at = "update" /\ m = Mine(a) /\ admin'[a] = E!Rest

QueuedByUpdates ==
  \A m \in MutationShape : m.to = "promoted" /\ Registered(m)' =>
    \/ Registered(m) \/ m \in sent
    \/ \E a \in Admins : admin[a].at = "update" /\ m = Mine(a) /\ admin'[a].at = "wait"

LEMMA MineFields ==
  ASSUME EditorialInv, NEW a \in Admins, admin[a].at \in {"promote", "update", "wait", "check"}
  PROVE  /\ admin[a].draft \in Drafts /\ admin[a].slug \in Slugs
         /\ Mine(a) \in MutationShape /\ Mine(a).to = "promoted"
         /\ Mine(a).draft = admin[a].draft /\ Mine(a).slug = admin[a].slug
<1>1. admin[a].draft \in Drafts /\ admin[a].slug \in Slugs
  BY DEF EditorialInv, Deciding
<1> QED
  BY <1>1, PromotedFields DEF Mine

LEMMA MinesDiffer ==
  ASSUME EditorialInv, NEW a \in Admins, NEW b \in Admins, a # b,
         admin[a].at \in {"promote", "update", "wait", "check"},
         admin[b].at \in {"promote", "update", "wait", "check"}
  PROVE  Mine(a) # Mine(b)
<1>1. admin[a].draft # admin[b].draft
  BY Distinct, MineFields DEF EditorialInv, OneEach
<1> QED
  BY <1>1, MineFields

LEMMA DecidingFrame ==
  ASSUME EditorialInv, EditorialType', file' = file, SentByUpdates, QueuedByUpdates,
         \A a \in Admins : admin'[a] = E!Rest \/ GoesOn(a)
  PROVE  Deciding'
<1> SUFFICES ASSUME NEW a \in Admins
             PROVE  /\ admin'[a].at # "idle" => admin'[a].draft \in Drafts
                    /\ admin'[a].at \in {"promote", "update", "wait", "check"} => admin'[a].slug \in Slugs
                    /\ admin'[a].at \in {"update", "wait", "check"} => file'[admin'[a].slug] = admin'[a].draft
                    /\ admin'[a].made => /\ admin'[a].at \in {"update", "wait", "check"}
                                         /\ Mine(a)' \notin sent'
                                         /\ admin'[a].at # "wait" => ~Registered(Mine(a))'
  BY DEF Deciding
<1>1. CASE admin'[a] = E!Rest
  BY <1>1, RestType
<1>2. CASE GoesOn(a)
  <2>1. /\ admin[a].at # "idle" => admin[a].draft \in Drafts
        /\ admin[a].at \in {"promote", "update", "wait", "check"} => admin[a].slug \in Slugs
        /\ admin[a].at \in {"update", "wait", "check"} => file[admin[a].slug] = admin[a].draft
        /\ admin[a].made => /\ admin[a].at \in {"update", "wait", "check"}
                            /\ Mine(a) \notin sent
                            /\ admin[a].at # "wait" => ~Registered(Mine(a))
    BY DEF EditorialInv, Deciding
  <2>2. Mine(a)' = Mine(a)
    BY <1>2 DEF Mine, GoesOn
  <2>3. ASSUME admin'[a].made
        PROVE  /\ admin'[a].at \in {"update", "wait", "check"}
               /\ Mine(a)' \notin sent'
               /\ admin'[a].at # "wait" => ~Registered(Mine(a))'
    <3>1. admin[a].made /\ admin[a].at \in {"update", "wait", "check"} /\ Mine(a) \notin sent
      BY <1>2, <2>1, <2>3 DEF GoesOn
    <3>2. Mine(a) \in MutationShape /\ Mine(a).to = "promoted"
      BY <3>1, MineFields
    <3>3. Mine(a) \notin sent'
      <4>1. ASSUME NEW b \in Admins, admin[b].at = "update", Mine(a) = Mine(b), admin'[b] = E!Rest
            PROVE  FALSE
        <5>1. a = b
          BY <3>1, <4>1, MinesDiffer
        <5> QED
          BY <2>3, <4>1, <5>1, RestType
      <4> QED
        BY <3>1, <3>2, <4>1 DEF SentByUpdates
    <3>4. admin'[a].at # "wait" => ~Registered(Mine(a))'
      <4> SUFFICES ASSUME admin'[a].at # "wait", Registered(Mine(a))' PROVE FALSE
        OBVIOUS
      <4>1. ~Registered(Mine(a))
        BY <1>2, <2>1, <3>1 DEF GoesOn
      <4>2. \E i \in 1 .. Len(queue') : queue'[i] = Mine(a)
        BY <2>2 DEF Registered
      <4>3. PICK b \in Admins : admin[b].at = "update" /\ Mine(a) = Mine(b) /\ admin'[b].at = "wait"
        BY <3>1, <3>2, <4>1, <4>2 DEF QueuedByUpdates, Registered
      <4>4. a = b
        BY <3>1, <4>3, MinesDiffer
      <4> QED
        BY <4>3, <4>4
    <3> QED
      BY <1>2, <2>2, <3>1, <3>3, <3>4 DEF GoesOn
  <2> QED
    BY <1>2, <2>1, <2>3 DEF GoesOn
<1> QED
  BY <1>1, <1>2

LEMMA EditorialFrame ==
  ASSUME EditorialInv, EditorialType', OwnArticle', file' = file, SentByUpdates, QueuedByUpdates,
         \A a \in Admins : admin'[a] = E!Rest \/ GoesOn(a)
  PROVE  EditorialInv'
<1>1. Promised'
  <2> SUFFICES ASSUME NEW m \in MutationShape, m.to = "promoted", Registered(m)' \/ m \in sent'
               PROVE  /\ m.draft \in Drafts /\ m.slug \in Slugs /\ m = E!MarkPromoted(m.draft, m.slug)
                      /\ file[m.slug] = m.draft
    BY DEF Promised
  <2>1. CASE Registered(m) \/ m \in sent
    BY <2>1 DEF EditorialInv, Promised
  <2>2. ASSUME NEW a \in Admins, admin[a].at = "update", m = Mine(a)
        PROVE  /\ m.draft \in Drafts /\ m.slug \in Slugs /\ m = E!MarkPromoted(m.draft, m.slug)
               /\ file[m.slug] = m.draft
    BY <2>2, MineFields DEF EditorialInv, Deciding, Mine
  <2> QED
    BY <2>1, <2>2 DEF SentByUpdates, QueuedByUpdates
<1>2. OneEach'
  <2> SUFFICES ASSUME NEW a \in Admins, NEW b \in Admins, a # b, admin'[a].draft = admin'[b].draft
               PROVE  admin'[a].draft = None
    BY DEF OneEach
  <2>1. \A c \in Admins : admin'[c].draft = None \/ admin'[c].draft = admin[c].draft
    BY RestType DEF GoesOn
  <2> QED
    BY <2>1 DEF EditorialInv, OneEach
<1> QED
  BY <1>1, <1>2, DecidingFrame DEF EditorialInv

-----------------------------------------------------------------------------
LEMMA AdminDone ==
  ASSUME EditorialInv, NEW a \in Admins, E!Done(a)
  PROVE  /\ admin' \in [Admins -> AdminShape] /\ admin'[a] = E!Rest
         /\ \A b \in Admins : admin'[b] = E!Rest \/ GoesOn(b)
<1>1. admin \in [Admins -> AdminShape] /\ E!Rest \in AdminShape
  BY RestType DEF EditorialInv, EditorialType
<1>2. admin' = [admin EXCEPT ![a] = E!Rest]
  BY DEF E!Done
<1> QED
  BY <1>1, <1>2 DEF GoesOn

LEMMA AdminAt ==
  ASSUME EditorialInv, NEW a \in Admins, NEW step \in AdminSteps, E!At(a, step)
  PROVE  /\ admin' \in [Admins -> AdminShape]
         /\ admin'[a].at = step /\ admin'[a].draft = admin[a].draft
         /\ admin'[a].slug = admin[a].slug /\ admin'[a].made = admin[a].made
         /\ \A b \in Admins \ {a} : GoesOn(b)
<1>1. admin \in [Admins -> AdminShape]
  BY DEF EditorialInv, EditorialType
<1>2. admin' = [admin EXCEPT ![a] = [admin[a] EXCEPT !.at = step]]
  BY DEF E!At
<1>3. /\ [admin[a] EXCEPT !.at = step] \in AdminShape
      /\ [admin[a] EXCEPT !.at = step].at = step
      /\ [admin[a] EXCEPT !.at = step].draft = admin[a].draft
      /\ [admin[a] EXCEPT !.at = step].slug = admin[a].slug
      /\ [admin[a] EXCEPT !.at = step].made = admin[a].made
  BY <1>1 DEF AdminShape
<1> QED
  BY <1>1, <1>2, <1>3 DEF GoesOn

LEMMA NoMutation ==
  ASSUME UNCHANGED <<queue, sent>>
  PROVE  SentByUpdates /\ QueuedByUpdates
BY DEF SentByUpdates, QueuedByUpdates, Registered

LEMMA PlainMutation ==
  ASSUME EditorialInv, NEW m \in MutationShape, m.to # "promoted", E!Registers(m) \/ E!Fails(m)
  PROVE  /\ queue' \in Seq(MutationShape) /\ sent' \subseteq MutationShape
         /\ SentByUpdates /\ QueuedByUpdates
<1>1. queue \in Seq(MutationShape) /\ sent \subseteq MutationShape
  BY DEF EditorialInv, EditorialType
<1>2. CASE E!Registers(m)
  <2>1. queue' \in Seq(MutationShape) /\ \A n : Registered(n)' => Registered(n) \/ n = m
    BY <1>1, <1>2, Enqueued DEF E!Registers
  <2> QED
    BY <1>1, <1>2, <2>1 DEF E!Registers, SentByUpdates, QueuedByUpdates
<1>3. CASE E!Fails(m)
  <2>1. queue' = queue /\ (sent' = sent \/ sent' = sent \cup {m})
    BY <1>3 DEF E!Fails
  <2> QED
    BY <1>1, <2>1 DEF SentByUpdates, QueuedByUpdates, Registered
<1> QED
  BY <1>2, <1>3

LEMMA SameDrafts ==
  ASSUME EditorialInv, file' = file, UNCHANGED <<status, slug>>
  PROVE  OwnArticle'
BY DEF EditorialInv, OwnArticle

-----------------------------------------------------------------------------
(* Steps that leave the files alone.                                       *)

LEMMA EditApply == EditorialInv /\ E!Apply => EditorialInv' /\ file' = file
<1> SUFFICES ASSUME EditorialInv, E!Apply PROVE EditorialInv' /\ file' = file
  OBVIOUS
<1> DEFINE m == Head(queue)
           hit == status[m.draft] \in m.from
<1>1. EditorialType /\ Promised /\ OwnArticle
  BY DEF EditorialInv
<1>2. /\ queue # <<>> /\ queue' = Tail(queue) /\ UNCHANGED <<file, sent, admin, mod>>
      /\ status' = IF hit THEN [status EXCEPT ![m.draft] = m.to] ELSE status
      /\ slug' = IF hit /\ m.slug # None THEN [slug EXCEPT ![m.draft] = m.slug] ELSE slug
  BY DEF E!Apply
<1>3. /\ queue' \in Seq(MutationShape) /\ m \in MutationShape /\ Registered(m)
      /\ \A n : Registered(n)' => Registered(n)
  BY <1>1, <1>2, Dequeued DEF EditorialType
<1> HIDE DEF m
<1>4. status' \in [Drafts -> E!Statuses] /\ slug' \in [Drafts -> Slugs \cup {None}]
  BY <1>1, <1>2, <1>3 DEF EditorialType, MutationShape
<1>5. EditorialType'
  BY <1>1, <1>2, <1>3, <1>4 DEF EditorialType
<1>6. OwnArticle'
  <2> SUFFICES ASSUME NEW d \in Drafts, status'[d] = "promoted"
               PROVE  slug'[d] \in Slugs /\ file[slug'[d]] = d
    BY <1>2 DEF OwnArticle
  <2>1. CASE ~hit \/ d # m.draft
    <3>1. status'[d] = status[d] /\ slug'[d] = slug[d]
      BY <1>1, <1>2, <2>1 DEF EditorialType
    <3> QED
      BY <1>1, <3>1 DEF OwnArticle
  <2>2. CASE hit /\ d = m.draft
    <3>1. m.to = "promoted"
      BY <1>1, <1>2, <2>2 DEF EditorialType
    <3>2. m.slug \in Slugs /\ file[m.slug] = m.draft
      BY <1>1, <1>3, <3>1 DEF Promised
    <3>3. slug'[d] = m.slug
      BY <1>1, <1>2, <2>2, <3>2, Distinct DEF EditorialType
    <3> QED
      BY <2>2, <3>2, <3>3
  <2> QED
    BY <2>1, <2>2
<1>7. SentByUpdates /\ QueuedByUpdates
  BY <1>2, <1>3 DEF SentByUpdates, QueuedByUpdates
<1>8. \A a \in Admins : GoesOn(a)
  BY <1>2 DEF GoesOn
<1> QED
  BY <1>2, <1>5, <1>6, <1>7, <1>8, EditorialFrame

LEMMA EditLate ==
  ASSUME EditorialInv, NEW m \in sent, E!RegisterLate(m)
  PROVE  EditorialInv' /\ file' = file
<1>1. EditorialType /\ m \in MutationShape
  BY DEF EditorialInv, EditorialType
<1>2. /\ queue' = Append(queue, m) /\ sent' = sent \ {m}
      /\ UNCHANGED <<status, slug, file, admin, mod>>
  BY DEF E!RegisterLate
<1>3. queue' \in Seq(MutationShape) /\ \A n : Registered(n)' => Registered(n) \/ n = m
  BY <1>1, <1>2, Enqueued DEF EditorialType
<1>4. EditorialType'
  BY <1>1, <1>2, <1>3 DEF EditorialType
<1>5. SentByUpdates /\ QueuedByUpdates
  BY <1>2, <1>3 DEF SentByUpdates, QueuedByUpdates
<1>6. \A a \in Admins : GoesOn(a)
  BY <1>2 DEF GoesOn
<1> QED
  BY <1>2, <1>4, <1>5, <1>6, SameDrafts, EditorialFrame

LEMMA EditIngest ==
  ASSUME EditorialInv, NEW d \in Drafts, E!Ingest(d)
  PROVE  EditorialInv' /\ file' = file
<1>1. EditorialType /\ OwnArticle
  BY DEF EditorialInv
<1>2. status' = [status EXCEPT ![d] = "pending"] /\ UNCHANGED <<slug, file, queue, sent, admin, mod>>
  BY DEF E!Ingest
<1>3. EditorialType' /\ OwnArticle'
  BY <1>1, <1>2 DEF EditorialType, OwnArticle, E!Statuses
<1>4. \A a \in Admins : GoesOn(a)
  BY <1>2 DEF GoesOn
<1> QED
  BY <1>2, <1>3, <1>4, NoMutation, EditorialFrame

LEMMA EditMoves ==
  ASSUME EditorialInv, UNCHANGED <<status, slug, file, queue, sent, admin>>, mod' \in ModShape
  PROVE  EditorialInv' /\ file' = file
<1>1. EditorialType'
  BY DEF EditorialInv, EditorialType
<1>2. \A a \in Admins : GoesOn(a)
  BY DEF GoesOn
<1> QED
  BY <1>1, <1>2, SameDrafts, NoMutation, EditorialFrame

LEMMA EditMarks ==
  ASSUME EditorialInv, UNCHANGED <<status, slug, file, admin>>, mod' \in ModShape,
         NEW m \in MutationShape, m.to # "promoted", E!Registers(m) \/ E!Fails(m)
  PROVE  EditorialInv' /\ file' = file
<1>1. queue' \in Seq(MutationShape) /\ sent' \subseteq MutationShape /\ SentByUpdates /\ QueuedByUpdates
  BY PlainMutation
<1>2. EditorialType'
  BY <1>1 DEF EditorialInv, EditorialType
<1>3. \A a \in Admins : GoesOn(a)
  BY DEF GoesOn
<1> QED
  BY <1>1, <1>2, <1>3, SameDrafts, EditorialFrame

LEMMA TodayType == E!Today \in Nat
<1> DEFINE used == {s \in Slugs : posts[s] # None}
<1>1. IsFiniteSet(used)
  BY FS_Subset, ServicesAssumption
<1>2. Cardinality(used) \in Nat
  BY <1>1, FS_CardinalityType
<1>3. \A V : E!Cardinality(V) = Cardinality(V)
  BY DEF E!Cardinality, Cardinality
<1> QED
  BY <1>2, <1>3 DEF E!Today

LEMMA ModRestType == E!ModRest \in ModShape
BY DEF E!ModRest, ModShape, ModSteps

LEMMA ModGoes ==
  ASSUME NEW r \in ModShape, NEW step \in ModSteps
  PROVE  [r EXCEPT !.at = step] \in ModShape
BY DEF ModShape

LEMMA EditModerator ==
  ASSUME EditorialInv,
         \/ E!StartRun \/ E!Fetch \/ E!EndRun \/ E!Translate \/ E!ModInsert
         \/ \E d \in Drafts : E!NextDraft(d)
  PROVE  EditorialInv' /\ file' = file
<1>1. mod \in ModShape
  BY DEF EditorialInv, EditorialType
<1>2. mod' \in ModShape
  <2>1. CASE E!StartRun
    <3>1. mod' = [E!ModRest EXCEPT !.at = "fetch", !.count = E!Today]
      BY <2>1 DEF E!StartRun
    <3> QED
      BY <3>1, TodayType, ModRestType DEF ModShape, ModSteps
  <2>2. CASE E!Fetch
    <3>1. CASE mod' = E!ModRest
      BY <3>1, ModRestType
    <3>2. ASSUME NEW b \in SUBSET E!Pending, mod' = [mod EXCEPT !.at = "loop", !.batch = b]
          PROVE  mod' \in ModShape
      <4>1. b \in SUBSET Drafts
        BY DEF E!Pending
      <4> QED
        BY <1>1, <3>2, <4>1 DEF ModShape, ModSteps
    <3> QED
      BY <2>2, <3>1, <3>2 DEF E!Fetch
  <2>3. CASE E!EndRun
    BY <2>3, ModRestType DEF E!EndRun
  <2>4. CASE E!Translate
    <3>1. CASE mod' = [mod EXCEPT !.at = "loop"]
      BY <1>1, <3>1, ModGoes DEF ModSteps
    <3>2. ASSUME NEW s \in Slugs, mod' = [mod EXCEPT !.at = "insert", !.slug = s, !.left = Languages]
          PROVE  mod' \in ModShape
      <4>1. Languages \in Nat
        BY ServicesAssumption
      <4> QED
        BY <1>1, <3>2, <4>1 DEF ModShape, ModSteps
    <3> QED
      BY <2>4, <3>1, <3>2 DEF E!Translate, E!ModTo
  <2>5. CASE E!ModInsert
    <3>1. mod' = [mod EXCEPT !.at = "mark"] \/ mod' = [mod EXCEPT !.at = "loop"]
      BY <2>5 DEF E!ModInsert, E!ModTo
    <3> QED
      BY <1>1, <3>1, ModGoes DEF ModSteps
  <2>6. ASSUME NEW d \in Drafts, E!NextDraft(d) PROVE mod' \in ModShape
    <3>1. PICK step \in ModSteps : mod' = [mod EXCEPT !.at = step, !.batch = mod.batch \ {d}, !.draft = d]
      BY <2>6 DEF E!NextDraft, ModSteps
    <3> QED
      BY <1>1, <3>1 DEF ModShape
  <2> QED
    BY <2>1, <2>2, <2>3, <2>4, <2>5, <2>6
<1>3. UNCHANGED <<status, slug, file, queue, sent, admin>>
  BY DEF E!StartRun, E!Fetch, E!EndRun, E!Translate, E!ModInsert, E!NextDraft
<1> QED
  BY <1>2, <1>3, EditMoves

LEMMA EditModMarks ==
  ASSUME EditorialInv, E!ModReject \/ E!ModMark
  PROVE  EditorialInv' /\ file' = file
<1>1. mod \in ModShape /\ mod.draft \in Drafts \cup {None} /\ mod.slug \in Slugs \cup {None}
      /\ mod.left \in Nat /\ mod.count \in Nat
  BY DEF EditorialInv, EditorialType, ModShape
<1>2. CASE E!ModReject
  <2> DEFINE m == E!MarkRejected(mod.draft)
  <2>1. (E!Registers(m) \/ E!Fails(m)) /\ mod' = [mod EXCEPT !.at = "loop"] /\ UNCHANGED <<status, slug, file, admin>>
    BY <1>2 DEF E!ModReject, E!ModTo
  <2>2. m \in MutationShape /\ m.to # "promoted"
    BY <1>1, PlainFields
  <2>3. mod' \in ModShape
    BY <1>1, <2>1, ModGoes DEF ModSteps
  <2> HIDE DEF m
  <2> QED
    BY <2>1, <2>2, <2>3, EditMarks
<1>3. CASE E!ModMark
  <2> DEFINE m == E!MarkPublished(mod.draft, mod.slug)
             fewer == mod.left - 1
             more == mod.count + 1
  <2>1. /\ UNCHANGED <<status, slug, file, admin>>
        /\ \/ /\ E!Registers(m)
              /\ \/ mod.left > 1 /\ mod' = [mod EXCEPT !.at = "insert", !.left = fewer]
                 \/ mod' = [mod EXCEPT !.at = "loop", !.left = 0, !.count = more]
           \/ E!Fails(m) /\ mod' = [mod EXCEPT !.at = "loop"]
    BY <1>1, <1>3 DEF E!ModMark, E!ModTo, ModShape
  <2>2. m \in MutationShape /\ m.to # "promoted"
    BY <1>1, PlainFields
  <2>3. more \in Nat /\ (mod.left > 1 => fewer \in Nat)
    BY <1>1
  <2> HIDE DEF m, fewer, more
  <2>4. mod' \in ModShape
    <3>1. CASE mod.left > 1 /\ mod' = [mod EXCEPT !.at = "insert", !.left = fewer]
      BY <1>1, <2>3, <3>1 DEF ModShape, ModSteps
    <3>2. CASE mod' = [mod EXCEPT !.at = "loop", !.left = 0, !.count = more]
      BY <1>1, <2>3, <3>2 DEF ModShape, ModSteps
    <3>3. CASE mod' = [mod EXCEPT !.at = "loop"]
      BY <1>1, <3>3, ModGoes DEF ModSteps
    <3> QED
      BY <2>1, <3>1, <3>2, <3>3
  <2> QED
    BY <2>1, <2>2, <2>4, EditMarks
<1> QED
  BY <1>2, <1>3

-----------------------------------------------------------------------------
(* The administrator's steps that leave the files alone.                   *)

LEMMA EditAdmin ==
  ASSUME EditorialInv, NEW a \in Admins, E!ReadFails(a) \/ E!ReadPublish(a) \/ E!Insert(a)
  PROVE  EditorialInv' /\ file' = file
<1>1. UNCHANGED <<status, slug, file, queue, sent, mod>>
  BY DEF E!ReadFails, E!ReadPublish, E!Insert
<1>2. \/ E!Done(a)
      \/ admin[a].at = "publish" /\ E!At(a, "insert")
      \/ admin[a].at = "insert" /\ E!At(a, "mark")
  BY DEF E!ReadFails, E!ReadPublish, E!Insert
<1>3. admin' \in [Admins -> AdminShape] /\ \A b \in Admins : admin'[b] = E!Rest \/ GoesOn(b)
  <2>1. CASE E!Done(a)
    BY <2>1, AdminDone
  <2>2. CASE admin[a].at = "publish" /\ E!At(a, "insert")
    <3>1. "insert" \in AdminSteps
      BY DEF AdminSteps
    <3>2. GoesOn(a)
      BY <2>2, <3>1, AdminAt DEF GoesOn
    <3> QED
      BY <2>2, <3>1, <3>2, AdminAt
  <2>3. CASE admin[a].at = "insert" /\ E!At(a, "mark")
    <3>1. "mark" \in AdminSteps
      BY DEF AdminSteps
    <3>2. GoesOn(a)
      BY <2>3, <3>1, AdminAt DEF GoesOn
    <3> QED
      BY <2>3, <3>1, <3>2, AdminAt
  <2> QED
    BY <1>2, <2>1, <2>2, <2>3
<1>4. EditorialType'
  BY <1>1, <1>3 DEF EditorialInv, EditorialType
<1> QED
  BY <1>1, <1>3, <1>4, SameDrafts, NoMutation, EditorialFrame

LEMMA EditAdminMarks ==
  ASSUME EditorialInv, NEW a \in Admins, E!Reject(a) \/ E!Mark(a)
  PROVE  EditorialInv' /\ file' = file
<1>1. admin[a].draft \in Drafts \cup {None} /\ admin[a].slug \in Slugs \cup {None}
  BY DEF EditorialInv, EditorialType, AdminShape
<1>2. PICK m \in MutationShape : m.to # "promoted" /\ (E!Registers(m) \/ E!Fails(m))
  <2>1. CASE E!Reject(a)
    BY <1>1, <2>1, PlainFields DEF E!Reject
  <2>2. CASE E!Mark(a)
    BY <1>1, <2>2, PlainFields DEF E!Mark
  <2> QED
    BY <2>1, <2>2
<1>3. E!Done(a) /\ UNCHANGED <<status, slug, file, mod>>
  BY DEF E!Reject, E!Mark
<1>4. queue' \in Seq(MutationShape) /\ sent' \subseteq MutationShape /\ SentByUpdates /\ QueuedByUpdates
  BY <1>2, PlainMutation
<1>5. admin' \in [Admins -> AdminShape] /\ \A b \in Admins : admin'[b] = E!Rest \/ GoesOn(b)
  BY <1>3, AdminDone
<1>6. EditorialType'
  BY <1>3, <1>4, <1>5 DEF EditorialInv, EditorialType
<1> QED
  BY <1>3, <1>4, <1>5, <1>6, SameDrafts, EditorialFrame

LEMMA EditUpdate ==
  ASSUME EditorialInv, NEW a \in Admins, E!Update(a)
  PROVE  EditorialInv' /\ file' = file
<1> DEFINE m == Mine(a)
<1>1. admin[a].at = "update" /\ UNCHANGED <<status, slug, file, mod>>
  BY DEF E!Update
<1>2. m \in MutationShape /\ queue \in Seq(MutationShape) /\ sent \subseteq MutationShape
  BY <1>1, MineFields DEF EditorialInv, EditorialType
<1>3. (E!Registers(m) /\ E!At(a, "wait")) \/ (E!Fails(m) /\ E!Done(a))
  BY DEF E!Update, Mine
<1>4. CASE E!Registers(m) /\ E!At(a, "wait")
  <2>1. queue' = Append(queue, m) /\ sent' = sent /\ "wait" \in AdminSteps
    BY <1>4 DEF E!Registers, AdminSteps
  <2>2. queue' \in Seq(MutationShape) /\ \A n : Registered(n)' => Registered(n) \/ n = m
    BY <1>2, <2>1, Enqueued
  <2>3. admin' \in [Admins -> AdminShape] /\ admin'[a].at = "wait" /\ \A b \in Admins : GoesOn(b)
    BY <1>1, <1>4, <2>1, AdminAt DEF GoesOn
  <2>4. SentByUpdates /\ QueuedByUpdates
    BY <1>1, <2>1, <2>2, <2>3 DEF SentByUpdates, QueuedByUpdates
  <2>5. EditorialType'
    BY <1>1, <2>1, <2>2, <2>3 DEF EditorialInv, EditorialType
  <2> QED
    BY <1>1, <2>3, <2>4, <2>5, SameDrafts, EditorialFrame
<1>5. CASE E!Fails(m) /\ E!Done(a)
  <2>1. queue' = queue /\ (sent' = sent \/ sent' = sent \cup {m})
    BY <1>5 DEF E!Fails
  <2>2. /\ admin' \in [Admins -> AdminShape] /\ admin'[a] = E!Rest
        /\ \A b \in Admins : admin'[b] = E!Rest \/ GoesOn(b)
    BY <1>5, AdminDone
  <2>3. SentByUpdates /\ QueuedByUpdates
    BY <1>1, <2>1, <2>2 DEF SentByUpdates, QueuedByUpdates, Registered
  <2>4. EditorialType'
    BY <1>1, <1>2, <2>1, <2>2 DEF EditorialInv, EditorialType
  <2> QED
    BY <1>1, <2>2, <2>3, <2>4, SameDrafts, EditorialFrame
<1> QED
  BY <1>3, <1>4, <1>5

LEMMA EditWait ==
  ASSUME EditorialInv, NEW a \in Admins, E!Wait(a)
  PROVE  EditorialInv' /\ file' = file
<1>1. admin[a].at = "wait" /\ UNCHANGED <<status, slug, file, queue, sent, mod>>
  BY DEF E!Wait, E!Kept
<1>2. (E!Gone(a) /\ E!At(a, "check")) \/ E!Done(a)
  BY DEF E!Wait
<1>3. admin' \in [Admins -> AdminShape] /\ \A b \in Admins : admin'[b] = E!Rest \/ GoesOn(b)
  <2>1. CASE E!Gone(a) /\ E!At(a, "check")
    <3>1. "check" \in AdminSteps
      BY DEF AdminSteps
    <3>2. ~Registered(Mine(a))
      BY <2>1 DEF E!Gone, Registered, Mine
    <3>3. GoesOn(a)
      BY <1>1, <2>1, <3>1, <3>2, AdminAt DEF GoesOn
    <3> QED
      BY <2>1, <3>1, <3>3, AdminAt
  <2>2. CASE E!Done(a)
    BY <2>2, AdminDone
  <2> QED
    BY <1>2, <2>1, <2>2
<1>4. EditorialType'
  BY <1>1, <1>3 DEF EditorialInv, EditorialType
<1> QED
  BY <1>1, <1>3, <1>4, SameDrafts, NoMutation, EditorialFrame

\* A decision begins: about a draft that nobody else decides about.
LEMMA EditDecide ==
  ASSUME EditorialInv, NEW a \in Admins, NEW d \in Drafts, NEW s \in Slugs \cup {None},
         NEW step \in {"publish", "promote", "reject"}, step # "reject" => s \in Slugs,
         E!Decide(a, d, step, s)
  PROVE  EditorialInv' /\ file' = file
<1> DEFINE new == [E!Rest EXCEPT !.at = step, !.draft = d, !.slug = s]
<1>1. /\ EditorialType /\ Promised /\ OneEach /\ Deciding /\ OwnArticle
      /\ d \notin E!Active /\ admin' = [admin EXCEPT ![a] = new]
      /\ UNCHANGED <<status, slug, file, queue, sent, mod>>
  BY DEF EditorialInv, E!Decide
<1>2. new \in AdminShape /\ new.at = step /\ new.draft = d /\ new.slug = s /\ new.made = FALSE
  BY RestType DEF AdminShape, AdminSteps
<1> HIDE DEF new
<1>3. admin' \in [Admins -> AdminShape] /\ admin'[a] = new /\ \A b \in Admins \ {a} : admin'[b] = admin[b]
  BY <1>1, <1>2 DEF EditorialType
<1>4. EditorialType' /\ Promised' /\ OwnArticle'
  BY <1>1, <1>3 DEF EditorialType, Promised, OwnArticle, Registered
<1>5. OneEach'
  <2>1. \A b \in Admins : admin[b].draft # d
    BY <1>1, Distinct DEF E!Active
  <2> QED
    BY <1>1, <1>2, <1>3, <2>1 DEF OneEach
<1>6. Deciding'
  BY <1>1, <1>2, <1>3 DEF Deciding, Mine, Registered
<1> QED
  BY <1>1, <1>4, <1>5, <1>6 DEF EditorialInv

-----------------------------------------------------------------------------
(* The steps that write or remove a file.                                  *)

KeepsArticles ==
  \A s \in Slugs : file[s] # None /\ file'[s] # file[s] =>
    /\ file'[s] = None
    /\ \E a \in Admins : admin[a].at # "idle" /\ admin[a].draft = file[s]

\* A file at a slug where there was none disturbs nobody.
LEMMA Written ==
  ASSUME EditorialInv, NEW s \in Slugs, NEW c \in Drafts \cup {Torn}, file[s] = None,
         file' = [file EXCEPT ![s] = c], UNCHANGED <<status, slug, queue, sent>>
  PROVE  /\ file' \in [Slugs -> Drafts \cup {None, Operator, Torn}] /\ file'[s] = c
         /\ \A r \in Slugs : file[r] # None => file'[r] = file[r]
         /\ Promised' /\ OwnArticle' /\ KeepsArticles
<1>1. EditorialType /\ Promised /\ OwnArticle
  BY DEF EditorialInv
<1>2. /\ file' \in [Slugs -> Drafts \cup {None, Operator, Torn}] /\ file'[s] = c
      /\ \A r \in Slugs : file[r] # None => file'[r] = file[r]
  BY <1>1 DEF EditorialType
<1>3. Promised' /\ OwnArticle'
  BY <1>1, <1>2, Distinct DEF Promised, OwnArticle, Registered
<1> QED
  BY <1>2, <1>3 DEF KeepsArticles

LEMMA EditPromote ==
  ASSUME EditorialInv, NEW a \in Admins, E!ReadPromote(a)
  PROVE  EditorialInv' /\ (file' = file \/ KeepsArticles)
<1> DEFINE d == admin[a].draft
           s == admin[a].slug
<1>1. /\ admin[a].at = "promote" /\ d \in Drafts /\ s \in Slugs /\ ~admin[a].made
      /\ UNCHANGED <<status, slug, queue, sent, mod>>
  BY MineFields DEF E!ReadPromote, EditorialInv, Deciding
<1>2. ASSUME file' = file, E!Done(a) \/ (file[s] = d /\ E!At(a, "update"))
      PROVE  EditorialInv'
  <2>1. admin' \in [Admins -> AdminShape] /\ \A b \in Admins : admin'[b] = E!Rest \/ GoesOn(b)
    <3>1. CASE E!Done(a)
      BY <3>1, AdminDone
    <3>2. CASE file[s] = d /\ E!At(a, "update")
      <4>1. "update" \in AdminSteps
        BY DEF AdminSteps
      <4>2. GoesOn(a)
        BY <1>1, <3>2, <4>1, AdminAt DEF GoesOn
      <4> QED
        BY <3>2, <4>1, <4>2, AdminAt
    <3> QED
      BY <1>2, <3>1, <3>2
  <2>2. EditorialType'
    BY <1>1, <1>2, <2>1 DEF EditorialInv, EditorialType
  <2> QED
    BY <1>1, <1>2, <2>1, <2>2, SameDrafts, NoMutation, EditorialFrame
<1>3. ASSUME file[s] = None, file' = [file EXCEPT ![s] = d],
             admin' = [admin EXCEPT ![a].at = "update", ![a].made = TRUE]
      PROVE  EditorialInv' /\ KeepsArticles
  <2> DEFINE new == [admin[a] EXCEPT !.at = "update", !.made = TRUE]
  <2>1. /\ EditorialType /\ Promised /\ OneEach /\ Deciding
        /\ admin \in [Admins -> AdminShape] /\ admin[a] \in AdminShape
    BY DEF EditorialInv, EditorialType
  <2>2. new \in AdminShape /\ new.at = "update" /\ new.draft = d /\ new.slug = s /\ new.made = TRUE
    BY <2>1 DEF AdminShape, AdminSteps
  <2>3. admin' = [admin EXCEPT ![a] = new]
    BY <1>3, <2>1
  <2> HIDE DEF new
  <2>4. admin' \in [Admins -> AdminShape] /\ admin'[a] = new /\ \A b \in Admins \ {a} : admin'[b] = admin[b]
    BY <2>1, <2>2, <2>3
  <2>5. /\ file' \in [Slugs -> Drafts \cup {None, Operator, Torn}] /\ file'[s] = d
        /\ \A r \in Slugs : file[r] # None => file'[r] = file[r]
        /\ Promised' /\ OwnArticle' /\ KeepsArticles
    BY <1>1, <1>3, Written
  <2>6. EditorialType'
    BY <1>1, <2>1, <2>4, <2>5 DEF EditorialType
  <2>7. OneEach'
    <3>1. \A b \in Admins : admin'[b].draft = admin[b].draft
      BY <2>2, <2>4
    <3> QED
      BY <2>1, <3>1 DEF OneEach
  <2>8. Deciding'
    <3> SUFFICES ASSUME NEW b \in Admins
                 PROVE  /\ admin'[b].at # "idle" => admin'[b].draft \in Drafts
                        /\ admin'[b].at \in {"promote", "update", "wait", "check"} => admin'[b].slug \in Slugs
                        /\ admin'[b].at \in {"update", "wait", "check"} => file'[admin'[b].slug] = admin'[b].draft
                        /\ admin'[b].made => /\ admin'[b].at \in {"update", "wait", "check"}
                                             /\ Mine(b)' \notin sent'
                                             /\ admin'[b].at # "wait" => ~Registered(Mine(b))'
      BY DEF Deciding
    <3>1. CASE b = a
      <4>1. Mine(a) \in MutationShape /\ Mine(a).to = "promoted" /\ Mine(a).slug = s /\ Mine(a).draft = d
        BY <1>1, MineFields
      <4>2. Mine(a) \notin sent /\ ~Registered(Mine(a))
        BY <1>1, <1>3, <2>1, <4>1, Distinct DEF Promised
      <4>3. Mine(a)' = Mine(a) /\ (~Registered(Mine(a))' <=> ~Registered(Mine(a)))
        BY <1>1, <2>2, <2>4 DEF Mine, Registered
      <4> QED
        BY <1>1, <2>2, <2>4, <2>5, <3>1, <4>2, <4>3
    <3>2. CASE b # a
      <4>1. /\ admin'[b] = admin[b] /\ Mine(b)' = Mine(b)
            /\ (~Registered(Mine(b))' <=> ~Registered(Mine(b)))
        BY <1>1, <2>4, <3>2 DEF Mine, Registered
      <4>2. admin[b].at \in {"update", "wait", "check"} => file[admin[b].slug] # None /\ admin[b].slug \in Slugs
        BY <2>1, Distinct DEF Deciding
      <4> QED
        BY <1>1, <2>1, <2>5, <4>1, <4>2 DEF Deciding
    <3> QED
      BY <3>1, <3>2
  <2> QED
    BY <2>5, <2>6, <2>7, <2>8 DEF EditorialInv
<1> QED
  BY <1>2, <1>3 DEF E!ReadPromote, E!Creates, E!MayCreate, E!Article

LEMMA EditCrash == EditorialInv /\ E!Crash => EditorialInv' /\ (file' = file \/ KeepsArticles)
<1> SUFFICES ASSUME EditorialInv, E!Crash PROVE EditorialInv' /\ (file' = file \/ KeepsArticles)
  OBVIOUS
<1>1. /\ admin' = [a \in Admins |-> E!Rest] /\ mod' = E!ModRest
      /\ UNCHANGED <<status, slug, queue, sent>>
  BY DEF E!Crash
<1>2. admin' \in [Admins -> AdminShape] /\ \A a \in Admins : admin'[a] = E!Rest
  BY <1>1, RestType
<1>3. OneEach' /\ Deciding'
  BY <1>2, RestType DEF OneEach, Deciding
<1>4. CASE file' = file
  <2>1. EditorialType' /\ Promised' /\ OwnArticle'
    BY <1>1, <1>2, <1>4, ModRestType DEF EditorialInv, EditorialType, Promised, OwnArticle, Registered
  <2> QED
    BY <1>3, <1>4, <2>1 DEF EditorialInv
<1>5. ASSUME NEW a \in Admins, admin[a].at = "promote", E!MayCreate(a),
             file' = [file EXCEPT ![admin[a].slug] = Torn]
      PROVE  EditorialInv' /\ KeepsArticles
  <2>1. admin[a].slug \in Slugs /\ file[admin[a].slug] = None
    BY <1>5, MineFields DEF E!MayCreate, E!Article
  <2>2. /\ file' \in [Slugs -> Drafts \cup {None, Operator, Torn}]
        /\ Promised' /\ OwnArticle' /\ KeepsArticles
    BY <1>1, <1>5, <2>1, Written
  <2>3. EditorialType'
    BY <1>1, <1>2, <2>2, ModRestType DEF EditorialInv, EditorialType
  <2> QED
    BY <1>3, <2>2, <2>3 DEF EditorialInv
<1> QED
  BY <1>4, <1>5 DEF E!Crash

\* What an attempt made it may remove: nobody else relies on it.
LEMMA EditCheck ==
  ASSUME EditorialInv, NEW a \in Admins, E!Check(a)
  PROVE  EditorialInv' /\ (file' = file \/ KeepsArticles)
<1> DEFINE d == admin[a].draft
           s == admin[a].slug
<1>1. /\ admin[a].at = "check" /\ E!Done(a) /\ UNCHANGED <<status, slug, queue, sent, mod>>
      /\ d \in Drafts /\ s \in Slugs
  BY MineFields DEF E!Check
<1>2. admin' \in [Admins -> AdminShape] /\ admin'[a] = E!Rest /\ \A b \in Admins : admin'[b] = E!Rest \/ GoesOn(b)
  BY <1>1, AdminDone
<1>3. CASE file' = file
  <2>1. EditorialType'
    BY <1>1, <1>2, <1>3 DEF EditorialInv, EditorialType
  <2> QED
    BY <1>1, <1>2, <1>3, <2>1, SameDrafts, NoMutation, EditorialFrame
<1>4. ASSUME admin[a].made, status[d] # "promoted" \/ slug[d] # s, file' = [file EXCEPT ![s] = None]
      PROVE  EditorialInv' /\ KeepsArticles
  <2>1. EditorialType /\ Promised /\ OneEach /\ Deciding /\ OwnArticle
    BY DEF EditorialInv
  <2>2. file[s] = d /\ Mine(a) \notin sent /\ ~Registered(Mine(a))
    BY <1>1, <1>4, <2>1 DEF Deciding
  <2>3. /\ file' \in [Slugs -> Drafts \cup {None, Operator, Torn}] /\ file'[s] = None
        /\ \A r \in Slugs \ {s} : file'[r] = file[r]
    BY <1>1, <1>4, <2>1 DEF EditorialType
  <2>4. EditorialType'
    BY <1>1, <1>2, <2>1, <2>3 DEF EditorialType
  <2>5. Promised'
    <3> SUFFICES ASSUME NEW m \in MutationShape, m.to = "promoted", Registered(m)' \/ m \in sent'
                 PROVE  /\ m.draft \in Drafts /\ m.slug \in Slugs /\ m = E!MarkPromoted(m.draft, m.slug)
                        /\ file'[m.slug] = m.draft
      BY DEF Promised
    <3>1. Registered(m) \/ m \in sent
      BY <1>1 DEF Registered
    <3>2. /\ m.draft \in Drafts /\ m.slug \in Slugs /\ m = E!MarkPromoted(m.draft, m.slug)
          /\ file[m.slug] = m.draft
      BY <2>1, <3>1 DEF Promised
    <3>3. m.slug # s
      BY <2>2, <3>1, <3>2 DEF Mine
    <3> QED
      BY <2>3, <3>2, <3>3
  <2>6. OwnArticle'
    BY <1>1, <1>4, <2>1, <2>2, <2>3 DEF OwnArticle
  <2>7. OneEach'
    <3>1. \A b \in Admins : admin'[b].draft = None \/ admin'[b].draft = admin[b].draft
      BY <1>2, RestType DEF GoesOn
    <3> QED
      BY <2>1, <3>1 DEF OneEach
  <2>8. Deciding'
    <3> SUFFICES ASSUME NEW b \in Admins
                 PROVE  /\ admin'[b].at # "idle" => admin'[b].draft \in Drafts
                        /\ admin'[b].at \in {"promote", "update", "wait", "check"} => admin'[b].slug \in Slugs
                        /\ admin'[b].at \in {"update", "wait", "check"} => file'[admin'[b].slug] = admin'[b].draft
                        /\ admin'[b].made => /\ admin'[b].at \in {"update", "wait", "check"}
                                             /\ Mine(b)' \notin sent'
                                             /\ admin'[b].at # "wait" => ~Registered(Mine(b))'
      BY DEF Deciding
    <3>1. CASE b = a
      BY <1>2, <3>1, RestType
    <3>2. CASE b # a
      <4>1. admin'[b] = admin[b]
        BY <1>1, <2>1, <3>2 DEF E!Done, EditorialType
      <4>2. Mine(b)' = Mine(b) /\ (~Registered(Mine(b))' <=> ~Registered(Mine(b)))
        BY <1>1, <4>1 DEF Mine, Registered
      <4>3. admin[b].at \in {"update", "wait", "check"} => admin[b].slug \in Slugs \ {s}
        <5>1. admin[b].at \in {"update", "wait", "check"} =>
                admin[b].slug \in Slugs /\ file[admin[b].slug] = admin[b].draft /\ admin[b].draft \in Drafts
          BY <2>1 DEF Deciding
        <5>2. admin[b].draft \in Drafts => admin[b].draft # d
          BY <2>1, <3>2, Distinct DEF OneEach
        <5> QED
          BY <2>2, <5>1, <5>2
      <4> QED
        BY <1>1, <2>1, <2>3, <4>1, <4>2, <4>3 DEF Deciding
    <3> QED
      BY <3>1, <3>2
  <2>9. KeepsArticles
    BY <1>1, <2>2, <2>3 DEF KeepsArticles
  <2> QED
    BY <2>4, <2>5, <2>6, <2>7, <2>8, <2>9 DEF EditorialInv
<1> QED
  BY <1>3, <1>4 DEF E!Check, E!OwnRemoved, E!Withdrawn

LEMMA EditInit == E!Init => EditorialInv
<1> SUFFICES ASSUME E!Init PROVE EditorialInv
  OBVIOUS
<1>1. /\ status = [d \in Drafts |-> "absent"] /\ slug = [d \in Drafts |-> None]
      /\ file \in [Slugs -> {None, Operator}] /\ queue = <<>> /\ sent = {}
      /\ admin = [a \in Admins |-> E!Rest] /\ mod = E!ModRest
  BY DEF E!Init
<1>2. mod \in ModShape
  BY <1>1 DEF ModShape, ModSteps, E!ModRest
<1>3. EditorialType
  BY <1>1, <1>2, RestType DEF EditorialType, E!Statuses
<1>4. \A m : ~Registered(m)
  BY <1>1 DEF Registered
<1>5. Promised
  BY <1>1, <1>4 DEF Promised
<1>6. OneEach /\ Deciding
  BY <1>1, RestType DEF OneEach, Deciding
<1>7. OwnArticle
  BY <1>1 DEF OwnArticle
<1> QED
  BY <1>3, <1>5, <1>6, <1>7 DEF EditorialInv

LEMMA EditStep ==
  ASSUME EditorialInv, E!Next
  PROVE  EditorialInv' /\ (file' = file \/ KeepsArticles)
<1>1. CASE E!Apply \/ E!Crash
  BY <1>1, EditApply, EditCrash
<1>2. CASE \E m \in sent : E!RegisterLate(m)
  BY <1>2, EditLate
<1>3. CASE \E d \in Drafts : E!Ingest(d) \/ E!NextDraft(d)
  BY <1>3, EditIngest, EditModerator
<1>4. CASE \/ E!StartRun \/ E!Fetch \/ E!EndRun \/ E!ModReject \/ E!Translate
           \/ E!ModInsert \/ E!ModMark
  BY <1>4, EditModerator, EditModMarks
<1>5. ASSUME NEW a \in Admins,
             \/ \E d \in Drafts, s \in Slugs, step \in {"publish", "promote"} : E!Decide(a, d, step, s)
             \/ \E d \in Drafts : E!Decide(a, d, "reject", None)
             \/ E!Reject(a) \/ E!ReadFails(a) \/ E!ReadPublish(a) \/ E!Insert(a) \/ E!Mark(a)
             \/ E!ReadPromote(a) \/ E!Update(a) \/ E!Wait(a) \/ E!Check(a)
      PROVE  EditorialInv' /\ (file' = file \/ KeepsArticles)
  <2>1. ASSUME NEW d \in Drafts, NEW s \in Slugs, NEW step \in {"publish", "promote"},
               E!Decide(a, d, step, s)
        PROVE  EditorialInv' /\ file' = file
    BY <2>1, EditDecide
  <2>2. ASSUME NEW d \in Drafts, E!Decide(a, d, "reject", None)
        PROVE  EditorialInv' /\ file' = file
    BY <2>2, EditDecide
  <2>3. CASE E!ReadPromote(a) \/ E!Check(a)
    BY <2>3, EditPromote, EditCheck
  <2>4. CASE E!Reject(a) \/ E!ReadFails(a) \/ E!ReadPublish(a) \/ E!Insert(a) \/ E!Mark(a)
    BY <2>4, EditAdmin, EditAdminMarks
  <2>5. CASE E!Update(a) \/ E!Wait(a)
    BY <2>5, EditUpdate, EditWait
  <2> QED
    BY <1>5, <2>1, <2>2, <2>3, <2>4, <2>5
<1> QED
  BY <1>1, <1>2, <1>3, <1>4, <1>5 DEF E!Next

-----------------------------------------------------------------------------
EditorialHolds == service = "editorial" => EditorialInv

LEMMA ServicesStep ==
  ASSUME EditorialHolds, [ServicesNext]_<<service, editorial, links, preview>>
  PROVE  /\ EditorialHolds'
         /\ file' = file \/ KeepsArticles
<1>1. CASE Edits
  <2>1. service = "editorial" /\ service' = service /\ E!Next
    BY <1>1 DEF Edits
  <2> QED
    BY <2>1, EditStep DEF EditorialHolds
<1>2. CASE \/ Shares \/ Previews \/ UNCHANGED <<service, editorial, links, preview>>
  <2>1. UNCHANGED <<service, status, slug, posts, file, queue, sent, admin, mod, attempts>>
    BY <1>2 DEF Shares, Previews, editorial
  <2>2. EditorialInv' <=> EditorialInv
    BY <2>1 DEF EditorialInv, EditorialType, Promised, OneEach, Deciding, OwnArticle, Registered, Mine
  <2> QED
    BY <2>1, <2>2 DEF EditorialHolds
<1> QED
  BY <1>1, <1>2 DEF ServicesNext

THEOREM EditorialTheorem == ServicesSpec => []EditorialHolds
<1>1. ServicesInit => EditorialHolds
  BY EditInit DEF ServicesInit, EditorialHolds
<1>2. EditorialHolds /\ [ServicesNext]_<<service, editorial, links, preview>> => EditorialHolds'
  BY ServicesStep
<1> QED
  BY <1>1, <1>2, PTL DEF ServicesSpec

\* A draft whose row says promoted has its own article at its slug, through
\* every failure, late mutation, retry and crash (lib/blog-service.js).
THEOREM ArticleTheorem == ServicesSpec => []PromotedHasArticle
<1>1. EditorialHolds => PromotedHasArticle
  BY DEF EditorialHolds, EditorialInv, OwnArticle, PromotedHasArticle, E!PromotedHasArticle
<1> QED
  BY <1>1, EditorialTheorem, PTL

\* No decision replaces or removes an article that is not its own draft's.
THEOREM ArticlesTheorem == ServicesSpec => ArticlesAreKept
<1>1. EditorialHolds /\ [ServicesNext]_<<service, editorial, links, preview>> => [KeepsArticles]_(E!vars)
  <2> SUFFICES ASSUME EditorialHolds, [ServicesNext]_<<service, editorial, links, preview>>
               PROVE  KeepsArticles
    OBVIOUS
  <2> QED
    BY ServicesStep DEF KeepsArticles
<1> QED
  BY <1>1, EditorialTheorem, PTL DEF ServicesSpec, ArticlesAreKept, E!ArticlesAreKept, KeepsArticles


-----------------------------------------------------------------------------
(* The creative preview.                                                   *)

Creatives == Banners \cup Texts \cup {P!NoCreative}
BodyShape == [creative : Creatives, loaded : SUBSET Assets]
EventShape == [doc : Nat, n : Nat]
PageShape == [started : BOOLEAN, sent : Nat, refused : SUBSET Items, seen : SUBSET Items,
              queue : SUBSET Items, truncated : BOOLEAN, scheduled : BOOLEAN]
MailShape == [type : {"event", "refusal", "beat"}, frame : Nat, doc : Nat, n : Nat,
              items : SUBSET Items, truncated : BOOLEAN]
RequestShape == [events : Seq(EventShape), adm : BodyShape, revision : Nat, latest : BOOLEAN]
BatchShape == [rev : Nat, frame : Nat, creative : Creatives, todo : SUBSET Assets,
               loaded : SUBSET Assets, inlined : Nat, aborted : BOOLEAN]

PreviewType ==
  /\ probe \in BOOLEAN /\ rev \in Nat /\ wanted \in Creatives
  /\ shown \in [frame : Nat, doc : Nat, creative : Creatives, loaded : SUBSET Assets]
  /\ page \in PageShape /\ mail \in Seq(MailShape)
  /\ behavior \in [events : Seq(EventShape), adm : BodyShape, revision : Nat]
  /\ ledger \in [seen : SUBSET Items, truncated : BOOLEAN]
  /\ watch \in [on : BOOLEAN, heard : BOOLEAN, lag : Nat, alerted : BOOLEAN]
  /\ findings \subseteq [events : Seq(EventShape), adm : BodyShape]
  /\ unread \subseteq RequestShape /\ asked \subseteq RequestShape
  /\ offer \subseteq [loaded : SUBSET Assets, busy : BOOLEAN]
  /\ batches \subseteq BatchShape

\* A document has a number of its own, newer than whatever is on its way, and
\* nothing is offered, asked of a batch or posted but in its name.
OneDocument ==
  /\ shown.doc <= rev /\ shown.frame <= rev /\ (shown.doc = 0 <=> shown.frame = 0)
  /\ ~P!Framed => ~page.started /\ offer = {}
  /\ page.started => probe
  /\ ~page.started => page = P!NewPage
  /\ \A b \in batches : b.frame # 0 /\ b.rev <= rev /\ (P!Current(b) => b.creative = shown.creative)

InTheMail ==
  \A i \in DOMAIN mail :
    /\ mail[i].doc \in 1 .. rev
    /\ mail[i].doc = shown.doc => page.started /\ mail[i].frame = shown.frame

\* What arrived was posted before what is on its way.
InOrder ==
  \A i \in P!Coming :
    /\ mail[i].n \in 1 .. page.sent
    /\ \A n \in P!Heard : n < mail[i].n
    /\ \A j \in P!Coming : i < j => mail[i].n < mail[j].n

AlertsLate == watch.alerted => watch.lag > FreezeAfter

\* Items the ledger will yet be told of, and the sign that they are not all.
Told(i) == mail[i].type = "refusal" /\ mail[i].doc = shown.doc
Untold == page.queue \cup {x \in Items : \E i \in DOMAIN mail : Told(i) /\ x \in mail[i].items}
SignComing ==
  \/ page.truncated /\ page.scheduled
  \/ \E i \in DOMAIN mail : Told(i) /\ mail[i].truncated

Refusals ==
  /\ ledger.seen \subseteq page.refused
  /\ Untold \subseteq page.refused /\ page.seen \subseteq page.refused
  /\ page.queue # {} => page.scheduled
  /\ page.truncated => ledger.truncated \/ SignComing
  /\ ledger.truncated \/ SignComing \/ page.refused \subseteq ledger.seen \cup Untold

Requests ==
  \A r \in asked \cup unread : r.latest => r.events = behavior.events /\ r.adm = behavior.adm

LogFits == Len(behavior.events) <= LogCap

PreviewInv ==
  /\ PreviewType /\ OneDocument /\ InTheMail /\ InOrder
  /\ LogFits /\ P!LogIsTheTail /\ P!FreezeIsSaid /\ AlertsLate
  /\ Refusals /\ P!ScanIsShown /\ Requests /\ P!FindingsAreCurrent /\ P!ShownIsWanted

LEMMA Caps == LogCap \in Nat \ {0} /\ FreezeAfter \in Nat
BY ServicesAssumption

LEMMA Appended ==
  ASSUME NEW S, NEW q \in Seq(S), NEW m \in S, NEW r, r = Append(q, m)
  PROVE  /\ r \in Seq(S) /\ Len(q) \in Nat /\ DOMAIN q = 1 .. Len(q) /\ DOMAIN r = 1 .. (Len(q) + 1)
         /\ Len(r) = Len(q) + 1 /\ r[Len(q) + 1] = m
         /\ \A i \in DOMAIN q : i \in DOMAIN r /\ r[i] = q[i] /\ i < Len(q) + 1
         /\ \A i \in DOMAIN r : i \in DOMAIN q \/ i = Len(q) + 1
OBVIOUS

LEMMA Shifted ==
  ASSUME NEW S, NEW q \in Seq(S), q # <<>>, NEW r, r = Tail(q)
  PROVE  /\ r \in Seq(S) /\ 1 \in DOMAIN q /\ Head(q) = q[1] /\ q[1] \in S
         /\ DOMAIN q \subseteq Nat /\ DOMAIN r \subseteq Nat
         /\ \A i \in DOMAIN r : i + 1 \in DOMAIN q /\ r[i] = q[i + 1]
         /\ \A i \in DOMAIN q : i # 1 => i - 1 \in DOMAIN r /\ r[i - 1] = q[i] /\ i > 1
OBVIOUS

\* The log with one more entry.
LEMMA PushedLog ==
  ASSUME PreviewType, LogFits, NEW e \in EventShape
  PROVE  LET ev == behavior.events  q == P!Pushed(e)  n == Len(q) IN
         /\ q \in Seq(EventShape) /\ n \in 1 .. LogCap /\ q[n] = e
         /\ DOMAIN q = 1 .. n /\ DOMAIN ev = 1 .. Len(ev) /\ Len(ev) \in Nat
         /\ \/ /\ Len(ev) < LogCap /\ n = Len(ev) + 1
               /\ \A i \in 1 .. Len(ev) : q[i] = ev[i]
            \/ /\ Len(ev) = LogCap /\ n = LogCap
               /\ \A i \in 1 .. (n - 1) : i + 1 \in DOMAIN ev /\ q[i] = ev[i + 1]
               /\ \A i \in 2 .. n : q[i - 1] = ev[i]
<1> DEFINE ev == behavior.events
           all == Append(ev, e)
           over == IF Len(all) > LogCap THEN Len(all) - LogCap ELSE 0
           q == P!Pushed(e)
<1>1. /\ ev \in Seq(EventShape) /\ Len(ev) \in Nat /\ Len(ev) <= LogCap /\ LogCap \in Nat \ {0}
      /\ DOMAIN ev = 1 .. Len(ev)
  BY Caps DEF PreviewType, LogFits
<1>2. /\ all \in Seq(EventShape) /\ Len(all) = Len(ev) + 1 /\ all[Len(ev) + 1] = e
      /\ \A i \in 1 .. Len(ev) : all[i] = ev[i]
  BY <1>1
<1>3. q = SubSeq(all, over + 1, Len(all))
  BY DEF P!Pushed
<1>4. CASE Len(ev) < LogCap
  <2>1. over = 0
    BY <1>1, <1>2, <1>4
  <2>2. q = SubSeq(all, 1, Len(all))
    BY <1>3, <2>1
  <2>3. q \in Seq(EventShape) /\ Len(q) = Len(all) /\ \A i \in 1 .. Len(all) : q[i] = all[i]
    BY <1>1, <1>2, <2>2
  <2> QED
    BY <1>1, <1>2, <1>4, <2>3
<1>5. CASE Len(ev) = LogCap
  <2>1. over = 1
    BY <1>1, <1>2, <1>5
  <2>2. q = SubSeq(all, 2, Len(all))
    BY <1>3, <2>1
  <2>3. /\ q \in Seq(EventShape) /\ Len(q) = Len(all) - 1
        /\ \A i \in 1 .. (Len(all) - 1) : q[i] = all[i + 1]
    BY <1>1, <1>2, <2>2
  <2>4. Len(q) = LogCap /\ q[Len(q)] = e
    BY <1>1, <1>2, <1>5, <2>3
  <2>5. \A i \in 1 .. (LogCap - 1) : i + 1 \in 1 .. Len(ev) /\ q[i] = ev[i + 1]
    BY <1>1, <1>2, <1>5, <2>3
  <2>6. \A i \in 2 .. LogCap : q[i - 1] = ev[i]
    <3> SUFFICES ASSUME NEW i \in 2 .. LogCap PROVE q[i - 1] = ev[i]
      OBVIOUS
    <3> DEFINE k == i - 1
    <3>1. k \in 1 .. (LogCap - 1) /\ k + 1 = i
      BY <1>1
    <3> HIDE DEF k
    <3>2. q[k] = ev[k + 1]
      BY <2>5, <3>1
    <3> QED
      BY <3>1, <3>2 DEF k
  <2> QED
    <3> HIDE DEF all, ev, q
    <3>0. q \in Seq(EventShape) /\ Len(q) = LogCap /\ LogCap \in Nat \ {0}
      BY <1>1, <2>3, <2>4
    <3>1. Len(q) \in 1 .. LogCap /\ DOMAIN q = 1 .. Len(q) /\ DOMAIN ev = 1 .. Len(ev)
      BY <1>1, <3>0
    <3>2. Len(q) = LogCap /\ Len(ev) = LogCap
      BY <1>5, <2>4
    <3>3. \A i \in 1 .. (Len(q) - 1) : i + 1 \in DOMAIN ev /\ q[i] = ev[i + 1]
      BY <2>5, <3>1, <3>2
    <3>4. \A i \in 2 .. Len(q) : q[i - 1] = ev[i]
      BY <2>6, <3>2
    <3> QED
      BY <1>1, <2>3, <2>4, <3>1, <3>2, <3>3, <3>4 DEF ev, q
<1> QED
  BY <1>1, <1>4, <1>5
-----------------------------------------------------------------------------
BehaviorShape == [events : Seq(EventShape), adm : BodyShape, revision : Nat]

\* A render outdates what is asked and asks again.
LEMMA Rendered ==
  ASSUME PreviewType, NEW b \in BehaviorShape, P!RenderBehaviorTab(b)
  PROVE  /\ behavior' = b /\ findings' = {}
         /\ asked' \subseteq RequestShape /\ unread' \subseteq RequestShape
         /\ Requests' /\ P!FindingsAreCurrent'
<1>1. behavior' = b /\ findings' = {} /\ asked' = P!Outdated(asked)
  BY DEF P!RenderBehaviorTab
<1> DEFINE q == [events |-> b.events, adm |-> b.adm, revision |-> b.revision, latest |-> TRUE]
<1>2. unread' \subseteq {q}
  BY DEF P!RenderBehaviorTab
<1>3. q \in RequestShape /\ q.events = b.events /\ q.adm = b.adm
  BY DEF RequestShape, BehaviorShape
<1>4. \A r \in asked' : r \in RequestShape /\ r.latest = FALSE
  <2> SUFFICES ASSUME NEW r \in asked' PROVE r \in RequestShape /\ r.latest = FALSE
    OBVIOUS
  <2>1. PICK o \in asked : r = [o EXCEPT !.latest = FALSE]
    BY <1>1 DEF P!Outdated
  <2>2. o \in RequestShape
    BY DEF PreviewType
  <2> QED
    BY <2>1, <2>2 DEF RequestShape
<1>5. Requests'
  BY <1>1, <1>2, <1>3, <1>4 DEF Requests
<1>6. P!FindingsAreCurrent'
  BY <1>1 DEF P!FindingsAreCurrent
<1> QED
  BY <1>1, <1>2, <1>3, <1>4, <1>5, <1>6

\* A new document takes over everything that is said about the one on screen.
LEMMA NewDocument ==
  ASSUME PreviewInv, rev' = rev + 1, UNCHANGED <<probe, mail>>,
         shown' \in [frame : Nat, doc : Nat, creative : Creatives, loaded : SUBSET Assets],
         \/ shown'.frame = 0 /\ shown'.doc = 0 /\ offer' = {}
         \/ shown'.frame \in 1 .. rev' /\ shown'.doc = rev',
         wanted' = shown'.creative, page' = P!NewPage, ledger' = P!NewLedger,
         P!StartBehavior(shown'),
         watch' \in [on : BOOLEAN, heard : BOOLEAN, lag : Nat, alerted : BOOLEAN], AlertsLate',
         offer' \subseteq [loaded : SUBSET Assets, busy : BOOLEAN],
         batches' \subseteq BatchShape,
         \A b \in batches' : \E c \in batches : b.frame = c.frame /\ b.rev = c.rev
  PROVE  PreviewInv'
<1> DEFINE fresh == IF shown'.frame = 0 THEN P!NoBehavior
                    ELSE [events |-> <<>>, adm |-> P!Body(shown'), revision |-> shown'.doc]
<1>1. /\ PreviewType /\ OneDocument /\ InTheMail /\ rev \in Nat /\ rev' \in Nat
      /\ mail \in Seq(MailShape) /\ batches \subseteq BatchShape /\ wanted' \in Creatives
  BY DEF PreviewInv, PreviewType
<1>2. /\ fresh \in BehaviorShape /\ fresh.events = <<>>
      /\ fresh.adm = IF shown'.frame # 0 THEN P!Body(shown') ELSE P!NoBody
  BY <1>1 DEF P!NoBehavior, P!NoBody, P!Body, BehaviorShape, BodyShape, Creatives
<1>3. /\ behavior' = fresh /\ findings' = {}
      /\ asked' \subseteq RequestShape /\ unread' \subseteq RequestShape
      /\ Requests' /\ P!FindingsAreCurrent'
  <2>1. P!RenderBehaviorTab(fresh)
    BY DEF P!StartBehavior
  <2> HIDE DEF fresh
  <2> QED
    BY <1>1, <1>2, <2>1, Rendered
<1> HIDE DEF fresh
<1>4. /\ page' \in PageShape /\ page'.started = FALSE /\ page'.sent = 0 /\ page'.refused = {}
      /\ page'.seen = {} /\ page'.queue = {} /\ page'.truncated = FALSE /\ page'.scheduled = FALSE
  BY DEF P!NewPage, PageShape
<1>5. ledger' \in [seen : SUBSET Items, truncated : BOOLEAN] /\ ledger'.seen = {}
  BY DEF P!NewLedger
<1>6. PreviewType'
  BY <1>1, <1>2, <1>3, <1>4, <1>5 DEF PreviewType, BehaviorShape
<1>7. OneDocument'
  <2>1. /\ shown'.doc <= rev' /\ shown'.frame <= rev' /\ (shown'.doc = 0 <=> shown'.frame = 0)
        /\ shown'.frame = 0 => offer' = {}
    BY <1>1
  <2>2. ASSUME NEW b \in batches' PROVE b.frame # 0 /\ b.rev <= rev' /\ b.rev # rev'
    <3>1. PICK c \in batches : b.frame = c.frame /\ b.rev = c.rev
      BY <2>2
    <3>2. c.frame # 0 /\ c.rev <= rev /\ c.rev \in Nat
      BY <1>1 DEF OneDocument, BatchShape
    <3> QED
      BY <1>1, <3>1, <3>2
  <2> QED
    BY <1>4, <2>1, <2>2 DEF OneDocument, P!Framed, P!Current
<1>8. \A i \in DOMAIN mail : mail[i].doc \in 1 .. rev' /\ mail[i].doc # shown'.doc
  BY <1>1 DEF InTheMail
<1>9. InTheMail' /\ InOrder'
  BY <1>8 DEF InTheMail, InOrder, P!Coming
<1>10. P!Heard' = {} /\ P!Logged' = {}
  <2>1. behavior'.events = <<>> /\ DOMAIN behavior'.events = {} /\ 1 .. page'.sent = {}
    BY <1>2, <1>3, <1>4
  <2> QED
    BY <2>1 DEF P!Heard, P!Logged
<1>11. LogFits' /\ P!LogIsTheTail' /\ P!FreezeIsSaid'
  <2>1. Len(behavior'.events) = 0
    BY <1>2, <1>3
  <2> QED
    BY <1>10, <2>1, Caps DEF LogFits, P!LogIsTheTail, P!FreezeIsSaid
<1>12. Refusals'
  <2>1. \A i \in DOMAIN mail : ~Told(i)'
    BY <1>8 DEF Told
  <2>2. Untold' = {}
    BY <1>4, <2>1 DEF Untold
  <2> QED
    BY <1>4, <1>5, <2>2 DEF Refusals
<1>13. P!ScanIsShown' /\ P!ShownIsWanted'
  BY <1>2, <1>3 DEF P!ScanIsShown, P!ShownIsWanted, P!Framed
<1> QED
  BY <1>3, <1>6, <1>7, <1>9, <1>11, <1>12, <1>13 DEF PreviewInv


LEMMA AbortedBatches ==
  ASSUME PreviewType, NEW b \in P!Aborted(batches)
  PROVE  /\ b \in BatchShape
         /\ \E c \in batches : b.frame = c.frame /\ b.rev = c.rev /\ b.creative = c.creative
<1>1. PICK c \in batches : b = [c EXCEPT !.aborted = TRUE]
  BY DEF P!Aborted
<1>2. c \in BatchShape
  BY DEF PreviewType
<1> QED
  BY <1>1, <1>2 DEF BatchShape

LEMMA ShowKeeps == PreviewInv /\ P!Show => PreviewInv'
<1> SUFFICES ASSUME PreviewInv, NEW c \in Creatives, P!SetAdPreview(c) PROVE PreviewInv'
  BY DEF P!Show, Creatives
<1>1. PreviewType /\ rev \in Nat
  BY DEF PreviewInv, PreviewType
<1>2. /\ rev' = rev + 1 /\ UNCHANGED <<probe, mail>> /\ wanted' = c /\ page' = P!NewPage
      /\ ledger' = P!NewLedger /\ watch' = P!WatchOff /\ P!StartBehavior(shown')
      /\ batches' = P!Aborted(batches)
  BY DEF P!SetAdPreview
<1>3. /\ shown' \in [frame : Nat, doc : Nat, creative : Creatives, loaded : SUBSET Assets]
      /\ shown'.creative = c
      /\ \/ shown'.frame = 0 /\ shown'.doc = 0 /\ offer' = {}
         \/ shown'.frame \in 1 .. rev' /\ shown'.doc = rev'
  <2>1. CASE c \in Banners
    BY <1>1, <1>2, <2>1 DEF P!SetAdPreview
  <2>2. CASE c \notin Banners
    BY <1>1, <1>2, <2>2 DEF P!SetAdPreview, P!Blank
  <2> QED
    BY <2>1, <2>2
<1>4. watch' \in [on : BOOLEAN, heard : BOOLEAN, lag : Nat, alerted : BOOLEAN] /\ AlertsLate'
  BY <1>2 DEF P!WatchOff, AlertsLate
<1>5. offer' \subseteq [loaded : SUBSET Assets, busy : BOOLEAN]
  <2>1. offer' = {} \/ offer' = {[loaded |-> {}, busy |-> FALSE]}
    BY DEF P!SetAdPreview
  <2>2. [loaded |-> {}, busy |-> FALSE] \in [loaded : SUBSET Assets, busy : BOOLEAN]
    OBVIOUS
  <2> QED
    BY <2>1, <2>2
<1>6. /\ batches' \subseteq BatchShape
      /\ \A b \in batches' : \E d \in batches : b.frame = d.frame /\ b.rev = d.rev
  BY <1>1, <1>2, AbortedBatches
<1> QED
  BY <1>2, <1>3, <1>4, <1>5, <1>6, NewDocument

\* Steps that only move batches and the button.
LEMMA BatchesMove ==
  ASSUME PreviewInv, UNCHANGED <<probe, rev, wanted, shown, page, mail, behavior, ledger, watch,
                                 findings, unread, asked>>,
         offer' \subseteq [loaded : SUBSET Assets, busy : BOOLEAN], ~P!Framed => offer' = {},
         batches' \subseteq BatchShape,
         \A b \in batches' : \/ b.frame # 0 /\ b.rev <= rev /\ (P!Current(b) => b.creative = shown.creative)
                             \/ \E c \in batches : /\ b.frame = c.frame /\ b.rev = c.rev
                                                   /\ b.creative = c.creative
  PROVE  PreviewInv'
<1>1. PreviewType /\ OneDocument
  BY DEF PreviewInv
<1>2. PreviewType'
  BY <1>1 DEF PreviewType
<1>3. \A b \in batches' : b.frame # 0 /\ b.rev <= rev /\ (P!Current(b) => b.creative = shown.creative)
  BY <1>1 DEF OneDocument, P!Current
<1>4. OneDocument'
  BY <1>1, <1>3 DEF OneDocument, P!Current, P!Framed
<1> QED
  BY <1>2, <1>4 DEF PreviewInv, InTheMail, InOrder, LogFits, AlertsLate, Refusals, Untold, SignComing,
     Told, Requests, P!LogIsTheTail, P!FreezeIsSaid, P!ScanIsShown, P!FindingsAreCurrent,
     P!ShownIsWanted, P!Heard, P!Coming, P!Logged, P!Framed

LEMMA BatchSteps ==
  ASSUME PreviewInv, P!LoadAssets \/ P!CancelAssets \/ P!FetchAsset
  PROVE  PreviewInv'
<1>1. PreviewType /\ OneDocument
  BY DEF PreviewInv
<1>2. CASE P!LoadAssets
  <2>1. PICK o \in offer :
          /\ offer' = {[o EXCEPT !.busy = TRUE]}
          /\ batches' = P!Aborted(batches) \cup
               {[rev |-> rev, frame |-> shown.frame, creative |-> shown.creative,
                 todo |-> Assets \ o.loaded, loaded |-> o.loaded, inlined |-> 0, aborted |-> FALSE]}
          /\ UNCHANGED <<probe, rev, wanted, shown, page, mail, behavior, ledger, watch,
                         findings, unread, asked>>
    BY <1>2 DEF P!LoadAssets
  <2>2. o \in [loaded : SUBSET Assets, busy : BOOLEAN] /\ P!Framed
    BY <1>1 DEF PreviewType, OneDocument
  <2>3. offer' \subseteq [loaded : SUBSET Assets, busy : BOOLEAN]
    BY <2>1, <2>2
  <2> DEFINE n == [rev |-> rev, frame |-> shown.frame, creative |-> shown.creative,
                   todo |-> Assets \ o.loaded, loaded |-> o.loaded, inlined |-> 0, aborted |-> FALSE]
  <2>4. n \in BatchShape /\ n.frame # 0 /\ n.rev = rev /\ n.creative = shown.creative
    BY <1>1, <2>2 DEF PreviewType, BatchShape, P!Framed
  <2>5. \A b \in batches' : b \in P!Aborted(batches) \/ b = n
    BY <2>1
  <2> HIDE DEF n
  <2>6. rev <= rev
    BY <1>1 DEF PreviewType
  <2> QED
    BY <1>1, <2>1, <2>2, <2>3, <2>4, <2>5, <2>6, AbortedBatches, BatchesMove
<1>3. CASE P!CancelAssets
  <2>1. offer' \subseteq [loaded : SUBSET Assets, busy : BOOLEAN] /\ (~P!Framed => offer' = {})
    BY <1>1, <1>3 DEF P!CancelAssets, PreviewType, OneDocument
  <2>2. batches' = P!Aborted(batches)
        /\ UNCHANGED <<probe, rev, wanted, shown, page, mail, behavior, ledger, watch,
                       findings, unread, asked>>
    BY <1>3 DEF P!CancelAssets
  <2> QED
    BY <1>1, <2>1, <2>2, AbortedBatches, BatchesMove
<1>4. CASE P!FetchAsset
  <2>1. offer' \subseteq [loaded : SUBSET Assets, busy : BOOLEAN] /\ (~P!Framed => offer' = {})
    BY <1>1, <1>4 DEF P!FetchAsset, PreviewType, OneDocument
  <2>2. PICK b \in batches : \E a \in b.todo, ok \in BOOLEAN :
          /\ batches' = (batches \ {b}) \cup
               {[b EXCEPT !.todo = @ \ {a}, !.loaded = IF ok THEN @ \cup {a} ELSE @,
                          !.inlined = IF ok THEN @ + 1 ELSE @]}
          /\ UNCHANGED <<probe, rev, wanted, shown, page, mail, behavior, ledger, watch,
                         findings, unread, asked>>
    BY <1>4 DEF P!FetchAsset
  <2>7. PICK a \in b.todo, ok \in BOOLEAN :
          /\ batches' = (batches \ {b}) \cup
               {[b EXCEPT !.todo = @ \ {a}, !.loaded = IF ok THEN @ \cup {a} ELSE @,
                          !.inlined = IF ok THEN @ + 1 ELSE @]}
          /\ UNCHANGED <<probe, rev, wanted, shown, page, mail, behavior, ledger, watch,
                         findings, unread, asked>>
    BY <2>2
  <2> DEFINE n == [b EXCEPT !.todo = @ \ {a}, !.loaded = IF ok THEN @ \cup {a} ELSE @,
                            !.inlined = IF ok THEN @ + 1 ELSE @]
  <2>3. b \in BatchShape /\ a \in Assets /\ batches \subseteq BatchShape
    BY <1>1 DEF PreviewType, BatchShape
  <2>4. n \in BatchShape /\ n.frame = b.frame /\ n.rev = b.rev /\ n.creative = b.creative
    <3> DEFINE l == IF ok THEN b.loaded \cup {a} ELSE b.loaded
               k == IF ok THEN b.inlined + 1 ELSE b.inlined
               w == b.todo \ {a}
    <3>1. l \in SUBSET Assets /\ k \in Nat /\ w \in SUBSET Assets
      BY <2>3 DEF BatchShape
    <3>2. n = [b EXCEPT !.todo = w, !.loaded = l, !.inlined = k]
      OBVIOUS
    <3> HIDE DEF l, k, w, n
    <3> QED
      BY <2>3, <3>1, <3>2 DEF BatchShape
  <2>5. \A c \in batches' : c \in batches \/ c = n
    BY <2>7
  <2> HIDE DEF n
  <2> QED
    BY <2>1, <2>7, <2>3, <2>4, <2>5, BatchesMove
<1> QED
  BY <1>2, <1>3, <1>4

LEMMA EndBatchKeeps == PreviewInv /\ P!EndBatch => PreviewInv'
<1> SUFFICES ASSUME PreviewInv, P!EndBatch PROVE PreviewInv'
  OBVIOUS
<1>1. PreviewType /\ OneDocument /\ P!ShownIsWanted
  BY DEF PreviewInv
<1>2. PICK b \in batches :
        /\ batches' = batches \ {b} /\ UNCHANGED <<probe, wanted, mail, watch>>
        /\ IF P!Current(b)
           THEN /\ offer' = {[loaded |-> b.loaded, busy |-> FALSE]}
                /\ \/ P!RePoint(b)
                   \/ UNCHANGED <<rev, shown, page, behavior, ledger, findings, unread, asked>>
           ELSE UNCHANGED <<rev, shown, page, behavior, ledger, findings, unread, asked, offer>>
  BY DEF P!EndBatch
<1>3. b \in BatchShape /\ b.frame # 0 /\ batches' \subseteq BatchShape /\ batches' \subseteq batches
  BY <1>1, <1>2 DEF PreviewType, OneDocument
<1>4. offer' \subseteq [loaded : SUBSET Assets, busy : BOOLEAN] /\ (~P!Framed => offer' = {})
  <2>1. CASE P!Current(b)
    <3>1. [loaded |-> b.loaded, busy |-> FALSE] \in [loaded : SUBSET Assets, busy : BOOLEAN]
      BY <1>3 DEF BatchShape
    <3>2. P!Framed
      BY <1>3, <2>1 DEF P!Current, P!Framed
    <3> QED
      BY <1>2, <2>1, <3>1, <3>2
  <2>2. CASE ~P!Current(b)
    BY <1>1, <1>2, <2>2 DEF PreviewType, OneDocument
  <2> QED
    BY <2>1, <2>2
<1>5. CASE UNCHANGED <<rev, shown, page, behavior, ledger, findings, unread, asked>>
  BY <1>2, <1>3, <1>4, <1>5, BatchesMove
<1>6. CASE P!Current(b) /\ P!RePoint(b)
  <2>1. b.frame = shown.frame /\ b.creative = wanted
    BY <1>1, <1>6 DEF OneDocument, P!Current, P!ShownIsWanted
  <2>2. /\ rev' = rev + 1 /\ P!StartBehavior(shown') /\ ledger' = P!NewLedger /\ page' = P!NewPage
        /\ shown' = [frame |-> b.frame, doc |-> rev', creative |-> b.creative, loaded |-> b.loaded]
    BY <1>6 DEF P!RePoint
  <2>3. /\ shown' \in [frame : Nat, doc : Nat, creative : Creatives, loaded : SUBSET Assets]
        /\ shown'.frame \in 1 .. rev' /\ shown'.doc = rev' /\ shown'.creative = wanted'
    BY <1>1, <1>2, <1>3, <2>1, <2>2 DEF PreviewType, BatchShape, OneDocument
  <2>4. watch' \in [on : BOOLEAN, heard : BOOLEAN, lag : Nat, alerted : BOOLEAN] /\ AlertsLate'
    BY <1>2 DEF PreviewInv, PreviewType, AlertsLate
  <2>5. \A c \in batches' : \E d \in batches : c.frame = d.frame /\ c.rev = d.rev
    BY <1>3
  <2> QED
    BY <1>2, <1>3, <1>4, <2>2, <2>3, <2>4, <2>5, NewDocument
<1> QED
  BY <1>2, <1>5, <1>6


LEMMA AnalysisSteps ==
  ASSUME PreviewInv, P!SendAnalysis \/ P!ReceiveAnalysis
  PROVE  PreviewInv'
<1>1. PreviewType /\ Requests /\ P!FindingsAreCurrent
  BY DEF PreviewInv
<1>2. UNCHANGED <<probe, rev, wanted, shown, page, mail, behavior, ledger, watch, offer, batches>>
  BY DEF P!SendAnalysis, P!ReceiveAnalysis
<1>3. /\ asked' \cup unread' \subseteq asked \cup unread
      /\ findings' \subseteq [events : Seq(EventShape), adm : BodyShape] /\ P!FindingsAreCurrent'
  <2>1. CASE P!SendAnalysis
    BY <1>1, <2>1 DEF P!SendAnalysis, P!FindingsAreCurrent, PreviewType
  <2>2. CASE P!ReceiveAnalysis
    <3>1. PICK r \in asked :
            /\ asked' = asked \ {r} /\ unread' = unread
            /\ \/ findings' = findings
               \/ P!MayPaint(r) /\ findings' = {[events |-> r.events, adm |-> r.adm]}
      BY <2>2 DEF P!ReceiveAnalysis
    <3>2. r \in RequestShape
      BY <1>1 DEF PreviewType
    <3>3. [events |-> r.events, adm |-> r.adm] \in [events : Seq(EventShape), adm : BodyShape]
      BY <3>2 DEF RequestShape
    <3>4. P!MayPaint(r) => r.events = behavior.events /\ r.adm = behavior.adm
      BY <1>1 DEF P!MayPaint, Requests
    <3> QED
      BY <1>1, <1>2, <3>1, <3>3, <3>4 DEF P!FindingsAreCurrent, PreviewType
  <2> QED
    BY <2>1, <2>2
<1>4. PreviewType'
  BY <1>1, <1>2, <1>3 DEF PreviewType
<1>5. Requests'
  BY <1>1, <1>2, <1>3 DEF Requests
<1> QED
  BY <1>2, <1>3, <1>4, <1>5 DEF PreviewInv, OneDocument, InTheMail, InOrder, LogFits, AlertsLate,
     Refusals, Untold, SignComing, Told, P!LogIsTheTail, P!FreezeIsSaid, P!ScanIsShown,
     P!ShownIsWanted, P!Heard, P!Coming, P!Logged, P!Framed, P!Current

-----------------------------------------------------------------------------
(* Inside the frame.                                                       *)

LEMMA NothingHeard ==
  ASSUME PreviewInv, page'.sent = page.sent, UNCHANGED <<shown, behavior, watch>>,
         \/ mail' = mail
         \/ \E m \in MailShape : m.type # "event" /\ mail' = Append(mail, m)
  PROVE  InOrder' /\ P!LogIsTheTail' /\ P!FreezeIsSaid'
<1>1. PreviewType /\ InOrder /\ P!LogIsTheTail /\ P!FreezeIsSaid /\ mail \in Seq(MailShape)
  BY DEF PreviewInv, PreviewType
<1>2. P!Coming' = P!Coming /\ \A i \in P!Coming : mail'[i] = mail[i]
  <2>1. CASE mail' = mail
    BY <2>1 DEF P!Coming
  <2>2. ASSUME NEW m \in MailShape, m.type # "event", mail' = Append(mail, m)
        PROVE  P!Coming' = P!Coming /\ \A i \in P!Coming : mail'[i] = mail[i]
    <3>1. /\ \A i \in DOMAIN mail : i \in DOMAIN mail' /\ mail'[i] = mail[i]
          /\ \A i \in DOMAIN mail' : i \in DOMAIN mail \/ mail'[i] = m
      BY <1>1, <2>2, Appended
    <3> QED
      BY <2>2, <3>1 DEF P!Coming
  <2> QED
    BY <2>1, <2>2
<1>3. P!Heard' = P!Heard /\ P!Logged' = P!Logged
  BY <1>2 DEF P!Heard, P!Logged
<1>4. InOrder'
  BY <1>1, <1>2, <1>3 DEF InOrder
<1>5. P!LogIsTheTail' /\ P!FreezeIsSaid'
  BY <1>1, <1>3 DEF P!LogIsTheTail, P!FreezeIsSaid
<1> QED
  BY <1>4, <1>5

LEMMA EventPosted ==
  ASSUME PreviewInv, page'.sent = page.sent + 1, UNCHANGED <<shown, behavior, watch>>,
         NEW m \in MailShape, m.type = "event", m.n = page.sent + 1, m.doc = shown.doc,
         mail' = Append(mail, m)
  PROVE  InOrder' /\ P!LogIsTheTail' /\ P!FreezeIsSaid'
<1>1. /\ PreviewType /\ InOrder /\ P!LogIsTheTail /\ P!FreezeIsSaid
      /\ mail \in Seq(MailShape) /\ page.sent \in Nat
  BY DEF PreviewInv, PreviewType, PageShape
<1> DEFINE l == Len(mail) + 1
           k == page.sent + 1
<1>2. /\ \A i \in DOMAIN mail : i \in DOMAIN mail' /\ mail'[i] = mail[i] /\ i < l /\ ~(l < i)
      /\ \A i \in DOMAIN mail' : i \in DOMAIN mail \/ i = l
      /\ mail'[l] = m /\ l \in DOMAIN mail' /\ ~(l < l)
  BY <1>1, Appended
<1>3. k \in Nat /\ page'.sent = k /\ m.n = k /\ page.sent < k /\ \A n \in 1 .. k : n \in 1 .. page.sent \/ n = k
  BY <1>1
<1>4. \A n \in 1 .. page.sent : n \in 1 .. k /\ n < k
  BY <1>1
<1> HIDE DEF l, k
<1>5. /\ \A i \in P!Coming' : i \in P!Coming \/ i = l
      /\ \A i \in P!Coming : i \in P!Coming' /\ mail'[i] = mail[i] /\ i < l /\ ~(l < i)
      /\ l \in P!Coming'
  BY <1>2 DEF P!Coming
<1>6. P!Heard' = P!Heard
  <2>1. ASSUME NEW n \in P!Heard' PROVE n \in P!Heard
    <3>1. n \in 1 .. k /\ \A i \in P!Coming' : mail'[i].n # n
      BY <1>3 DEF P!Heard
    <3>2. n # k /\ \A i \in P!Coming : mail[i].n # n
      BY <1>2, <1>3, <1>5, <3>1
    <3> QED
      BY <1>3, <3>1, <3>2 DEF P!Heard
  <2>2. ASSUME NEW n \in P!Heard PROVE n \in P!Heard'
    <3>1. n \in 1 .. page.sent /\ \A i \in P!Coming : mail[i].n # n
      BY DEF P!Heard
    <3>2. n \in 1 .. k /\ n # k
      BY <1>1, <1>3, <1>4, <3>1
    <3>3. \A i \in P!Coming' : mail'[i].n # n
      BY <1>2, <1>3, <1>5, <3>1, <3>2
    <3> QED
      BY <1>3, <3>2, <3>3 DEF P!Heard
  <2> QED
    BY <2>1, <2>2
<1>7. P!Logged' = P!Logged
  BY DEF P!Logged
<1>8. InOrder'
  <2> SUFFICES ASSUME NEW i \in P!Coming'
               PROVE  /\ mail'[i].n \in 1 .. k /\ \A n \in P!Heard : n < mail'[i].n
                      /\ \A j \in P!Coming' : i < j => mail'[i].n < mail'[j].n
    BY <1>3, <1>6 DEF InOrder
  <2>1. CASE i = l
    <3>1. k \in 1 .. k
      BY <1>1 DEF k
    <3>2. \A n \in P!Heard : n < k
      BY <1>4 DEF P!Heard
    <3> QED
      BY <1>2, <1>3, <1>5, <2>1, <3>1, <3>2
  <2>2. CASE i # l
    <3>1. i \in P!Coming /\ mail'[i].n = mail[i].n /\ mail[i].n \in 1 .. page.sent
      BY <1>1, <1>5, <2>2 DEF InOrder
    <3>2. mail'[i].n \in 1 .. k /\ mail'[i].n < k
      BY <1>4, <3>1
    <3>3. \A n \in P!Heard : n < mail'[i].n
      BY <1>1, <3>1 DEF InOrder
    <3>4. \A j \in P!Coming : i < j => mail'[i].n < mail'[j].n
      BY <1>1, <1>5, <3>1 DEF InOrder
    <3>5. mail'[l].n = k
      BY <1>2, <1>3
    <3> QED
      BY <1>5, <3>2, <3>3, <3>4, <3>5
  <2> QED
    BY <2>1, <2>2
<1>9. P!LogIsTheTail' /\ P!FreezeIsSaid'
  BY <1>1, <1>6, <1>7 DEF P!LogIsTheTail, P!FreezeIsSaid
<1> QED
  BY <1>8, <1>9

\* What a document does alone, and posts in its name.
LEMMA InsideFrame ==
  ASSUME PreviewInv, P!InsideOnly, P!Framed, probe, page' \in PageShape, page'.started,
         \/ mail' = mail
         \/ \E m \in MailShape : /\ m.doc = shown.doc /\ m.frame = shown.frame
                                 /\ mail' = Append(mail, m),
         InOrder', P!LogIsTheTail', P!FreezeIsSaid', Refusals'
  PROVE  PreviewInv'
<1>1. UNCHANGED <<probe, rev, wanted, shown, behavior, ledger, watch, findings, unread, asked,
                  offer, batches>>
  BY DEF P!InsideOnly
<1>2. PreviewType /\ OneDocument /\ InTheMail /\ mail \in Seq(MailShape)
  BY DEF PreviewInv, PreviewType
<1>3. shown.doc \in 1 .. rev
  BY <1>2 DEF PreviewType, OneDocument, P!Framed
<1>4. mail' \in Seq(MailShape) /\ InTheMail'
  <2>1. CASE mail' = mail
    BY <1>1, <1>2, <2>1 DEF InTheMail
  <2>2. ASSUME NEW m \in MailShape, m.doc = shown.doc, m.frame = shown.frame, mail' = Append(mail, m)
        PROVE  mail' \in Seq(MailShape) /\ InTheMail'
    <3>1. /\ mail' \in Seq(MailShape)
          /\ \A i \in DOMAIN mail' : (i \in DOMAIN mail /\ mail'[i] = mail[i]) \/ mail'[i] = m
      BY <1>2, <2>2, Appended
    <3> QED
      BY <1>1, <1>2, <1>3, <2>2, <3>1 DEF InTheMail
  <2> QED
    BY <2>1, <2>2
<1>5. PreviewType'
  BY <1>1, <1>2, <1>4 DEF PreviewType
<1>6. OneDocument'
  BY <1>1, <1>2 DEF OneDocument, P!Framed, P!Current
<1> QED
  BY <1>1, <1>4, <1>5, <1>6 DEF PreviewInv, LogFits, AlertsLate, Requests, P!ScanIsShown,
     P!FindingsAreCurrent, P!ShownIsWanted, P!Framed

\* A message says nothing new about refusals.
LEMMA NothingRefused ==
  ASSUME PreviewInv, UNCHANGED <<shown, ledger>>,
         page'.queue = page.queue, page'.refused = page.refused, page'.seen = page.seen,
         page'.truncated = page.truncated, page'.scheduled = page.scheduled,
         \E m \in MailShape : m.type # "refusal" /\ mail' = Append(mail, m)
  PROVE  Refusals'
<1>1. Refusals /\ mail \in Seq(MailShape)
  BY DEF PreviewInv, PreviewType
<1>2. PICK m \in MailShape : m.type # "refusal" /\ mail' = Append(mail, m)
  OBVIOUS
<1>3. /\ \A i \in DOMAIN mail : i \in DOMAIN mail' /\ mail'[i] = mail[i]
      /\ \A i \in DOMAIN mail' : (i \in DOMAIN mail /\ mail'[i] = mail[i]) \/ mail'[i] = m
  BY <1>1, <1>2, Appended
<1>4. /\ \A i \in DOMAIN mail : Told(i)' <=> Told(i)
      /\ \A i \in DOMAIN mail' : Told(i)' => i \in DOMAIN mail
  BY <1>2, <1>3 DEF Told
<1>5. Untold' = Untold /\ (SignComing' <=> SignComing)
  BY <1>3, <1>4 DEF Untold, SignComing
<1> QED
  BY <1>1, <1>5 DEF Refusals

LEMMA EventSteps ==
  ASSUME PreviewInv, P!ProbeReady \/ P!Observe
  PROVE  PreviewInv'
<1>1. PreviewType /\ OneDocument /\ page \in PageShape /\ page.sent \in Nat
  BY DEF PreviewInv, PreviewType, PageShape
<1> DEFINE k == page.sent + 1
           m == [P!Message("event") EXCEPT !.n = k]
<1>2. /\ P!InsideOnly /\ P!Framed /\ probe /\ mail' = Append(mail, m)
      /\ \/ page' = [page EXCEPT !.sent = k]
         \/ page' = [page EXCEPT !.started = TRUE, !.sent = k]
      /\ page'.started
  <2>1. CASE P!ProbeReady
    <3>1. page.sent = 0
      BY <1>1, <2>1 DEF P!ProbeReady, OneDocument, P!NewPage
    <3>2. k = 1
      BY <3>1
    <3> QED
      BY <1>1, <2>1, <3>2 DEF P!ProbeReady, P!Post, PageShape
  <2>2. CASE P!Observe
    BY <1>1, <2>2 DEF P!Observe, P!Post, P!Runs, PageShape, OneDocument
  <2> QED
    BY <2>1, <2>2
<1>3. k \in Nat
  BY <1>1
<1> HIDE DEF k
<1>4. m \in MailShape /\ m.type = "event" /\ m.n = k /\ m.doc = shown.doc /\ m.frame = shown.frame
  <2>1. shown.doc \in Nat /\ shown.frame \in Nat
    BY <1>1 DEF PreviewType
  <2> QED
    BY <1>3, <2>1 DEF P!Message, MailShape
<1> HIDE DEF m
<1>5. /\ page' \in PageShape /\ page'.sent = k /\ page'.queue = page.queue
      /\ page'.refused = page.refused /\ page'.seen = page.seen
      /\ page'.truncated = page.truncated /\ page'.scheduled = page.scheduled
  BY <1>1, <1>2, <1>3 DEF PageShape
<1>6. UNCHANGED <<shown, behavior, watch, ledger>>
  BY <1>2 DEF P!InsideOnly
<1>7. InOrder' /\ P!LogIsTheTail' /\ P!FreezeIsSaid'
  BY <1>2, <1>4, <1>5, <1>6, EventPosted DEF k
<1>8. Refusals'
  BY <1>2, <1>4, <1>5, <1>6, NothingRefused
<1> QED
  BY <1>2, <1>4, <1>5, <1>7, <1>8, InsideFrame

LEMMA BeatStep == PreviewInv /\ P!Heartbeat => PreviewInv'
<1> SUFFICES ASSUME PreviewInv, P!Heartbeat PROVE PreviewInv'
  OBVIOUS
<1>1. page \in PageShape /\ OneDocument
  BY DEF PreviewInv, PreviewType
<1>2. /\ P!InsideOnly /\ P!Framed /\ probe /\ page' = page /\ page.started
      /\ mail' = Append(mail, P!Message("beat"))
  BY <1>1 DEF P!Heartbeat, P!Runs, P!Post, OneDocument
<1> DEFINE m == P!Message("beat")
<1>3. m \in MailShape /\ m.type = "beat" /\ m.doc = shown.doc /\ m.frame = shown.frame
  <2>1. shown.doc \in Nat /\ shown.frame \in Nat
    BY DEF PreviewInv, PreviewType
  <2> QED
    BY <2>1 DEF P!Message, MailShape
<1> HIDE DEF m
<1>4. UNCHANGED <<shown, behavior, watch, ledger>> /\ mail' = Append(mail, m)
  BY <1>2 DEF P!InsideOnly, m
<1>5. InOrder' /\ P!LogIsTheTail' /\ P!FreezeIsSaid'
  BY <1>2, <1>3, <1>4, NothingHeard
<1>6. Refusals'
  BY <1>2, <1>3, <1>4, NothingRefused
<1> QED
  BY <1>1, <1>2, <1>3, <1>4, <1>5, <1>6, InsideFrame

LEMMA RefuseStep == PreviewInv /\ P!Refuse => PreviewInv'
<1> SUFFICES ASSUME PreviewInv, P!Refuse PROVE PreviewInv'
  OBVIOUS
<1>1. page \in PageShape /\ OneDocument /\ Refusals
  BY DEF PreviewInv, PreviewType
<1>2. /\ P!InsideOnly /\ P!Framed /\ probe /\ page.started /\ mail' = mail
  BY <1>1 DEF P!Refuse, P!Runs, OneDocument
<1>3. PICK item \in Items :
        LET known == item \in page.seen
            kept == P!Fits(item, page.seen)
            told == ~known /\ (kept \/ ~page.truncated)
        IN page' = [page EXCEPT
             !.refused = @ \cup {item},
             !.seen = IF ~known /\ kept THEN @ \cup {item} ELSE @,
             !.queue = IF ~known /\ kept THEN @ \cup {item} ELSE @,
             !.truncated = @ \/ (~known /\ ~kept),
             !.scheduled = @ \/ told]
  BY DEF P!Refuse
<1>4. UNCHANGED <<shown, behavior, watch, ledger>>
  BY <1>2 DEF P!InsideOnly
<1>5. /\ page' \in PageShape /\ page'.started /\ page'.sent = page.sent
      /\ page'.refused = page.refused \cup {item}
      /\ \/ /\ item \in page.seen /\ page'.seen = page.seen /\ page'.queue = page.queue
            /\ page'.truncated = page.truncated /\ page'.scheduled = page.scheduled
         \/ /\ page'.seen = page.seen \cup {item} /\ page'.queue = page.queue \cup {item}
            /\ page'.truncated = page.truncated /\ page'.scheduled
         \/ /\ page'.seen = page.seen /\ page'.queue = page.queue /\ page'.truncated
            /\ page'.scheduled = (page.scheduled \/ ~page.truncated)
  <2>1. CASE item \in page.seen
    BY <1>1, <1>2, <1>3, <2>1 DEF PageShape
  <2>2. CASE item \notin page.seen /\ P!Fits(item, page.seen)
    BY <1>1, <1>2, <1>3, <2>2 DEF PageShape
  <2>3. CASE item \notin page.seen /\ ~P!Fits(item, page.seen)
    BY <1>1, <1>2, <1>3, <2>3 DEF PageShape
  <2> QED
    BY <2>1, <2>2, <2>3
<1>6. InOrder' /\ P!LogIsTheTail' /\ P!FreezeIsSaid'
  BY <1>2, <1>4, <1>5, NothingHeard
<1>7. Refusals'
  <2>1. \A i : Told(i)' <=> Told(i)
    BY <1>2, <1>4 DEF Told
  <2>2. page.queue \subseteq page'.queue /\ page'.queue \subseteq page.queue \cup {item}
        /\ (page.truncated /\ page.scheduled => page'.truncated /\ page'.scheduled)
    BY <1>5
  <2>3. /\ Untold \subseteq Untold' /\ Untold' \subseteq Untold \cup {item}
        /\ page'.queue \subseteq Untold' /\ (SignComing => SignComing')
    BY <1>2, <2>1, <2>2 DEF Untold, SignComing
  <2>4. /\ page'.queue # {} => page'.scheduled
        /\ page'.seen \subseteq page'.refused /\ Untold' \subseteq page'.refused
        /\ ledger'.seen \subseteq page'.refused
    BY <1>1, <1>4, <1>5, <2>3 DEF Refusals
  <2>5. page'.truncated => ledger.truncated \/ SignComing'
    <3>1. CASE page.truncated
      BY <1>1, <2>3, <3>1 DEF Refusals
    <3>2. CASE ~page.truncated
      BY <1>5, <3>2 DEF SignComing
    <3> QED
      BY <3>1, <3>2
  <2>6. ledger.truncated \/ SignComing' \/ page'.refused \subseteq ledger.seen \cup Untold'
    <3>1. CASE page'.truncated
      BY <2>5, <3>1
    <3>2. CASE ~page'.truncated
      BY <1>1, <1>5, <2>3, <3>2 DEF Refusals
    <3> QED
      BY <3>1, <3>2
  <2> QED
    BY <1>4, <2>4, <2>5, <2>6 DEF Refusals
<1> QED
  BY <1>2, <1>5, <1>6, <1>7, InsideFrame


LEMMA FlushStep == PreviewInv /\ P!FlushRefusals => PreviewInv'
<1> SUFFICES ASSUME PreviewInv, P!FlushRefusals PROVE PreviewInv'
  OBVIOUS
<1>1. page \in PageShape /\ OneDocument /\ Refusals /\ mail \in Seq(MailShape)
  BY DEF PreviewInv, PreviewType
<1> DEFINE m == [P!Message("refusal") EXCEPT !.items = page.queue, !.truncated = page.truncated]
<1>2. /\ P!InsideOnly /\ P!Framed /\ probe /\ page.started /\ mail' = Append(mail, m)
      /\ page' = [page EXCEPT !.scheduled = FALSE, !.queue = {}]
  BY <1>1 DEF P!FlushRefusals, P!Runs, P!Post, OneDocument
<1>3. page.queue \in SUBSET Items /\ page.truncated \in BOOLEAN
  BY <1>1 DEF PageShape
<1>4. /\ m \in MailShape /\ m.type = "refusal" /\ m.doc = shown.doc /\ m.frame = shown.frame
      /\ m.items = page.queue /\ m.truncated = page.truncated
  <2>1. shown.doc \in Nat /\ shown.frame \in Nat
    BY DEF PreviewInv, PreviewType
  <2> QED
    BY <1>3, <2>1 DEF P!Message, MailShape
<1> HIDE DEF m
<1>5. UNCHANGED <<shown, behavior, watch, ledger>>
  BY <1>2 DEF P!InsideOnly
<1>6. /\ page' \in PageShape /\ page'.started /\ page'.sent = page.sent /\ page'.queue = {}
      /\ page'.refused = page.refused /\ page'.seen = page.seen /\ page'.truncated = page.truncated
  BY <1>1, <1>2 DEF PageShape
<1>7. InOrder' /\ P!LogIsTheTail' /\ P!FreezeIsSaid'
  BY <1>2, <1>4, <1>5, <1>6, NothingHeard
<1>8. Refusals'
  <2>1. PICK l \in Nat :
          /\ \A i \in DOMAIN mail : i \in DOMAIN mail' /\ mail'[i] = mail[i]
          /\ \A i \in DOMAIN mail' : i \in DOMAIN mail \/ i = l
          /\ mail'[l] = m /\ l \in DOMAIN mail'
    <3>1. Len(mail) + 1 \in Nat
      BY <1>1
    <3> QED
      BY <1>1, <1>2, <1>4, <3>1, Appended
  <2>2. /\ \A i \in DOMAIN mail : Told(i)' <=> Told(i)
        /\ Told(l)'
    BY <1>4, <1>5, <2>1 DEF Told
  <2>3. Untold' = Untold
    <3>1. ASSUME NEW x \in Untold PROVE x \in Untold'
      <4>1. CASE x \in page.queue
        BY <1>3, <1>4, <2>1, <2>2, <4>1 DEF Untold
      <4>2. CASE \E i \in DOMAIN mail : Told(i) /\ x \in mail[i].items
        BY <1>3, <2>1, <2>2, <4>2 DEF Untold
      <4> QED
        BY <3>1, <4>1, <4>2 DEF Untold
    <3>2. ASSUME NEW x \in Untold' PROVE x \in Untold
      <4>1. x \in Items /\ \E i \in DOMAIN mail' : Told(i)' /\ x \in mail'[i].items
        BY <1>6 DEF Untold
      <4>2. PICK i \in DOMAIN mail' : Told(i)' /\ x \in mail'[i].items
        BY <4>1
      <4>3. CASE i = l
        BY <1>4, <2>1, <4>2, <4>3 DEF Untold
      <4>4. CASE i \in DOMAIN mail
        BY <2>1, <2>2, <4>1, <4>2, <4>4 DEF Untold
      <4> QED
        BY <2>1, <4>3, <4>4
    <3> QED
      BY <3>1, <3>2
  <2>4. SignComing => SignComing'
    BY <1>4, <2>1, <2>2 DEF SignComing
  <2> QED
    BY <1>1, <1>5, <1>6, <2>3, <2>4 DEF Refusals
<1> QED
  BY <1>2, <1>4, <1>6, <1>7, <1>8, InsideFrame

-----------------------------------------------------------------------------
(* The receiver.                                                           *)

\* A message is taken from the mail.
LEMMA MailTaken ==
  ASSUME PreviewInv, mail # <<>>, mail' = Tail(mail), UNCHANGED <<rev, shown, page>>
  PROVE  /\ mail' \in Seq(MailShape) /\ InTheMail' /\ InOrder'
         /\ Head(mail) \in MailShape /\ Head(mail).doc \in 1 .. rev
         /\ Head(mail).doc = shown.doc => page.started /\ Head(mail).frame = shown.frame
         /\ Head(mail).type = "event" /\ Head(mail).doc = shown.doc =>
              /\ P!Heard' = P!Heard \cup {Head(mail).n} /\ Head(mail).n \in 1 .. page.sent
              /\ \A n \in P!Heard : n < Head(mail).n
         /\ ~(Head(mail).type = "event" /\ Head(mail).doc = shown.doc) => P!Heard' = P!Heard
<1>1. mail \in Seq(MailShape) /\ InTheMail /\ InOrder /\ page.sent \in Nat
  BY DEF PreviewInv, PreviewType, PageShape
<1> DEFINE m == Head(mail)
<1>2. /\ mail' \in Seq(MailShape) /\ 1 \in DOMAIN mail /\ m = mail[1] /\ m \in MailShape
      /\ DOMAIN mail \subseteq Nat /\ DOMAIN mail' \subseteq Nat
      /\ \A i \in DOMAIN mail' : i + 1 \in DOMAIN mail /\ mail'[i] = mail[i + 1]
      /\ \A i \in DOMAIN mail : i # 1 => i - 1 \in DOMAIN mail' /\ mail'[i - 1] = mail[i] /\ i > 1
  BY <1>1, Shifted
<1>3. 1 \in P!Coming <=> m.type = "event" /\ m.doc = shown.doc
  BY <1>2 DEF P!Coming
<1>4. \A i \in P!Coming' : /\ i \in Nat /\ i + 1 \in P!Coming /\ mail'[i] = mail[i + 1]
                           /\ 1 < i + 1
  <2> SUFFICES ASSUME NEW i \in P!Coming'
               PROVE  i \in Nat /\ i + 1 \in P!Coming /\ mail'[i] = mail[i + 1] /\ 1 < i + 1
    OBVIOUS
  <2>1. i \in DOMAIN mail' /\ mail'[i].type = "event" /\ mail'[i].doc = shown.doc
    BY DEF P!Coming
  <2> DEFINE j == i + 1
  <2>2. j \in DOMAIN mail /\ mail'[i] = mail[j] /\ i \in Nat
    BY <1>2, <2>1
  <2>3. 1 <= i
    BY <1>2, <2>1, <2>2
  <2>4. 1 < j
    BY <2>2, <2>3
  <2> HIDE DEF j
  <2>5. j \in P!Coming
    BY <2>1, <2>2 DEF P!Coming
  <2> QED
    BY <2>2, <2>4, <2>5 DEF j
<1>5. \A i \in P!Coming : i # 1 => i - 1 \in P!Coming' /\ mail'[i - 1] = mail[i] /\ 1 < i
  <2> SUFFICES ASSUME NEW i \in P!Coming, i # 1
               PROVE  i - 1 \in P!Coming' /\ mail'[i - 1] = mail[i] /\ 1 < i
    OBVIOUS
  <2>1. i \in DOMAIN mail /\ mail[i].type = "event" /\ mail[i].doc = shown.doc
    BY DEF P!Coming
  <2> DEFINE j == i - 1
  <2>2. j \in DOMAIN mail' /\ mail'[j] = mail[i] /\ 1 < i
    BY <1>2, <2>1
  <2> HIDE DEF j
  <2>3. j \in P!Coming'
    BY <2>1, <2>2 DEF P!Coming
  <2> QED
    BY <2>2, <2>3 DEF j
<1>6. InTheMail'
  <2> SUFFICES ASSUME NEW i \in DOMAIN mail'
               PROVE  /\ mail'[i].doc \in 1 .. rev
                      /\ mail'[i].doc = shown.doc => page.started /\ mail'[i].frame = shown.frame
    BY DEF InTheMail
  <2> DEFINE j == i + 1
  <2>1. j \in DOMAIN mail /\ mail'[i] = mail[j]
    BY <1>2
  <2> HIDE DEF j
  <2> QED
    BY <1>1, <2>1 DEF InTheMail
<1>7. ASSUME NEW n \in P!Heard' PROVE n \in P!Heard \/ (1 \in P!Coming /\ n = m.n)
  <2>1. n \in 1 .. page.sent /\ \A i \in P!Coming' : mail'[i].n # n
    BY DEF P!Heard
  <2>2. \A i \in P!Coming : i # 1 => mail[i].n # n
    BY <1>5, <2>1
  <2>3. CASE 1 \in P!Coming /\ n = m.n
    BY <2>3
  <2>4. CASE 1 \notin P!Coming \/ n # m.n
    <3>1. \A i \in P!Coming : mail[i].n # n
      BY <1>2, <2>2, <2>4
    <3> QED
      BY <2>1, <3>1 DEF P!Heard
  <2> QED
    BY <2>3, <2>4
<1>8. P!Heard \subseteq P!Heard'
  <2> SUFFICES ASSUME NEW n \in P!Heard PROVE n \in P!Heard'
    OBVIOUS
  <2>1. n \in 1 .. page.sent /\ \A i \in P!Coming : mail[i].n # n
    BY DEF P!Heard
  <2>2. \A i \in P!Coming' : mail'[i].n # n
    BY <1>4, <2>1
  <2> QED
    BY <2>1, <2>2 DEF P!Heard
<1>9. ASSUME 1 \in P!Coming
      PROVE  /\ m.n \in 1 .. page.sent /\ \A n \in P!Heard : n < m.n
             /\ \A i \in P!Coming' : m.n < mail'[i].n
             /\ m.n \in P!Heard'
  <2>1. /\ m.n \in 1 .. page.sent /\ \A n \in P!Heard : n < m.n
        /\ \A i \in P!Coming : 1 < i => m.n < mail[i].n
    BY <1>1, <1>2, <1>9 DEF InOrder
  <2>2. \A i \in P!Coming' : m.n < mail'[i].n
    BY <1>4, <2>1
  <2>4. ~(m.n < m.n)
    BY <2>1
  <2>3. \A i \in P!Coming' : mail'[i].n # m.n
    BY <2>2, <2>4
  <2> QED
    BY <2>1, <2>2, <2>3 DEF P!Heard
<1>10. InOrder'
  <2> SUFFICES ASSUME NEW i \in P!Coming'
               PROVE  /\ mail'[i].n \in 1 .. page.sent /\ \A n \in P!Heard' : n < mail'[i].n
                      /\ \A j \in P!Coming' : i < j => mail'[i].n < mail'[j].n
    BY DEF InOrder
  <2> DEFINE k == i + 1
  <2>1. k \in P!Coming /\ mail'[i] = mail[k] /\ i \in Nat
    BY <1>4
  <2>2. ASSUME NEW j \in P!Coming', i < j PROVE mail'[i].n < mail'[j].n
    <3> DEFINE l == j + 1
    <3>0. j \in Nat
      BY <1>4
    <3>1. l \in P!Coming /\ mail'[j] = mail[l]
      BY <1>4
    <3>2. k < l
      BY <2>1, <2>2, <3>0
    <3> HIDE DEF k, l
    <3> QED
      BY <1>1, <2>1, <3>1, <3>2 DEF InOrder
  <2> HIDE DEF k
  <2>3. mail[k].n \in 1 .. page.sent /\ \A n \in P!Heard : n < mail[k].n
    BY <1>1, <2>1 DEF InOrder
  <2>4. \A n \in P!Heard' : n < mail'[i].n
    BY <1>7, <1>9, <2>1, <2>3
  <2> QED
    BY <2>1, <2>2, <2>3, <2>4
<1>11. m.doc \in 1 .. rev /\ (m.doc = shown.doc => page.started /\ m.frame = shown.frame)
  BY <1>1, <1>2 DEF InTheMail
<1>12. 1 \in P!Coming => P!Heard' = P!Heard \cup {m.n}
  BY <1>7, <1>8, <1>9
<1>13. 1 \notin P!Coming => P!Heard' = P!Heard
  BY <1>7, <1>8
<1> QED
  BY <1>2, <1>3, <1>6, <1>9, <1>10, <1>11, <1>12, <1>13


\* What the message said of refusals is in the ledger, or the ledger says it is not whole.
LEMMA RefusalsTaken ==
  ASSUME PreviewInv, mail # <<>>, mail' = Tail(mail), UNCHANGED <<shown, page>>,
         \/ ledger' = ledger /\ ~Told(1)
         \/ /\ Told(1)
            /\ ledger.seen \subseteq ledger'.seen /\ ledger'.seen \subseteq ledger.seen \cup Head(mail).items
            /\ ledger.truncated \/ Head(mail).truncated => ledger'.truncated
            /\ ledger'.truncated \/ Head(mail).items \subseteq ledger'.seen
  PROVE  Refusals'
<1>1. Refusals /\ mail \in Seq(MailShape)
  BY DEF PreviewInv, PreviewType
<1>2. /\ 1 \in DOMAIN mail /\ Head(mail) = mail[1] /\ mail[1] \in MailShape
      /\ \A i \in DOMAIN mail' : i + 1 \in DOMAIN mail /\ mail'[i] = mail[i + 1]
      /\ \A i \in DOMAIN mail : i # 1 => i - 1 \in DOMAIN mail' /\ mail'[i - 1] = mail[i]
  BY <1>1, Shifted
<1>3. \A i \in DOMAIN mail' : i + 1 \in DOMAIN mail /\ mail'[i] = mail[i + 1] /\ (Told(i)' => Told(i + 1))
  BY <1>2 DEF Told
<1>4. \A i \in DOMAIN mail : i # 1 /\ Told(i) =>
        \E j \in DOMAIN mail' : mail'[j] = mail[i] /\ Told(j)'
  <2> SUFFICES ASSUME NEW i \in DOMAIN mail, i # 1, Told(i)
               PROVE  \E j \in DOMAIN mail' : mail'[j] = mail[i] /\ Told(j)'
    OBVIOUS
  <2>1. PICK j \in DOMAIN mail' : mail'[j] = mail[i]
    BY <1>2
  <2> QED
    BY <2>1 DEF Told
<1>5. Untold' \subseteq Untold
  BY <1>3 DEF Untold
<1>6. Untold \subseteq Untold' \cup Head(mail).items /\ (~Told(1) => Untold \subseteq Untold')
  <2> SUFFICES ASSUME NEW x \in Untold, x \notin Untold' PROVE Told(1) /\ x \in mail[1].items
    BY <1>2
  <2>1. x \in Items /\ x \notin page.queue
    BY <1>1 DEF Untold, PreviewInv, PreviewType, PageShape
  <2>2. PICK i \in DOMAIN mail : Told(i) /\ x \in mail[i].items
    BY <2>1 DEF Untold
  <2>3. i = 1
    BY <1>4, <2>1, <2>2 DEF Untold
  <2> QED
    BY <2>2, <2>3
<1>7. SignComing => SignComing' \/ (Told(1) /\ Head(mail).truncated)
  BY <1>2, <1>4 DEF SignComing
<1>8. Told(1) => Head(mail).items \subseteq Untold
  BY <1>2 DEF Untold, MailShape
<1>9. ledger'.seen \subseteq page.refused
  BY <1>1, <1>8 DEF Refusals
<1>10. page.truncated => ledger'.truncated \/ SignComing'
  BY <1>1, <1>7 DEF Refusals
<1>11. ledger'.truncated \/ SignComing' \/ page.refused \subseteq ledger'.seen \cup Untold'
  BY <1>1, <1>6, <1>7 DEF Refusals
<1> QED
  BY <1>1, <1>5, <1>9, <1>10, <1>11 DEF Refusals

\* An event or an alert enters the log as its newest entry.
LEMMA EventLogged ==
  ASSUME PreviewInv, NEW e \in EventShape, shown' = shown,
         behavior'.events = P!Pushed(e), e.doc = shown.doc,
         \/ e.n = 0 /\ P!Heard' = P!Heard
         \/ e.n # 0 /\ P!Heard' = P!Heard \cup {e.n} /\ \A n \in P!Heard : n < e.n
  PROVE  LogFits' /\ P!LogIsTheTail'
<1> DEFINE ev == behavior.events
           q == P!Pushed(e)
           l == Len(q)
<1>1. PreviewType /\ LogFits /\ P!LogIsTheTail /\ P!Heard \subseteq Nat
  BY DEF PreviewInv, P!Heard
<1>2. /\ q \in Seq(EventShape) /\ l \in 1 .. LogCap /\ q[l] = e /\ DOMAIN q = 1 .. l
      /\ DOMAIN ev = 1 .. Len(ev) /\ Len(ev) \in Nat
      /\ \/ /\ Len(ev) < LogCap /\ l = Len(ev) + 1
            /\ \A i \in 1 .. Len(ev) : q[i] = ev[i]
         \/ /\ Len(ev) = LogCap /\ l = LogCap
            /\ \A i \in 1 .. (l - 1) : i + 1 \in DOMAIN ev /\ q[i] = ev[i + 1]
            /\ \A i \in 2 .. l : q[i - 1] = ev[i]
  BY <1>1, PushedLog
<1>0. behavior'.events = q /\ behavior.events = ev /\ Len(q) = l
  OBVIOUS
<1> HIDE DEF ev, q, l
<1>3. LogFits'
  BY <1>0, <1>2, Caps DEF LogFits
<1>4. /\ P!Logged = {i \in DOMAIN ev : ev[i].n # 0} /\ P!Logged' = {i \in DOMAIN q : q[i].n # 0}
      /\ e.n # 0 => l \in P!Logged'
  BY <1>0, <1>2 DEF P!Logged
<1>5. /\ \A i \in P!Logged : ev[i].doc = shown.doc /\ ev[i].n \in P!Heard
      /\ \A i, j \in P!Logged : i < j => ev[i].n < ev[j].n
      /\ \A n \in P!Heard : (\E i \in P!Logged : ev[i].n < n) \/ Len(ev) < LogCap
                              => \E i \in P!Logged : ev[i].n = n
  BY <1>0, <1>1 DEF P!LogIsTheTail
<1>6. l \in P!Logged' => P!Heard' = P!Heard \cup {e.n} /\ \A n \in P!Heard : n < e.n
  BY <1>2, <1>4
<1> SUFFICES P!LogIsTheTail'
  BY <1>3
<1> DEFINE InLog == \A i \in P!Logged' :
                      /\ q[i].doc = shown.doc /\ q[i].n \in P!Heard'
                      /\ \A j \in P!Logged' : i < j => q[i].n < q[j].n
           Newest == \A n \in P!Heard' :
                       (\E i \in P!Logged' : q[i].n < n) \/ l < LogCap => \E i \in P!Logged' : q[i].n = n
<1> SUFFICES InLog /\ Newest
  BY <1>0 DEF P!LogIsTheTail
<1>7. CASE Len(ev) < LogCap
  <2>1. l = Len(ev) + 1 /\ \A i \in 1 .. Len(ev) : q[i] = ev[i]
    BY <1>2, <1>7
  <2>2. \A i \in P!Logged' : (i \in P!Logged /\ q[i] = ev[i]) \/ i = l
    BY <1>2, <1>4, <2>1
  <2>3. \A i \in P!Logged : i \in P!Logged' /\ q[i] = ev[i] /\ i < l
    BY <1>2, <1>4, <2>1
  <2>4. InLog
    <3> SUFFICES ASSUME NEW i \in P!Logged'
                 PROVE  /\ q[i].doc = shown.doc /\ q[i].n \in P!Heard'
                        /\ \A j \in P!Logged' : i < j => q[i].n < q[j].n
      OBVIOUS
    <3>1. CASE i = l
      <4>1. \A j \in P!Logged' : ~(l < j)
        BY <1>2, <1>4
      <4> QED
        BY <1>2, <1>6, <3>1, <4>1
    <3>2. CASE i # l
      <4>1. i \in P!Logged /\ q[i] = ev[i] /\ ev[i].n \in P!Heard /\ ev[i].n \in P!Heard'
        BY <1>5, <2>2, <3>2
      <4> QED
        BY <1>2, <1>5, <1>6, <2>2, <4>1
    <3> QED
      BY <3>1, <3>2
  <2>5. Newest
    <3> SUFFICES ASSUME NEW n \in P!Heard' PROVE \E i \in P!Logged' : q[i].n = n
      OBVIOUS
    <3>1. CASE n \in P!Heard
      BY <1>5, <1>7, <2>3, <3>1
    <3>2. CASE n \notin P!Heard
      BY <1>2, <1>4, <3>2
    <3> QED
      BY <3>1, <3>2
  <2> QED
    BY <2>4, <2>5
<1>8. CASE Len(ev) = LogCap
  <2>1. /\ l = LogCap
        /\ \A i \in 1 .. (l - 1) : i + 1 \in DOMAIN ev /\ q[i] = ev[i + 1]
        /\ \A i \in 2 .. l : q[i - 1] = ev[i]
    BY <1>2, <1>8, Caps
  <2>2. \A i \in P!Logged' : i = l \/ (i \in Nat /\ i + 1 \in P!Logged /\ q[i] = ev[i + 1])
    <3> SUFFICES ASSUME NEW i \in P!Logged', i # l
                 PROVE  i \in Nat /\ i + 1 \in P!Logged /\ q[i] = ev[i + 1]
      OBVIOUS
    <3>1. i \in 1 .. (l - 1) /\ i \in Nat
      BY <1>2, <1>4
    <3>2. i + 1 \in DOMAIN ev /\ q[i] = ev[i + 1] /\ q[i].n # 0
      BY <1>4, <2>1, <3>1
    <3> QED
      BY <1>4, <3>1, <3>2
  <2>3. \A i \in P!Logged : i # 1 => i - 1 \in P!Logged' /\ q[i - 1] = ev[i]
    <3> SUFFICES ASSUME NEW i \in P!Logged, i # 1
                 PROVE  i - 1 \in P!Logged' /\ q[i - 1] = ev[i]
      OBVIOUS
    <3> DEFINE k == i - 1
    <3>1. i \in 2 .. l /\ k \in 1 .. l /\ ev[i].n # 0
      BY <1>2, <1>4, <1>8, <2>1
    <3>2. q[k] = ev[i]
      BY <2>1, <3>1
    <3> HIDE DEF k
    <3>3. k \in P!Logged'
      BY <1>2, <1>4, <3>1, <3>2
    <3> QED
      BY <3>2, <3>3 DEF k
  <2>4. InLog
    <3> SUFFICES ASSUME NEW i \in P!Logged'
                 PROVE  /\ q[i].doc = shown.doc /\ q[i].n \in P!Heard'
                        /\ \A j \in P!Logged' : i < j => q[i].n < q[j].n
      OBVIOUS
    <3>1. CASE i = l
      <4>1. \A j \in P!Logged' : ~(l < j)
        BY <1>2, <1>4
      <4> QED
        BY <1>2, <1>6, <3>1, <4>1
    <3>2. CASE i # l
      <4> DEFINE a == i + 1
      <4>1. i \in Nat /\ a \in P!Logged /\ q[i] = ev[a] /\ ev[a].n \in P!Heard /\ ev[a].n \in P!Heard'
        BY <1>5, <2>2, <3>2
      <4>2. ASSUME NEW j \in P!Logged', i < j PROVE q[i].n < q[j].n
        <5>1. CASE j = l
          BY <1>2, <1>6, <4>1, <5>1
        <5>2. CASE j # l
          <6> DEFINE b == j + 1
          <6>1. j \in Nat /\ b \in P!Logged /\ q[j] = ev[b]
            BY <2>2, <5>2
          <6>2. a < b
            BY <4>1, <4>2, <6>1
          <6> HIDE DEF a, b
          <6> QED
            BY <1>5, <4>1, <6>1, <6>2
        <5> QED
          BY <5>1, <5>2
      <4> HIDE DEF a
      <4> QED
        BY <1>5, <4>1, <4>2
    <3> QED
      BY <3>1, <3>2
  <2>5. Newest
    <3>0. ~(l < LogCap)
      BY <2>1, Caps
    <3> SUFFICES ASSUME NEW n \in P!Heard', NEW i \in P!Logged', q[i].n < n
                 PROVE  \E j \in P!Logged' : q[j].n = n
      BY <3>0
    <3>1. CASE n \notin P!Heard
      BY <1>2, <1>4, <3>1
    <3>2. CASE n \in P!Heard
      <4>1. i # l
        <5>1. e.n < n => n # e.n /\ ~(n < e.n)
          BY <1>1, <3>2 DEF EventShape
        <5> QED
          BY <1>2, <1>6, <3>2, <5>1
      <4> DEFINE a == i + 1
      <4>2. a \in P!Logged /\ q[i] = ev[a] /\ i \in Nat
        BY <2>2, <4>1
      <4>3. 1 < a
        BY <1>2, <1>4, <4>2
      <4> HIDE DEF a
      <4>4. PICK j \in P!Logged : ev[j].n = n
        BY <1>5, <3>2, <4>2
      <4>5. j # 1
        <5>1. ev[a].n < n /\ ev[a].n \in Nat /\ n \in Nat
          BY <1>1, <1>5, <3>2, <4>2
        <5> QED
          BY <1>5, <4>2, <4>3, <4>4, <5>1
      <4> QED
        BY <2>3, <4>4, <4>5
    <3> QED
      BY <3>1, <3>2
  <2> QED
    BY <2>4, <2>5
<1> QED
  BY <1>2, <1>7, <1>8, Caps


\* Steps that leave the document alone.
LEMMA OutsideFrame ==
  ASSUME PreviewInv, UNCHANGED <<probe, rev, wanted, shown, page, offer, batches>>,
         mail' \in Seq(MailShape), InTheMail', InOrder',
         behavior' \in BehaviorShape, behavior'.adm = behavior.adm,
         LogFits', P!LogIsTheTail', P!FreezeIsSaid',
         ledger' \in [seen : SUBSET Items, truncated : BOOLEAN], Refusals',
         watch' \in [on : BOOLEAN, heard : BOOLEAN, lag : Nat, alerted : BOOLEAN], AlertsLate',
         findings' \subseteq [events : Seq(EventShape), adm : BodyShape],
         unread' \subseteq RequestShape, asked' \subseteq RequestShape,
         Requests', P!FindingsAreCurrent'
  PROVE  PreviewInv'
<1>1. PreviewType'
  BY DEF PreviewInv, PreviewType, BehaviorShape
<1>2. OneDocument'
  BY DEF PreviewInv, OneDocument, P!Framed, P!Current
<1>3. P!ScanIsShown' /\ P!ShownIsWanted'
  BY DEF PreviewInv, P!ScanIsShown, P!ShownIsWanted, P!Framed
<1> QED
  BY <1>1, <1>2, <1>3 DEF PreviewInv

LEMMA ReceiveStep == PreviewInv /\ P!Receive => PreviewInv'
<1> SUFFICES ASSUME PreviewInv, P!Receive PROVE PreviewInv'
  OBVIOUS
<1> DEFINE m == Head(mail)
<1>1. /\ mail # <<>> /\ mail' = Tail(mail) /\ UNCHANGED <<probe, rev, wanted, shown, page, offer, batches>>
      /\ IF P!Accepted(m)
         THEN watch' = [on |-> TRUE, heard |-> TRUE, lag |-> 0, alerted |-> FALSE] /\ P!Take(m)
         ELSE UNCHANGED <<watch, ledger, behavior, findings, unread, asked>>
  BY DEF P!Receive
<1>2. /\ PreviewType /\ OneDocument /\ Requests /\ P!FindingsAreCurrent /\ LogFits /\ AlertsLate
      /\ P!LogIsTheTail /\ P!FreezeIsSaid
      /\ behavior \in BehaviorShape /\ ledger \in [seen : SUBSET Items, truncated : BOOLEAN]
      /\ watch \in [on : BOOLEAN, heard : BOOLEAN, lag : Nat, alerted : BOOLEAN]
      /\ findings \subseteq [events : Seq(EventShape), adm : BodyShape]
      /\ unread \subseteq RequestShape /\ asked \subseteq RequestShape /\ mail \in Seq(MailShape)
  BY DEF PreviewInv, PreviewType, BehaviorShape
<1>3. /\ mail' \in Seq(MailShape) /\ InTheMail' /\ InOrder' /\ m \in MailShape /\ m.doc \in 1 .. rev
      /\ m.doc = shown.doc => page.started /\ m.frame = shown.frame
      /\ m.type = "event" /\ m.doc = shown.doc =>
           /\ P!Heard' = P!Heard \cup {m.n} /\ m.n \in 1 .. page.sent
           /\ \A n \in P!Heard : n < m.n
      /\ ~(m.type = "event" /\ m.doc = shown.doc) => P!Heard' = P!Heard
  BY <1>1, MailTaken
<1>4. m = mail[1]
  BY <1>1, <1>2, Shifted
<1> HIDE DEF m
<1>5. Told(1) <=> m.type = "refusal" /\ m.doc = shown.doc
  BY <1>4 DEF Told
<1>6. CASE ~P!Accepted(m)
  <2>1. m.doc # shown.doc
    BY <1>2, <1>3, <1>6 DEF P!Accepted, OneDocument
  <2>2. UNCHANGED <<watch, ledger, behavior, findings, unread, asked>>
    BY <1>1, <1>6
  <2>3. P!Heard' = P!Heard
    BY <1>3, <2>1
  <2>4. LogFits' /\ P!LogIsTheTail' /\ P!FreezeIsSaid' /\ AlertsLate'
    BY <1>1, <1>2, <2>2, <2>3 DEF LogFits, P!LogIsTheTail, P!FreezeIsSaid, AlertsLate, P!Logged
  <2>5. Refusals'
    BY <1>1, <1>5, <2>1, <2>2, RefusalsTaken
  <2>6. Requests' /\ P!FindingsAreCurrent'
    BY <1>2, <2>2 DEF Requests, P!FindingsAreCurrent
  <2> QED
    BY <1>1, <1>2, <1>3, <2>2, <2>4, <2>5, <2>6, OutsideFrame DEF BehaviorShape
<1>7. CASE P!Accepted(m)
  <2>1. /\ m.doc = shown.doc /\ P!Take(m)
        /\ watch' = [on |-> TRUE, heard |-> TRUE, lag |-> 0, alerted |-> FALSE]
    BY <1>1, <1>7 DEF P!Accepted
  <2>2. watch'.lag = 0 /\ AlertsLate' /\ P!FreezeIsSaid'
        /\ watch' \in [on : BOOLEAN, heard : BOOLEAN, lag : Nat, alerted : BOOLEAN]
    BY <2>1, Caps DEF AlertsLate, P!FreezeIsSaid
  <2>3. CASE m.type = "event"
    <3> DEFINE e == [doc |-> m.doc, n |-> m.n]
               b == [behavior EXCEPT !.events = P!Pushed(e)]
    <3>1. e \in EventShape /\ e.doc = shown.doc /\ e.n = m.n
      BY <1>3, <2>1 DEF EventShape, MailShape
    <3>2. P!RenderBehaviorTab(b) /\ ledger' = ledger
      BY <2>1, <2>3 DEF P!Take
    <3> HIDE DEF e
    <3>3. P!Pushed(e) \in Seq(EventShape)
      BY <1>2, <3>1, PushedLog
    <3>4. b \in BehaviorShape /\ b.events = P!Pushed(e) /\ b.adm = behavior.adm
      BY <1>2, <3>3 DEF BehaviorShape
    <3> HIDE DEF b
    <3>5. /\ behavior' = b /\ findings' = {} /\ asked' \subseteq RequestShape /\ unread' \subseteq RequestShape
          /\ Requests' /\ P!FindingsAreCurrent'
      BY <1>2, <3>2, <3>4, Rendered
    <3>6. e.n # 0 /\ P!Heard' = P!Heard \cup {e.n} /\ \A n \in P!Heard : n < e.n
      BY <1>3, <2>1, <2>3, <3>1
    <3>7. LogFits' /\ P!LogIsTheTail'
      BY <1>1, <3>1, <3>4, <3>5, <3>6, EventLogged
    <3>8. Refusals'
      BY <1>1, <1>5, <2>3, <3>2, RefusalsTaken
    <3> QED
      BY <1>1, <1>2, <1>3, <2>2, <3>2, <3>4, <3>5, <3>7, <3>8, OutsideFrame
  <2>4. CASE m.type # "event"
    <3>1. UNCHANGED <<behavior, findings, unread, asked>>
      BY <1>3, <2>1, <2>4 DEF P!Take, MailShape
    <3>2. P!Heard' = P!Heard
      BY <1>3, <2>4
    <3>3. LogFits' /\ P!LogIsTheTail'
      BY <1>1, <1>2, <3>1, <3>2 DEF LogFits, P!LogIsTheTail, P!Logged
    <3>4. Requests' /\ P!FindingsAreCurrent'
      BY <1>2, <3>1 DEF Requests, P!FindingsAreCurrent
    <3>5. Refusals' /\ ledger' \in [seen : SUBSET Items, truncated : BOOLEAN]
      <4>1. CASE m.type = "beat"
        <5>1. ledger' = ledger
          BY <2>1, <4>1 DEF P!Take
        <5> QED
          BY <1>1, <1>2, <1>5, <4>1, <5>1, RefusalsTaken
      <4>2. CASE m.type = "refusal"
        <5> DEFINE short == {i \in m.items : i \notin LongItems}
                   fresh == short \ ledger.seen
        <5>1. PICK k \in SUBSET fresh :
                ledger' = [seen |-> ledger.seen \cup k,
                           truncated |-> ledger.truncated \/ m.truncated \/ short # m.items \/ k # fresh]
          BY <2>1, <4>2 DEF P!Take, P!Recorded
        <5>2. k \subseteq m.items /\ m.items \subseteq Items /\ m.truncated \in BOOLEAN
          BY <1>3, <5>1 DEF MailShape
        <5>3. /\ ledger' \in [seen : SUBSET Items, truncated : BOOLEAN]
              /\ ledger.seen \subseteq ledger'.seen /\ ledger'.seen \subseteq ledger.seen \cup m.items
              /\ ledger.truncated \/ m.truncated => ledger'.truncated
          BY <1>2, <5>1, <5>2
        <5>4. ledger'.truncated \/ m.items \subseteq ledger'.seen
          BY <5>1
        <5> QED
          BY <1>1, <1>5, <2>1, <4>2, <5>3, <5>4, RefusalsTaken DEF m
      <4> QED
        BY <1>3, <2>4, <4>1, <4>2 DEF MailShape
    <3> QED
      BY <1>1, <1>2, <1>3, <2>2, <3>1, <3>3, <3>4, <3>5, OutsideFrame DEF BehaviorShape
  <2> QED
    BY <2>3, <2>4
<1> QED
  BY <1>6, <1>7

LEMMA WatchStep == PreviewInv /\ P!WatchTick => PreviewInv'
<1> SUFFICES ASSUME PreviewInv, P!WatchTick PROVE PreviewInv'
  OBVIOUS
<1>1. /\ PreviewType /\ OneDocument /\ InTheMail /\ InOrder /\ Refusals /\ Requests
      /\ P!FindingsAreCurrent /\ LogFits /\ AlertsLate /\ P!LogIsTheTail
      /\ behavior \in BehaviorShape /\ ledger \in [seen : SUBSET Items, truncated : BOOLEAN]
      /\ watch \in [on : BOOLEAN, heard : BOOLEAN, lag : Nat, alerted : BOOLEAN]
      /\ findings \subseteq [events : Seq(EventShape), adm : BodyShape]
      /\ unread \subseteq RequestShape /\ asked \subseteq RequestShape /\ mail \in Seq(MailShape)
  BY DEF PreviewInv, PreviewType, BehaviorShape
<1> DEFINE lag == watch.lag + 1
           alert == P!Framed /\ ~watch.alerted /\ lag > FreezeAfter
           e == [doc |-> shown.doc, n |-> 0]
           b == [behavior EXCEPT !.events = P!Pushed(e)]
<1>2. /\ watch.lag <= FreezeAfter /\ watch' = [watch EXCEPT !.lag = lag, !.alerted = @ \/ alert]
      /\ alert => P!RenderBehaviorTab(b)
      /\ ~alert => UNCHANGED <<behavior, findings, unread, asked>>
      /\ UNCHANGED <<probe, rev, wanted, shown, page, mail, ledger, offer, batches>>
  BY DEF P!WatchTick
<1>3. ~watch.alerted /\ lag \in Nat
  BY <1>1, <1>2, Caps DEF AlertsLate
<1>4. /\ watch' \in [on : BOOLEAN, heard : BOOLEAN, lag : Nat, alerted : BOOLEAN]
      /\ watch'.lag = lag /\ (watch'.alerted <=> alert)
  <2> HIDE DEF lag, alert
  <2>1. alert \in BOOLEAN
    BY DEF alert, P!Framed
  <2> QED
    BY <1>1, <1>2, <1>3, <2>1
<1>5. AlertsLate'
  BY <1>4 DEF AlertsLate
<1>6. P!Heard' = P!Heard /\ InTheMail' /\ InOrder' /\ Refusals'
  BY <1>1, <1>2 DEF P!Heard, P!Coming, InTheMail, InOrder, Refusals, Untold, SignComing, Told
<1>7. P!Heard # {} => P!Framed
  <2>1. page.sent > 0 => P!Framed
    BY <1>1 DEF OneDocument, P!NewPage
  <2> QED
    BY <1>1, <2>1 DEF P!Heard, PreviewType, PageShape
<1>8. CASE alert
  <2>1. e \in EventShape /\ e.doc = shown.doc /\ e.n = 0
    BY <1>1 DEF EventShape, PreviewType
  <2> HIDE DEF e
  <2>2. P!Pushed(e) \in Seq(EventShape)
    BY <1>1, <2>1, PushedLog
  <2>3. b \in BehaviorShape /\ b.events = P!Pushed(e) /\ b.adm = behavior.adm
    BY <1>1, <2>2 DEF BehaviorShape
  <2> HIDE DEF b
  <2>4. /\ behavior' = b /\ findings' = {} /\ asked' \subseteq RequestShape /\ unread' \subseteq RequestShape
        /\ Requests' /\ P!FindingsAreCurrent'
    BY <1>1, <1>2, <1>8, <2>3, Rendered
  <2>5. LogFits' /\ P!LogIsTheTail'
    BY <1>2, <1>6, <2>1, <2>3, <2>4, EventLogged
  <2>6. P!Pushed(e) # <<>> /\ P!Pushed(e)[Len(P!Pushed(e))] = e
    <3>1. Len(P!Pushed(e)) \in 1 .. LogCap /\ P!Pushed(e)[Len(P!Pushed(e))] = e
      BY <1>1, <2>1, PushedLog
    <3> QED
      BY <3>1, Caps
  <2>7. P!FreezeIsSaid'
    BY <2>1, <2>3, <2>4, <2>6 DEF P!FreezeIsSaid
  <2> QED
    BY <1>1, <1>2, <1>4, <1>5, <1>6, <2>3, <2>4, <2>5, <2>7, OutsideFrame
<1>9. CASE ~alert
  <2>1. UNCHANGED <<behavior, findings, unread, asked>>
    BY <1>2, <1>9
  <2>2. P!FreezeIsSaid'
    BY <1>3, <1>4, <1>6, <1>7, <1>9 DEF P!FreezeIsSaid
  <2>3. LogFits' /\ P!LogIsTheTail' /\ Requests' /\ P!FindingsAreCurrent'
    BY <1>1, <1>2, <1>6, <2>1 DEF LogFits, P!LogIsTheTail, P!Logged, Requests, P!FindingsAreCurrent
  <2> HIDE DEF alert, lag
  <2> QED
    BY <1>1, <1>2, <1>4, <1>5, <1>6, <2>1, <2>2, <2>3, OutsideFrame DEF BehaviorShape
<1> QED
  BY <1>8, <1>9

-----------------------------------------------------------------------------
LEMMA PreviewInit == P!Init => PreviewInv
<1> SUFFICES ASSUME P!Init PROVE PreviewInv
  OBVIOUS
<1>1. /\ probe \in BOOLEAN /\ rev = 0 /\ wanted = P!NoCreative /\ shown = P!Blank
      /\ page = P!NewPage /\ mail = <<>> /\ behavior = P!NoBehavior /\ ledger = P!NewLedger
      /\ watch = P!WatchOff /\ findings = {} /\ unread = {} /\ asked = {} /\ offer = {} /\ batches = {}
  BY DEF P!Init
<1>2. /\ shown.frame = 0 /\ shown.doc = 0 /\ shown.creative = P!NoCreative /\ ~P!Framed
      /\ shown \in [frame : Nat, doc : Nat, creative : Creatives, loaded : SUBSET Assets]
  BY <1>1 DEF P!Blank, P!Framed, Creatives
<1>3. /\ page \in PageShape /\ page.started = FALSE /\ page.sent = 0 /\ page.refused = {}
      /\ page.seen = {} /\ page.queue = {} /\ page.truncated = FALSE
  BY <1>1 DEF P!NewPage, PageShape
<1>4. behavior \in BehaviorShape /\ behavior.events = <<>> /\ behavior.adm = P!NoBody
  BY <1>1 DEF P!NoBehavior, P!NoBody, BehaviorShape, BodyShape, Creatives
<1>5. /\ ledger \in [seen : SUBSET Items, truncated : BOOLEAN] /\ ledger.seen = {}
      /\ watch \in [on : BOOLEAN, heard : BOOLEAN, lag : Nat, alerted : BOOLEAN] /\ watch.alerted = FALSE
  BY <1>1 DEF P!NewLedger, P!WatchOff
<1>6. PreviewType
  BY <1>1, <1>2, <1>3, <1>4, <1>5 DEF PreviewType, BehaviorShape, Creatives
<1>7. OneDocument
  BY <1>1, <1>2, <1>3 DEF OneDocument
<1>8. DOMAIN mail = {} /\ DOMAIN behavior.events = {} /\ Len(behavior.events) = 0
  BY <1>1, <1>4
<1>9. P!Coming = {} /\ P!Heard = {} /\ P!Logged = {} /\ Untold = {}
  BY <1>3, <1>8 DEF P!Coming, P!Heard, P!Logged, Untold
<1>10. InTheMail /\ InOrder /\ LogFits /\ P!LogIsTheTail /\ P!FreezeIsSaid /\ AlertsLate
  BY <1>5, <1>8, <1>9, Caps DEF InTheMail, InOrder, LogFits, P!LogIsTheTail, P!FreezeIsSaid, AlertsLate
<1>11. Refusals /\ Requests /\ P!FindingsAreCurrent
  BY <1>1, <1>3, <1>5, <1>9 DEF Refusals, Requests, P!FindingsAreCurrent
<1>12. P!ScanIsShown /\ P!ShownIsWanted
  BY <1>1, <1>2, <1>4 DEF P!ScanIsShown, P!ShownIsWanted
<1> QED
  BY <1>6, <1>7, <1>10, <1>11, <1>12 DEF PreviewInv

PreviewHolds == service = "preview" => PreviewInv

\* Log, ledger, bytes and findings are of the document on screen, for any caps,
\* any number of documents, events and refusals, and whatever is late.
THEOREM PreviewTheorem == ServicesSpec => []PreviewIsOneDocument
<1>1. ServicesInit => PreviewHolds
  BY PreviewInit DEF ServicesInit, PreviewHolds
<1>2. PreviewHolds /\ [ServicesNext]_<<service, editorial, links, preview>> => PreviewHolds'
  <2> SUFFICES ASSUME PreviewHolds, [ServicesNext]_<<service, editorial, links, preview>>,
                      service' = "preview"
               PROVE  PreviewInv'
    BY DEF PreviewHolds
  <2>1. CASE Previews
    <3>1. PreviewInv /\ P!Next
      BY <2>1 DEF Previews, PreviewHolds
    <3> QED
      BY <3>1, ShowKeeps, EventSteps, BeatStep, RefuseStep, FlushStep, ReceiveStep, WatchStep,
         AnalysisSteps, BatchSteps, EndBatchKeeps DEF P!Next
  <2>2. CASE \/ Shares \/ Edits \/ UNCHANGED <<service, editorial, links, preview>>
    <3>1. PreviewInv /\ UNCHANGED <<probe, rev, wanted, shown, page, mail, behavior, ledger, watch,
                                    findings, unread, asked, offer, batches>>
      BY <2>2 DEF Shares, Edits, preview, PreviewHolds
    <3> QED
      BY <3>1 DEF PreviewInv, PreviewType, OneDocument, InTheMail, InOrder, LogFits, AlertsLate,
         Refusals, Untold, SignComing, Told, Requests, P!LogIsTheTail, P!FreezeIsSaid,
         P!ScanIsShown, P!FindingsAreCurrent, P!ShownIsWanted, P!Heard, P!Coming, P!Logged,
         P!Framed, P!Current
  <2> QED
    BY <2>1, <2>2 DEF ServicesNext
<1>3. PreviewHolds => PreviewIsOneDocument
  <2> SUFFICES ASSUME PreviewInv PROVE P!EvidenceIsItsOwn /\ P!ColumnIsOneDocument
    BY DEF PreviewHolds, PreviewIsOneDocument
  <2>1. P!EvidenceIsItsOwn
    BY DEF PreviewInv, P!EvidenceIsItsOwn
  <2>2. P!LedgerIsHonest
    <3>1. Refusals
      BY DEF PreviewInv
    <3>2. ASSUME ~P!RefusalsPending, ~ledger.truncated PROVE ledger.seen = page.refused
      <4>1. ~page.scheduled /\ \A i \in DOMAIN mail : ~Told(i)
        BY <3>2 DEF P!RefusalsPending, Told
      <4>2. Untold = {} /\ ~SignComing
        BY <3>1, <4>1 DEF Untold, SignComing, Refusals
      <4> QED
        BY <3>1, <3>2, <4>2 DEF Refusals
    <3> QED
      BY <3>1, <3>2 DEF Refusals, P!LedgerIsHonest
  <2> QED
    BY <2>1, <2>2 DEF PreviewInv, P!ColumnIsOneDocument
<1> QED
  BY <1>1, <1>2, <1>3, PTL DEF ServicesSpec

-----------------------------------------------------------------------------
(* Share links.  First the bytes of a table: their two recursive functions *)
(* exist, and are what they say row by row.                                *)

Smaller == {p \in Nat \X Nat : p[1] < p[2]}

LEMMA Least ==
  ASSUME NEW S, S \subseteq Nat, S # {}
  PROVE  \E n \in S : \A m \in Nat : m < n => m \notin S
<1>1. IsWellFoundedOn(Smaller, Nat)
  <2>1. Smaller = OpToRel(<, Nat)
    BY Zenon DEF Smaller, OpToRel
  <2> QED
    BY <2>1, NatLessThanWellFounded, Zenon
<1>2. PICK n \in S : \A m \in S : ~(<<m, n>> \in Smaller)
  BY <1>1, WFMin, Zenon
<1> QED
  BY <1>2 DEF Smaller

Row == [by : Addresses, at : Nat, bytes : Nat]

\* A run of length n: from z, one row at a time.
SumOne(s, some, i) == IF s[i] \in some THEN s[i].bytes ELSE 0
IsSums(s, some, g, n) == g = [i \in 0 .. n |-> IF i = 0 THEN 0 ELSE g[i - 1] + SumOne(s, some, i)]
KeepOne(s, some, r, i) == IF s[i] \in some THEN Append(r, s[i]) ELSE r
IsKeeping(s, some, g, n) == g = [i \in 0 .. n |-> IF i = 0 THEN <<>> ELSE KeepOne(s, some, g[i - 1], i)]

LEMMA SumsExist ==
  ASSUME NEW s, NEW some, NEW h \in Nat
  PROVE  \E g : IsSums(s, some, g, h)
<1> DEFINE Lacking == {n \in Nat : ~\E g : IsSums(s, some, g, n)}
<1>1. SUFFICES ASSUME Lacking # {} PROVE FALSE
  OBVIOUS
<1>2. PICK n \in Lacking : \A m \in Nat : m < n => m \notin Lacking
  <2>1. Lacking \subseteq Nat
    OBVIOUS
  <2> HIDE DEF Lacking
  <2> QED
    BY <1>1, <2>1, Least
<1>3. n \in Nat /\ \A m \in Nat : m < n => \E g : IsSums(s, some, g, m)
  BY <1>2
<1>4. CASE n = 0
  <2> DEFINE g == [i \in 0 .. 0 |-> 0]
  <2>1. g = [i \in 0 .. 0 |-> IF i = 0 THEN 0 ELSE g[i - 1] + SumOne(s, some, i)]
    <3>1. \A i \in 0 .. 0 : i = 0
      OBVIOUS
    <3> QED
      BY <3>1
  <2> HIDE DEF g
  <2>2. IsSums(s, some, g, n)
    BY <1>4, <2>1 DEF IsSums
  <2> QED
    BY <1>2, <2>2
<1>5. CASE n # 0
  <2> DEFINE m == n - 1
  <2>1. m \in Nat /\ m < n /\ n = m + 1
    BY <1>3, <1>5
  <2> HIDE DEF m
  <2>2. PICK b : IsSums(s, some, b, m)
    BY <1>3, <2>1
  <2> DEFINE g == [i \in 0 .. n |-> IF i = n THEN b[m] + SumOne(s, some, n) ELSE b[i]]
  <2>3. ASSUME NEW i \in 0 .. n
        PROVE  g[i] = IF i = 0 THEN 0 ELSE g[i - 1] + SumOne(s, some, i)
    <3>1. CASE i = n
      <4>1. m \in 0 .. n /\ m # n /\ i - 1 = m /\ i # 0
        BY <2>1, <3>1
      <4>2. g[m] = b[m]
        BY <4>1
      <4> QED
        BY <3>1, <4>1, <4>2
    <3>2. CASE i # n
      <4>1. i \in 0 .. m /\ g[i] = b[i]
        BY <2>1, <3>2
      <4>2. b[i] = IF i = 0 THEN 0 ELSE b[i - 1] + SumOne(s, some, i)
        BY <2>2, <4>1, Zenon DEF IsSums
      <4>3. i # 0 => i - 1 \in 0 .. n /\ i - 1 # n
        BY <2>1, <4>1
      <4>4. i # 0 => g[i - 1] = b[i - 1]
        BY <4>3
      <4> QED
        BY <4>1, <4>2, <4>4
    <3> QED
      BY <3>1, <3>2
  <2>4. g = [i \in 0 .. n |-> g[i]]
    OBVIOUS
  <2> HIDE DEF g
  <2>5. g = [i \in 0 .. n |-> IF i = 0 THEN 0 ELSE g[i - 1] + SumOne(s, some, i)]
    BY <2>3, <2>4
  <2>6. IsSums(s, some, g, n)
    BY <2>5 DEF IsSums
  <2> QED
    BY <1>2, <2>6
<1> QED
  BY <1>3, <1>4, <1>5

LEMMA KeepingExists ==
  ASSUME NEW s, NEW some, NEW h \in Nat
  PROVE  \E g : IsKeeping(s, some, g, h)
<1> DEFINE Lacking == {n \in Nat : ~\E g : IsKeeping(s, some, g, n)}
<1>1. SUFFICES ASSUME Lacking # {} PROVE FALSE
  OBVIOUS
<1>2. PICK n \in Lacking : \A m \in Nat : m < n => m \notin Lacking
  <2>1. Lacking \subseteq Nat
    OBVIOUS
  <2> HIDE DEF Lacking
  <2> QED
    BY <1>1, <2>1, Least
<1>3. n \in Nat /\ \A m \in Nat : m < n => \E g : IsKeeping(s, some, g, m)
  BY <1>2
<1>4. CASE n = 0
  <2> DEFINE none == <<>>
             g == [i \in 0 .. 0 |-> none]
  <2>1. g = [i \in 0 .. 0 |-> IF i = 0 THEN <<>> ELSE KeepOne(s, some, g[i - 1], i)]
    <3>1. \A i \in 0 .. 0 : i = 0
      OBVIOUS
    <3> QED
      BY <3>1
  <2> HIDE DEF g
  <2>2. IsKeeping(s, some, g, n)
    BY <1>4, <2>1 DEF IsKeeping
  <2> QED
    BY <1>2, <2>2
<1>5. CASE n # 0
  <2> DEFINE m == n - 1
  <2>1. m \in Nat /\ m < n /\ n = m + 1
    BY <1>3, <1>5
  <2> HIDE DEF m
  <2>2. PICK b : IsKeeping(s, some, b, m)
    BY <1>3, <2>1
  <2> DEFINE g == [i \in 0 .. n |-> IF i = n THEN KeepOne(s, some, b[m], n) ELSE b[i]]
  <2>3. ASSUME NEW i \in 0 .. n
        PROVE  g[i] = IF i = 0 THEN <<>> ELSE KeepOne(s, some, g[i - 1], i)
    <3>1. CASE i = n
      <4>1. m \in 0 .. n /\ m # n /\ i - 1 = m /\ i # 0
        BY <2>1, <3>1
      <4>2. g[m] = b[m]
        BY <4>1
      <4> QED
        BY <3>1, <4>1, <4>2
    <3>2. CASE i # n
      <4>1. i \in 0 .. m /\ g[i] = b[i]
        BY <2>1, <3>2
      <4>2. b[i] = IF i = 0 THEN <<>> ELSE KeepOne(s, some, b[i - 1], i)
        BY <2>2, <4>1, Zenon DEF IsKeeping
      <4>3. i # 0 => i - 1 \in 0 .. n /\ i - 1 # n
        BY <2>1, <4>1
      <4>4. i # 0 => g[i - 1] = b[i - 1]
        BY <4>3
      <4> QED
        BY <4>1, <4>2, <4>4
    <3> QED
      BY <3>1, <3>2
  <2>4. g = [i \in 0 .. n |-> g[i]]
    OBVIOUS
  <2> HIDE DEF g
  <2>5. g = [i \in 0 .. n |-> IF i = 0 THEN <<>> ELSE KeepOne(s, some, g[i - 1], i)]
    BY <2>3, <2>4
  <2>6. IsKeeping(s, some, g, n)
    BY <2>5 DEF IsKeeping
  <2> QED
    BY <1>2, <2>6
<1> QED
  BY <1>3, <1>4, <1>5

LEMMA SumsUnfold ==
  ASSUME NEW s, NEW some, Len(s) \in Nat
  PROVE  /\ L!Sums(s, some)[0] = 0
         /\ \A n \in 1 .. Len(s) : L!Sums(s, some)[n] = L!Sums(s, some)[n - 1] + SumOne(s, some, n)
<1> DEFINE R(g) == g = [i \in 0 .. Len(s) |->
                          IF i = 0 THEN 0 ELSE g[i - 1] + (IF s[i] \in some THEN s[i].bytes ELSE 0)]
           sum == L!Sums(s, some)
<1>1. sum = CHOOSE g : R(g)
  BY DEF L!Sums
<1>2. \E g : R(g)
  <2>1. \E g : IsSums(s, some, g, Len(s))
    BY SumsExist
  <2> QED
    BY <2>1 DEF IsSums, SumOne
<1>3. R(CHOOSE g : R(g))
  <2> HIDE DEF R
  <2> QED
    BY <1>2
<1>4. sum = [i \in 0 .. Len(s) |-> IF i = 0 THEN 0 ELSE sum[i - 1] + SumOne(s, some, i)]
  BY <1>1, <1>3 DEF SumOne
<1> HIDE DEF sum
<1>5. sum[0] = 0
  <2>1. 0 \in 0 .. Len(s)
    OBVIOUS
  <2> QED
    BY <1>4, <2>1
<1>6. ASSUME NEW n \in 1 .. Len(s) PROVE sum[n] = sum[n - 1] + SumOne(s, some, n)
  <2>1. n \in 0 .. Len(s) /\ n # 0
    OBVIOUS
  <2> QED
    BY <1>4, <2>1
<1> QED
  BY <1>5, <1>6 DEF sum

LEMMA KeepingUnfolds ==
  ASSUME NEW s, NEW some, Len(s) \in Nat
  PROVE  /\ L!Keeping(s, some)[0] = <<>>
         /\ \A n \in 1 .. Len(s) :
              L!Keeping(s, some)[n] = KeepOne(s, some, L!Keeping(s, some)[n - 1], n)
<1> DEFINE R(g) == g = [i \in 0 .. Len(s) |->
                          IF i = 0 THEN <<>>
                          ELSE IF s[i] \in some THEN Append(g[i - 1], s[i]) ELSE g[i - 1]]
           keep == L!Keeping(s, some)
<1>1. keep = CHOOSE g : R(g)
  BY DEF L!Keeping
<1>2. \E g : R(g)
  <2>1. \E g : IsKeeping(s, some, g, Len(s))
    BY KeepingExists
  <2> QED
    BY <2>1 DEF IsKeeping, KeepOne
<1>3. R(CHOOSE g : R(g))
  <2> HIDE DEF R
  <2> QED
    BY <1>2
<1>4. keep = [i \in 0 .. Len(s) |-> IF i = 0 THEN <<>> ELSE KeepOne(s, some, keep[i - 1], i)]
  BY <1>1, <1>3 DEF KeepOne
<1> HIDE DEF keep
<1>5. keep[0] = <<>>
  <2>1. 0 \in 0 .. Len(s)
    OBVIOUS
  <2> QED
    BY <1>4, <2>1
<1>6. ASSUME NEW n \in 1 .. Len(s) PROVE keep[n] = KeepOne(s, some, keep[n - 1], n)
  <2>1. n \in 0 .. Len(s) /\ n # 0
    OBVIOUS
  <2> QED
    BY <1>4, <2>1
<1> QED
  BY <1>5, <1>6 DEF keep

-----------------------------------------------------------------------------
(* What the bytes of some rows are.                                        *)

LEMMA OneRow ==
  ASSUME NEW s \in Seq(Row), NEW some, NEW n \in 1 .. Len(s)
  PROVE  s[n] \in Row /\ s[n].bytes \in Nat /\ SumOne(s, some, n) \in Nat
<1>1. s[n] \in Row
  OBVIOUS
<1>2. s[n].bytes \in Nat
  BY <1>1 DEF Row
<1> QED
  BY <1>1, <1>2 DEF SumOne

\* The bytes among the first n rows.
LEMMA FirstBytes ==
  ASSUME NEW s \in Seq(Row), NEW some
  PROVE  \A n \in 0 .. Len(s) : L!Sums(s, some)[n] \in Nat
<1> DEFINE sum == L!Sums(s, some)
           Bad == {n \in 0 .. Len(s) : sum[n] \notin Nat}
<1>1. sum[0] = 0 /\ \A n \in 1 .. Len(s) : sum[n] = sum[n - 1] + SumOne(s, some, n)
  BY SumsUnfold
<1>2. \A n \in 1 .. Len(s) : SumOne(s, some, n) \in Nat
  BY OneRow
<1> HIDE DEF sum
<1>3. ASSUME Bad # {} PROVE FALSE
  <2>1. PICK n \in Bad : \A m \in Nat : m < n => m \notin Bad
    <3>1. Bad \subseteq Nat
      OBVIOUS
    <3> HIDE DEF Bad
    <3> QED
      BY <1>3, <3>1, Least
  <2>2. n \in 1 .. Len(s) /\ n - 1 \in 0 .. Len(s) /\ n - 1 < n
    BY <1>1
  <2> QED
    BY <1>1, <1>2, <2>1, <2>2
<1> QED
  BY <1>3 DEF sum

LEMMA BytesAreNat ==
  ASSUME NEW s \in Seq(Row), NEW some
  PROVE  L!Bytes(s, some) \in Nat
<1>1. Len(s) \in 0 .. Len(s)
  OBVIOUS
<1> QED
  BY <1>1, FirstBytes DEF L!Bytes

LEMMA TwoSums ==
  ASSUME NEW a \in Nat, NEW b \in Nat, NEW c \in Nat, a <= b + c,
         NEW x \in Nat, NEW y \in Nat, NEW z \in Nat, x <= y + z
  PROVE  a + x <= (b + y) + (c + z)
OBVIOUS

\* Rows that are in one of two sets store no more than the two together.
LEMMA Covered ==
  ASSUME NEW s \in Seq(Row), NEW I, NEW J, NEW K,
         \A i \in 1 .. Len(s) : s[i] \in I => s[i] \in J \/ s[i] \in K
  PROVE  L!Bytes(s, I) <= L!Bytes(s, J) + L!Bytes(s, K)
<1> DEFINE a == L!Sums(s, I)
           b == L!Sums(s, J)
           c == L!Sums(s, K)
           Bad == {n \in 0 .. Len(s) : ~(a[n] <= b[n] + c[n])}
<1>1. /\ a[0] = 0 /\ \A n \in 1 .. Len(s) : a[n] = a[n - 1] + SumOne(s, I, n)
      /\ b[0] = 0 /\ \A n \in 1 .. Len(s) : b[n] = b[n - 1] + SumOne(s, J, n)
      /\ c[0] = 0 /\ \A n \in 1 .. Len(s) : c[n] = c[n - 1] + SumOne(s, K, n)
  BY SumsUnfold
<1>2. \A n \in 0 .. Len(s) : a[n] \in Nat /\ b[n] \in Nat /\ c[n] \in Nat
  BY FirstBytes
<1>3. \A n \in 1 .. Len(s) :
        /\ SumOne(s, I, n) \in Nat /\ SumOne(s, J, n) \in Nat /\ SumOne(s, K, n) \in Nat
        /\ SumOne(s, I, n) <= SumOne(s, J, n) + SumOne(s, K, n)
  <2> SUFFICES ASSUME NEW n \in 1 .. Len(s)
               PROVE  /\ SumOne(s, I, n) \in Nat /\ SumOne(s, J, n) \in Nat /\ SumOne(s, K, n) \in Nat
                      /\ SumOne(s, I, n) <= SumOne(s, J, n) + SumOne(s, K, n)
    OBVIOUS
  <2>1. /\ s[n].bytes \in Nat
        /\ SumOne(s, I, n) \in Nat /\ SumOne(s, J, n) \in Nat /\ SumOne(s, K, n) \in Nat
    BY OneRow
  <2> QED
    BY <2>1 DEF SumOne
<1> HIDE DEF a, b, c
<1>4. ASSUME Bad # {} PROVE FALSE
  <2>1. PICK n \in Bad : \A m \in Nat : m < n => m \notin Bad
    <3>1. Bad \subseteq Nat
      OBVIOUS
    <3> HIDE DEF Bad
    <3> QED
      BY <1>4, <3>1, Least
  <2>2. n \in 1 .. Len(s) /\ n - 1 \in 0 .. Len(s) /\ n - 1 < n
    BY <1>1
  <2>3. a[n - 1] <= b[n - 1] + c[n - 1]
    BY <2>1, <2>2
  <2>4. a[n] <= b[n] + c[n]
    <3>1. /\ a[n] = a[n - 1] + SumOne(s, I, n)
          /\ b[n] = b[n - 1] + SumOne(s, J, n)
          /\ c[n] = c[n - 1] + SumOne(s, K, n)
      BY <1>1, <2>2
    <3>2. a[n - 1] \in Nat /\ b[n - 1] \in Nat /\ c[n - 1] \in Nat
      BY <1>2, <2>2
    <3>3. /\ SumOne(s, I, n) \in Nat /\ SumOne(s, J, n) \in Nat /\ SumOne(s, K, n) \in Nat
          /\ SumOne(s, I, n) <= SumOne(s, J, n) + SumOne(s, K, n)
      BY <1>3, <2>2
    <3>4. a[n - 1] + SumOne(s, I, n) <= (b[n - 1] + SumOne(s, J, n)) + (c[n - 1] + SumOne(s, K, n))
      BY <2>3, <3>2, <3>3, TwoSums
    <3> QED
      BY <3>1, <3>4, Zenon
  <2> QED
    BY <2>1, <2>4
<1>5. a[Len(s)] <= b[Len(s)] + c[Len(s)]
  BY <1>4
<1> QED
  BY <1>5 DEF L!Bytes, a, b, c

LEMMA NoneStored ==
  ASSUME NEW s \in Seq(Row), NEW I, \A i \in 1 .. Len(s) : s[i] \notin I
  PROVE  L!Bytes(s, I) = 0
<1> DEFINE a == L!Sums(s, I)
           Bad == {n \in 0 .. Len(s) : a[n] # 0}
<1>1. a[0] = 0 /\ \A n \in 1 .. Len(s) : a[n] = a[n - 1] + SumOne(s, I, n)
  BY SumsUnfold
<1>2. \A n \in 1 .. Len(s) : SumOne(s, I, n) = 0
  BY DEF SumOne
<1> HIDE DEF a
<1>3. ASSUME Bad # {} PROVE FALSE
  <2>1. PICK n \in Bad : \A m \in Nat : m < n => m \notin Bad
    <3>1. Bad \subseteq Nat
      OBVIOUS
    <3> HIDE DEF Bad
    <3> QED
      BY <1>3, <3>1, Least
  <2>2. n \in 1 .. Len(s) /\ n - 1 \in 0 .. Len(s) /\ n - 1 < n
    BY <1>1
  <2>3. a[n - 1] = 0
    BY <2>1, <2>2
  <2> QED
    BY <1>1, <1>2, <2>1, <2>2, <2>3
<1>4. a[Len(s)] = 0
  BY <1>3
<1> QED
  BY <1>4 DEF L!Bytes, a

LEMMA FewerStored ==
  ASSUME NEW s \in Seq(Row), NEW I, NEW J, \A i \in 1 .. Len(s) : s[i] \in I => s[i] \in J
  PROVE  L!Bytes(s, I) <= L!Bytes(s, J)
<1>1. L!Bytes(s, I) <= L!Bytes(s, J) + L!Bytes(s, {})
  BY Covered
<1>2. L!Bytes(s, {}) = 0
  BY NoneStored
<1> QED
  BY <1>1, <1>2, BytesAreNat

LEMMA RowStored ==
  ASSUME NEW s \in Seq(Row), NEW r \in Row, NEW I
  PROVE  /\ Append(s, r) \in Seq(Row)
         /\ L!Bytes(Append(s, r), I) = L!Bytes(s, I) + (IF r \in I THEN r.bytes ELSE 0)
<1> DEFINE t == Append(s, r)
           a == L!Sums(s, I)
           b == L!Sums(t, I)
           h == Len(s)
           Bad == {n \in 0 .. h : b[n] # a[n]}
<1>1. t \in Seq(Row) /\ h \in Nat /\ Len(t) = h + 1 /\ t[h + 1] = r /\ \A i \in 1 .. h : t[i] = s[i]
  OBVIOUS
<1> HIDE DEF t
<1>2. /\ a[0] = 0 /\ \A n \in 1 .. h : a[n] = a[n - 1] + SumOne(s, I, n)
      /\ b[0] = 0 /\ \A n \in 1 .. h + 1 : b[n] = b[n - 1] + SumOne(t, I, n)
  BY <1>1, SumsUnfold
<1>3. /\ \A n \in 1 .. h : SumOne(t, I, n) = SumOne(s, I, n)
      /\ SumOne(t, I, h + 1) = IF r \in I THEN r.bytes ELSE 0
  BY <1>1 DEF SumOne
<1> HIDE DEF a, b, h
<1>4. ASSUME Bad # {} PROVE FALSE
  <2>1. PICK n \in Bad : \A m \in Nat : m < n => m \notin Bad
    <3>1. Bad \subseteq Nat
      OBVIOUS
    <3> HIDE DEF Bad
    <3> QED
      BY <1>4, <3>1, Least
  <2>2. n \in 1 .. h /\ n \in 1 .. h + 1 /\ n - 1 \in 0 .. h /\ n - 1 < n
    BY <1>1, <1>2
  <2>3. a[n - 1] = b[n - 1]
    BY <2>1, <2>2
  <2> QED
    BY <1>2, <1>3, <2>1, <2>2, <2>3
<1>5. a[h] = b[h] /\ b[h + 1] = b[h] + SumOne(t, I, h + 1)
  <2>1. h \in 0 .. h /\ h + 1 \in 1 .. h + 1 /\ (h + 1) - 1 = h
    BY <1>1
  <2> QED
    BY <1>2, <1>4, <2>1
<1>6. L!Bytes(t, I) = a[h] + SumOne(t, I, h + 1)
  BY <1>1, <1>5 DEF L!Bytes, b
<1> QED
  BY <1>1, <1>3, <1>6 DEF L!Bytes, a, h, t

\* A sweep keeps rows, and adds none.
KeptRows(s, some, n, r) ==
  /\ r \in Seq(Row)
  /\ \A i \in 1 .. Len(r) : r[i] \in some /\ \E j \in 1 .. n : s[j] = r[i]

LEMMA Swept ==
  ASSUME NEW s \in Seq(Row), NEW some
  PROVE  /\ KeptRows(s, some, Len(s), L!Kept(s, some))
         /\ \A I : L!Bytes(L!Kept(s, some), I) <= L!Bytes(s, I)
<1> DEFINE keep == L!Keeping(s, some)
           Good(n) == /\ KeptRows(s, some, n, keep[n])
                      /\ \A I : L!Bytes(keep[n], I) <= L!Sums(s, I)[n]
           Bad == {n \in 0 .. Len(s) : ~Good(n)}
<1>1. keep[0] = <<>> /\ \A n \in 1 .. Len(s) : keep[n] = KeepOne(s, some, keep[n - 1], n)
  BY KeepingUnfolds
<1>2. Good(0)
  <2> DEFINE none == keep[0]
  <2>1. none \in Seq(Row) /\ Len(none) = 0
    BY <1>1
  <2>2. KeptRows(s, some, 0, none)
    BY <2>1 DEF KeptRows
  <2>3. ASSUME NEW I PROVE L!Bytes(keep[0], I) <= L!Sums(s, I)[0]
    <3>1. L!Bytes(none, I) = 0
      <4> HIDE DEF none
      <4>1. \A i \in 1 .. Len(none) : none[i] \notin I
        BY <2>1
      <4> QED
        BY <2>1, <4>1, NoneStored
    <3>2. L!Sums(s, I)[0] = 0
      BY SumsUnfold
    <3> QED
      BY <3>1, <3>2
  <2> QED
    BY <2>2, <2>3
<1>3. ASSUME NEW n \in 1 .. Len(s), Good(n - 1) PROVE Good(n)
  <2> DEFINE r == keep[n - 1]
  <2>1. KeptRows(s, some, n - 1, r) /\ \A I : L!Bytes(r, I) <= L!Sums(s, I)[n - 1]
    BY <1>3
  <2>2. keep[n] = KeepOne(s, some, r, n)
    BY <1>1
  <2> HIDE DEF r, keep
  <2>3. s[n] \in Row /\ r \in Seq(Row) /\ n - 1 \in 0 .. Len(s)
    BY <2>1 DEF KeptRows
  <2>4. KeptRows(s, some, n, keep[n])
    <3>1. CASE s[n] \in some
      <4>1. keep[n] = Append(r, s[n])
        BY <2>2, <3>1 DEF KeepOne
      <4>2. Append(r, s[n]) \in Seq(Row)
        BY <2>3
      <4>3. ASSUME NEW i \in 1 .. Len(Append(r, s[n]))
            PROVE  Append(r, s[n])[i] \in some /\ \E j \in 1 .. n : s[j] = Append(r, s[n])[i]
        <5>1. CASE i \in 1 .. Len(r)
          <6>1. Append(r, s[n])[i] = r[i]
            BY <2>3, <5>1
          <6>2. r[i] \in some /\ \E j \in 1 .. n - 1 : s[j] = r[i]
            BY <2>1, <5>1 DEF KeptRows
          <6> QED
            BY <6>1, <6>2
        <5>2. CASE i = Len(r) + 1
          <6>1. Append(r, s[n])[i] = s[n] /\ n \in 1 .. n
            BY <2>3, <5>2
          <6> QED
            BY <3>1, <6>1
        <5> QED
          BY <2>3, <5>1, <5>2
      <4> QED
        BY <4>1, <4>2, <4>3 DEF KeptRows
    <3>2. CASE s[n] \notin some
      <4>1. keep[n] = r
        BY <2>2, <3>2 DEF KeepOne
      <4>2. \A j \in 1 .. n - 1 : j \in 1 .. n
        OBVIOUS
      <4> QED
        BY <2>1, <4>1, <4>2 DEF KeptRows
    <3> QED
      BY <3>1, <3>2
  <2>5. ASSUME NEW I PROVE L!Bytes(keep[n], I) <= L!Sums(s, I)[n]
    <3>1. L!Sums(s, I)[n] = L!Sums(s, I)[n - 1] + SumOne(s, I, n)
      BY SumsUnfold
    <3>2. SumOne(s, I, n) \in Nat /\ L!Sums(s, I)[n - 1] \in Nat
      BY <2>3, FirstBytes DEF SumOne, Row
    <3>3. L!Bytes(r, I) <= L!Sums(s, I)[n - 1] /\ L!Bytes(r, I) \in Nat
      BY <2>1, <2>3, BytesAreNat
    <3>4. CASE s[n] \in some
      <4>1. L!Bytes(keep[n], I) = L!Bytes(r, I) + SumOne(s, I, n)
        BY <2>2, <2>3, <3>4, RowStored DEF KeepOne, SumOne
      <4> QED
        BY <3>1, <3>2, <3>3, <4>1
    <3>5. CASE s[n] \notin some
      <4>1. keep[n] = r
        BY <2>2, <3>5 DEF KeepOne
      <4> QED
        BY <3>1, <3>2, <3>3, <4>1
    <3> QED
      BY <3>4, <3>5
  <2> QED
    BY <2>4, <2>5
<1> HIDE DEF Good
<1>4. ASSUME Bad # {} PROVE FALSE
  <2>1. PICK n \in Bad : \A m \in Nat : m < n => m \notin Bad
    <3>1. Bad \subseteq Nat
      OBVIOUS
    <3> HIDE DEF Bad
    <3> QED
      BY <1>4, <3>1, Least
  <2>2. n \in 1 .. Len(s) /\ n - 1 \in 0 .. Len(s) /\ n - 1 < n
    BY <1>2
  <2>3. Good(n - 1)
    BY <2>1, <2>2
  <2> QED
    BY <1>3, <2>1, <2>2, <2>3
<1>5. Good(Len(s))
  BY <1>4
<1> QED
  BY <1>5 DEF Good, L!Kept, L!Bytes

-----------------------------------------------------------------------------
(* The two ceilings.                                                       *)

\* Rows an address stored since it was forgotten last: from t on, and on the day up to t.
Since(ip, f, t) == {r \in Row : r.by = ip /\ r.at > f /\ r.at >= t}
DayUpTo(ip, f, t) == {r \in Row : r.by = ip /\ r.at > f /\ r.at < t /\ r.at + Day > t}

\* A period has charged what was stored since it began, and what came on the day before
\* it kept to the budget too; a row comes while its period runs.
Tracked(ip, rs, f, t, p) ==
  /\ p \in [start : Nat, bytes : Nat] /\ p.start <= t /\ p.bytes <= IpBudget
  /\ L!Bytes(rs, Since(ip, f, p.start)) <= p.bytes
  /\ L!Bytes(rs, DayUpTo(ip, f, p.start)) <= IpBudget
  /\ \A i \in 1 .. Len(rs) : rs[i].by = ip /\ rs[i].at > f => rs[i].at < p.start + Day

Untracked(ip, rs, f, t) ==
  /\ L!Bytes(rs, DayUpTo(ip, f, t)) <= IpBudget
  /\ \A i \in 1 .. Len(rs) : rs[i].by = ip /\ rs[i].at > f => rs[i].at < t

Share(ip, rs, f, t, table) ==
  IF ip \in DOMAIN table THEN Tracked(ip, rs, f, t, table[ip]) ELSE Untracked(ip, rs, f, t)

SharesKept == \A ip \in Addresses : Share(ip, rows, forgot[ip], now, ipBytes)

AliveAt(t) == {r \in Row : r.at + Ttl > t}
UpTo(t) == {r \in Row : r.at + Day <= t}

\* Since the last sweep: what was there then, or came in its instant, was alive together
\* then, and what came later is alive still.
DiskKept ==
  /\ now <= due
  /\ L!Bytes(rows, AliveAt(now)) <= MaxTotal
  /\ swept =>
       /\ now + Day >= due
       /\ L!Bytes(rows, UpTo(due)) <= MaxTotal
       /\ now + Day = due => \A i \in 1 .. Len(rows) : rows[i].at + Ttl > now

LinksTyped ==
  /\ now \in Nat /\ due \in Nat /\ swept \in BOOLEAN
  /\ rows \in Seq(Row) /\ \A i \in 1 .. Len(rows) : rows[i].at <= now
  /\ DOMAIN ipBytes \subseteq Addresses
  /\ forgot \in [Addresses -> Nat] /\ reading \in [Addresses -> Nat]

LinksInv == LinksTyped /\ SharesKept /\ DiskKept

LEMMA Limits ==
  /\ MaxTotal \in Nat /\ IpBudget \in Nat /\ Sizes \subseteq Nat
  /\ Day \in Nat /\ Day > 0 /\ Ttl \in Nat /\ Day <= Ttl
BY LinksAssumption

LEMMA RowIs ==
  ASSUME NEW s \in Seq(Row), NEW i \in 1 .. Len(s)
  PROVE  s[i] \in Row /\ s[i].by \in Addresses /\ s[i].at \in Nat /\ s[i].bytes \in Nat
<1>1. s[i] \in Row
  OBVIOUS
<1> QED
  BY <1>1 DEF Row

\* One address: time passes.
LEMMA ShareTicks ==
  ASSUME NEW ip, NEW s \in Seq(Row), NEW f \in Nat, NEW t \in Nat, NEW table, Share(ip, s, f, t, table)
  PROVE  Share(ip, s, f, t + 1, table)
<1>1. CASE ip \in DOMAIN table
  <2>1. Tracked(ip, s, f, t, table[ip])
    BY <1>1 DEF Share
  <2>2. table[ip].start \in Nat
    BY <2>1 DEF Tracked
  <2>3. table[ip].start <= t + 1
    BY <2>1, <2>2 DEF Tracked
  <2> QED
    BY <1>1, <2>1, <2>3 DEF Share, Tracked
<1>2. CASE ip \notin DOMAIN table
  <2>1. /\ L!Bytes(s, DayUpTo(ip, f, t)) <= IpBudget
        /\ \A i \in 1 .. Len(s) : s[i].by = ip /\ s[i].at > f => s[i].at < t
    BY <1>2 DEF Share, Untracked
  <2>2. \A i \in 1 .. Len(s) : s[i].at \in Nat
    BY RowIs
  <2>3. \A i \in 1 .. Len(s) : s[i] \in DayUpTo(ip, f, t + 1) => s[i] \in DayUpTo(ip, f, t)
    BY <2>1, <2>2, Limits DEF DayUpTo
  <2>4. L!Bytes(s, DayUpTo(ip, f, t + 1)) <= L!Bytes(s, DayUpTo(ip, f, t))
    BY <2>3, FewerStored
  <2>5. L!Bytes(s, DayUpTo(ip, f, t + 1)) <= IpBudget
    BY <2>1, <2>4, BytesAreNat, Limits
  <2>6. \A i \in 1 .. Len(s) : s[i].by = ip /\ s[i].at > f => s[i].at < t + 1
    BY <2>1, <2>2
  <2> QED
    BY <1>2, <2>5, <2>6 DEF Share, Untracked
<1> QED
  BY <1>1, <1>2

\* Rows leave.
LEMMA ShareShrinks ==
  ASSUME NEW ip, NEW s \in Seq(Row), NEW f, NEW t, NEW table, Share(ip, s, f, t, table),
         NEW r \in Seq(Row), \A I : L!Bytes(r, I) <= L!Bytes(s, I),
         \A i \in 1 .. Len(r) : \E j \in 1 .. Len(s) : s[j] = r[i]
  PROVE  Share(ip, r, f, t, table)
<1>1. ASSUME NEW I, NEW b \in Nat, L!Bytes(s, I) <= b PROVE L!Bytes(r, I) <= b
  BY <1>1, BytesAreNat
<1>2. ASSUME NEW b, \A i \in 1 .. Len(s) : s[i].by = ip /\ s[i].at > f => s[i].at < b
      PROVE  \A i \in 1 .. Len(r) : r[i].by = ip /\ r[i].at > f => r[i].at < b
  BY <1>2
<1>3. CASE ip \in DOMAIN table
  <2> DEFINE p == table[ip]
  <2>1. Tracked(ip, s, f, t, p)
    BY <1>3 DEF Share
  <2>2. p.bytes \in Nat
    BY <2>1 DEF Tracked
  <2> HIDE DEF p
  <2>3. L!Bytes(r, Since(ip, f, p.start)) <= p.bytes
    BY <1>1, <2>1, <2>2 DEF Tracked
  <2>4. L!Bytes(r, DayUpTo(ip, f, p.start)) <= IpBudget
    BY <1>1, <2>1, Limits DEF Tracked
  <2>5. \A i \in 1 .. Len(r) : r[i].by = ip /\ r[i].at > f => r[i].at < p.start + Day
    BY <1>2, <2>1 DEF Tracked
  <2>6. Tracked(ip, r, f, t, p)
    BY <2>1, <2>3, <2>4, <2>5 DEF Tracked
  <2> QED
    BY <1>3, <2>6 DEF Share, p
<1>4. CASE ip \notin DOMAIN table
  <2>1. Untracked(ip, s, f, t)
    BY <1>4 DEF Share
  <2>2. L!Bytes(r, DayUpTo(ip, f, t)) <= IpBudget
    BY <1>1, <2>1, Limits DEF Untracked
  <2>3. \A i \in 1 .. Len(r) : r[i].by = ip /\ r[i].at > f => r[i].at < t
    BY <1>2, <2>1 DEF Untracked
  <2> QED
    BY <1>4, <2>2, <2>3 DEF Share, Untracked
<1> QED
  BY <1>3, <1>4

\* Once its period is over, an address has a clean day behind it.
LEMMA Over ==
  ASSUME NEW ip, NEW s \in Seq(Row), NEW f \in Nat, NEW t \in Nat, NEW p,
         Tracked(ip, s, f, t, p), p.start + Day <= t
  PROVE  Untracked(ip, s, f, t)
<1>1. /\ p.start \in Nat /\ p.bytes \in Nat /\ p.bytes <= IpBudget
      /\ L!Bytes(s, Since(ip, f, p.start)) <= p.bytes
      /\ \A i \in 1 .. Len(s) : s[i].by = ip /\ s[i].at > f => s[i].at < p.start + Day
  BY DEF Tracked
<1>2. \A i \in 1 .. Len(s) : s[i] \in Row /\ s[i].at \in Nat
  BY RowIs
<1>3. \A i \in 1 .. Len(s) : s[i] \in DayUpTo(ip, f, t) => s[i] \in Since(ip, f, p.start)
  BY <1>1, <1>2, Limits DEF DayUpTo, Since
<1>4. L!Bytes(s, DayUpTo(ip, f, t)) <= L!Bytes(s, Since(ip, f, p.start))
  BY <1>3, FewerStored
<1>5. L!Bytes(s, DayUpTo(ip, f, t)) <= IpBudget
  BY <1>1, <1>4, BytesAreNat, Limits
<1>6. \A i \in 1 .. Len(s) : s[i].by = ip /\ s[i].at > f => s[i].at < t
  BY <1>1, <1>2, Limits
<1> QED
  BY <1>5, <1>6 DEF Untracked

\* An address is dropped from the table: if its period was running, all its rows are history.
LEMMA ShareDropped ==
  ASSUME NEW ip, NEW s \in Seq(Row), NEW f \in Nat, NEW t \in Nat, NEW table, Share(ip, s, f, t, table),
         \A i \in 1 .. Len(s) : s[i].at <= t,
         NEW g, g = IF ip \in DOMAIN table /\ table[ip].start + Day > t THEN t ELSE f
  PROVE  Untracked(ip, s, g, t)
<1>1. CASE ip \in DOMAIN table /\ table[ip].start + Day > t
  <2>1. \A i \in 1 .. Len(s) : s[i].at \in Nat /\ ~(s[i].at > t)
    BY RowIs
  <2>2. \A i \in 1 .. Len(s) : s[i] \notin DayUpTo(ip, t, t)
    BY <2>1 DEF DayUpTo
  <2>3. L!Bytes(s, DayUpTo(ip, t, t)) = 0
    BY <2>2, NoneStored
  <2> QED
    BY <1>1, <2>1, <2>3, Limits DEF Untracked
<1>2. CASE ip \in DOMAIN table /\ ~(table[ip].start + Day > t)
  <2>1. Tracked(ip, s, f, t, table[ip])
    BY <1>2 DEF Share
  <2>2. table[ip].start + Day <= t
    BY <1>2, <2>1, Limits DEF Tracked
  <2> QED
    BY <1>2, <2>1, <2>2, Over
<1>3. CASE ip \notin DOMAIN table
  BY <1>3 DEF Share
<1> QED
  BY <1>1, <1>2, <1>3

\* A period opens: nothing is charged to it, and nothing was stored in it.
LEMMA ShareOpened ==
  ASSUME NEW ip, NEW s \in Seq(Row), NEW f \in Nat, NEW t \in Nat, Untracked(ip, s, f, t)
  PROVE  Tracked(ip, s, f, t, [start |-> t, bytes |-> 0])
<1> DEFINE p == [start |-> t, bytes |-> 0]
<1>1. p \in [start : Nat, bytes : Nat] /\ p.start = t /\ p.bytes = 0
  OBVIOUS
<1> HIDE DEF p
<1>2. \A i \in 1 .. Len(s) : s[i].at \in Nat
  BY RowIs
<1>3. \A i \in 1 .. Len(s) : s[i] \notin Since(ip, f, t)
  BY <1>2 DEF Untracked, Since
<1>4. L!Bytes(s, Since(ip, f, t)) = 0
  BY <1>3, NoneStored
<1>5. \A i \in 1 .. Len(s) : s[i].by = ip /\ s[i].at > f => s[i].at < t + Day
  BY <1>2, Limits DEF Untracked
<1>6. Tracked(ip, s, f, t, p)
  BY <1>1, <1>4, <1>5, Limits DEF Tracked, Untracked
<1> QED
  BY <1>6 DEF p

\* A charge, with its row or without.
LEMMA ShareCharged ==
  ASSUME NEW ip \in Addresses, NEW s \in Seq(Row), NEW f \in Nat, NEW t \in Nat, NEW p,
         Tracked(ip, s, f, t, p), p.start + Day > t,
         NEW n \in Nat, p.bytes + n <= IpBudget,
         NEW q, q = [p EXCEPT !.bytes = @ + n],
         NEW r, r = s \/ r = Append(s, [by |-> ip, at |-> t, bytes |-> n])
  PROVE  Tracked(ip, r, f, t, q)
<1>1. /\ p \in [start : Nat, bytes : Nat] /\ p.start <= t
      /\ L!Bytes(s, Since(ip, f, p.start)) <= p.bytes
      /\ L!Bytes(s, DayUpTo(ip, f, p.start)) <= IpBudget
      /\ \A i \in 1 .. Len(s) : s[i].by = ip /\ s[i].at > f => s[i].at < p.start + Day
  BY DEF Tracked
<1>2. /\ q \in [start : Nat, bytes : Nat] /\ q.start = p.start /\ q.bytes = p.bytes + n
      /\ p.start \in Nat /\ p.bytes \in Nat
  BY <1>1
<1>3. L!Bytes(s, Since(ip, f, p.start)) \in Nat /\ L!Bytes(s, DayUpTo(ip, f, p.start)) \in Nat
  BY BytesAreNat
<1>4. CASE r = s
  <2>1. L!Bytes(s, Since(ip, f, p.start)) <= p.bytes + n
    BY <1>1, <1>2, <1>3
  <2> QED
    BY <1>1, <1>2, <1>4, <2>1 DEF Tracked
<1>5. CASE r = Append(s, [by |-> ip, at |-> t, bytes |-> n])
  <2> DEFINE new == [by |-> ip, at |-> t, bytes |-> n]
  <2>1. new \in Row /\ new.bytes = n /\ new.at = t
    BY DEF Row
  <2>2. r = Append(s, new)
    BY <1>5
  <2> HIDE DEF new
  <2>3. new \notin DayUpTo(ip, f, p.start)
    BY <1>1, <1>2, <2>1 DEF DayUpTo
  <2>4. L!Bytes(r, Since(ip, f, p.start)) = L!Bytes(s, Since(ip, f, p.start))
                                            + (IF new \in Since(ip, f, p.start) THEN n ELSE 0)
    BY <2>1, <2>2, RowStored
  <2>5. L!Bytes(r, Since(ip, f, p.start)) <= p.bytes + n
    BY <1>1, <1>2, <1>3, <2>4
  <2>6. L!Bytes(r, DayUpTo(ip, f, p.start)) <= IpBudget
    BY <1>1, <1>3, <2>1, <2>2, <2>3, RowStored
  <2>7. ASSUME NEW i \in 1 .. Len(r), r[i].by = ip, r[i].at > f PROVE r[i].at < p.start + Day
    <3>1. Len(s) \in Nat /\ Len(r) = Len(s) + 1
      BY <2>2
    <3>2. CASE i = Len(s) + 1
      <4>1. r[i] = new
        BY <2>2, <3>1, <3>2
      <4> QED
        BY <1>2, <2>1, <4>1, Limits
    <3>3. CASE i \in 1 .. Len(s)
      <4>1. r[i] = s[i]
        BY <2>2, <3>3
      <4> QED
        BY <1>1, <2>7, <3>3, <4>1
    <3> QED
      BY <3>1, <3>2, <3>3
  <2> QED
    BY <1>1, <1>2, <2>5, <2>6, <2>7 DEF Tracked
<1> QED
  BY <1>4, <1>5

LEMMA AppendIs ==
  ASSUME NEW s \in Seq(Row), NEW new \in Row
  PROVE  /\ Append(s, new) \in Seq(Row) /\ Len(s) \in Nat /\ Len(Append(s, new)) = Len(s) + 1
         /\ \A i \in 1 .. Len(Append(s, new)) :
              Append(s, new)[i] = new \/ (i \in 1 .. Len(s) /\ Append(s, new)[i] = s[i])
<1> DEFINE r == Append(s, new)
           h == Len(s)
<1>1. h \in Nat /\ r \in Seq(Row) /\ Len(r) = h + 1 /\ r[h + 1] = new /\ \A i \in 1 .. h : r[i] = s[i]
  OBVIOUS
<1> HIDE DEF r, h
<1>2. ASSUME NEW i \in 1 .. Len(r) PROVE r[i] = new \/ (i \in 1 .. h /\ r[i] = s[i])
  <2>1. CASE i = h + 1
    BY <1>1, <2>1
  <2>2. CASE i # h + 1
    <3>1. i \in 1 .. h
      BY <1>1, <2>2
    <3> QED
      BY <1>1, <3>1
  <2> QED
    BY <2>1, <2>2
<1> QED
  BY <1>1, <1>2 DEF r, h

\* The row of another address.
LEMMA ShareOther ==
  ASSUME NEW ip, NEW s \in Seq(Row), NEW f, NEW t, NEW table, Share(ip, s, f, t, table),
         NEW new \in Row, new.by # ip
  PROVE  Share(ip, Append(s, new), f, t, table)
<1>1. ASSUME NEW I, new \notin I PROVE L!Bytes(Append(s, new), I) = L!Bytes(s, I)
  BY <1>1, RowStored, BytesAreNat
<1>2. \A u : new \notin Since(ip, f, u) /\ new \notin DayUpTo(ip, f, u)
  BY DEF Since, DayUpTo
<1>3. \A u : /\ L!Bytes(Append(s, new), Since(ip, f, u)) = L!Bytes(s, Since(ip, f, u))
             /\ L!Bytes(Append(s, new), DayUpTo(ip, f, u)) = L!Bytes(s, DayUpTo(ip, f, u))
  BY <1>1, <1>2
<1>4. \A i \in 1 .. Len(Append(s, new)) :
        Append(s, new)[i] = new \/ (i \in 1 .. Len(s) /\ Append(s, new)[i] = s[i])
  BY AppendIs
<1>5. ASSUME NEW b, \A i \in 1 .. Len(s) : s[i].by = ip /\ s[i].at > f => s[i].at < b
      PROVE  \A i \in 1 .. Len(Append(s, new)) :
               Append(s, new)[i].by = ip /\ Append(s, new)[i].at > f => Append(s, new)[i].at < b
  BY <1>4, <1>5
<1>6. CASE ip \in DOMAIN table
  <2>1. Tracked(ip, s, f, t, table[ip])
    BY <1>6 DEF Share
  <2>2. Tracked(ip, Append(s, new), f, t, table[ip])
    BY <1>3, <1>5, <2>1, Zenon DEF Tracked
  <2> QED
    BY <1>6, <2>2 DEF Share
<1>7. CASE ip \notin DOMAIN table
  <2>1. Untracked(ip, s, f, t)
    BY <1>7 DEF Share
  <2>2. Untracked(ip, Append(s, new), f, t)
    BY <1>3, <1>5, <2>1, Zenon DEF Untracked
  <2> QED
    BY <1>7, <2>2 DEF Share
<1> QED
  BY <1>6, <1>7

-----------------------------------------------------------------------------
(* The steps.                                                              *)

LEMMA LinksInit == L!Init => LinksInv
<1> SUFFICES ASSUME L!Init PROVE LinksInv
  OBVIOUS
<1>1. /\ now = Day /\ rows = <<>> /\ ipBytes = L!Nobody /\ due = 2 * Day /\ swept = FALSE
      /\ reading = [ip \in Addresses |-> 0] /\ forgot = [ip \in Addresses |-> 0]
  BY DEF L!Init
<1>2. rows \in Seq(Row) /\ Len(rows) = 0
  BY <1>1
<1>3. DOMAIN ipBytes = {}
  BY <1>1 DEF L!Nobody
<1>4. LinksTyped
  <2>1. now \in Nat /\ due \in Nat
    <3>1. 2 * Day \in Nat
      BY Limits
    <3> QED
      BY <1>1, <3>1, Limits
  <2>2. forgot \in [Addresses -> Nat] /\ reading \in [Addresses -> Nat]
    BY <1>1
  <2> QED
    <3>1. \A i \in 1 .. Len(rows) : rows[i].at <= now
      BY <1>2
    <3>2. swept \in BOOLEAN /\ DOMAIN ipBytes \subseteq Addresses
      BY <1>1, <1>3
    <3> QED
      BY <1>2, <2>1, <2>2, <3>1, <3>2 DEF LinksTyped
<1>5. \A i \in 1 .. Len(rows) : FALSE
  BY <1>2
<1>6. ASSUME NEW I PROVE L!Bytes(rows, I) = 0
  BY <1>2, <1>5, NoneStored
<1>7. SharesKept
  <2>1. ASSUME NEW ip \in Addresses PROVE Untracked(ip, rows, forgot[ip], now)
    BY <1>5, <1>6, Limits DEF Untracked
  <2> QED
    BY <1>3, <2>1 DEF SharesKept, Share
<1>8. DiskKept
  BY <1>1, <1>6, Limits DEF DiskKept
<1> QED
  BY <1>4, <1>7, <1>8 DEF LinksInv

LEMMA LinksPost ==
  ASSUME LinksInv, NEW ip \in Addresses, NEW n \in Sizes, L!Post(ip, n)
  PROVE  LinksInv'
<1>1. /\ UNCHANGED <<now, rows, ipBytes, due, swept, forgot>>
      /\ reading' = [reading EXCEPT ![ip] = n]
  BY DEF L!Post
<1>2. reading' \in [Addresses -> Nat]
  BY <1>1, Limits DEF LinksInv, LinksTyped
<1> QED
  BY <1>1, <1>2 DEF LinksInv, LinksTyped, SharesKept, DiskKept

LEMMA LinksTick ==
  ASSUME LinksInv, L!Tick
  PROVE  LinksInv'
<1>1. now < due /\ now' = now + 1 /\ UNCHANGED <<rows, ipBytes, buckets, reading, due, swept, forgot>>
  BY DEF L!Tick
<1>2. now \in Nat /\ due \in Nat /\ rows \in Seq(Row) /\ forgot \in [Addresses -> Nat]
  BY DEF LinksInv, LinksTyped
<1>3. \A i \in 1 .. Len(rows) : rows[i].at \in Nat
  BY <1>2, RowIs
<1>4. LinksTyped'
  BY <1>1, <1>2, <1>3 DEF LinksInv, LinksTyped
<1>5. SharesKept'
  <2> SUFFICES ASSUME NEW ip \in Addresses
               PROVE  Share(ip, rows, forgot[ip], now + 1, ipBytes)
    BY <1>1 DEF SharesKept
  <2> QED
    BY <1>2, ShareTicks DEF LinksInv, SharesKept
<1>6. DiskKept'
  <2>1. L!Bytes(rows, AliveAt(now + 1)) <= MaxTotal
    <3>1. \A i \in 1 .. Len(rows) : rows[i] \in AliveAt(now + 1) => rows[i] \in AliveAt(now)
      BY <1>2, <1>3, Limits DEF AliveAt
    <3>2. L!Bytes(rows, AliveAt(now + 1)) <= L!Bytes(rows, AliveAt(now))
      BY <1>2, <3>1, FewerStored
    <3> QED
      BY <1>2, <3>2, BytesAreNat, Limits DEF LinksInv, DiskKept
  <2>2. ASSUME swept PROVE now + 1 + Day >= due /\ now + 1 + Day # due
    BY <1>1, <1>2, <2>2, Limits DEF LinksInv, DiskKept
  <2>3. swept => L!Bytes(rows, UpTo(due)) <= MaxTotal
    BY DEF LinksInv, DiskKept
  <2> QED
    BY <1>1, <1>2, <2>1, <2>2, <2>3 DEF DiskKept
<1> QED
  BY <1>4, <1>5, <1>6 DEF LinksInv

LEMMA LinksPrune ==
  ASSUME LinksInv, L!Prune
  PROVE  LinksInv'
<1>1. /\ rows' = L!Kept(rows, L!Live) /\ due' = now + Day /\ swept' = TRUE
      /\ UNCHANGED <<now, ipBytes, buckets, reading, forgot>>
  BY DEF L!Prune
<1>2. now \in Nat /\ due \in Nat /\ rows \in Seq(Row) /\ forgot \in [Addresses -> Nat]
      /\ \A i \in 1 .. Len(rows) : rows[i].at <= now
  BY DEF LinksInv, LinksTyped
<1> DEFINE r == L!Kept(rows, L!Live)
<1>3. KeptRows(rows, L!Live, Len(rows), r) /\ \A I : L!Bytes(r, I) <= L!Bytes(rows, I)
  BY <1>2, Swept
<1>4. rows' = r
  BY <1>1
<1> HIDE DEF r
<1>5. /\ r \in Seq(Row)
      /\ \A i \in 1 .. Len(r) : r[i] \in L!Live /\ \E j \in 1 .. Len(rows) : rows[j] = r[i]
  BY <1>3 DEF KeptRows
<1>6. \A i \in 1 .. Len(r) : r[i].at + Ttl > now /\ r[i].at <= now /\ r[i] \in Row /\ r[i].at \in Nat
  <2>1. \A x \in L!Live : x.at + Ttl > now
    BY DEF L!Live, L!IsLive, L!Expires
  <2>2. \A i \in 1 .. Len(r) : r[i] \in Row /\ r[i].at \in Nat
    BY <1>5, RowIs
  <2> QED
    BY <1>2, <1>5, <2>1, <2>2
<1>7. LinksTyped'
  <2>1. now + Day \in Nat
    BY <1>2, Limits
  <2> QED
    BY <1>1, <1>4, <1>5, <1>6, <2>1 DEF LinksInv, LinksTyped
<1>8. SharesKept'
  <2> SUFFICES ASSUME NEW ip \in Addresses
               PROVE  Share(ip, r, forgot[ip], now, ipBytes)
    BY <1>1, <1>4 DEF SharesKept
  <2>1. Share(ip, rows, forgot[ip], now, ipBytes)
    BY DEF LinksInv, SharesKept
  <2> QED
    BY <1>2, <1>3, <1>5, <2>1, ShareShrinks
<1>9. DiskKept'
  <2>1. L!Bytes(r, AliveAt(now)) <= MaxTotal /\ L!Bytes(r, AliveAt(now)) \in Nat
    <3>1. L!Bytes(r, AliveAt(now)) <= L!Bytes(rows, AliveAt(now))
      BY <1>3
    <3> QED
      BY <1>2, <1>5, <3>1, BytesAreNat, Limits DEF LinksInv, DiskKept
  <2>2. \A i \in 1 .. Len(r) : r[i] \in UpTo(now + Day) => r[i] \in AliveAt(now)
    BY <1>6 DEF AliveAt
  <2>3. L!Bytes(r, UpTo(now + Day)) <= L!Bytes(r, AliveAt(now))
    BY <1>5, <2>2, FewerStored
  <2>4. L!Bytes(r, UpTo(now + Day)) <= MaxTotal
    BY <1>5, <2>1, <2>3, BytesAreNat, Limits
  <2> QED
    BY <1>1, <1>2, <1>4, <1>6, <2>1, <2>4, Limits DEF DiskKept
<1> QED
  BY <1>7, <1>8, <1>9 DEF LinksInv

\* What a table that changes leaves of a running period.
Forgot(ip, table) == IF L!Running(ip) /\ ip \notin DOMAIN table THEN now ELSE forgot[ip]

LEMMA LinksForget ==
  ASSUME LinksInv, NEW table, L!Forgets(table)
  PROVE  forgot' \in [Addresses -> Nat] /\ \A ip \in Addresses : forgot'[ip] = Forgot(ip, table)
<1>1. forgot' = [ip \in Addresses |-> Forgot(ip, table)]
  BY DEF L!Forgets, Forgot
<1>2. \A ip \in Addresses : Forgot(ip, table) \in Nat
  BY DEF LinksInv, LinksTyped, Forgot
<1> QED
  BY <1>1, <1>2

\* A new table: an address is in it as it was, or with a period that just opened, or is dropped.
LEMMA NewTable ==
  ASSUME LinksInv, NEW ip \in Addresses, NEW table,
         ip \in DOMAIN table => \/ ip \in DOMAIN ipBytes /\ table[ip] = ipBytes[ip]
                                \/ ~L!Running(ip) /\ table[ip] = L!Opened(ip)
  PROVE  Share(ip, rows, Forgot(ip, table), now, table)
<1>1. /\ now \in Nat /\ rows \in Seq(Row) /\ forgot[ip] \in Nat
      /\ \A i \in 1 .. Len(rows) : rows[i].at <= now
      /\ Share(ip, rows, forgot[ip], now, ipBytes)
  BY DEF LinksInv, LinksTyped, SharesKept
<1>2. CASE ip \in DOMAIN ipBytes /\ ip \in DOMAIN table /\ table[ip] = ipBytes[ip]
  BY <1>1, <1>2 DEF Share, Forgot
<1>3. CASE ip \in DOMAIN table /\ ~L!Running(ip) /\ table[ip] = L!Opened(ip)
  <2>1. Untracked(ip, rows, forgot[ip], now)
    <3>1. forgot[ip] = IF ip \in DOMAIN ipBytes /\ ipBytes[ip].start + Day > now THEN now ELSE forgot[ip]
      BY <1>3 DEF L!Running
    <3> QED
      BY <1>1, <3>1, ShareDropped
  <2>2. Tracked(ip, rows, forgot[ip], now, table[ip])
    BY <1>1, <1>3, <2>1, ShareOpened DEF L!Opened
  <2> QED
    BY <1>3, <2>2 DEF Share, Forgot
<1>4. CASE ip \notin DOMAIN table
  <2>1. Forgot(ip, table) = IF ip \in DOMAIN ipBytes /\ ipBytes[ip].start + Day > now THEN now ELSE forgot[ip]
    BY <1>4 DEF Forgot, L!Running
  <2>2. Untracked(ip, rows, Forgot(ip, table), now)
    BY <1>1, <2>1, ShareDropped
  <2> QED
    BY <1>4, <2>2 DEF Share
<1> QED
  BY <1>2, <1>3, <1>4

LEMMA LinksRestart ==
  ASSUME LinksInv, L!Restart
  PROVE  LinksInv'
<1>1. /\ ipBytes' = L!Nobody /\ L!Forgets(L!Nobody) /\ reading' = [ip \in Addresses |-> 0]
      /\ due' = now + Day /\ swept' = FALSE /\ UNCHANGED <<now, rows>>
  BY DEF L!Restart
<1>2. DOMAIN L!Nobody = {}
  BY DEF L!Nobody
<1>3. forgot' \in [Addresses -> Nat] /\ \A ip \in Addresses : forgot'[ip] = Forgot(ip, L!Nobody)
  BY <1>1, LinksForget
<1>4. now \in Nat /\ now + Day \in Nat /\ now <= now + Day
  BY Limits DEF LinksInv, LinksTyped
<1>5. LinksTyped'
  BY <1>1, <1>2, <1>3, <1>4 DEF LinksInv, LinksTyped
<1>6. SharesKept'
  <2> SUFFICES ASSUME NEW ip \in Addresses
               PROVE  Share(ip, rows, Forgot(ip, L!Nobody), now, L!Nobody)
    BY <1>1, <1>3 DEF SharesKept
  <2> QED
    BY <1>2, NewTable
<1>7. DiskKept'
  BY <1>1, <1>4 DEF LinksInv, DiskKept
<1> QED
  BY <1>5, <1>6, <1>7 DEF LinksInv

\* The table that chargeIp leaves: the address has a running period in it.
LEMMA PeriodsAre ==
  ASSUME LinksInv, NEW ip \in Addresses
  PROVE  /\ DOMAIN L!Periods(ip) \subseteq Addresses
         /\ ip \in DOMAIN L!Periods(ip)
         /\ L!Periods(ip)[ip].start + Day > now
         /\ \A a \in DOMAIN L!Periods(ip) :
              \/ a \in DOMAIN ipBytes /\ L!Periods(ip)[a] = ipBytes[a]
              \/ ~L!Running(a) /\ L!Periods(ip)[a] = L!Opened(a)
<1>1. now \in Nat /\ DOMAIN ipBytes \subseteq Addresses
  BY DEF LinksInv, LinksTyped
<1>2. CASE L!Running(ip)
  <2>1. L!Periods(ip) = ipBytes /\ ip \in DOMAIN ipBytes /\ ipBytes[ip].start + Day > now
    BY <1>2 DEF L!Periods, L!Running
  <2> QED
    BY <1>1, <2>1
<1>3. CASE ~L!Running(ip)
  <2> DEFINE room == L!Roomy
             table == [a \in {ip} \cup DOMAIN room |-> IF a = ip THEN L!Opened(ip) ELSE room[a]]
  <2>1. L!Periods(ip) = table
    BY <1>3 DEF L!Periods
  <2>2. DOMAIN room \subseteq DOMAIN ipBytes /\ \A a \in DOMAIN room : room[a] = ipBytes[a]
    BY DEF L!Roomy, L!Only, L!Nobody
  <2> HIDE DEF room
  <2>3. DOMAIN table = {ip} \cup DOMAIN room /\ table[ip] = L!Opened(ip)
        /\ \A a \in DOMAIN room : a # ip => table[a] = room[a]
    OBVIOUS
  <2> HIDE DEF table
  <2>4. L!Opened(ip).start + Day > now
    BY <1>1, Limits DEF L!Opened
  <2> QED
    BY <1>1, <1>3, <2>1, <2>2, <2>3, <2>4
<1> QED
  BY <1>2, <1>3

LEMMA LiveIsAlive ==
  ASSUME LinksInv
  PROVE  L!LiveBytes = L!Bytes(rows, AliveAt(now))
<1>1. rows \in Seq(Row) /\ \A i \in 1 .. Len(rows) : rows[i] \in Row
  BY DEF LinksInv, LinksTyped
<1>2. \A i \in 1 .. Len(rows) : rows[i] \in L!Live <=> rows[i] \in AliveAt(now)
  BY <1>1 DEF L!Live, L!IsLive, L!Expires, AliveAt, L!ToSet
<1>3. L!Bytes(rows, L!Live) <= L!Bytes(rows, AliveAt(now)) /\ L!Bytes(rows, AliveAt(now)) <= L!Bytes(rows, L!Live)
  BY <1>1, <1>2, FewerStored
<1> QED
  BY <1>1, <1>3, BytesAreNat DEF L!LiveBytes

\* A row that fits the cap.
LEMMA DiskAppended ==
  ASSUME LinksInv, NEW new \in Row, new.at = now, L!LiveBytes + new.bytes <= MaxTotal,
         rows' = Append(rows, new), UNCHANGED <<now, due, swept>>
  PROVE  DiskKept'
<1> DEFINE r == Append(rows, new)
<1>1. /\ rows \in Seq(Row) /\ now \in Nat /\ due \in Nat /\ new.bytes \in Nat /\ Len(rows) \in Nat
      /\ now <= due
  BY DEF LinksInv, LinksTyped, DiskKept, Row
<1>2. r \in Seq(Row) /\ \A i \in 1 .. Len(r) : r[i] = new \/ (i \in 1 .. Len(rows) /\ r[i] = rows[i])
  BY <1>1, AppendIs
<1>3. rows' = r
  OBVIOUS
<1>4. \A I : L!Bytes(r, I) = L!Bytes(rows, I) + (IF new \in I THEN new.bytes ELSE 0)
  BY <1>1, RowStored
<1> HIDE DEF r
<1>5. L!Bytes(r, AliveAt(now)) <= MaxTotal
  <2>1. new \in AliveAt(now)
    BY <1>1, Limits DEF AliveAt
  <2> QED
    BY <1>4, <2>1, LiveIsAlive
<1>6. ASSUME swept
      PROVE  /\ L!Bytes(r, UpTo(due)) <= MaxTotal
             /\ now + Day = due => \A i \in 1 .. Len(r) : r[i].at + Ttl > now
  <2>1. now + Day >= due /\ L!Bytes(rows, UpTo(due)) <= MaxTotal
        /\ (now + Day = due => \A i \in 1 .. Len(rows) : rows[i].at + Ttl > now)
    BY <1>6 DEF LinksInv, DiskKept
  <2>2. CASE now + Day = due
    <3>1. \A i \in 1 .. Len(r) : r[i].at + Ttl > now /\ r[i] \in Row
      <4>1. new.at + Ttl > now
        BY <1>1, Limits
      <4>2. \A i \in 1 .. Len(rows) : rows[i] \in Row
        BY <1>1
      <4> QED
        BY <1>2, <2>1, <2>2, <4>1, <4>2
    <3>2. \A i \in 1 .. Len(r) : r[i] \in UpTo(due) => r[i] \in AliveAt(now)
      BY <3>1 DEF AliveAt
    <3>3. L!Bytes(r, UpTo(due)) <= L!Bytes(r, AliveAt(now))
      BY <1>2, <3>2, FewerStored
    <3>4. L!Bytes(r, UpTo(due)) \in Nat /\ L!Bytes(r, AliveAt(now)) \in Nat
      BY <1>2, BytesAreNat
    <3>5. L!Bytes(r, UpTo(due)) <= MaxTotal
      BY <1>5, <3>3, <3>4, Limits
    <3> QED
      BY <3>1, <3>5
  <2>3. CASE now + Day # due
    <3>1. new \notin UpTo(due)
      <4> DEFINE next == now + Day
      <4>1. next \in Nat /\ next >= due /\ next # due
        BY <1>1, <2>1, <2>3, Limits
      <4> HIDE DEF next
      <4>2. ~(next <= due)
        BY <1>1, <4>1
      <4>3. new.at + Day = next
        BY DEF next
      <4> QED
        BY <4>2, <4>3 DEF UpTo
    <3> QED
      BY <1>1, <1>4, <2>1, <2>3, <3>1, BytesAreNat
  <2> QED
    BY <2>2, <2>3
<1> QED
  BY <1>1, <1>3, <1>5, <1>6 DEF LinksInv, DiskKept

LEMMA LinksCreate ==
  ASSUME LinksInv, NEW ip \in Addresses, L!Create(ip)
  PROVE  LinksInv'
<1> DEFINE n == reading[ip]
           table == L!Periods(ip)
           new == [by |-> ip, at |-> now, bytes |-> n]
           charged == [table EXCEPT ![ip].bytes = @ + n]
<1>1. /\ reading' = [reading EXCEPT ![ip] = 0] /\ UNCHANGED <<now, buckets, due, swept>>
      /\ IF L!Full(n) THEN UNCHANGED <<rows, ipBytes, forgot>>
         ELSE /\ L!Forgets(table)
              /\ IF ~L!Fits(ip, n) THEN ipBytes' = table /\ UNCHANGED rows
                 ELSE /\ ipBytes' = charged
                      /\ rows' = Append(rows, new) \/ UNCHANGED rows
  BY DEF L!Create
<1>2. /\ now \in Nat /\ rows \in Seq(Row) /\ reading \in [Addresses -> Nat]
      /\ forgot \in [Addresses -> Nat] /\ n \in Nat
      /\ \A i \in 1 .. Len(rows) : rows[i].at <= now
  BY DEF LinksInv, LinksTyped
<1>3. reading' \in [Addresses -> Nat]
  BY <1>1, <1>2
<1>4. new \in Row /\ new.by = ip /\ new.at = now /\ new.bytes = n
  BY <1>2 DEF Row
<1>5. /\ DOMAIN table \subseteq Addresses /\ ip \in DOMAIN table
      /\ table[ip].start + Day > now
      /\ \A a \in DOMAIN table : \/ a \in DOMAIN ipBytes /\ table[a] = ipBytes[a]
                                 \/ ~L!Running(a) /\ table[a] = L!Opened(a)
  BY PeriodsAre
<1>6. L!Fits(ip, n) => table[ip].bytes + n <= IpBudget
  BY DEF L!Fits
<1>7. ~L!Full(n) => L!LiveBytes + n <= MaxTotal
  <2>1. L!LiveBytes \in Nat
    BY <1>2, LiveIsAlive, BytesAreNat
  <2> QED
    BY <1>2, <2>1, Limits DEF L!Full
<1> HIDE DEF n, table, new
<1>8. CASE L!Full(n)
  BY <1>1, <1>3, <1>8 DEF LinksInv, LinksTyped, SharesKept, DiskKept
<1>9. CASE ~L!Full(n)
  <2>1. forgot' \in [Addresses -> Nat] /\ \A a \in Addresses : forgot'[a] = Forgot(a, table)
    BY <1>1, <1>9, LinksForget
  <2>2. \A a \in Addresses : Share(a, rows, forgot'[a], now, table)
    BY <1>5, <2>1, NewTable
  <2>3. CASE ~L!Fits(ip, n)
    <3>1. ipBytes' = table /\ rows' = rows
      BY <1>1, <1>9, <2>3
    <3> QED
      BY <1>1, <1>3, <1>5, <2>1, <2>2, <3>1 DEF LinksInv, LinksTyped, SharesKept, DiskKept
  <2>4. CASE L!Fits(ip, n)
    <3>1. ipBytes' = charged /\ (rows' = Append(rows, new) \/ rows' = rows)
      BY <1>1, <1>9, <2>4
    <3>2. /\ DOMAIN charged = DOMAIN table
          /\ charged[ip] = [table[ip] EXCEPT !.bytes = @ + n]
          /\ \A a \in DOMAIN table : a # ip => charged[a] = table[a]
      BY <1>5
    <3> HIDE DEF charged
    <3>3. ASSUME NEW a \in Addresses PROVE Share(a, rows', forgot'[a], now, charged)
      <4>1. CASE a = ip
        <5>1. Tracked(ip, rows, forgot'[ip], now, table[ip])
          BY <1>5, <2>2 DEF Share
        <5>2. Tracked(ip, rows', forgot'[ip], now, charged[ip])
          <6>1. forgot'[ip] \in Nat
            BY <2>1
          <6>2. rows' = rows \/ rows' = Append(rows, [by |-> ip, at |-> now, bytes |-> n])
            BY <3>1 DEF new
          <6>3. table[ip].bytes + n <= IpBudget
            BY <1>6, <2>4
          <6> DEFINE f == forgot'[ip]
                     p == table[ip]
                     q == charged[ip]
          <6>4. /\ f \in Nat /\ Tracked(ip, rows, f, now, p) /\ p.start + Day > now
                /\ p.bytes + n <= IpBudget /\ q = [p EXCEPT !.bytes = @ + n]
            BY <1>5, <3>2, <5>1, <6>1, <6>3
          <6> HIDE DEF f, p, q
          <6>5. Tracked(ip, rows', f, now, q)
            BY <1>2, <6>2, <6>4, ShareCharged
          <6> QED
            BY <6>5 DEF f, q
        <5> QED
          BY <1>5, <3>2, <4>1, <5>2 DEF Share
      <4>2. CASE a # ip
        <5>1. Share(a, rows, forgot'[a], now, charged)
          BY <2>2, <3>2, <4>2 DEF Share
        <5>2. CASE rows' = rows
          BY <5>1, <5>2
        <5>3. CASE rows' = Append(rows, new)
          BY <1>2, <1>4, <4>2, <5>1, <5>3, ShareOther
        <5> QED
          BY <3>1, <5>2, <5>3
      <4> QED
        BY <4>1, <4>2
    <3>4. SharesKept'
      BY <1>1, <3>1, <3>3 DEF SharesKept
    <3>5. LinksTyped'
      <4>1. rows' \in Seq(Row) /\ \A i \in 1 .. Len(rows') : rows'[i].at <= now
        <5>1. CASE rows' = rows
          BY <1>2, <5>1
        <5>2. CASE rows' = Append(rows, new)
          <6>1. /\ rows' \in Seq(Row)
                /\ \A i \in 1 .. Len(rows') : rows'[i] = new \/ (i \in 1 .. Len(rows) /\ rows'[i] = rows[i])
            BY <1>2, <1>4, <5>2, AppendIs
          <6>2. new.at <= now
            BY <1>2, <1>4
          <6> QED
            BY <1>2, <6>1, <6>2
        <5> QED
          BY <3>1, <5>1, <5>2
      <4> QED
        BY <1>1, <1>3, <1>5, <2>1, <3>1, <3>2, <4>1 DEF LinksInv, LinksTyped
    <3>6. DiskKept'
      <4>1. CASE rows' = rows
        BY <1>1, <4>1 DEF LinksInv, DiskKept
      <4>2. CASE rows' = Append(rows, new)
        BY <1>1, <1>4, <1>7, <1>9, <4>2, DiskAppended
      <4> QED
        BY <3>1, <4>1, <4>2
    <3> QED
      BY <3>4, <3>5, <3>6 DEF LinksInv
  <2> QED
    BY <2>3, <2>4
<1> QED
  BY <1>8, <1>9

LinksHold == service = "links" => LinksInv

LEMMA LinksStep ==
  ASSUME LinksHold, [ServicesNext]_<<service, editorial, links, preview>>
  PROVE  LinksHold'
<1> SUFFICES ASSUME service' = "links" PROVE LinksInv'
  BY DEF LinksHold
<1>1. CASE Shares
  <2>1. LinksInv /\ L!Next
    BY <1>1 DEF Shares, LinksHold
  <2> QED
    BY <2>1, LinksPost, LinksCreate, LinksPrune, LinksRestart, LinksTick DEF L!Next
<1>2. CASE \/ Edits \/ Previews \/ UNCHANGED <<service, editorial, links, preview>>
  <2>1. LinksInv /\ UNCHANGED <<now, rows, ipBytes, buckets, reading, due, swept, forgot>>
    BY <1>2 DEF Edits, Previews, links, LinksHold
  <2> QED
    BY <2>1 DEF LinksInv, LinksTyped, SharesKept, DiskKept
<1> QED
  BY <1>1, <1>2 DEF ServicesNext

\* A day is split where the period of the address began; the table, at the last sweep.
LEMMA LinksCeilings ==
  ASSUME LinksInv
  PROVE  L!CeilingsHold
<1>1. /\ now \in Nat /\ due \in Nat /\ rows \in Seq(Row) /\ forgot \in [Addresses -> Nat]
  BY DEF LinksInv, LinksTyped
<1>2. \A i \in 1 .. Len(rows) : rows[i] \in Row /\ rows[i].at \in Nat
  BY <1>1, RowIs
<1>3. L!FairShare
  <2> SUFFICES ASSUME NEW ip \in Addresses, forgot[ip] + Day <= now
               PROVE  L!StoredToday(ip) <= 2 * IpBudget
    BY <1>1, Limits DEF L!FairShare
  <2> DEFINE f == forgot[ip]
             today == {r \in L!ToSet(rows) : r.by = ip /\ r.at + Day > now}
  <2>1. L!StoredToday(ip) = L!Bytes(rows, today)
    BY DEF L!StoredToday
  <2>2. \A i \in 1 .. Len(rows) : rows[i] \in today => rows[i].by = ip /\ rows[i].at + Day > now /\ rows[i].at > f
    BY <1>1, <1>2, Limits
  <2>3. Share(ip, rows, f, now, ipBytes) /\ f \in Nat
    BY <1>1 DEF LinksInv, SharesKept
  <2> HIDE DEF today, f
  <2>4. L!Bytes(rows, today) \in Nat
    BY <1>1, BytesAreNat
  <2>5. CASE ip \in DOMAIN ipBytes
    <3> DEFINE p == ipBytes[ip]
    <3>1. /\ p.start \in Nat /\ p.bytes \in Nat /\ p.start <= now /\ p.bytes <= IpBudget
          /\ L!Bytes(rows, Since(ip, f, p.start)) <= p.bytes
          /\ L!Bytes(rows, DayUpTo(ip, f, p.start)) <= IpBudget
      BY <2>3, <2>5 DEF Share, Tracked
    <3> HIDE DEF p
    <3>2. \A i \in 1 .. Len(rows) :
            rows[i] \in today => rows[i] \in Since(ip, f, p.start) \/ rows[i] \in DayUpTo(ip, f, p.start)
      BY <1>1, <1>2, <2>2, <3>1, Limits DEF Since, DayUpTo
    <3>3. L!Bytes(rows, today) <= L!Bytes(rows, Since(ip, f, p.start)) + L!Bytes(rows, DayUpTo(ip, f, p.start))
      BY <1>1, <3>2, Covered
    <3>4. L!Bytes(rows, Since(ip, f, p.start)) \in Nat /\ L!Bytes(rows, DayUpTo(ip, f, p.start)) \in Nat
      BY <1>1, BytesAreNat
    <3> QED
      BY <2>1, <2>4, <3>1, <3>3, <3>4, Limits
  <2>6. CASE ip \notin DOMAIN ipBytes
    <3>1. /\ L!Bytes(rows, DayUpTo(ip, f, now)) <= IpBudget
          /\ \A i \in 1 .. Len(rows) : rows[i].by = ip /\ rows[i].at > f => rows[i].at < now
      BY <2>3, <2>6 DEF Share, Untracked
    <3>2. \A i \in 1 .. Len(rows) : rows[i] \in today => rows[i] \in DayUpTo(ip, f, now)
      BY <1>2, <2>2, <3>1 DEF DayUpTo
    <3>3. L!Bytes(rows, today) <= L!Bytes(rows, DayUpTo(ip, f, now))
      BY <1>1, <3>2, FewerStored
    <3> QED
      BY <1>1, <2>1, <2>4, <3>1, <3>3, BytesAreNat, Limits
  <2> QED
    BY <2>5, <2>6
<1>4. L!DiskBounded
  <2> SUFFICES ASSUME swept PROVE L!Bytes(rows, L!ToSet(rows)) <= 2 * MaxTotal
    BY DEF L!DiskBounded
  <2>1. now <= due /\ L!Bytes(rows, UpTo(due)) <= MaxTotal /\ L!Bytes(rows, AliveAt(now)) <= MaxTotal
    BY DEF LinksInv, DiskKept
  <2>2. \A i \in 1 .. Len(rows) : rows[i] \in UpTo(due) \/ rows[i] \in AliveAt(now)
    BY <1>1, <1>2, <2>1, Limits DEF UpTo, AliveAt
  <2>3. L!Bytes(rows, L!ToSet(rows)) <= L!Bytes(rows, UpTo(due)) + L!Bytes(rows, AliveAt(now))
    BY <1>1, <2>2, Covered
  <2>4. /\ L!Bytes(rows, UpTo(due)) \in Nat /\ L!Bytes(rows, AliveAt(now)) \in Nat
        /\ L!Bytes(rows, L!ToSet(rows)) \in Nat
    BY <1>1, BytesAreNat
  <2> QED
    BY <2>1, <2>3, <2>4, Limits
<1> QED
  BY <1>3, <1>4 DEF L!CeilingsHold

\* Whoever posts what and however often the process dies, and for any sizes, limits
\* and number of addresses: no address stores more than two budgets in a day in which
\* its period was not forgotten, and the table never holds more than twice the cap once
\* the process has swept (modules/gists/handler.js, Gists in db.js).
THEOREM CeilingsTheorem == ServicesSpec => []CeilingsHold
<1>1. ServicesInit => LinksHold
  BY LinksInit DEF ServicesInit, LinksHold
<1>2. LinksHold /\ [ServicesNext]_<<service, editorial, links, preview>> => LinksHold'
  BY LinksStep
<1>3. LinksHold => CeilingsHold
  BY LinksCeilings DEF LinksHold, CeilingsHold
<1> QED
  BY <1>1, <1>2, <1>3, PTL DEF ServicesSpec

==============================================================================
