--------------------------- MODULE ConcurrencyGate ---------------------------
(***************************************************************************)
(* The gate in front of the local model (lib/concurrency-gate.js) and the  *)
(* labelling route that goes through it (modules/ai-label/handler.js): at  *)
(* most MaxActive calls run, at most MaxQueue more wait their turn, each   *)
(* until a timer; a client may leave at any time.                          *)
(*                                                                         *)
(* One step is the code between two awaits: exec only takes the slot, the  *)
(* call itself starts in a later microtask, and the slot is released in    *)
(* one more.  A timer that is due fires at any moment of the wait; the     *)
(* health check and the model call end by their own abort timers.          *)
(***************************************************************************)
EXTENDS Naturals, FiniteSets, Sequences

CONSTANTS Calls, MaxActive, MaxQueue

ASSUME CallsAssumption == IsFiniteSet(Calls)
ASSUME LimitsAssumption == MaxActive \in Nat \ {0} /\ MaxQueue \in Nat

VARIABLES
  active,   \* calls holding a slot, as the gate counts them
  waiting,  \* the queue of entries
  at,       \* where the handler of a call is
  gone,     \* calls whose client has disconnected
  answer    \* what the client was sent

vars == <<active, waiting, at, gone, answer>>

Places  == {"away", "checking", "waiting", "admitted", "calling", "settled"}
Answers == {"none", "reply", "failed", "busy", "unavailable"}
Holders == {c \in Calls : at[c] \in {"admitted", "calling", "settled"}}

Move(c, place) == at' = [at EXCEPT ![c] = place]

\* sendJson or sendError; nobody reads it once the client has gone.
Answer(c, a) ==
  /\ Move(c, "away")
  /\ answer' = [answer EXCEPT ![c] = a]

-----------------------------------------------------------------------------
\* handleSuggest up to verifyPersona, for a signal no rule resolves.
Ask(c) ==
  /\ at[c] = "away"
  /\ Move(c, "checking")
  /\ gone' = gone \ {c}
  /\ answer' = [answer EXCEPT ![c] = "none"]
  /\ UNCHANGED <<active, waiting>>

\* The response closes before it was ended.
Leave(c) ==
  /\ at[c] # "away" /\ c \notin gone
  /\ gone' = gone \cup {c}
  /\ UNCHANGED <<active, waiting, at, answer>>

\* The model is unreachable, or the client left meanwhile.
Refuse(c) ==
  /\ at[c] = "checking"
  /\ Answer(c, IF c \in gone THEN "none" ELSE "unavailable")
  /\ UNCHANGED <<active, waiting, gone>>

QueueFull == Len(waiting) >= MaxQueue

\* gate.run: take a slot, wait for one, or be refused at once.
Enter(c) ==
  /\ at[c] = "checking" /\ c \notin gone
  /\ \/ /\ active < MaxActive
        /\ active' = active + 1
        /\ Move(c, "admitted")
        /\ UNCHANGED <<waiting, answer>>
     \/ /\ active >= MaxActive /\ QueueFull
        /\ Answer(c, "busy")
        /\ UNCHANGED <<active, waiting>>
     \/ /\ active >= MaxActive /\ ~QueueFull
        /\ waiting' = Append(waiting, c)
        /\ Move(c, "waiting")
        /\ UNCHANGED <<active, answer>>
  /\ UNCHANGED gone

\* The function given to the gate; it throws for a client that left.
Begin(c) ==
  /\ at[c] = "admitted"
  /\ Move(c, IF c \in gone THEN "settled" ELSE "calling")
  /\ UNCHANGED <<active, waiting, gone, answer>>

\* ollama.classifySignal resolved, rejected or was aborted.
Settle(c) ==
  /\ at[c] = "calling"
  /\ Move(c, "settled")
  /\ UNCHANGED <<active, waiting, gone, answer>>

\* release, in the promise's finally whatever became of the call, then the
\* rest of the handler: the slot goes straight to the longest waiting entry.
DropTurn(c, a) ==
  /\ active' = active - 1
  /\ Answer(c, a)
  /\ UNCHANGED waiting

LastIn(c, a) ==
  IF waiting = <<>>
    THEN DropTurn(c, a)
    ELSE /\ waiting' = SubSeq(waiting, 1, Len(waiting) - 1)
         /\ at' = [at EXCEPT ![c] = "away", ![waiting[Len(waiting)]] = "admitted"]
         /\ answer' = [answer EXCEPT ![c] = a]
         /\ UNCHANGED active

Release(c, a) ==
  IF waiting = <<>>
    THEN /\ active' = active - 1
         /\ Answer(c, a)
         /\ UNCHANGED waiting
    ELSE /\ waiting' = Tail(waiting)
         /\ at' = [at EXCEPT ![c] = "away", ![Head(waiting)] = "admitted"]
         /\ answer' = [answer EXCEPT ![c] = a]
         /\ UNCHANGED active

Finish(c) ==
  /\ at[c] = "settled"
  /\ IF c \in gone THEN Release(c, "none")
     ELSE \E a \in {"reply", "failed"} : Release(c, a)
  /\ UNCHANGED gone

\* The timer of an entry still queued: out of the queue, and told so.
SpliceOnly(c, i) ==
  /\ waiting' = SubSeq(waiting, 1, i - 1) \o SubSeq(waiting, i + 1, Len(waiting))
  /\ UNCHANGED <<at, answer>>

Cancel(c, i) ==
  /\ waiting' = SubSeq(waiting, 1, i - 1) \o SubSeq(waiting, i + 1, Len(waiting))
  /\ Answer(c, "busy")

WaitTimeout(c) ==
  /\ \E i \in DOMAIN waiting : waiting[i] = c /\ Cancel(c, i)
  /\ UNCHANGED <<active, gone>>

-----------------------------------------------------------------------------
Init ==
  /\ active = 0 /\ waiting = <<>>
  /\ at = [c \in Calls |-> "away"]
  /\ gone = {}
  /\ answer = [c \in Calls |-> "none"]

Progress(c) == Refuse(c) \/ Enter(c) \/ Begin(c) \/ Settle(c) \/ Finish(c) \/ WaitTimeout(c)

Next == \E c \in Calls : Ask(c) \/ Leave(c) \/ Progress(c)

Spec == Init /\ [][Next]_vars

\* Every await ends: the health check and the call by their abort timers, the
\* wait by its own; microtasks run before anything else.
FairSpec == Spec /\ \A c \in Calls : WF_vars(Progress(c))

-----------------------------------------------------------------------------
\* Types; the queue is bounded and each entry is in it once.
TypeOK ==
  /\ active \in Nat /\ waiting \in Seq(Calls) /\ Len(waiting) =< MaxQueue
  /\ at \in [Calls -> Places] /\ gone \subseteq Calls
  /\ answer \in [Calls -> Answers]

\* The gate's count is the number of calls that hold a slot: none is leaked by
\* a failing call, a client that left or a waiter that timed out (release is in
\* finally), so the model never sees more than MaxActive calls at once.
SlotsAccounted == active = Cardinality(Holders) /\ active =< MaxActive

\* The queue holds exactly the calls that wait, once each, and nobody waits
\* beside a free slot: a release hands its slot on, and a timer that raced it
\* finds its entry gone (createGate release and run).
QueueHonest ==
  /\ \A i, j \in DOMAIN waiting : waiting[i] = waiting[j] => i = j
  /\ {waiting[i] : i \in DOMAIN waiting} = {c \in Calls : at[c] = "waiting"}
  /\ waiting # <<>> => active = MaxActive

\* Turns go by arrival: a newcomer never takes a slot past somebody who waits,
\* and of those who wait the first gets it.
NoOvertaking ==
  [][\A c \in Calls : at[c] # "admitted" /\ at'[c] = "admitted" =>
       IF at[c] = "waiting" THEN c = Head(waiting) ELSE waiting = <<>>]_vars

\* Every request ends, and a client that stayed has its answer by then.
EveryCallAnswered ==
  \A c \in Calls :
    at[c] = "checking" ~> at[c] = "away" /\ (c \in gone \/ answer[c] # "none")
=============================================================================
