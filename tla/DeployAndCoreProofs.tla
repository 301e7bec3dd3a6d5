------------------------ MODULE DeployAndCoreProofs ------------------------
(***************************************************************************)
(* Proofs about Deploy, for any number of builds and of script             *)
(* invocations, and about the parts of MCCore, for any jobs and any texts. *)
(*                                                                         *)
(* Deploy.  While one script acts at a time the status is in flight, the   *)
(* container is the one that script made, and what it has pinned and armed *)
(* so far still stands; so a settled status, written last, finds all three *)
(* as it says.  mixed is the one exemption.                                *)
(*                                                                         *)
(* The validator.  What was raised for a pane is in hand or in the pane's  *)
(* result, filtered by what the user asked for, each finding once and in   *)
(* order (VInv).  The lemmas on Listing say what sorting a set and         *)
(* filtering a sequence return; they carry the argument.                   *)
(*                                                                         *)
(* The mirror.  A generated document answers the one it was made of, and   *)
(* that one, from the second press on, an earlier one (MInv): so it is     *)
(* enough to prove what a response written for a request, and a request    *)
(* written for a response, look like, that each fits the other direction,  *)
(* and that a pair of which one answers the other is clean.                *)
(*                                                                         *)
(* The migration.  No invariant is needed: an Apply asks the advisor       *)
(* again.  A promotion's target is no source and no other one's target,    *)
(* and a removal is only ever proposed together with the addition it       *)
(* counts on, or where the value is in its place already.                  *)
(***************************************************************************)
EXTENDS Deploy, MCCore, Listing, FiniteSetTheorems, SequenceTheorems, Integers, TLAPS

-----------------------------------------------------------------------------
(* Deploy and rollback.                                                    *)

Invocation == [at : Stages, phase : {"deploy", "auto", "manual"}, image : Images \cup {None},
               prev : Images \cup {None}, done : SUBSET Acts]

Holds(s) == script[s].at \in {"checked", "captured"} \/ Acting(s)

HasImage == \A s \in Scripts : Holds(s) => script[s].image \in Images

\* What a script is about to pin has passed the smoke test.
PassedFirst == \A s \in Scripts : script[s].at = "smoked" => script[s].image \in verified

OneActs == ~mixed => \A s, o \in Scripts : Acting(s) /\ Acting(o) => s = o

\* The world is as the acting script left it.
Undisturbed ==
  ~mixed => \A s \in Scripts : Acting(s) =>
    /\ state.status \in Inflight
    /\ script[s].at \in {"up", "ready", "smoked"} => box.image = script[s].image
    /\ script[s].at = "smoked" /\ "pin" \in script[s].done => env = script[s].image
    /\ script[s].at = "smoked" /\ "arm" \in script[s].done => box.policy = "always"

\* Nothing is pinned or armed before the smoke test has passed.
DoneLate == \A s \in Scripts : script[s].at \notin {"smoked", "over"} => script[s].done = {}

Inv ==
  /\ TypeOK /\ HasImage /\ DoneLate
  /\ PassedFirst /\ EnvIsVerified /\ BootServesVerified
  /\ OneActs /\ Undisturbed /\ StateTellsTruth

USE NoneAssumption

-----------------------------------------------------------------------------
\* A checkout that deploys for the first time.
LEMMA InitInv == Init => Inv
<1> SUFFICES ASSUME Init PROVE Inv
  OBVIOUS
<1>1. \A s \in Scripts : script[s] = Fresh
  BY DEF Init
<1>2a. Fresh \in Invocation
  BY DEF Fresh, Invocation, Stages, Acts
<1>2b. script \in [Scripts -> Invocation]
  BY <1>2a DEF Init
<1>2c. mixed \in BOOLEAN
  BY Zenon DEF Init
<1>2d. \/ \E i \in Images :
             /\ state = [status |-> "ACTIVE", active |-> i, rollback |-> None]
             /\ env = i /\ verified = {i}
             /\ box = [image |-> i, policy |-> "always", running |-> TRUE]
       \/ /\ state = [status |-> "none", active |-> None, rollback |-> None]
          /\ env = None /\ verified = {}
          /\ box = [image |-> None, policy |-> "no", running |-> FALSE]
  BY Zenon DEF Init
<1>2e. /\ env \in Images \cup {None} /\ verified \subseteq Images
       /\ state \in [status : Inflight \cup Settled, active : Images \cup {None}, rollback : Images \cup {None}]
       /\ box \in [image : Images \cup {None}, policy : {"always", "no"}, running : BOOLEAN]
  <2>1. CASE \E i \in Images : state = [status |-> "ACTIVE", active |-> i, rollback |-> None]
                 /\ env = i /\ verified = {i} /\ box = [image |-> i, policy |-> "always", running |-> TRUE]
    <3> PICK i \in Images : state = [status |-> "ACTIVE", active |-> i, rollback |-> None]
                 /\ env = i /\ verified = {i} /\ box = [image |-> i, policy |-> "always", running |-> TRUE]
      BY <2>1
    <3> QED
      BY DEF Settled
  <2>2. CASE env = None /\ verified = {} /\ state = [status |-> "none", active |-> None, rollback |-> None]
             /\ box = [image |-> None, policy |-> "no", running |-> FALSE]
    BY <2>2 DEF Settled
  <2> QED
    BY <1>2d, <2>1, <2>2
<1>2. TypeOK
  BY <1>1, <1>2b, <1>2c, <1>2e DEF TypeOK, Fresh, Acting, Invocation
<1>3. QED
  BY <1>1, <1>2 DEF Inv, Init, HasImage, Holds, Acting, DoneLate, PassedFirst, EnvIsVerified,
     BootServesVerified, OneActs, Undisturbed, StateTellsTruth, Fresh

\* The two fields a script changes when it starts, and when it captures.
LEMMA StartType ==
  ASSUME NEW r \in Invocation, NEW i \in Images
  PROVE  LET q == [r EXCEPT !.at = "checked", !.image = i] IN q \in Invocation /\ q.done = r.done /\ q.image = i
BY DEF Invocation, Stages

\* A script that remembers an image is still one.
LEMMA CaptureType ==
  ASSUME NEW r \in Invocation, NEW i \in Images \cup {None}
  PROVE  LET q == [r EXCEPT !.at = "captured", !.prev = i]
         IN  q \in Invocation /\ q.done = r.done /\ q.image = r.image
BY DEF Invocation, Stages

\* Types, and the image a script holds.
LEMMA TypeStep == TypeOK /\ HasImage /\ DoneLate /\ EnvIsVerified /\ PassedFirst /\ [Next]_vars => TypeOK' /\ HasImage' /\ DoneLate'
<1> SUFFICES ASSUME TypeOK, HasImage, DoneLate, EnvIsVerified, PassedFirst, [Next]_vars
             PROVE  TypeOK' /\ HasImage' /\ DoneLate'
  OBVIOUS
<1> USE DEF TypeOK, HasImage, DoneLate, Holds, Acting, Stages, Acts, Inflight, Settled
<1>1. ASSUME NEW s \in Scripts, NEW i \in Images, StartDeploy(s, i) PROVE TypeOK' /\ HasImage' /\ DoneLate'
  <2>1. script' = [script EXCEPT ![s].at = "checked", ![s].image = i]
        /\ script[s].at = "unused" /\ UNCHANGED <<state, env, box, verified, mixed>>
    BY <1>1 DEF StartDeploy
  <2>2. PICK r \in Invocation : r = [script[s] EXCEPT !.at = "checked", !.image = i]
    BY StartType DEF Invocation
  <2>3. script' = [script EXCEPT ![s] = r]
    BY <2>1, <2>2
  <2>4. script' \in [Scripts -> Invocation]
    BY <2>3 DEF Invocation
  <2> QED
    BY <2>1, <2>2, <2>3, <2>4 DEF Invocation
<1>2. ASSUME NEW s \in Scripts, NEW tag \in Images \cup {state.rollback}, StartRollback(s, tag)
      PROVE  TypeOK' /\ HasImage' /\ DoneLate'
  <2> DEFINE r == IF tag = None THEN [Fresh EXCEPT !.at = "aborted"]
                  ELSE [Fresh EXCEPT !.at = "captured", !.phase = "manual", !.image = tag, !.prev = state.rollback]
  <2>1. r \in Invocation /\ r.done = {} /\ ((r.at = "captured" /\ r.image \in Images) \/ r.at = "aborted")
    BY DEF Fresh, Invocation
  <2>2. script' = [script EXCEPT ![s] = r] /\ UNCHANGED <<state, env, box, verified, mixed>>
    BY <1>2 DEF StartRollback
  <2> HIDE DEF r
  <2>3. script' \in [Scripts -> Invocation]
    BY <2>1, <2>2 DEF Invocation
  <2> QED
    BY <2>1, <2>2, <2>3 DEF Invocation
<1>3. ASSUME NEW s \in Scripts, Capture(s) PROVE TypeOK' /\ HasImage' /\ DoneLate'
  <2>1. script' = [script EXCEPT ![s].at = "captured", ![s].prev = box.image]
        /\ script[s].at = "checked" /\ UNCHANGED <<state, env, box, verified, mixed>>
    BY <1>3 DEF Capture
  <2>2. PICK r \in Invocation : r = [script[s] EXCEPT !.at = "captured", !.prev = box.image]
    BY CaptureType DEF Invocation
  <2>3. script' = [script EXCEPT ![s] = r]
    BY <2>1, <2>2
  <2>4. script' \in [Scripts -> Invocation]
    BY <2>3 DEF Invocation
  <2> QED
    BY <2>1, <2>2, <2>3, <2>4 DEF Invocation
<1>4. ASSUME NEW s \in Scripts, Intend(s) PROVE TypeOK' /\ HasImage' /\ DoneLate'
  BY <1>4 DEF Intend, Move, WriteState
<1>5. ASSUME NEW s \in Scripts, Up(s) PROVE TypeOK' /\ HasImage' /\ DoneLate'
  BY <1>5 DEF Up, Move, TransitionPolicy
<1>6. ASSUME NEW s \in Scripts, Ready(s) PROVE TypeOK' /\ HasImage' /\ DoneLate'
  BY <1>6 DEF Ready, Move, WriteState
<1>7. ASSUME NEW s \in Scripts, Smoke(s) PROVE TypeOK' /\ HasImage' /\ DoneLate'
  BY <1>7 DEF Smoke, Move, Passes
<1>8. ASSUME NEW s \in Scripts, SetEnv(s) \/ ArmRestart(s) \/ Record(s) PROVE TypeOK' /\ HasImage' /\ DoneLate'
  BY <1>8 DEF SetEnv, ArmRestart, Record, Turn, Finish, WriteState
<1>9. ASSUME NEW s \in Scripts, AutoRollback(s) PROVE TypeOK' /\ HasImage' /\ DoneLate'
  BY <1>9 DEF AutoRollback, HasTarget
<1>10. ASSUME NEW s \in Scripts, Critical(s) \/ Kill(s) PROVE TypeOK' /\ HasImage' /\ DoneLate'
  BY <1>10 DEF Critical, Kill, Move, WriteState
<1>11. ASSUME Reboot PROVE TypeOK' /\ HasImage' /\ DoneLate'
  <2>1. /\ \A s \in Scripts : script'[s] = IF script[s].at \in {"unused", "aborted"} THEN script[s]
                                           ELSE [script[s] EXCEPT !.at = "over"]
        /\ box' = [box EXCEPT !.running = (box.policy = "always")]
        /\ UNCHANGED <<state, env, verified, mixed>>
    BY <1>11 DEF Reboot
  <2>2. script' \in [Scripts -> Invocation]
    BY <1>11, <2>1 DEF Invocation, Reboot
  <2>3. box' \in [image : Images \cup {None}, policy : {"always", "no"}, running : BOOLEAN]
    BY <2>1
  <2> QED
    BY <2>1, <2>2, <2>3 DEF Invocation
<1>12. ASSUME AppDies \/ BareUp PROVE TypeOK' /\ HasImage' /\ DoneLate'
  <2>1. UNCHANGED <<state, env, script, verified, mixed>>
    BY <1>12 DEF AppDies, BareUp
  <2>2. AppDies => box' \in [image : Images \cup {None}, policy : {"always", "no"}, running : BOOLEAN]
    BY DEF AppDies
  <2>3. BareUp => box' \in [image : Images \cup {None}, policy : {"always", "no"}, running : BOOLEAN]
    BY DEF BareUp
  <2> QED
    BY <1>12, <2>1, <2>2, <2>3
<1>12a. ASSUME UNCHANGED vars PROVE TypeOK' /\ HasImage' /\ DoneLate'
  BY <1>12a DEF vars
<1>13. QED
  BY <1>1, <1>2, <1>3, <1>4, <1>5, <1>6, <1>7, <1>8, <1>9, <1>10, <1>11, <1>12, <1>12a DEF Next, ScriptStep

-----------------------------------------------------------------------------
\* What the world owes a script, by action.
Kept == PassedFirst /\ EnvIsVerified /\ BootServesVerified /\ OneActs /\ Undisturbed /\ StateTellsTruth

\* A step that changes a script only by ending it, or before it acts.
LEMMA QuietStep ==
  ASSUME Inv, TypeOK', UNCHANGED <<state, env, verified, mixed>>,
         box' = box \/ box' = [box EXCEPT !.running = box'.running],
         \A s \in Scripts : script'[s] = script[s] \/ script'[s].at \in {"checked", "captured", "over", "aborted"}
  PROVE  Kept'
<1> USE DEF Inv, Kept
<1>1. /\ box'.image = box.image /\ box'.policy = box.policy
      /\ \A s \in Scripts : Acting(s)' => script'[s] = script[s] /\ Acting(s)
  BY DEF Acting, TypeOK
<1>2. PassedFirst' /\ EnvIsVerified'
  BY DEF PassedFirst, EnvIsVerified
<1>3. OneActs'
  BY <1>1 DEF OneActs
<1>4. Undisturbed'
  BY <1>1 DEF Undisturbed
<1>5. BootServesVerified' /\ StateTellsTruth'
  BY <1>1 DEF BootServesVerified, StateTellsTruth
<1> QED
  BY <1>2, <1>3, <1>4, <1>5

\* The first write: the one script that acts is in flight.
LEMMA IntendStep ==
  ASSUME Inv, TypeOK', NEW s \in Scripts, Intend(s)
  PROVE  Kept'
<1> USE DEF Inv, Kept
<1>1. /\ state'.status \in Inflight /\ UNCHANGED <<env, box, verified>>
      /\ script[s].at = "captured" /\ script[s].done = {}
      /\ script' = [script EXCEPT ![s].at = "intended"]
      /\ mixed' = (mixed \/ \E o \in Scripts \ {s} : Acting(o))
  BY DEF Intend, Move, WriteState, Inflight, TypeOK, DoneLate
<1>2. ~mixed' => ~mixed /\ \A o \in Scripts \ {s} : ~Acting(o)
  BY <1>1 DEF TypeOK
<1>3. /\ script'[s].at = "intended" /\ script'[s].done = {}
      /\ \A o \in Scripts \ {s} : script'[o] = script[o]
  BY <1>1 DEF TypeOK
<1>4. PassedFirst' /\ EnvIsVerified'
  BY <1>1, <1>3 DEF PassedFirst, EnvIsVerified
<1>5. OneActs'
  BY <1>2, <1>3 DEF OneActs, Acting
<1>6. Undisturbed'
  BY <1>1, <1>2, <1>3 DEF Undisturbed, Acting
<1>7. BootServesVerified'
  BY <1>1, <1>2 DEF BootServesVerified
<1>8. StateTellsTruth'
  BY <1>1 DEF StateTellsTruth, Inflight
<1> QED
  BY <1>4, <1>5, <1>6, <1>7, <1>8

\* The acting script's own steps: no other acts, unless mixed.
LEMMA ActingStep ==
  ASSUME Inv, NEW s \in Scripts, Acting(s), UNCHANGED mixed, script' \in [Scripts -> Invocation],
         \A o \in Scripts \ {s} : script'[o] = script[o],
         script'[s].image = script[s].image
  PROVE  /\ OneActs'
         /\ ~mixed => state.status \in Inflight /\ \A o \in Scripts \ {s} : ~Acting(o) /\ ~Acting(o)'
BY DEF Inv, OneActs, Undisturbed, Acting

\* The recreate: the container is the one the acting script made.
LEMMA UpStep ==
  ASSUME Inv, TypeOK', NEW s \in Scripts, Up(s)
  PROVE  Kept'
<1> USE DEF Inv, Kept
<1>1. PICK works \in BOOLEAN :
        /\ \/ /\ box'.image = script[s].image
              /\ box'.policy = "always" => box.policy = "always" /\ box.image = script[s].image
           \/ ~works /\ box' = box
        /\ script' = [script EXCEPT ![s].at = IF works THEN "up" ELSE "failed"]
  <2>1. PICK policy \in TransitionPolicy(script[s].image), works \in BOOLEAN :
          /\ \/ box' = [image |-> script[s].image, policy |-> policy, running |-> works]
             \/ ~works /\ UNCHANGED box
          /\ Move(s, IF works THEN "up" ELSE "failed")
    BY DEF Up
  <2>2. policy = "always" => box.policy = "always" /\ box.image = script[s].image
    BY DEF TransitionPolicy
  <2>3. \/ box'.image = script[s].image /\ box'.policy = policy
        \/ ~works /\ box' = box
    BY <2>1
  <2> QED
    BY <2>1, <2>2, <2>3 DEF Move
<1>2. UNCHANGED <<state, env, verified, mixed>> /\ script[s].at = "intended" /\ Acting(s)
  BY DEF Up, Acting
<1>3. /\ script'[s].at \in {"up", "failed"} /\ script'[s].image = script[s].image /\ script'[s].done = {}
      /\ script'[s].at = "up" => box'.image = script[s].image
      /\ \A o \in Scripts \ {s} : script'[o] = script[o]
  BY <1>1, <1>2 DEF TypeOK, DoneLate
<1>4. script' \in [Scripts -> Invocation]
  BY DEF TypeOK, Invocation
<1>5. OneActs' /\ (~mixed => state.status \in Inflight /\ \A o \in Scripts \ {s} : ~Acting(o) /\ ~Acting(o)')
  BY <1>2, <1>3, <1>4, ActingStep
<1>6. PassedFirst' /\ EnvIsVerified'
  BY <1>2, <1>3 DEF PassedFirst, EnvIsVerified
<1>7. BootServesVerified'
  BY <1>1, <1>2 DEF BootServesVerified
<1>8. Undisturbed'
  BY <1>2, <1>3, <1>5 DEF Undisturbed
<1>9. StateTellsTruth'
  BY <1>2, <1>5 DEF StateTellsTruth, Inflight
<1> QED
  BY <1>5, <1>6, <1>7, <1>8, <1>9

\* The wait for readiness changes nothing but the script.
LEMMA ReadyStep ==
  ASSUME Inv, TypeOK', NEW s \in Scripts, Ready(s)
  PROVE  Kept'
<1> USE DEF Inv, Kept
<1>1. UNCHANGED <<env, box, verified, mixed>> /\ script[s].at = "up" /\ Acting(s)
  BY DEF Ready, Acting
<1>2. /\ script'[s].at \in {"ready", "failed"} /\ script'[s].image = script[s].image /\ script'[s].done = {}
      /\ \A o \in Scripts \ {s} : script'[o] = script[o]
  BY DEF Ready, Move, TypeOK, DoneLate
<1>3. state' = state \/ state'.status = "CANDIDATE_READY"
  BY DEF Ready, WriteState
<1>4. script' \in [Scripts -> Invocation]
  BY DEF TypeOK, Invocation
<1>5. OneActs' /\ (~mixed => state.status \in Inflight /\ \A o \in Scripts \ {s} : ~Acting(o) /\ ~Acting(o)')
  BY <1>1, <1>2, <1>4, ActingStep
<1>6. PassedFirst' /\ EnvIsVerified' /\ BootServesVerified'
  BY <1>1, <1>2 DEF PassedFirst, EnvIsVerified, BootServesVerified
<1>7. Undisturbed'
  BY <1>1, <1>2, <1>3, <1>5 DEF Undisturbed, Inflight
<1>8. StateTellsTruth'
  BY <1>1, <1>3, <1>5 DEF StateTellsTruth, Inflight
<1> QED
  BY <1>5, <1>6, <1>7, <1>8

\* The smoke test adds to what is verified, and takes nothing away.
LEMMA SmokeStep ==
  ASSUME Inv, TypeOK', NEW s \in Scripts, Smoke(s)
  PROVE  Kept'
<1> USE DEF Inv, Kept
<1>1. UNCHANGED <<state, env, box, mixed>> /\ script[s].at = "ready" /\ Acting(s)
  BY DEF Smoke, Acting
<1>2. /\ script'[s].at \in {"smoked", "failed"} /\ script'[s].image = script[s].image /\ script'[s].done = {}
      /\ \A o \in Scripts \ {s} : script'[o] = script[o]
      /\ verified \subseteq verified'
      /\ script'[s].at = "smoked" => script[s].image \in verified'
  BY DEF Smoke, Move, TypeOK, DoneLate, Passes
<1>4. script' \in [Scripts -> Invocation]
  BY DEF TypeOK, Invocation
<1>5. OneActs' /\ (~mixed => state.status \in Inflight /\ \A o \in Scripts \ {s} : ~Acting(o) /\ ~Acting(o)')
  BY <1>1, <1>2, <1>4, ActingStep
<1>6. PassedFirst' /\ EnvIsVerified' /\ BootServesVerified'
  BY <1>1, <1>2 DEF PassedFirst, EnvIsVerified, BootServesVerified
<1>7. Undisturbed'
  BY <1>1, <1>2, <1>5 DEF Undisturbed
<1>8. StateTellsTruth'
  BY <1>1, <1>5 DEF StateTellsTruth, Inflight
<1> QED
  BY <1>5, <1>6, <1>7, <1>8

\* The last acts, in any order; with the third of them the script is over.
LEMMA FinishStep ==
  ASSUME TypeOK, NEW s \in Scripts, NEW act \in Acts, Finish(s, act)
  PROVE  /\ script'[s].done = script[s].done \cup {act} /\ script'[s].image = script[s].image
         /\ script'[s].at = IF script[s].done \cup {act} = Acts THEN "over" ELSE script[s].at
         /\ \A o \in Scripts \ {s} : script'[o] = script[o]
<1>1. script \in [Scripts -> Invocation]
  BY DEF TypeOK, Invocation
<1>2. script' = [script EXCEPT ![s].done = @ \cup {act},
                               ![s].at = IF script[s].done \cup {act} = Acts THEN "over" ELSE @]
  BY DEF Finish
<1> QED
  BY <1>1, <1>2 DEF Invocation

\* Pinning, arming and recording, in that order.
LEMMA CommitStep ==
  ASSUME Inv, TypeOK', NEW s \in Scripts, SetEnv(s) \/ ArmRestart(s) \/ Record(s)
  PROVE  Kept'
<1> USE DEF Inv, Kept
<1>1. UNCHANGED <<verified, mixed>> /\ script[s].at = "smoked" /\ Acting(s)
  BY DEF SetEnv, ArmRestart, Record, Turn, Acting
<1>2. \E act \in Acts : Finish(s, act)
  BY DEF SetEnv, ArmRestart, Record, Acts
<1>3. script'[s].at \in {"smoked", "over"} /\ script'[s].image = script[s].image
      /\ \A o \in Scripts \ {s} : script'[o] = script[o]
  BY <1>1, <1>2, FinishStep
<1>4. script' \in [Scripts -> Invocation]
  BY DEF TypeOK, Invocation
<1>5. OneActs' /\ (~mixed => state.status \in Inflight /\ \A o \in Scripts \ {s} : ~Acting(o) /\ ~Acting(o)')
  BY <1>1, <1>3, <1>4, ActingStep
<1>6. PassedFirst'
  BY <1>1, <1>3 DEF PassedFirst
<1>7. ~mixed => box.image = script[s].image /\ script[s].image \in verified
  BY <1>1 DEF Undisturbed, PassedFirst
<1>8. CASE SetEnv(s)
  <2>0. script'[s].done = script[s].done \cup {"pin"}
    BY <1>8, FinishStep DEF SetEnv, Acts
  <2>1. UNCHANGED <<state, box>> /\ env' = script[s].image /\ script'[s].done = {"pin"}
    BY <1>8, <2>0 DEF SetEnv, Turn, Before
  <2>2. EnvIsVerified' /\ BootServesVerified'
    BY <1>1, <2>1 DEF EnvIsVerified, BootServesVerified, PassedFirst
  <2>3. Undisturbed'
    BY <1>1, <1>3, <1>5, <1>7, <2>1 DEF Undisturbed
  <2>4. StateTellsTruth'
    BY <1>1, <1>5, <2>1 DEF StateTellsTruth, Inflight
  <2> QED
    BY <1>5, <1>6, <2>2, <2>3, <2>4
<1>9. CASE ArmRestart(s)
  <2>1. /\ UNCHANGED <<state, env>> /\ box'.image = box.image /\ box'.policy = "always"
        /\ script[s].done = {"pin"} /\ script'[s].done = {"pin", "arm"}
    <3>1. script'[s].done = script[s].done \cup {"arm"}
      BY <1>9, FinishStep DEF ArmRestart, Acts
    <3> QED
      BY <1>9, <3>1 DEF ArmRestart, Turn, Before, TypeOK
  <2>2. EnvIsVerified' /\ BootServesVerified'
    BY <1>1, <1>7, <2>1 DEF EnvIsVerified, BootServesVerified
  <2>3. Undisturbed'
    BY <1>1, <1>3, <1>5, <1>7, <2>1 DEF Undisturbed
  <2>4. StateTellsTruth'
    BY <1>1, <1>5, <2>1 DEF StateTellsTruth, Inflight
  <2> QED
    BY <1>5, <1>6, <2>2, <2>3, <2>4
<1>10. CASE Record(s)
  <2>1. /\ UNCHANGED <<env, box>> /\ state'.active = script[s].image
        /\ script[s].done = {"pin", "arm"} /\ script'[s].at = "over"
    <3>1. script'[s].at = IF script[s].done \cup {"record"} = Acts THEN "over" ELSE script[s].at
      BY <1>10, FinishStep DEF Record, Acts
    <3> QED
      BY <1>10, <3>1 DEF Record, Turn, Before, WriteState, Acts
  <2>2. EnvIsVerified' /\ BootServesVerified'
    BY <1>1, <2>1 DEF EnvIsVerified, BootServesVerified
  <2>3. ~mixed' => \A o \in Scripts : ~Acting(o)'
    BY <1>1, <1>5, <2>1 DEF Acting
  <2>4. Undisturbed'
    BY <2>3 DEF Undisturbed
  <2>5. StateTellsTruth'
    BY <1>1, <1>7, <2>1 DEF StateTellsTruth, Undisturbed
  <2> QED
    BY <1>5, <1>6, <2>2, <2>4, <2>5
<1> QED
  BY <1>8, <1>9, <1>10

\* A failure that is not rolled back says so.
LEMMA CriticalStep ==
  ASSUME Inv, TypeOK', NEW s \in Scripts, Critical(s)
  PROVE  Kept'
<1> USE DEF Inv, Kept
<1>1. /\ UNCHANGED <<env, box, verified, mixed>> /\ state'.status = "CRITICAL"
      /\ script[s].at = "failed" /\ Acting(s)
  BY DEF Critical, WriteState, Acting
<1>2. /\ script'[s].at = "over" /\ script'[s].image = script[s].image
      /\ \A o \in Scripts \ {s} : script'[o] = script[o]
  BY DEF Critical, Move, TypeOK
<1>3. script' \in [Scripts -> Invocation]
  BY DEF TypeOK, Invocation
<1>4. OneActs' /\ (~mixed => state.status \in Inflight /\ \A o \in Scripts \ {s} : ~Acting(o) /\ ~Acting(o)')
  BY <1>1, <1>2, <1>3, ActingStep
<1>5. PassedFirst' /\ EnvIsVerified' /\ BootServesVerified' /\ StateTellsTruth'
  BY <1>1, <1>2 DEF PassedFirst, EnvIsVerified, BootServesVerified, StateTellsTruth
<1>6. ~mixed' => \A o \in Scripts : ~Acting(o)'
  BY <1>1, <1>2, <1>4 DEF Acting
<1>7. Undisturbed'
  BY <1>6 DEF Undisturbed
<1> QED
  BY <1>4, <1>5, <1>7

\* docker compose up by hand finds no script acting, or the history is mixed.
LEMMA BareUpStep ==
  ASSUME Inv, BareUp
  PROVE  Kept'
<1> USE DEF Inv, Kept
<1>1. /\ UNCHANGED <<state, env, script, verified, mixed>> /\ state.status \notin Inflight
      /\ box'.image = env /\ env # None /\ box'.policy = "always"
  BY DEF BareUp, Settled, Inflight
<1>2. PassedFirst' /\ EnvIsVerified' /\ OneActs'
  BY <1>1 DEF PassedFirst, EnvIsVerified, OneActs, Acting
<1>3. BootServesVerified'
  BY <1>1 DEF EnvIsVerified, BootServesVerified
<1>4. ~mixed => \A s \in Scripts : ~Acting(s)
  BY <1>1 DEF Undisturbed
<1>5. Undisturbed'
  BY <1>1, <1>4 DEF Undisturbed, Acting
<1>6. StateTellsTruth'
  BY <1>1 DEF StateTellsTruth
<1> QED
  BY <1>2, <1>3, <1>5, <1>6

\* Every step keeps the invariant.
LEMMA StepInv == Inv /\ [Next]_vars => Inv'
<1> SUFFICES ASSUME Inv, [Next]_vars PROVE Inv'
  OBVIOUS
<1>1. TypeOK' /\ HasImage' /\ DoneLate'
  BY TypeStep DEF Inv
<1>2. ASSUME NEW s \in Scripts, NEW i \in Images, StartDeploy(s, i) PROVE Kept'
  BY <1>1, <1>2, QuietStep DEF StartDeploy, Inv, TypeOK
<1>3. ASSUME NEW s \in Scripts, NEW tag \in Images \cup {state.rollback}, StartRollback(s, tag) PROVE Kept'
  <2>1. /\ script'[s].at \in {"captured", "aborted"} /\ UNCHANGED <<state, env, box, verified, mixed>>
        /\ \A o \in Scripts \ {s} : script'[o] = script[o]
    BY <1>3 DEF StartRollback, Inv, TypeOK, Fresh
  <2> QED
    BY <1>1, <2>1, QuietStep
<1>4. ASSUME NEW s \in Scripts, Capture(s) PROVE Kept'
  BY <1>1, <1>4, QuietStep DEF Capture, Inv, TypeOK
<1>5. ASSUME NEW s \in Scripts, AutoRollback(s) PROVE Kept'
  BY <1>1, <1>5, QuietStep DEF AutoRollback, Inv, TypeOK
<1>6. ASSUME NEW s \in Scripts, Kill(s) PROVE Kept'
  BY <1>1, <1>6, QuietStep DEF Kill, Move, Inv, TypeOK
<1>7. ASSUME Reboot PROVE Kept'
  <2>1. /\ \A s \in Scripts : script'[s] = script[s] \/ script'[s].at = "over"
        /\ UNCHANGED <<state, env, verified, mixed>>
    BY <1>7 DEF Reboot, Inv, TypeOK
  <2>2. box' = [box EXCEPT !.running = box'.running]
    BY <1>7 DEF Reboot, Inv, TypeOK
  <2> QED
    BY <1>1, <2>1, <2>2, QuietStep
<1>8. ASSUME AppDies PROVE Kept'
  <2>1. box' = [box EXCEPT !.running = box'.running]
    BY <1>8 DEF AppDies, Inv, TypeOK
  <2> QED
    BY <1>1, <1>8, <2>1, QuietStep DEF AppDies
<1>9. ASSUME UNCHANGED vars PROVE Kept'
  BY <1>1, <1>9, QuietStep DEF vars
<1>10. Kept'
  BY <1>1, <1>2, <1>3, <1>4, <1>5, <1>6, <1>7, <1>8, <1>9, IntendStep, UpStep, ReadyStep, SmokeStep,
     CommitStep, CriticalStep, BareUpStep DEF Next, ScriptStep
<1> QED
  BY <1>1, <1>10 DEF Inv, Kept

\* The invariant holds of every deployment, whatever the scripts do.
THEOREM Invariant == Spec => []Inv
BY InitInv, StepInv, PTL DEF Spec

\* Types; a script that acts has an image to act on.
THEOREM TypeCorrect == Spec => []TypeOK
BY Invariant, PTL DEF Inv

\* Docker never starts by itself what has not passed the smoke test.
THEOREM BootTheorem == Spec => []BootServesVerified
BY Invariant, PTL DEF Inv

\* Nor does docker compose up by hand.
THEOREM EnvTheorem == Spec => []EnvIsVerified
BY Invariant, PTL DEF Inv

\* A settled status is true, at whichever command the scripts were cut off.
THEOREM TruthTheorem == Spec => []StateTellsTruth
BY Invariant, PTL DEF Inv

HIDE NoneAssumption

-----------------------------------------------------------------------------
(* Listings.                                                               *)

\* R is a strict order that compares any two members of S.
Orders(R, S) ==
  /\ \A x \in S : <<x, x>> \notin R
  /\ \A x, y \in S : x # y => <<x, y>> \in R \/ <<y, x>> \in R
  /\ \A x, y, z \in S : <<x, y>> \in R /\ <<y, z>> \in R => <<x, z>> \in R

\* The place of an element among a finite set in a strict order is its own, and
\* every place is taken.
LEMMA RanksAreOnto ==
  ASSUME NEW S, IsFiniteSet(S), NEW R, Orders(R, S)
  PROVE  /\ Cardinality(S) \in Nat
         /\ \A x \in S : Cardinality(Preceding(x, S, R)) \in 0..(Cardinality(S) - 1)
         /\ \A x, z \in S : <<x, z>> \in R =>
              Cardinality(Preceding(x, S, R)) < Cardinality(Preceding(z, S, R))
         /\ \A n \in 0..(Cardinality(S) - 1) : \E x \in S : Cardinality(Preceding(x, S, R)) = n
<1> DEFINE N == Cardinality(S)
           rank == [x \in S |-> Cardinality(Preceding(x, S, R))]
<1>1. N \in Nat
  BY FS_CardinalityType
<1>2. \A x \in S : IsFiniteSet(Preceding(x, S, R)) /\ Cardinality(Preceding(x, S, R)) \in Nat
  BY FS_Subset, FS_CardinalityType DEF Preceding
<1>3. ASSUME NEW x \in S PROVE Cardinality(Preceding(x, S, R)) \in 0..(N - 1)
  <2>1. Preceding(x, S, R) \in SUBSET S /\ x \notin Preceding(x, S, R)
    BY DEF Preceding, Orders
  <2>2. Cardinality(Preceding(x, S, R)) <= N /\ Cardinality(Preceding(x, S, R)) # N
    BY <2>1, FS_Subset
  <2> HIDE DEF N
  <2> QED
    BY <1>1, <1>2, <2>2
<1>4. ASSUME NEW x \in S, NEW z \in S, <<x, z>> \in R
      PROVE  Cardinality(Preceding(x, S, R)) < Cardinality(Preceding(z, S, R))
  <2> DEFINE X == Preceding(x, S, R)
             Z == Preceding(z, S, R)
  <2>1. X \in SUBSET Z /\ x \in Z /\ x \notin X
    BY <1>4 DEF Preceding, Orders
  <2>2. Cardinality(X) <= Cardinality(Z) /\ Cardinality(X) # Cardinality(Z)
    BY <1>2, <2>1, FS_Subset
  <2>3. Cardinality(X) \in Nat /\ Cardinality(Z) \in Nat
    BY <1>2
  <2> HIDE DEF X, Z
  <2>4. Cardinality(X) < Cardinality(Z)
    BY <2>2, <2>3
  <2> QED
    BY <2>4 DEF X, Z
<1>5. ASSUME NEW n \in 0..(N - 1) PROVE \E x \in S : Cardinality(Preceding(x, S, R)) = n
  <2>1. rank \in [S -> 0..(N - 1)]
    BY <1>3
  <2>2. \A x, z \in S : x # z => rank[x] # rank[z]
    <3> SUFFICES ASSUME NEW x \in S, NEW z \in S, x # z PROVE rank[x] # rank[z]
      OBVIOUS
    <3>1. rank[x] < rank[z] \/ rank[z] < rank[x]
      BY <1>4 DEF Orders
    <3>2. rank[x] \in Int /\ rank[z] \in Int
      BY <2>1
    <3> HIDE DEF rank
    <3> QED
      BY <3>1, <3>2
  <2>3. rank \in Injection(S, 0..(N - 1))
    BY <2>1, <2>2 DEF Injection, IsInjective
  <2>4. N - 1 \in Int
    BY <1>1
  <2>5. IsFiniteSet(0..(N - 1)) /\ Cardinality(0..(N - 1)) = N
    <3> HIDE DEF N
    <3>1. 0 \in Int
      OBVIOUS
    <3> DEFINE places == 0..(N - 1)
    <3>2. IsFiniteSet(places) /\ Cardinality(places) = IF 0 > N - 1 THEN 0 ELSE (N - 1) - 0 + 1
      BY <2>4, <3>1, FS_Interval, Zenon
    <3> HIDE DEF places
    <3>3. IsFiniteSet(places) /\ Cardinality(places) = N
      BY <1>1, <3>2
    <3> QED
      BY <3>3 DEF places
  <2>6. rank \in Surjection(S, 0..(N - 1))
    <3> HIDE DEF rank
    <3> QED
      BY <2>3, <2>5, FS_Injection
  <2>7. PICK x \in S : rank[x] = n
    BY <2>6 DEF Surjection
  <2> QED
    BY <2>7
<1> QED
  BY <1>1, <1>3, <1>4, <1>5

\* The listing of a finite set has all of it, each once, in the order.
LEMMA ListingLists ==
  ASSUME NEW S, IsFiniteSet(S), NEW R, Orders(R, S)
  PROVE  /\ Cardinality(S) \in Nat
         /\ InOrder(S, R) \in [1..Cardinality(S) -> S]
         /\ \A x \in S : \E k \in 1..Cardinality(S) : InOrder(S, R)[k] = x
         /\ \A k, m \in 1..Cardinality(S) : k < m => <<InOrder(S, R)[k], InOrder(S, R)[m]>> \in R
<1> DEFINE N == Cardinality(S)
           c(x) == Cardinality(Preceding(x, S, R))
<1>1. /\ N \in Nat
      /\ \A x \in S : c(x) \in 0..(N - 1)
      /\ \A x, z \in S : <<x, z>> \in R => c(x) < c(z)
      /\ \A n \in 0..(N - 1) : \E x \in S : c(x) = n
  BY RanksAreOnto
<1>2. \A k \in 1..N : k - 1 \in 0..(N - 1)
  <2> HIDE DEF N
  <2> QED
    BY <1>1
<1>3. \A k \in 1..N : InOrder(S, R)[k] \in S /\ c(InOrder(S, R)[k]) = k - 1
  <2> SUFFICES ASSUME NEW k \in 1..N PROVE InOrder(S, R)[k] \in S /\ c(InOrder(S, R)[k]) = k - 1
    OBVIOUS
  <2>1. \E x \in S : c(x) = k - 1
    BY <1>1, <1>2
  <2>2. InOrder(S, R)[k] = CHOOSE x \in S : Places(S, R)[x] = k - 1
    BY DEF InOrder
  <2>3. \A x \in S : Places(S, R)[x] = c(x)
    BY DEF Places
  <2> HIDE DEF c
  <2> QED
    BY <2>1, <2>2, <2>3
<1>4. InOrder(S, R) \in [1..N -> S]
  BY <1>3 DEF InOrder
<1>5. \A x \in S : \E k \in 1..N : InOrder(S, R)[k] = x
  <2> SUFFICES ASSUME NEW x \in S PROVE \E k \in 1..N : InOrder(S, R)[k] = x
    OBVIOUS
  <2>1. c(x) \in 0..(N - 1)
    BY <1>1
  <2>2. c(x) + 1 \in 1..N /\ (c(x) + 1) - 1 = c(x)
    <3> HIDE DEF N, c
    <3> QED
      BY <1>1, <2>1
  <2> DEFINE y == InOrder(S, R)[c(x) + 1]
  <2>3. y \in S /\ c(y) = c(x)
    BY <1>3, <2>2
  <2>4. y = x
    <3> SUFFICES ASSUME y # x PROVE FALSE
      OBVIOUS
    <3>1. c(y) < c(x) \/ c(x) < c(y)
      BY <1>1, <2>3 DEF Orders
    <3> HIDE DEF y, c
    <3> QED
      BY <2>1, <2>3, <3>1
  <2> QED
    BY <2>2, <2>4
<1>6. ASSUME NEW k \in 1..N, NEW m \in 1..N, k < m
      PROVE  <<InOrder(S, R)[k], InOrder(S, R)[m]>> \in R
  <2> DEFINE x == InOrder(S, R)[k]
             y == InOrder(S, R)[m]
  <2>1. x \in S /\ y \in S /\ c(x) = k - 1 /\ c(y) = m - 1
    BY <1>3
  <2>2. <<y, x>> \in R => c(y) < c(x)
    BY <1>1, <2>1
  <2>3. k \in Int /\ m \in Int
    BY <1>1
  <2> HIDE DEF x, y, c
  <2>4. x # y /\ <<y, x>> \notin R
    BY <1>6, <2>1, <2>2, <2>3
  <2>5. <<x, y>> \in R
    BY <2>1, <2>4 DEF Orders
  <2> QED
    BY <2>5 DEF x, y
<1> QED
  BY <1>1, <1>4, <1>5, <1>6

\* What is kept of a sequence is what stood at the kept indices.
LEMMA KeptIsRange ==
  ASSUME NEW E, NEW s \in Seq(E), NEW at \in SUBSET DOMAIN s
  PROVE  /\ KeptAt(s, at) \in Seq(E)
         /\ \A k \in DOMAIN KeptAt(s, at) : \E i \in at : KeptAt(s, at)[k] = s[i]
         /\ \A i \in at : \E k \in DOMAIN KeptAt(s, at) : KeptAt(s, at)[k] = s[i]
         /\ \A k, m \in DOMAIN KeptAt(s, at) : k < m =>
              \E i, j \in at : i < j /\ KeptAt(s, at)[k] = s[i] /\ KeptAt(s, at)[m] = s[j]
<1> DEFINE O == InOrder(at, Ascending(at))
<1>1. Len(s) \in Nat /\ DOMAIN s = 1..Len(s) /\ \A i \in DOMAIN s : s[i] \in E
  OBVIOUS
<1>2. IsFiniteSet(at)
  <2>1. 1 \in Int /\ Len(s) \in Int
    BY <1>1
  <2>2. IsFiniteSet(1..Len(s))
    BY <2>1, FS_Interval, Zenon
  <2> QED
    BY <1>1, <2>2, FS_Subset, Zenon
<1>3. Orders(Ascending(at), at)
  BY <1>1 DEF Orders, Ascending
<1>4. /\ Cardinality(at) \in Nat
      /\ O \in [1..Cardinality(at) -> at]
      /\ \A x \in at : \E k \in 1..Cardinality(at) : O[k] = x
      /\ \A k, m \in 1..Cardinality(at) : k < m => <<O[k], O[m]>> \in Ascending(at)
  BY <1>2, <1>3, ListingLists
<1>5. KeptAt(s, at) = [k \in 1..Cardinality(at) |-> s[O[k]]]
  BY DEF KeptAt
<1> HIDE DEF O
<1> DEFINE K == KeptAt(s, at)
<1>6. DOMAIN K = 1..Cardinality(at) /\ \A k \in 1..Cardinality(at) : K[k] = s[O[k]]
  BY <1>5
<1>7. \A k \in 1..Cardinality(at) : K[k] \in E
  BY <1>1, <1>4, <1>6
<1>8. K \in Seq(E)
  BY <1>4, <1>5, <1>6, <1>7
<1>9. \A k \in DOMAIN K : \E i \in at : K[k] = s[i]
  BY <1>4, <1>6
<1>10. \A i \in at : \E k \in DOMAIN K : K[k] = s[i]
  BY <1>4, <1>6
<1>11. ASSUME NEW k \in DOMAIN K, NEW m \in DOMAIN K, k < m
       PROVE  \E i, j \in at : i < j /\ K[k] = s[i] /\ K[m] = s[j]
  <2>1. O[k] \in at /\ O[m] \in at /\ K[k] = s[O[k]] /\ K[m] = s[O[m]]
    BY <1>4, <1>6
  <2>2. O[k] < O[m]
    BY <1>4, <1>6, <1>11 DEF Ascending
  <2> QED
    BY <2>1, <2>2
<1> QED
  BY <1>8, <1>9, <1>10, <1>11, Zenon

\* A finite set of numbers that is not empty has a least one.
LEMMA LeastNumber ==
  ASSUME NEW n \in Nat, NEW S \in SUBSET (1..n), S # {}
  PROVE  \E i \in S : \A j \in S : i <= j
<1> DEFINE R == Ascending(S)
<1>1. IsFiniteSet(S)
  <2>1. 1 \in Int /\ n \in Int
    OBVIOUS
  <2> QED
    BY <2>1, FS_Interval, FS_Subset, Zenon
<1>2. Orders(R, S)
  BY DEF Orders, Ascending
<1>3. 0 \in 0..(Cardinality(S) - 1)
  <2>1. Cardinality(S) \in Nat /\ Cardinality(S) # 0
    BY <1>1, FS_CardinalityType, FS_EmptySet
  <2> QED
    BY <2>1
<1>4. PICK i \in S : Cardinality(Preceding(i, S, R)) = 0
  BY <1>1, <1>2, <1>3, RanksAreOnto, Zenon
<1>5. Preceding(i, S, R) = {}
  <2>1. Preceding(i, S, R) \in SUBSET S
    BY DEF Preceding
  <2> QED
    BY <1>1, <1>4, <2>1, FS_Subset, FS_EmptySet, Zenon
<1>6. \A j \in S : ~(j < i)
  BY <1>5 DEF Preceding, Ascending
<1> QED
  BY <1>6

\* The listings inside the instances are the ones proved about above.
LEMMA SameListing ==
  /\ \A S, R : V!InOrder(S, R) = InOrder(S, R)
  /\ \A s, at : V!KeptAt(s, at) = KeptAt(s, at)
<1>1. \A S : V!Cardinality(S) = Cardinality(S)
  BY DEF V!Cardinality, Cardinality
<1>2. \A S, R : V!InOrder(S, R) = InOrder(S, R)
  <2> SUFFICES ASSUME NEW S, NEW R PROVE V!InOrder(S, R) = InOrder(S, R)
    OBVIOUS
  <2>1. V!Places(S, R) = Places(S, R)
    BY <1>1 DEF V!Places, Places, V!Preceding, Preceding
  <2> QED
    BY <1>1, <2>1 DEF V!InOrder, InOrder
<1> QED
  BY <1>1, <1>2 DEF V!KeptAt, KeptAt, V!Ascending, Ascending

-----------------------------------------------------------------------------
(* The validator.                                                          *)

\* All findings there are, of the rules and of the validator itself.
Findings == [id : V!Ids, path : 0..2]

USE DEF V!None, V!Panes, V!Finished

\* Each id has one rank of its own, and the ids the code names are among them.
LEMMA IdRanks ==
  /\ \A id \in V!Ids : V!IdRank(id) \in 1..15 /\ V!IdOrder[V!IdRank(id)] = id
  /\ {"payload.invalid_root", "request.url.refused", "jsonfeed.not_validated",
      "payload.unknown_type", "payload.ambiguous_both_sides", "payload.ambiguous_envelope",
      "version.assumed", "version.single_marker", "version.mismatch",
      "internal.rule_family_failed", "rule.a_error", "rule.b_info", "rule.c_question",
      "rule.d_warning", "rule.e_error"} \subseteq V!Ids
<1>1. DOMAIN V!IdOrder = 1..15
  BY DEF V!IdOrder
<1>2. \A id \in V!Ids : \E n \in 1..15 : V!IdOrder[n] = id
  BY <1>1 DEF V!Ids, V!ToSet
<1>3. \A id \in V!Ids : V!IdRank(id) \in DOMAIN V!IdOrder /\ V!IdOrder[V!IdRank(id)] = id
  BY <1>1, <1>2, Zenon DEF V!IdRank
<1>4. \A n \in 1..15 : V!IdOrder[n] \in V!Ids
  BY <1>1 DEF V!Ids, V!ToSet
<1>5. /\ V!IdOrder[1] = "internal.rule_family_failed" /\ V!IdOrder[2] = "jsonfeed.not_validated"
      /\ V!IdOrder[3] = "payload.ambiguous_both_sides" /\ V!IdOrder[4] = "payload.ambiguous_envelope"
      /\ V!IdOrder[5] = "payload.invalid_root" /\ V!IdOrder[6] = "payload.unknown_type"
      /\ V!IdOrder[7] = "request.url.refused" /\ V!IdOrder[8] = "rule.a_error"
      /\ V!IdOrder[9] = "rule.b_info" /\ V!IdOrder[10] = "rule.c_question"
      /\ V!IdOrder[11] = "rule.d_warning" /\ V!IdOrder[12] = "rule.e_error"
      /\ V!IdOrder[13] = "version.assumed" /\ V!IdOrder[14] = "version.mismatch"
      /\ V!IdOrder[15] = "version.single_marker"
  BY DEF V!IdOrder
<1>6. /\ V!IdOrder[1] \in V!Ids /\ V!IdOrder[2] \in V!Ids /\ V!IdOrder[3] \in V!Ids
      /\ V!IdOrder[4] \in V!Ids /\ V!IdOrder[5] \in V!Ids /\ V!IdOrder[6] \in V!Ids
      /\ V!IdOrder[7] \in V!Ids /\ V!IdOrder[8] \in V!Ids /\ V!IdOrder[9] \in V!Ids
      /\ V!IdOrder[10] \in V!Ids /\ V!IdOrder[11] \in V!Ids /\ V!IdOrder[12] \in V!Ids
      /\ V!IdOrder[13] \in V!Ids /\ V!IdOrder[14] \in V!Ids /\ V!IdOrder[15] \in V!Ids
  BY <1>4
<1> QED
  BY <1>1, <1>3, <1>5, <1>6

\* The order of findings compares three numbers, and no two findings agree in all.
LEMMA FindingsAreOrdered ==
  ASSUME NEW S \in SUBSET Findings
  PROVE  Orders({p \in S \X S : V!Before(p[1], p[2])}, S)
<1> DEFINE sev(f) == V!SevRank(V!LevelOf(f.id))
           rank(f) == V!IdRank(f.id)
<1>1. \A f \in Findings : sev(f) \in 0..3 /\ f.path \in 0..2 /\ rank(f) \in 1..15
  <2>1. \A level : V!SevRank(level) \in 0..3
    BY DEF V!SevRank
  <2> QED
    BY <2>1, IdRanks DEF Findings
<1>2. \A f, g \in Findings : f # g => f.path # g.path \/ rank(f) # rank(g)
  BY IdRanks DEF Findings
<1>3. \A f, g \in Findings : V!Before(f, g) <=>
        \/ sev(f) < sev(g)
        \/ sev(f) = sev(g) /\ f.path < g.path
        \/ sev(f) = sev(g) /\ f.path = g.path /\ rank(f) < rank(g)
  <2> SUFFICES ASSUME NEW f \in Findings, NEW g \in Findings
               PROVE V!Before(f, g) <=>
                       \/ sev(f) < sev(g)
                       \/ sev(f) = sev(g) /\ f.path < g.path
                       \/ sev(f) = sev(g) /\ f.path = g.path /\ rank(f) < rank(g)
    OBVIOUS
  <2> DEFINE a == <<sev(f), f.path, rank(f)>>
             b == <<sev(g), g.path, rank(g)>>
  <2>1. V!Before(f, g) <=> \E i \in 1..3 : (\A j \in 1..(i - 1) : a[j] = b[j]) /\ a[i] < b[i]
    BY Zenon DEF V!Before
  <2>2. /\ a[1] = sev(f) /\ a[2] = f.path /\ a[3] = rank(f)
        /\ b[1] = sev(g) /\ b[2] = g.path /\ b[3] = rank(g)
    OBVIOUS
  <2> HIDE DEF a, b
  <2>3. \A i \in 1..3 : i = 1 \/ i = 2 \/ i = 3
    OBVIOUS
  <2>4. /\ (\A j \in 1..(1 - 1) : a[j] = b[j])
        /\ (\A j \in 1..(2 - 1) : a[j] = b[j]) <=> a[1] = b[1]
        /\ (\A j \in 1..(3 - 1) : a[j] = b[j]) <=> a[1] = b[1] /\ a[2] = b[2]
    OBVIOUS
  <2>5. V!Before(f, g) <=> \/ a[1] < b[1]
                           \/ a[1] = b[1] /\ a[2] < b[2]
                           \/ a[1] = b[1] /\ a[2] = b[2] /\ a[3] < b[3]
    BY <2>1, <2>3, <2>4
  <2> QED
    BY <2>2, <2>5
<1> HIDE DEF sev, rank
<1>4. \A f \in S : f \in Findings
  OBVIOUS
<1>5. \A f \in S : ~V!Before(f, f)
  BY <1>1, <1>3, <1>4
<1>6. \A f, g \in S : f # g => V!Before(f, g) \/ V!Before(g, f)
  BY <1>1, <1>2, <1>3, <1>4
<1>7. \A f, g, h \in S : V!Before(f, g) /\ V!Before(g, h) => V!Before(f, h)
  BY <1>1, <1>3, <1>4
<1> QED
  BY <1>5, <1>6, <1>7 DEF Orders

\* The filter and the deduplication drop what is disabled and what was said before.
LEMMA FilteredFindings ==
  ASSUME NEW fs \in Seq(Findings), NEW disabled
  PROVE  LET kept == V!DedupFindings(V!ApplyDisabledRules(fs, disabled))
         IN /\ kept \in Seq(Findings)
            /\ V!ToSet(kept) = {f \in V!ToSet(fs) : f.id \notin disabled}
<1> DEFINE allowed == {i \in DOMAIN fs : fs[i].id \notin disabled}
           a == KeptAt(fs, allowed)
           firsts == {i \in DOMAIN a : \A j \in 1..(i - 1) : a[j] # a[i]}
           b == KeptAt(a, firsts)
<1>1. V!DedupFindings(V!ApplyDisabledRules(fs, disabled)) = b
  BY SameListing, Zenon DEF V!DedupFindings, V!ApplyDisabledRules
<1>2. /\ a \in Seq(Findings)
      /\ \A k \in DOMAIN a : \E i \in allowed : a[k] = fs[i]
      /\ \A i \in allowed : \E k \in DOMAIN a : a[k] = fs[i]
  <2>1. allowed \in SUBSET DOMAIN fs
    OBVIOUS
  <2> HIDE DEF allowed
  <2> QED
    BY <2>1, KeptIsRange, Zenon
<1> HIDE DEF a
<1>3. /\ b \in Seq(Findings)
      /\ \A k \in DOMAIN b : \E i \in firsts : b[k] = a[i]
      /\ \A i \in firsts : \E k \in DOMAIN b : b[k] = a[i]
  <2>1. firsts \in SUBSET DOMAIN a
    OBVIOUS
  <2>2. a \in Seq(Findings)
    BY <1>2
  <2> HIDE DEF firsts
  <2> QED
    BY <2>1, <2>2, KeptIsRange, Zenon
<1>4. \A k \in DOMAIN a : \E i \in firsts : a[i] = a[k]
  <2> SUFFICES ASSUME NEW k \in DOMAIN a PROVE \E i \in firsts : a[i] = a[k]
    OBVIOUS
  <2> DEFINE same == {i \in DOMAIN a : a[i] = a[k]}
  <2>1. same \in SUBSET (1..Len(a)) /\ same # {} /\ DOMAIN a = 1..Len(a) /\ Len(a) \in Nat
    BY <1>2
  <2>2. PICK i \in same : \A j \in same : i <= j
    BY <2>1, LeastNumber
  <2>3. i \in DOMAIN a /\ a[i] = a[k]
    BY <2>2
  <2>4. \A j \in 1..(i - 1) : j \in DOMAIN a /\ ~(i <= j)
    BY <2>1, <2>2
  <2>5. \A j \in 1..(i - 1) : a[j] # a[i]
    BY <2>2, <2>3, <2>4
  <2> QED
    BY <2>3, <2>5
<1>5. ASSUME NEW f \in V!ToSet(fs), f.id \notin disabled PROVE f \in V!ToSet(b)
  <2>1. PICK i \in allowed : fs[i] = f
    BY <1>5 DEF V!ToSet
  <2>2. PICK k \in DOMAIN a : a[k] = f
    BY <1>2, <2>1
  <2>3. PICK n \in firsts : a[n] = f
    BY <1>4, <2>2
  <2>4. PICK m \in DOMAIN b : b[m] = f
    BY <1>3, <2>3
  <2> HIDE DEF b
  <2> QED
    BY <2>4 DEF V!ToSet
<1>6. ASSUME NEW f \in V!ToSet(b) PROVE f \in V!ToSet(fs) /\ f.id \notin disabled
  <2>1. PICK m \in DOMAIN b : b[m] = f
    BY DEF V!ToSet
  <2>2. PICK n \in firsts : a[n] = f
    BY <1>3, <2>1
  <2>3. PICK i \in allowed : fs[i] = f
    BY <1>2, <2>2
  <2> QED
    BY <2>3 DEF V!ToSet
<1>7. V!ToSet(b) = {f \in V!ToSet(fs) : f.id \notin disabled}
  BY <1>5, <1>6
<1> QED
  BY <1>1, <1>3, <1>7

\* Sorting and the strictness filter leave what is shown, in the one order.
LEMMA ShownFindings ==
  ASSUME NEW fs \in Seq(Findings), NEW strictness
  PROVE  LET shown == V!ApplyStrictness(V!SortFindings(fs), strictness)
         IN /\ shown \in Seq(Findings)
            /\ V!ToSet(shown) = {f \in V!ToSet(fs) : V!LevelOf(f.id) \in V!Shown(strictness)}
            /\ \A i, j \in DOMAIN shown : i < j => V!Before(shown[i], shown[j])
<1> DEFINE S == V!ToSet(fs)
           R == {p \in S \X S : V!Before(p[1], p[2])}
           s == InOrder(S, R)
           at == {i \in DOMAIN s : V!LevelOf(s[i].id) \in V!Shown(strictness)}
           b == KeptAt(s, at)
<1>1. V!ApplyStrictness(V!SortFindings(fs), strictness) = b
  BY SameListing, Zenon DEF V!ApplyStrictness, V!SortFindings
<1>2. S \in SUBSET Findings /\ Orders(R, S)
  <2>1. S \in SUBSET Findings
    BY DEF V!ToSet
  <2> QED
    BY <2>1, FindingsAreOrdered, Zenon
<1>3. IsFiniteSet(S)
  <2>1. fs \in [1..Len(fs) -> S] /\ Len(fs) \in Nat /\ \A x \in S : \E k \in 1..Len(fs) : fs[k] = x
    BY DEF V!ToSet
  <2>2. fs \in Surjection(1..Len(fs), S)
    BY <2>1, Zenon DEF Surjection
  <2>3. ExistsSurjection(1..Len(fs), S)
    BY <2>2, Zenon DEF ExistsSurjection
  <2> QED
    BY <2>1, <2>3, FS_NatSurjection, Zenon
<1>4. /\ Cardinality(S) \in Nat /\ s \in [1..Cardinality(S) -> S]
      /\ \A x \in S : \E k \in 1..Cardinality(S) : s[k] = x
      /\ \A k, m \in 1..Cardinality(S) : k < m => <<s[k], s[m]>> \in R
  <2> HIDE DEF S, R
  <2> QED
    BY <1>2, <1>3, ListingLists
<1>5. s \in Seq(Findings) /\ DOMAIN s = 1..Cardinality(S)
  <2> HIDE DEF s, S
  <2> QED
    BY <1>2, <1>4
<1>6. \A f \in S : \E k \in DOMAIN s : s[k] = f
  <2> HIDE DEF s, S
  <2> QED
    BY <1>4, <1>5
<1> HIDE DEF s
<1>7. /\ b \in Seq(Findings)
      /\ \A k \in DOMAIN b : \E i \in at : b[k] = s[i]
      /\ \A i \in at : \E k \in DOMAIN b : b[k] = s[i]
      /\ \A k, m \in DOMAIN b : k < m => \E i, j \in at : i < j /\ b[k] = s[i] /\ b[m] = s[j]
  <2>1. at \in SUBSET DOMAIN s
    OBVIOUS
  <2> HIDE DEF at
  <2> QED
    BY <1>5, <2>1, KeptIsRange, Zenon
<1>8. ASSUME NEW f \in S, V!LevelOf(f.id) \in V!Shown(strictness) PROVE f \in V!ToSet(b)
  <2>1. PICK i \in DOMAIN s : s[i] = f
    BY <1>6
  <2>2. i \in at
    BY <1>8, <2>1
  <2> HIDE DEF at, b
  <2> QED
    BY <1>7, <2>1, <2>2 DEF V!ToSet
<1>9. ASSUME NEW f \in V!ToSet(b) PROVE f \in S /\ V!LevelOf(f.id) \in V!Shown(strictness)
  <2>1. PICK k \in DOMAIN b : b[k] = f
    BY DEF V!ToSet
  <2>2. PICK i \in at : f = s[i]
    BY <1>7, <2>1
  <2> HIDE DEF S, b
  <2> QED
    BY <1>4, <1>5, <2>2
<1>10. ASSUME NEW k \in DOMAIN b, NEW m \in DOMAIN b, k < m PROVE V!Before(b[k], b[m])
  <2>1. PICK i \in at, j \in at : i < j /\ b[k] = s[i] /\ b[m] = s[j]
    BY <1>7, <1>10
  <2>2. <<s[i], s[j]>> \in R
    BY <1>4, <1>5, <2>1
  <2> HIDE DEF S, b
  <2> QED
    BY <2>1, <2>2
<1>11. V!ToSet(b) = {f \in S : V!LevelOf(f.id) \in V!Shown(strictness)}
  <2> HIDE DEF S, b
  <2> QED
    BY <1>8, <1>9
<1> QED
  BY <1>1, <1>7, <1>10, <1>11

\* An error among the findings is an error of the whole.
LEMMA ErrorRollsUp ==
  ASSUME NEW fs, NEW f \in V!ToSet(fs), V!LevelOf(f.id) = "error"
  PROVE  V!RollupStatus(fs) = "errors"
BY DEF V!RollupStatus

\* The result of a pane.
LEMMA PaneResult ==
  ASSUME NEW p, NEW found \in Seq(Findings), NEW broken, NEW opts
  PROVE  LET result == V!FinalizeResult(p, found, broken, opts)
         IN /\ result.findings \in Seq(Findings)
            /\ result.failed = broken /\ result.type = V!DetectType(p)
            /\ result.version = IF V!Ortb(p) THEN V!DetectVersion(p) ELSE "unknown"
            /\ broken # {} => result.status # "clean"
            /\ V!ToSet(result.findings) =
                 {f \in V!ToSet(found) : f.id \notin opts.disabled /\ V!LevelOf(f.id) \in V!Shown(opts.strictness)}
            /\ \A i, j \in DOMAIN result.findings :
                 i < j => V!Before(result.findings[i], result.findings[j])
            /\ \A f \in V!ToSet(result.findings) :
                 V!LevelOf(f.id) = "error" => result.status \in {"errors", "invalid"}
<1> DEFINE kept == V!DedupFindings(V!ApplyDisabledRules(found, opts.disabled))
           fs == V!ApplyStrictness(V!SortFindings(kept), opts.strictness)
           status == IF V!StatusOverride(p) THEN "invalid" ELSE V!RollupStatus(fs)
           result == V!FinalizeResult(p, found, broken, opts)
<1>1. kept \in Seq(Findings) /\ V!ToSet(kept) = {f \in V!ToSet(found) : f.id \notin opts.disabled}
  BY FilteredFindings, Zenon
<1> HIDE DEF kept
<1>2. /\ fs \in Seq(Findings)
      /\ V!ToSet(fs) = {f \in V!ToSet(kept) : V!LevelOf(f.id) \in V!Shown(opts.strictness)}
      /\ \A i, j \in DOMAIN fs : i < j => V!Before(fs[i], fs[j])
  BY <1>1, ShownFindings, Zenon
<1>3. /\ result.findings = fs /\ result.failed = broken /\ result.type = V!DetectType(p)
      /\ result.version = IF V!Ortb(p) THEN V!DetectVersion(p) ELSE "unknown"
      /\ result.status = IF broken # {} /\ status = "clean" THEN "warnings" ELSE status
  BY DEF V!FinalizeResult, kept
<1> HIDE DEF fs, result
<1>4. \A f \in V!ToSet(fs) : V!LevelOf(f.id) = "error" => result.status \in {"errors", "invalid"}
  BY <1>3, ErrorRollsUp
<1>5. broken # {} => result.status # "clean"
  BY <1>3
<1>6. V!ToSet(fs) = {f \in V!ToSet(found) : f.id \notin opts.disabled /\ V!LevelOf(f.id) \in V!Shown(opts.strictness)}
  BY <1>1, <1>2
<1> QED
  BY <1>2, <1>3, <1>4, <1>5, <1>6 DEF result

\* What validate() adds of its own are findings.
LEMMA OwnFindingsType == ASSUME NEW p, NEW pin PROVE V!OwnFindings(p, pin) \in Seq(Findings)
<1> DEFINE say(cond, id) == IF cond THEN <<V!Finding(id, 0)>> ELSE <<>>
<1>1. \A id \in V!Ids : <<V!Finding(id, 0)>> \in Seq(Findings)
  BY DEF V!Finding, Findings
<1>2. \A cond, id : id \in V!Ids => say(cond, id) \in Seq(Findings)
  BY <1>1
<1>3. \A s, t \in Seq(Findings) : s \o t \in Seq(Findings)
  OBVIOUS
<1> HIDE DEF say
<1> DEFINE v == V!DetectVersion(p)
           s1 == say(p.root \in {"text", "scalar"}, "payload.invalid_root")
           s2 == say(p.root = "refused", "request.url.refused")
           s3 == say(V!DetectType(p) = "JsonFeed", "jsonfeed.not_validated")
           s4 == say(V!IsObject(p) /\ V!DetectType(p) = "unknown", "payload.unknown_type")
           s5 == say(V!Ortb(p) /\ p.imp /\ p.seat # "none", "payload.ambiguous_both_sides")
           s6 == say(V!Ortb(p) /\ V!HasEnvelope(p) /\ V!Has2x(p), "payload.ambiguous_envelope")
           s7 == say(V!Ortb(p) /\ pin = V!None /\ v = "2.5" /\ p.marks = "none", "version.assumed")
           s8 == say(V!Ortb(p) /\ pin = V!None /\ v = "2.6" /\ p.marks = "2.6-one", "version.single_marker")
           s9 == say(V!Ortb(p) /\ pin \in V!Pinnable /\ v # pin, "version.mismatch")
<1>4. V!OwnFindings(p, pin) = s1 \o s2 \o s3 \o s4 \o s5 \o s6 \o s7 \o s8 \o s9
  BY Zenon DEF V!OwnFindings, say
<1>5. /\ s1 \in Seq(Findings) /\ s2 \in Seq(Findings) /\ s3 \in Seq(Findings)
      /\ s4 \in Seq(Findings) /\ s5 \in Seq(Findings) /\ s6 \in Seq(Findings)
      /\ s7 \in Seq(Findings) /\ s8 \in Seq(Findings) /\ s9 \in Seq(Findings)
  BY <1>2, IdRanks
<1> HIDE DEF s1, s2, s3, s4, s5, s6, s7, s8, s9
<1>6. s1 \o s2 \o s3 \in Seq(Findings)
  BY <1>5
<1>7. s1 \o s2 \o s3 \o s4 \o s5 \o s6 \in Seq(Findings)
  BY <1>5, <1>6
<1>8. s1 \o s2 \o s3 \o s4 \o s5 \o s6 \o s7 \o s8 \o s9 \in Seq(Findings)
  BY <1>5, <1>7
<1> QED
  BY <1>4, <1>8, Zenon

\* The two detectors agree on every payload.
LEMMA SameDetector ==
  ASSUME NEW p \in V!Shapes
  PROVE  LET version == IF V!Ortb(p) THEN V!DetectVersion(p) ELSE "unknown"
         IN /\ V!Classify(p).kind = "req" => V!DetectType(p) = "BidRequest"
            /\ V!Classify(p).kind = "res" => V!DetectType(p) = "BidResponse"
            /\ version = "3.0" <=> V!Classify(p).v30
BY DEF V!Shapes, V!Classify, V!DetectType, V!Ortb, V!DetectVersion, V!IsObject, V!HasEnvelope,
       V!Has2x, V!LooksLike30Envelope, V!Speaks30, V!OtherType

\* Types, and the order of the panes.
VTypes ==
  /\ job \in Jobs
  /\ side \in {V!None, "request", "response", "done"}
  /\ raw \in Seq(Findings)
  /\ spent = [found |-> spent.found, thrown |-> spent.thrown] /\ spent.thrown \in Nat
  /\ emitted \subseteq V!Panes \X Findings
  /\ DOMAIN sides \subseteq V!Panes
  /\ \A s \in DOMAIN sides : sides[s].findings \in Seq(Findings)

\* Nothing has been raised before the first pane, and the panes are taken in order.
VOrder ==
  /\ side = V!None => emitted = {} /\ DOMAIN sides = {} /\ spent.thrown = 0
  /\ side \in {V!None, "request"} => DOMAIN sides = {}
  /\ side = "response" => "response" \notin DOMAIN sides
  /\ side = V!None => raw = <<>> /\ failed = {}

\* What was raised is in a finished pane, or still in hand.
VRaised == \A e \in emitted : e[1] \in DOMAIN sides \/ (e[1] = side /\ e[2] \in V!ToSet(raw))

\* A finished pane: detected as the detectors say, its findings those raised for it that
\* are neither disabled nor below the strictness, in their order, its status no better
\* than they are.
PaneIsSound(s) ==
  /\ sides[s].type = V!DetectType(job[s])
  /\ sides[s].version = IF V!Ortb(job[s]) THEN V!DetectVersion(job[s]) ELSE "unknown"
  /\ sides[s].failed # {} => sides[s].status # "clean"
  /\ V!ToSet(sides[s].findings) =
       {f \in Findings : /\ <<s, f>> \in emitted /\ f.id \notin job.opts.disabled
                         /\ V!LevelOf(f.id) \in V!Shown(job.opts.strictness)}
  /\ \A i, j \in DOMAIN sides[s].findings : i < j => V!Before(sides[s].findings[i], sides[s].findings[j])
  /\ \A f \in V!ToSet(sides[s].findings) :
       V!LevelOf(f.id) = "error" => sides[s].status \in {"errors", "invalid"}

\* So is every finished pane.
VPanes == \A s \in DOMAIN sides : PaneIsSound(s)

\* A family that threw is on record for its pane.
VThrown ==
  spent.thrown > 0 => \/ side \in V!Panes /\ failed # {}
                      \/ \E s \in DOMAIN sides : sides[s].failed # {}

\* The answer is the union of the panes, and a failed family is no clean one.
VReport ==
  report # V!NoReport =>
    /\ side = "done" /\ report.failed = V!Incomplete
    /\ report.status = IF V!Incomplete # {} /\ V!RollupStatus(V!United) = "clean"
                       THEN "warnings" ELSE V!RollupStatus(V!United)

\* The inductive invariant of the validator.
VInv == VTypes /\ VOrder /\ VRaised /\ VPanes /\ VThrown /\ VReport

\* It holds before the first call.
LEMMA VInit == V!Init => VInv
<1> SUFFICES ASSUME V!Init PROVE VInv
  OBVIOUS
<1>1. /\ job \in Jobs /\ side = V!None /\ raw = <<>> /\ failed = {} /\ emitted = {}
      /\ spent = [found |-> 0, thrown |-> 0] /\ sides = <<>> /\ report = V!NoReport
  BY Zenon DEF V!Init
<1>2. DOMAIN sides = {} /\ raw \in Seq(Findings)
  BY <1>1
<1>3. VTypes
  BY <1>1, <1>2 DEF VTypes
<1>4. VOrder /\ VRaised /\ VPanes /\ VThrown
  BY <1>1, <1>2 DEF VOrder, VRaised, VPanes, VThrown
<1>5. VReport
  BY <1>1 DEF VReport
<1> QED
  BY <1>3, <1>4, <1>5 DEF VInv

\* A step that only begins or ends something: no finding, no result.
LEMMA VQuiet ==
  ASSUME VInv, UNCHANGED <<job, raw, failed, spent, emitted, sides>>,
         \/ side = V!None /\ side' \in V!Panes /\ UNCHANGED report
         \/ side = "done" /\ UNCHANGED side /\ VReport'
         \/ UNCHANGED <<side, report>>
  PROVE  VInv'
<1>1. VTypes' /\ VOrder' /\ VRaised' /\ VThrown'
  BY DEF VInv, VTypes, VOrder, VRaised, VThrown
<1>2. VPanes'
  BY DEF VInv, VPanes, PaneIsSound
<1>3. VReport'
  BY DEF VInv, VReport, V!United, V!Incomplete
<1> QED
  BY <1>1, <1>2, <1>3 DEF VInv

\* A family ends, with what it found or with the one warning that it threw.
LEMMA VFamily ==
  ASSUME VInv, NEW fs \in Seq(Findings), side \in V!Panes, raw' = raw \o fs, V!Raised(fs),
         UNCHANGED <<job, side, sides, report>>,
         spent' = [found |-> spent'.found, thrown |-> spent'.thrown], spent'.thrown \in Nat,
         \/ UNCHANGED failed /\ spent'.thrown = spent.thrown
         \/ failed' # {}
  PROVE  VInv'
<1> USE DEF VInv
<1>1. raw' \in Seq(Findings) /\ V!ToSet(raw') = V!ToSet(raw) \cup V!ToSet(fs)
  <2>1. raw \in Seq(Findings)
    BY DEF VTypes
  <2>2. raw \o fs \in Seq(Findings) /\ DOMAIN (raw \o fs) = 1..(Len(raw) + Len(fs))
    BY <2>1
  <2>3. \A x \in V!ToSet(raw) \cup V!ToSet(fs) : x \in V!ToSet(raw \o fs)
    <3>1. \A i \in DOMAIN raw : i \in DOMAIN (raw \o fs) /\ (raw \o fs)[i] = raw[i]
      BY <2>1
    <3>2. \A i \in DOMAIN fs : Len(raw) + i \in DOMAIN (raw \o fs) /\ (raw \o fs)[Len(raw) + i] = fs[i]
      BY <2>1
    <3> QED
      BY <3>1, <3>2 DEF V!ToSet
  <2>4. \A x \in V!ToSet(raw \o fs) : x \in V!ToSet(raw) \cup V!ToSet(fs)
    BY <2>1, <2>2 DEF V!ToSet
  <2> QED
    BY <2>2, <2>3, <2>4
<1>2. emitted' = emitted \cup {<<side, f>> : f \in V!ToSet(fs)}
  BY DEF V!Raised
<1>3. V!ToSet(fs) \subseteq Findings
  BY DEF V!ToSet
<1>4. VTypes'
  BY <1>1, <1>2, <1>3 DEF VTypes
<1>5. VOrder'
  BY DEF VOrder
<1>6. VRaised'
  BY <1>1, <1>2 DEF VRaised
<1>7. side \notin DOMAIN sides
  BY DEF VOrder
<1>8. VPanes'
  <2> SUFFICES ASSUME NEW s \in DOMAIN sides PROVE PaneIsSound(s)'
    BY DEF VPanes
  <2>1. PaneIsSound(s) /\ s # side
    BY <1>7 DEF VPanes
  <2>2. \A f : <<s, f>> \in emitted' <=> <<s, f>> \in emitted
    BY <1>2, <2>1
  <2> QED
    BY <2>1, <2>2 DEF PaneIsSound
<1>9. VThrown'
  BY DEF VThrown
<1>10. VReport'
  BY DEF VReport, V!United, V!Incomplete
<1> QED
  BY <1>4, <1>5, <1>6, <1>8, <1>9, <1>10

\* A pane ends: its result takes over what it raised and what threw.
LEMMA VFinish == ASSUME VInv, V!FinishSide PROVE VInv'
<1> USE DEF VInv
<1> DEFINE found == raw \o V!OwnFindings(V!Pane, job.pin)
           result == V!FinalizeResult(V!Pane, found, failed, job.opts)
<1>1. /\ side \in V!Panes
      /\ sides' = [s \in DOMAIN sides \cup {side} |-> IF s = side THEN result ELSE sides[s]]
      /\ V!Raised(found) /\ side' \in {"response", "done"} /\ (side' = "response" => side = "request")
      /\ raw' = <<>> /\ failed' = {} /\ UNCHANGED <<job, spent, report>>
  <2>1. /\ side \in V!Panes
        /\ raw' = <<>> /\ failed' = {} /\ UNCHANGED <<job, spent, report>>
    BY Zenon DEF V!FinishSide
  <2>2. /\ sides' = [s \in DOMAIN sides \cup {side} |-> IF s = side THEN result ELSE sides[s]]
        /\ V!Raised(found)
    BY Zenon DEF V!FinishSide
  <2>3. side' = IF side = "request" /\ V!Sent(job, "response") THEN "response" ELSE "done"
    BY Zenon DEF V!FinishSide
  <2> QED
    BY <2>1, <2>2, <2>3
<1>2. found \in Seq(Findings) /\ \A f \in V!ToSet(raw) : f \in V!ToSet(found)
  <2> DEFINE own == V!OwnFindings(V!Pane, job.pin)
  <2>1. raw \in Seq(Findings) /\ own \in Seq(Findings)
    BY OwnFindingsType DEF VTypes
  <2> HIDE DEF own
  <2>2. \A i \in DOMAIN raw : i \in DOMAIN (raw \o own) /\ (raw \o own)[i] = raw[i]
    BY <2>1
  <2>3. raw \o own \in Seq(Findings)
    BY <2>1
  <2>4. \A f \in V!ToSet(raw) : f \in V!ToSet(raw \o own)
    BY <2>2 DEF V!ToSet
  <2> QED
    BY <2>3, <2>4 DEF own
<1> HIDE DEF found
<1>3. /\ result.findings \in Seq(Findings)
      /\ result.failed = failed /\ result.type = V!DetectType(V!Pane)
      /\ result.version = IF V!Ortb(V!Pane) THEN V!DetectVersion(V!Pane) ELSE "unknown"
      /\ failed # {} => result.status # "clean"
      /\ V!ToSet(result.findings) =
           {f \in V!ToSet(found) : /\ f.id \notin job.opts.disabled
                                  /\ V!LevelOf(f.id) \in V!Shown(job.opts.strictness)}
      /\ \A i, j \in DOMAIN result.findings : i < j => V!Before(result.findings[i], result.findings[j])
      /\ \A f \in V!ToSet(result.findings) :
           V!LevelOf(f.id) = "error" => result.status \in {"errors", "invalid"}
  BY <1>2, PaneResult, Zenon
<1> HIDE DEF result
<1>4. emitted' = emitted \cup {<<side, f>> : f \in V!ToSet(found)} /\ V!ToSet(found) \subseteq Findings
  BY <1>1, <1>2 DEF V!Raised, V!ToSet
<1>5. side \notin DOMAIN sides /\ side # "done"
  BY <1>1 DEF VOrder
<1>6. /\ DOMAIN sides' = DOMAIN sides \cup {side} /\ sides'[side] = result
      /\ \A s \in DOMAIN sides : sides'[s] = sides[s] /\ s # side
  BY <1>1, <1>5
<1>7. VTypes'
  BY <1>1, <1>3, <1>4, <1>6 DEF VTypes
<1>8. VOrder'
  BY <1>1, <1>5, <1>6 DEF VOrder
<1>9. VRaised'
  BY <1>4, <1>6 DEF VRaised
<1>10. VPanes'
  <2> SUFFICES ASSUME NEW s \in DOMAIN sides \cup {side} PROVE PaneIsSound(s)'
    BY <1>6 DEF VPanes
  <2>1. CASE s = side
    <3>1. \A f : <<side, f>> \in emitted => f \in V!ToSet(found)
      BY <1>2, <1>5 DEF VRaised
    <3>2. \A f : <<side, f>> \in emitted' <=> f \in V!ToSet(found)
      BY <1>4, <3>1
    <3>3. V!ToSet(result.findings) =
            {f \in Findings : /\ <<side, f>> \in emitted' /\ f.id \notin job.opts.disabled
                              /\ V!LevelOf(f.id) \in V!Shown(job.opts.strictness)}
      BY <1>3, <1>4, <3>2
    <3> QED
      BY <1>1, <1>3, <1>6, <2>1, <3>3 DEF PaneIsSound, V!Pane
  <2>2. CASE s # side
    <3>1. PaneIsSound(s) /\ \A f : <<s, f>> \in emitted' <=> <<s, f>> \in emitted
      BY <1>4, <2>2 DEF VPanes
    <3> QED
      BY <1>1, <1>6, <2>2, <3>1 DEF PaneIsSound
  <2> QED
    BY <2>1, <2>2
<1>11. VThrown'
  BY <1>1, <1>3, <1>6 DEF VThrown
<1>12. VReport'
  BY <1>1, <1>5 DEF VReport
<1> QED
  BY <1>7, <1>8, <1>9, <1>10, <1>11, <1>12

\* Every step of the validator keeps it.
LEMMA VStep == ASSUME VInv, V!Next PROVE VInv'
<1>1. CASE V!Receive
  <2>1. side = V!None /\ side' \in V!Panes /\ UNCHANGED <<job, raw, failed, spent, emitted, sides, report>>
    BY <1>1 DEF V!Receive, V!FirstSide
  <2> QED
    BY <2>1, VQuiet
<1>2. ASSUME NEW fs \in {<<>>} \cup {<<f>> : f \in V!Pool}, V!FamilyFinds(fs) PROVE VInv'
  <2>1. V!Pool \subseteq Findings
    BY IdRanks DEF V!Pool, Findings
  <2>2. fs \in Seq(Findings)
    <3>1. \A f \in Findings : <<f>> \in Seq(Findings)
      OBVIOUS
    <3>2. <<>> \in Seq(Findings)
      OBVIOUS
    <3> QED
      BY <2>1, <3>1, <3>2, Zenon
  <2>3. /\ side \in V!Panes /\ raw' = raw \o fs /\ V!Raised(fs)
        /\ spent' = [spent EXCEPT !.found = @ + Len(fs)] /\ UNCHANGED <<job, side, failed, sides, report>>
    BY <1>2, Zenon DEF V!FamilyFinds
  <2>4. /\ spent' = [found |-> spent'.found, thrown |-> spent'.thrown]
        /\ spent'.thrown = spent.thrown /\ spent'.thrown \in Nat
    <3>1. spent = [found |-> spent.found, thrown |-> spent.thrown] /\ spent.thrown \in Nat
      BY DEF VInv, VTypes
    <3> QED
      BY <2>3, <3>1
  <2> QED
    BY <2>2, <2>3, <2>4, VFamily
<1>3. CASE V!FamilyThrows
  <2> DEFINE fs == <<V!Finding("internal.rule_family_failed", 0)>>
  <2>1. fs \in Seq(Findings)
    BY IdRanks DEF V!Finding, Findings
  <2>2. /\ side \in V!Panes /\ raw' = Append(raw, V!Finding("internal.rule_family_failed", 0)) /\ V!Raised(fs)
        /\ failed' = failed \cup {Head(queue)}
        /\ spent' = [spent EXCEPT !.thrown = @ + 1] /\ UNCHANGED <<job, side, sides, report>>
    BY <1>3, Zenon DEF V!FamilyThrows
  <2>3. raw' = raw \o fs
    BY <2>1, <2>2 DEF VInv, VTypes
  <2>4. /\ spent' = [found |-> spent'.found, thrown |-> spent'.thrown]
        /\ spent'.thrown \in Nat
    <3>1. spent = [found |-> spent.found, thrown |-> spent.thrown] /\ spent.thrown \in Nat
      BY DEF VInv, VTypes
    <3> QED
      BY <2>2, <3>1
  <2>5. failed' # {}
    BY <2>2
  <2> HIDE DEF fs
  <2> QED
    BY <2>1, <2>2, <2>3, <2>4, <2>5, VFamily
<1>4. CASE V!Answer
  <2>1. side = "done" /\ UNCHANGED <<job, side, raw, failed, spent, emitted, sides>>
    BY <1>4, Zenon DEF V!Answer
  <2>2. report' = [status |-> IF V!Incomplete # {} /\ V!RollupStatus(V!United) = "clean"
                              THEN "warnings" ELSE V!RollupStatus(V!United),
                   failed |-> V!Incomplete, findings |-> V!United]
    BY <1>4, Zenon DEF V!Answer
  <2>3. V!Incomplete' = V!Incomplete /\ V!United' = V!United
    BY <2>1 DEF V!Incomplete, V!United
  <2>4. VReport'
    BY <2>1, <2>2, <2>3 DEF VReport
  <2> QED
    BY <2>1, <2>4, VQuiet
<1> QED
  BY <1>1, <1>2, <1>3, <1>4, VFinish DEF V!Next

\* An error in a pane makes the status of the answer.
LEMMA UnitedErrors ==
  ASSUME VInv, NEW s \in DOMAIN sides, NEW f \in V!ToSet(sides[s].findings), V!LevelOf(f.id) = "error"
  PROVE  V!RollupStatus(V!United) = "errors"
<1> DEFINE a == IF "request" \in DOMAIN sides THEN sides["request"].findings ELSE <<>>
           b == IF "response" \in DOMAIN sides THEN sides["response"].findings ELSE <<>>
<1>1. V!United = a \o b
  BY DEF V!United
<1>2. a \in Seq(Findings) /\ b \in Seq(Findings) /\ s \in {"request", "response"}
  BY DEF VInv, VTypes
<1>3. f \in V!ToSet(a) \/ f \in V!ToSet(b)
  BY <1>2
<1> HIDE DEF a, b
<1>4. \A i \in DOMAIN a : i \in DOMAIN (a \o b) /\ (a \o b)[i] = a[i]
  BY <1>2
<1>5. \A i \in DOMAIN b : Len(a) + i \in DOMAIN (a \o b) /\ (a \o b)[Len(a) + i] = b[i]
  BY <1>2
<1>6. f \in V!ToSet(a \o b)
  BY <1>3, <1>4, <1>5 DEF V!ToSet
<1> QED
  BY <1>1, <1>6, ErrorRollsUp

\* And the invariant is all that ValidatorIsSound asks for.
LEMMA VSound == VInv => V!ErrorsAreSaid /\ V!CleanIsComplete /\ V!ReportIsCanonical /\ V!DetectorsAgree
<1> SUFFICES ASSUME VInv
             PROVE  V!ErrorsAreSaid /\ V!CleanIsComplete /\ V!ReportIsCanonical /\ V!DetectorsAgree
  OBVIOUS
<1> USE DEF VInv
<1>1. V!ErrorsAreSaid
  <2> SUFFICES ASSUME NEW e \in emitted, e[1] \in DOMAIN sides, V!LevelOf(e[2].id) = "error",
                      e[2].id \notin job.opts.disabled
               PROVE  /\ e[2] \in V!ToSet(sides[e[1]].findings)
                      /\ sides[e[1]].status \in {"errors", "invalid"}
                      /\ report # V!NoReport => report.status = "errors"
    BY DEF V!ErrorsAreSaid
  <2>1. e[2] \in V!ToSet(sides[e[1]].findings) /\ sides[e[1]].status \in {"errors", "invalid"}
    <3>1. e = <<e[1], e[2]>> /\ e[2] \in Findings
      BY DEF VTypes
    <3>2. "error" \in V!Shown(job.opts.strictness)
      BY DEF V!Shown
    <3> QED
      BY <3>1, <3>2 DEF VPanes, PaneIsSound
  <2>2. V!RollupStatus(V!United) = "errors"
    BY <2>1, UnitedErrors
  <2> QED
    BY <2>1, <2>2 DEF VReport
<1>2. V!CleanIsComplete
  <2>1. \A s \in DOMAIN sides : sides[s].failed # {} => sides[s].status # "clean"
    BY DEF VPanes, PaneIsSound
  <2>2. ASSUME report # V!NoReport
        PROVE  /\ report.status = "clean" => spent.thrown = 0
               /\ spent.thrown > 0 => report.failed # {}
               /\ report.failed = UNION {sides[s].failed : s \in DOMAIN sides}
    <3>1. /\ side = "done" /\ report.failed = V!Incomplete
          /\ report.status = IF V!Incomplete # {} /\ V!RollupStatus(V!United) = "clean"
                             THEN "warnings" ELSE V!RollupStatus(V!United)
      BY <2>2 DEF VReport
    <3>2. V!Incomplete = UNION {sides[s].failed : s \in DOMAIN sides}
      BY DEF V!Incomplete
    <3>3. spent.thrown \in Nat /\ (spent.thrown > 0 => V!Incomplete # {})
      BY <3>1, <3>2 DEF VThrown, VTypes
    <3> QED
      BY <3>1, <3>2, <3>3
  <2> QED
    BY <2>1, <2>2 DEF V!CleanIsComplete
<1>3. V!DetectorsAgree
  <2> SUFFICES ASSUME NEW s \in DOMAIN sides
               PROVE  /\ V!Classify(job[s]).kind = "req" => sides[s].type = "BidRequest"
                      /\ V!Classify(job[s]).kind = "res" => sides[s].type = "BidResponse"
                      /\ sides[s].version = "3.0" <=> V!Classify(job[s]).v30
    BY DEF V!DetectorsAgree
  <2>1. job[s] \in V!Shapes
    BY JobsAssumption DEF VTypes
  <2> QED
    BY <2>1, SameDetector DEF VPanes, PaneIsSound
<1>4. V!ReportIsCanonical
  <2> SUFFICES ASSUME NEW s \in DOMAIN sides
               PROVE  LET fs == sides[s].findings
                      IN /\ \A i, j \in DOMAIN fs : i < j => V!Before(fs[i], fs[j])
                         /\ \A f \in V!ToSet(fs) : /\ f.id \notin job.opts.disabled
                                                   /\ V!LevelOf(f.id) \in V!Shown(job.opts.strictness)
                         /\ {e[2] : e \in {x \in emitted : x[1] = s}} \cap
                              {f \in [id : V!Ids \ job.opts.disabled, path : 0..2] :
                                 V!LevelOf(f.id) \in V!Shown(job.opts.strictness)} = V!ToSet(fs)
    BY Zenon DEF V!ReportIsCanonical
  <2> DEFINE raised == {e[2] : e \in {x \in emitted : x[1] = s}}
             kept == {f \in [id : V!Ids \ job.opts.disabled, path : 0..2] :
                        V!LevelOf(f.id) \in V!Shown(job.opts.strictness)}
  <2>1. PaneIsSound(s)
    BY DEF VPanes
  <2>2. \A f : f \in raised <=> <<s, f>> \in emitted
    BY DEF VTypes
  <2>3. \A f : f \in kept <=> /\ f \in Findings /\ f.id \notin job.opts.disabled
                              /\ V!LevelOf(f.id) \in V!Shown(job.opts.strictness)
    BY DEF Findings
  <2> HIDE DEF raised, kept
  <2>4. raised \cap kept = V!ToSet(sides[s].findings)
    BY <2>1, <2>2, <2>3 DEF PaneIsSound
  <2>5. \A f \in V!ToSet(sides[s].findings) : /\ f.id \notin job.opts.disabled
                                               /\ V!LevelOf(f.id) \in V!Shown(job.opts.strictness)
    BY <2>1 DEF PaneIsSound
  <2> QED
    BY <2>1, <2>4, <2>5 DEF PaneIsSound, raised, kept
<1> QED
  BY <1>1, <1>2, <1>3, <1>4

-----------------------------------------------------------------------------
(* The migration.                                                          *)

\* What Front and IsStrictPrefix make of the paths there are.
LEMMA Fronts ==
  /\ \A a, b : T!Front(<<a, b>>) = <<a>>
  /\ \A a, b, c : T!Front(<<a, b, c>>) = <<a, b>>
  /\ \A a, b, c, d : T!Front(<<a, b, c, d>>) = <<a, b, c>>
<1>1. ASSUME NEW a, NEW b PROVE T!Front(<<a, b>>) = <<a>>
  <2> DEFINE s == <<a, b>>
             f == T!Front(s)
             g == <<a>>
  <2>1. s \in Seq({a, b}) /\ Len(s) = 2 /\ s[1] = a
    OBVIOUS
  <2>2. f \in Seq({a, b}) /\ Len(f) = 1 /\ f[1] = a
    BY <2>1 DEF T!Front
  <2>3. g \in Seq({a, b}) /\ Len(g) = 1 /\ g[1] = a
    OBVIOUS
  <2> HIDE DEF f, g
  <2>4. f = g
    BY <2>2, <2>3, SeqEqual
  <2> QED
    BY <2>4 DEF f, g
<1>2. ASSUME NEW a, NEW b, NEW c PROVE T!Front(<<a, b, c>>) = <<a, b>>
  <2> DEFINE s == <<a, b, c>>
             f == T!Front(s)
             g == <<a, b>>
  <2>1. s \in Seq({a, b, c}) /\ Len(s) = 3 /\ s[1] = a /\ s[2] = b
    OBVIOUS
  <2>2. f \in Seq({a, b, c}) /\ Len(f) = 2 /\ f[1] = a /\ f[2] = b
    BY <2>1 DEF T!Front
  <2>3. g \in Seq({a, b, c}) /\ Len(g) = 2 /\ g[1] = a /\ g[2] = b
    OBVIOUS
  <2> HIDE DEF f, g
  <2>4. \A i \in 1..Len(f) : f[i] = g[i]
    BY <2>2, <2>3
  <2>5. f = g
    BY <2>2, <2>3, <2>4, SeqEqual
  <2> QED
    BY <2>5 DEF f, g
<1>3. ASSUME NEW a, NEW b, NEW c, NEW d PROVE T!Front(<<a, b, c, d>>) = <<a, b, c>>
  <2> DEFINE s == <<a, b, c, d>>
             f == T!Front(s)
             g == <<a, b, c>>
  <2>1. s \in Seq({a, b, c, d}) /\ Len(s) = 4 /\ s[1] = a /\ s[2] = b /\ s[3] = c
    OBVIOUS
  <2>2. f \in Seq({a, b, c, d}) /\ Len(f) = 3 /\ f[1] = a /\ f[2] = b /\ f[3] = c
    BY <2>1 DEF T!Front
  <2>3. g \in Seq({a, b, c, d}) /\ Len(g) = 3 /\ g[1] = a /\ g[2] = b /\ g[3] = c
    OBVIOUS
  <2> HIDE DEF f, g
  <2>4. \A i \in 1..Len(f) : f[i] = g[i]
    BY <2>2, <2>3
  <2>5. f = g
    BY <2>2, <2>3, <2>4, SeqEqual
  <2> QED
    BY <2>5 DEF f, g
<1> QED
  BY <1>1, <1>2, <1>3

\* For such short paths, to be a prefix is to agree on the first members.
LEMMA Prefixes ==
  /\ \A a, x, y, z : T!IsStrictPrefix(<<a>>, <<x, y, z>>) <=> a = x
  /\ \A a, b, x, y, z : T!IsStrictPrefix(<<a, b>>, <<x, y, z>>) <=> a = x /\ b = y
  /\ \A a, b, v, w, x, y, z : T!IsStrictPrefix(<<a, b>>, <<v, w, x, y, z>>) <=> a = v /\ b = w
  /\ \A a, b, c, w, x, y, z : T!IsStrictPrefix(<<a, b, c>>, <<w, x, y, z>>) <=> a = w /\ b = x /\ c = y
BY DEF T!IsStrictPrefix, T!IsPrefix

\* A promotion goes from a path to another one of its own.  Its addition is the other
\* half of its removal, and of no other one; and what is added is never removed.
LEMMA PromotionPaths ==
  ASSUME NEW p \in T!Promotions, NEW q \in T!Promotions
  PROVE  /\ p.target # q.source
         /\ p.target = q.target => p = q
         /\ Len(p.target) > 1 /\ T!Last(p.target) # "cattax"
         /\ p.rule # "category.cattax"
         /\ T!IsStrictPrefix(T!Front(p.target), p.source)
         /\ p.rule = q.rule /\ T!IsStrictPrefix(T!Front(p.target), q.source) => p = q
<1> DEFINE content(r) == \E c : r = T!ContentPromotion(c)
           reward(r) == \E i : r = T!RewardPromotion(i)
           protocol(r) == \E i : r = T!ProtocolPromotion(i)
           extension(r) == \E o, k : /\ r.source = <<o, "ext", k>> /\ r.target = <<o, k>> 
                                     /\ k \notin {"cattax", "prodq", "rwdd", "protocols"}
                                     /\ r.rule \notin {"category.cattax", "content.prodq", "imp.rwdd", "video.protocols"}
<1>1. \A r \in T!Extensions : extension(r)
  BY DEF T!Extensions, T!Promotion
<1>2. \A r \in T!Promotions : r \in T!Extensions \/ content(r) \/ reward(r) \/ protocol(r)
  BY DEF T!Promotions
<1>3. \A r, s \in T!Extensions : r.rule = s.rule \/ r.target = s.target => r = s
  BY DEF T!Extensions, T!Promotion
<1> DEFINE good(r, s) ==
         /\ r.target # s.source
         /\ r.target = s.target => r = s
         /\ r.rule = s.rule /\ T!IsStrictPrefix(T!Front(r.target), s.source) => r = s
<1>4. /\ \A c : /\ T!ContentPromotion(c).rule = "content.prodq"
                /\ T!ContentPromotion(c).source = <<c, "content", "videoquality">>
                /\ T!ContentPromotion(c).target = <<c, "content", "prodq">>
      /\ \A i : /\ T!RewardPromotion(i).rule = "imp.rwdd"
                /\ T!RewardPromotion(i).source = <<"imp", i, "video", "ext", "rewarded">>
                /\ T!RewardPromotion(i).target = <<"imp", i, "rwdd">>
      /\ \A i : /\ T!ProtocolPromotion(i).rule = "video.protocols"
                /\ T!ProtocolPromotion(i).source = <<"imp", i, "video", "protocol">>
                /\ T!ProtocolPromotion(i).target = <<"imp", i, "video", "protocols">>
  BY DEF T!ContentPromotion, T!RewardPromotion, T!ProtocolPromotion, T!Promotion
<1>5. p.target # q.source
  BY <1>1, <1>2, <1>4
<1>6. p.target = q.target => p = q
  BY <1>1, <1>2, <1>3, <1>4
<1>8. p.rule # "category.cattax"
  BY <1>1, <1>2, <1>4
<1>9. Len(p.target) > 1 /\ T!Last(p.target) # "cattax"
  <2>1. CASE p \in T!Extensions
    <3>1. PICK o, k : p.target = <<o, k>> /\ k # "cattax"
      BY <1>1, <2>1
    <3> QED
      BY <3>1 DEF T!Last
  <2>2. ASSUME NEW c, p = T!ContentPromotion(c) PROVE Len(p.target) > 1 /\ T!Last(p.target) # "cattax"
    <3>1. p.target = <<c, "content", "prodq">>
      BY <1>4, <2>2
    <3> QED
      BY <3>1 DEF T!Last
  <2>3. ASSUME NEW i, p = T!RewardPromotion(i) PROVE Len(p.target) > 1 /\ T!Last(p.target) # "cattax"
    <3>1. p.target = <<"imp", i, "rwdd">>
      BY <1>4, <2>3
    <3> QED
      BY <3>1 DEF T!Last
  <2>4. ASSUME NEW i, p = T!ProtocolPromotion(i) PROVE Len(p.target) > 1 /\ T!Last(p.target) # "cattax"
    <3>1. p.target = <<"imp", i, "video", "protocols">>
      BY <1>4, <2>4
    <3> QED
      BY <3>1 DEF T!Last
  <2> QED
    BY <1>2, <2>1, <2>2, <2>3, <2>4
<1>10. T!IsStrictPrefix(T!Front(p.target), p.source)
  <2>1. CASE p \in T!Extensions
    <3>1. PICK o, k : p.source = <<o, "ext", k>> /\ T!Front(p.target) = <<o>>
      BY <1>1, <2>1, Fronts
    <3> QED
      BY <3>1, Prefixes
  <2>2. ASSUME NEW c, p = T!ContentPromotion(c) PROVE T!IsStrictPrefix(T!Front(p.target), p.source)
    <3>1. p.source = <<c, "content", "videoquality">> /\ p.target = <<c, "content", "prodq">>
      BY <1>4, <2>2
    <3>2. T!Front(p.target) = <<c, "content">>
      BY <3>1, Fronts
    <3> QED
      BY <3>1, <3>2, Prefixes
  <2>3. ASSUME NEW i, p = T!RewardPromotion(i) PROVE T!IsStrictPrefix(T!Front(p.target), p.source)
    <3>1. p.source = <<"imp", i, "video", "ext", "rewarded">> /\ p.target = <<"imp", i, "rwdd">>
      BY <1>4, <2>3
    <3>2. T!Front(p.target) = <<"imp", i>>
      BY <3>1, Fronts
    <3> QED
      BY <3>1, <3>2, Prefixes
  <2>4. ASSUME NEW i, p = T!ProtocolPromotion(i) PROVE T!IsStrictPrefix(T!Front(p.target), p.source)
    <3>1. p.source = <<"imp", i, "video", "protocol">> /\ p.target = <<"imp", i, "video", "protocols">>
      BY <1>4, <2>4
    <3>2. T!Front(p.target) = <<"imp", i, "video">>
      BY <3>1, Fronts
    <3> QED
      BY <3>1, <3>2, Prefixes
  <2> QED
    BY <1>2, <2>1, <2>2, <2>3, <2>4
<1>11. ASSUME p.rule = q.rule, T!IsStrictPrefix(T!Front(p.target), q.source) PROVE p = q
  <2>1. CASE p \in T!Extensions
    BY <1>1, <1>2, <1>3, <1>4, <1>11, <2>1
  <2>2. ASSUME NEW c, p = T!ContentPromotion(c) PROVE p = q
    <3>1. PICK d : q = T!ContentPromotion(d)
      BY <1>1, <1>2, <1>4, <1>11, <2>2
    <3>2. T!IsStrictPrefix(<<c, "content">>, <<d, "content", "videoquality">>)
      <4>1. p.target = <<c, "content", "prodq">> /\ q.source = <<d, "content", "videoquality">>
        BY <1>4, <2>2, <3>1
      <4>2. T!Front(p.target) = <<c, "content">>
        BY <4>1, Fronts
      <4> QED
        BY <1>11, <4>1, <4>2, Zenon
    <3>3. c = d
      BY <3>2, Prefixes
    <3> QED
      BY <2>2, <3>1, <3>3
  <2>3. ASSUME NEW i, p = T!RewardPromotion(i) PROVE p = q
    <3>1. PICK j : q = T!RewardPromotion(j)
      BY <1>1, <1>2, <1>4, <1>11, <2>3
    <3>2. T!IsStrictPrefix(<<"imp", i>>, <<"imp", j, "video", "ext", "rewarded">>)
      <4>1. p.target = <<"imp", i, "rwdd">> /\ q.source = <<"imp", j, "video", "ext", "rewarded">>
        BY <1>4, <2>3, <3>1
      <4>2. T!Front(p.target) = <<"imp", i>>
        BY <4>1, Fronts
      <4> QED
        BY <1>11, <4>1, <4>2, Zenon
    <3>3. i = j
      BY <3>2, Prefixes
    <3> QED
      BY <2>3, <3>1, <3>3
  <2>4. ASSUME NEW i, p = T!ProtocolPromotion(i) PROVE p = q
    <3>1. PICK j : q = T!ProtocolPromotion(j)
      BY <1>1, <1>2, <1>4, <1>11, <2>4
    <3>2. T!IsStrictPrefix(<<"imp", i, "video">>, <<"imp", j, "video", "protocol">>)
      <4>1. p.target = <<"imp", i, "video", "protocols">> /\ q.source = <<"imp", j, "video", "protocol">>
        BY <1>4, <2>4, <3>1
      <4>2. T!Front(p.target) = <<"imp", i, "video">>
        BY <4>1, Fronts
      <4> QED
        BY <1>11, <4>1, <4>2, Zenon
    <3>3. i = j
      BY <3>2, Prefixes
    <3> QED
      BY <2>4, <3>1, <3>3
  <2> QED
    BY <1>2, <2>1, <2>2, <2>3, <2>4
<1> QED
  BY <1>5, <1>6, <1>8, <1>9, <1>10, <1>11

\* Advice is given about a request, by a promotion or for the categories of an object.
LEMMA AdviceFrom ==
  ASSUME NEW t, NEW a \in T!Advice(t)
  PROVE  /\ T!IsRequest(t)
         /\ \/ \E p \in T!Promotions : a \in T!Promoted(t.doc, p)
            \/ \E c \in T!CategoryTargets : a \in T!Categorized(t.doc, c)
<1>1. T!IsRequest(t)
  BY DEF T!Advice
<1>2. PICK x \in {T!Promoted(t.doc, p) : p \in T!Promotions}
                  \cup {T!Categorized(t.doc, c) : c \in T!CategoryTargets} : a \in x
  BY <1>1, Zenon DEF T!Advice
<1>3. \/ \E p \in T!Promotions : x = T!Promoted(t.doc, p)
      \/ \E c \in T!CategoryTargets : x = T!Categorized(t.doc, c)
  BY Zenon
<1> QED
  BY <1>1, <1>2, <1>3, Zenon

\* And all that these propose about a request is advice.
LEMMA AdviceOf ==
  ASSUME NEW t, T!IsRequest(t), NEW p \in T!Promotions, NEW a \in T!Promoted(t.doc, p)
  PROVE  a \in T!Advice(t)
<1>1. T!Promoted(t.doc, p) \in {T!Promoted(t.doc, q) : q \in T!Promotions}
                                \cup {T!Categorized(t.doc, c) : c \in T!CategoryTargets}
  BY Zenon
<1> QED
  BY <1>1, Zenon DEF T!Advice

\* What one promotion proposes: an addition only where there is nothing, a removal with it
\* or where the value is there already.
LEMMA PromotedOperations ==
  ASSUME NEW doc, NEW p \in T!Promotions, NEW a \in T!Promoted(doc, p)
  PROVE  /\ p.source \in DOMAIN doc
         /\ a.op = "add" =>
              /\ p.target \notin DOMAIN doc
              /\ a = T!Operation("add", p.rule, p.confidence, p.target, T!Normal(p.kind, doc[p.source]))
         /\ a.op = "remove" =>
              /\ a.path = p.source /\ a.rule = p.rule
              /\ \/ p.target \in DOMAIN doc /\ doc[p.target] = T!Normal(p.kind, doc[p.source])
                 \/ T!Operation("add", p.rule, p.confidence, p.target, T!Normal(p.kind, doc[p.source]))
                      \in T!Promoted(doc, p)
<1> DEFINE value == T!Normal(p.kind, doc[p.source])
           add == T!Operation("add", p.rule, p.confidence, p.target, value)
           remove == T!Operation("remove", p.rule, p.confidence, p.source, doc[p.source])
<1>1. T!Promoted(doc, p) = IF p.source \notin DOMAIN doc \/ value = T!Invalid THEN {}
                           ELSE IF p.target \notin DOMAIN doc THEN {add, remove}
                           ELSE IF doc[p.target] = value THEN {remove} ELSE {}
  BY Zenon DEF T!Promoted
<1>2. add.op = "add" /\ remove.op = "remove" /\ remove.path = p.source /\ remove.rule = p.rule
  BY DEF T!Operation
<1> HIDE DEF value, add, remove
<1>3. /\ p.source \in DOMAIN doc
      /\ a.op = "add" => p.target \notin DOMAIN doc /\ a = add
      /\ a.op = "remove" =>
           /\ a.path = p.source /\ a.rule = p.rule
           /\ \/ p.target \in DOMAIN doc /\ doc[p.target] = value
              \/ add \in T!Promoted(doc, p)
  BY <1>1, <1>2
<1> QED
  BY <1>3, Zenon DEF value, add

\* What is proposed for the categories of an object is one cattax beside them.
LEMMA CategoryOperations ==
  ASSUME NEW doc, NEW c \in T!CategoryTargets, NEW a \in T!Categorized(doc, c)
  PROVE  /\ a.op = "add" /\ a.rule = "category.cattax"
         /\ a.path \notin DOMAIN doc /\ T!Last(a.path) = "cattax"
<1>1. a.op = "add" /\ a.rule = "category.cattax"
  BY DEF T!Categorized, T!Operation
<1>2. a.path = Append(c.at, "cattax") /\ ~T!Cattax(doc, c)
  BY DEF T!Categorized, T!Operation
<1> DEFINE S == Contexts \cup {"publisher", "content", "producer"}
<1>3. c.at \in Seq(S)
  <2>1. \/ c.at = <<>>
        \/ \E x \in Contexts : \/ c.at = <<x>> \/ c.at = <<x, "publisher">> \/ c.at = <<x, "content">>
                               \/ c.at = <<x, "content", "producer">>
    BY DEF T!CategoryTargets
  <2>2. \A x \in S : /\ <<x>> \in Seq(S) /\ <<x, "publisher">> \in Seq(S) /\ <<x, "content">> \in Seq(S)
                     /\ <<x, "content", "producer">> \in Seq(S)
    OBVIOUS
  <2>3. Contexts \subseteq S /\ <<>> \in Seq(S)
    OBVIOUS
  <2> HIDE DEF S
  <2> QED
    BY <2>1, <2>2, <2>3, Zenon
<1>4. T!Last(a.path) = "cattax"
  BY <1>2, <1>3 DEF T!Last
<1>5. a.path \notin DOMAIN doc
  BY <1>2 DEF T!Cattax
<1> QED
  BY <1>1, <1>4, <1>5

\* Where the advisor adds there is nothing: it adds a cattax, or a promoted value.
LEMMA Additions ==
  ASSUME NEW t, NEW a \in T!Advice(t), a.op = "add"
  PROVE  /\ a.path \notin DOMAIN t.doc
         /\ \/ T!Last(a.path) = "cattax" /\ a.rule = "category.cattax"
            \/ \E p \in T!Promotions : /\ p.source \in DOMAIN t.doc
                                       /\ a = T!Operation("add", p.rule, p.confidence, p.target,
                                                          T!Normal(p.kind, t.doc[p.source]))
<1>1. CASE \E p \in T!Promotions : a \in T!Promoted(t.doc, p)
  <2>1. PICK p \in T!Promotions : a \in T!Promoted(t.doc, p)
    BY <1>1
  <2>2. /\ p.source \in DOMAIN t.doc /\ p.target \notin DOMAIN t.doc
        /\ a = T!Operation("add", p.rule, p.confidence, p.target, T!Normal(p.kind, t.doc[p.source]))
    BY <2>1, PromotedOperations, Zenon
  <2>3. a.path = p.target
    BY <2>2 DEF T!Operation
  <2> QED
    BY <2>2, <2>3, Zenon
<1>2. CASE \E c \in T!CategoryTargets : a \in T!Categorized(t.doc, c)
  BY <1>2, CategoryOperations, Zenon
<1> QED
  BY <1>1, <1>2, AdviceFrom, Zenon

\* What it removes is a source whose target has its normal value already, or is given it.
LEMMA Removals ==
  ASSUME NEW t, NEW r \in T!Advice(t), r.op = "remove"
  PROVE  \E p \in T!Promotions :
           /\ p.source \in DOMAIN t.doc /\ r.path = p.source /\ r.rule = p.rule
           /\ \/ p.target \in DOMAIN t.doc /\ t.doc[p.target] = T!Normal(p.kind, t.doc[p.source])
              \/ T!Operation("add", p.rule, p.confidence, p.target,
                             T!Normal(p.kind, t.doc[p.source])) \in T!Advice(t)
<1>1. T!IsRequest(t)
  BY AdviceFrom
<1>2. PICK p \in T!Promotions : r \in T!Promoted(t.doc, p)
  <2>1. \A c \in T!CategoryTargets : r \notin T!Categorized(t.doc, c)
    <3>1. "add" # "remove"
      OBVIOUS
    <3> QED
      BY <3>1, CategoryOperations, Zenon
  <2> QED
    BY <2>1, AdviceFrom, Zenon
<1>3. /\ p.source \in DOMAIN t.doc /\ r.path = p.source /\ r.rule = p.rule
      /\ \/ p.target \in DOMAIN t.doc /\ t.doc[p.target] = T!Normal(p.kind, t.doc[p.source])
         \/ T!Operation("add", p.rule, p.confidence, p.target,
                        T!Normal(p.kind, t.doc[p.source])) \in T!Promoted(t.doc, p)
  BY <1>2, PromotedOperations, Zenon
<1> QED
  BY <1>1, <1>3, AdviceOf, Zenon

\* A proposal that removes also makes the addition the removal counts on.
LEMMA BothHalves ==
  ASSUME NEW t, NEW g \in T!GroupProposals(T!Advice(t)), NEW r \in g, r.op = "remove",
         NEW p \in T!Promotions, r.path = p.source, r.rule = p.rule,
         NEW a \in T!Advice(t), a.op = "add", a.rule = p.rule, a.path = p.target
  PROVE  \E o \in g : o.op = "add" /\ o.path = p.target
<1> DEFINE ops == T!Advice(t)
<1>1. g \subseteq ops
  BY DEF T!GroupProposals, T!Halves
<1>2. <<a, r>> \in T!Halves(ops)
  <2>1. T!Under(a, r)
    BY PromotionPaths DEF T!Under
  <2> QED
    BY <1>1, <2>1 DEF T!Halves
<1>3. PICK h \in T!Halves(ops) : g = {h[1], h[2]}
  BY <1>2 DEF T!GroupProposals
<1>4. /\ h[1] \in ops /\ h[1].op = "add" /\ h[2].op = "remove" /\ T!Under(h[1], h[2])
  BY DEF T!Halves
<1>5. h[2] = r
  BY <1>3, <1>4
<1>6. PICK q \in T!Promotions : h[1] = T!Operation("add", q.rule, q.confidence, q.target,
                                                     T!Normal(q.kind, t.doc[q.source]))
  <2>1. h[1].rule # "category.cattax"
    BY <1>4, <1>5, PromotionPaths DEF T!Under
  <2> QED
    BY <1>4, <2>1, Additions
<1>7. h[1].path = q.target /\ h[1].rule = q.rule
  BY <1>6 DEF T!Operation
<1>8. q = p
  BY <1>4, <1>5, <1>7, PromotionPaths DEF T!Under
<1> QED
  BY <1>3, <1>4, <1>7, <1>8

\* A promotion's addition is the only one to its path.
LEMMA OneAddition ==
  ASSUME NEW t, NEW a \in T!Advice(t), NEW b \in T!Advice(t), a.op = "add", b.op = "add",
         NEW p \in T!Promotions, a.path = p.target, b.path = p.target
  PROVE  a = b
<1>1. ASSUME NEW o \in T!Advice(t), o.op = "add", o.path = p.target
      PROVE  o = T!Operation("add", p.rule, p.confidence, p.target, T!Normal(p.kind, t.doc[p.source]))
  <2>1. PICK q \in T!Promotions : o = T!Operation("add", q.rule, q.confidence, q.target,
                                                   T!Normal(q.kind, t.doc[q.source]))
    BY <1>1, Additions, PromotionPaths, Zenon
  <2>2. q.target = p.target
    BY <1>1, <2>1 DEF T!Operation
  <2>3. q = p
    BY <2>2, PromotionPaths, Zenon
  <2> QED
    BY <2>1, <2>3, Zenon
<1> QED
  BY <1>1, Zenon

\* Every proposal is made of operations of the advice.
LEMMA ProposalsAreAdvice ==
  ASSUME NEW ops, NEW g \in T!GroupProposals(ops)
  PROVE  g \subseteq ops
BY DEF T!GroupProposals, T!Halves

\* Whatever proposals are applied, each value is kept or carried to its new place, and all
\* that is new was carried there or is a cattax.
LEMMA AppliedLosesNothing ==
  ASSUME NEW t, NEW live, live \subseteq T!GroupProposals(T!Advice(t)),
         NEW new, new = T!ApplyOperations(t.doc, UNION live)
  PROVE  /\ \A q \in DOMAIN t.doc :
              \/ q \in DOMAIN new /\ new[q] = t.doc[q]
              \/ \E p \in T!Promotions : p.source = q /\ T!Carried(p, t.doc, new)
         /\ \A q \in DOMAIN new \ DOMAIN t.doc :
              \/ T!Last(q) = "cattax"
              \/ \E p \in T!Promotions : p.target = q /\ p.source \in DOMAIN t.doc
                                         /\ T!Carried(p, t.doc, new)
<1> DEFINE ops == UNION live
           paths == {o.path : o \in {x \in ops : x.op = "add"}}
           removed == {o.path : o \in {x \in ops : x.op = "remove"}}
           value(q) == (CHOOSE o \in ops : o.op = "add" /\ o.path = q).value
           addition(p) == T!Operation("add", p.rule, p.confidence, p.target, T!Normal(p.kind, t.doc[p.source]))
<1>1. ops \subseteq T!Advice(t)
  BY ProposalsAreAdvice, Zenon
<1>2. /\ DOMAIN new = (DOMAIN t.doc \cup paths) \ removed
      /\ \A q \in DOMAIN new : new[q] = IF q \in paths THEN value(q) ELSE t.doc[q]
  <2> DEFINE added == [q \in DOMAIN t.doc \cup paths |-> IF q \in paths THEN value(q) ELSE t.doc[q]]
  <2>1. T!Added(t.doc, ops) = added
    BY Zenon DEF T!Added
  <2>2. new = [q \in DOMAIN T!Added(t.doc, ops) \ removed |-> T!Added(t.doc, ops)[q]]
    BY Zenon DEF T!ApplyOperations
  <2> HIDE DEF ops, paths, removed, value
  <2> QED
    BY <2>1, <2>2
<1>3. /\ \A o \in ops : o.op = "add" => o.path \in paths
      /\ \A o \in ops : o.op = "remove" => o.path \in removed
      /\ \A q \in paths : \E o \in ops : o.op = "add" /\ o.path = q
      /\ \A q \in removed : \E o \in ops : o.op = "remove" /\ o.path = q
  <2> HIDE DEF ops
  <2> QED
    OBVIOUS
<1>4. \A q \in paths : q \notin DOMAIN t.doc
  <2> HIDE DEF ops, paths, removed
  <2> TAKE q \in paths
  <2>1. PICK o \in T!Advice(t) : o.op = "add" /\ o.path = q
    BY <1>1, <1>3
  <2> QED
    BY <2>1, Additions, Zenon
<1>5. \A p \in T!Promotions : p.target \notin removed
  <2> HIDE DEF ops, paths, removed
  <2>1. SUFFICES ASSUME NEW p \in T!Promotions, p.target \in removed
                 PROVE  FALSE
    OBVIOUS
  <2>2. PICK o \in T!Advice(t) : o.op = "remove" /\ o.path = p.target
    BY <1>1, <1>3, <2>1
  <2>3. PICK s \in T!Promotions : o.path = s.source
    BY <2>2, Removals, Zenon
  <2> QED
    BY <2>2, <2>3, PromotionPaths, Zenon
<1>6. \A p : addition(p).op = "add" /\ addition(p).path = p.target
             /\ addition(p).value = T!Normal(p.kind, t.doc[p.source])
  BY DEF T!Operation
<1> HIDE DEF paths, removed
<1>7. ASSUME NEW p \in T!Promotions, addition(p) \in ops
      PROVE  T!Carried(p, t.doc, new)
  <2>1. p.target \in paths /\ p.target \in DOMAIN new
    BY <1>2, <1>3, <1>5, <1>6, <1>7
  <2> DEFINE o == CHOOSE x \in ops : x.op = "add" /\ x.path = p.target
  <2>2. o \in ops /\ o.op = "add" /\ o.path = p.target
    BY <1>6, <1>7, Zenon
  <2>3. o = addition(p)
    BY <1>1, <1>6, <1>7, <2>2, OneAddition, Zenon
  <2>4. value(p.target) = T!Normal(p.kind, t.doc[p.source])
    BY <1>6, <2>3, Zenon
  <2> HIDE DEF value, ops
  <2>5. new[p.target] = value(p.target)
    BY <1>2, <2>1
  <2> QED
    BY <2>1, <2>4, <2>5 DEF T!Carried
<1>8. ASSUME NEW q \in DOMAIN t.doc
      PROVE  \/ q \in DOMAIN new /\ new[q] = t.doc[q]
             \/ \E p \in T!Promotions : p.source = q /\ T!Carried(p, t.doc, new)
  <2>1. CASE q \notin removed
    <3> HIDE DEF value, ops
    <3> QED
      BY <1>2, <1>4, <2>1
  <2>2. CASE q \in removed
    <3>1. PICK r \in ops : r.op = "remove" /\ r.path = q
      BY <1>3, <2>2, Zenon
    <3>2. PICK p \in T!Promotions :
            /\ p.source \in DOMAIN t.doc /\ r.path = p.source /\ r.rule = p.rule
            /\ \/ p.target \in DOMAIN t.doc /\ t.doc[p.target] = T!Normal(p.kind, t.doc[p.source])
               \/ addition(p) \in T!Advice(t)
      BY <1>1, <3>1, Removals, Zenon
    <3>3. CASE p.target \in DOMAIN t.doc /\ t.doc[p.target] = T!Normal(p.kind, t.doc[p.source])
      <4> HIDE DEF value, ops
      <4>1. p.target \in DOMAIN new /\ new[p.target] = t.doc[p.target]
        BY <1>2, <1>4, <1>5, <3>3
      <4> QED
        BY <3>1, <3>2, <3>3, <4>1, Zenon DEF T!Carried
    <3>4. CASE addition(p) \in T!Advice(t)
      <4>1. PICK g \in live : r \in g
        BY <3>1, Zenon
      <4>2. addition(p).rule = p.rule
        BY DEF T!Operation
      <4>3. PICK o \in g : o.op = "add" /\ o.path = p.target
        <5> HIDE DEF addition
        <5> QED
          BY <1>6, <3>1, <3>2, <3>4, <4>1, <4>2, BothHalves, ZenonT(30)
      <4>4. o \in ops
        BY <4>1, Zenon
      <4>5. o = addition(p)
        <5> HIDE DEF addition
        <5> QED
          BY <1>1, <1>6, <3>4, <4>3, <4>4, OneAddition, Zenon
      <4> QED
        BY <1>7, <3>1, <3>2, <4>4, <4>5, Zenon
    <3> QED
      BY <3>2, <3>3, <3>4, Zenon
  <2> QED
    BY <2>1, <2>2
<1>9. ASSUME NEW q \in DOMAIN new \ DOMAIN t.doc
      PROVE  \/ T!Last(q) = "cattax"
             \/ \E p \in T!Promotions : p.target = q /\ p.source \in DOMAIN t.doc
                                        /\ T!Carried(p, t.doc, new)
  <2>1. q \in paths
    BY <1>2, <1>9, Zenon
  <2>2. PICK o \in ops : o.op = "add" /\ o.path = q
    BY <1>3, <2>1, Zenon
  <2>3. CASE \E p \in T!Promotions : p.source \in DOMAIN t.doc /\ o = addition(p)
    BY <1>6, <1>7, <2>2, <2>3, Zenon
  <2> QED
    BY <1>1, <2>2, <2>3, Additions, Zenon
<1> QED
  BY <1>8, <1>9, Zenon

\* The advisor has nothing to say about a text that is no request.
LEMMA OnlyRequests ==
  ASSUME T!Live # {}
  PROVE  T!IsRequest(text)
<1>1. PICK g : g \in T!GroupProposals(T!Advice(text))
  BY DEF T!Live
<1>2. T!Advice(text) # {}
  BY <1>1 DEF T!GroupProposals, T!Halves
<1> QED
  BY <1>2 DEF T!Advice

\* Whatever is ticked, Apply loses no value and overwrites none.
LEMMA ApplyLosesNothing ==
  ASSUME T!Applies
  PROVE  /\ \A q \in DOMAIN text.doc :
              \/ q \in DOMAIN text'.doc /\ text'.doc[q] = text.doc[q]
              \/ \E p \in T!Promotions : p.source = q /\ T!Carried(p, text.doc, text'.doc)
         /\ \A q \in DOMAIN text'.doc \ DOMAIN text.doc :
              \/ T!Last(q) = "cattax"
              \/ \E p \in T!Promotions : p.target = q /\ p.source \in DOMAIN text.doc
                                         /\ T!Carried(p, text.doc, text'.doc)
<1>1. T!Live # {} /\ T!ApplySelected
  BY DEF T!Applies
<1>2. text.is = "request"
  BY <1>1, OnlyRequests DEF T!IsRequest
<1>3. text' = [is |-> "request", spacing |-> "tab", doc |-> T!ApplyOperations(text.doc, UNION T!Live)]
  <2>1. "request" # "broken"
    OBVIOUS
  <2> QED
    BY <1>1, <1>2, <2>1, Zenon DEF T!ApplySelected
<1>4. text'.doc = T!ApplyOperations(text.doc, UNION T!Live)
  <2> HIDE DEF T!Live
  <2> QED
    BY <1>3
<1>5. T!Live \subseteq T!GroupProposals(T!Advice(text))
  BY Zenon DEF T!Live
<1> QED
  BY <1>4, <1>5, AppliedLosesNothing, Zenon

\* Whatever texts the editor is given, and whatever is ticked between drawing the list and
\* applying it, an Apply loses no value and overwrites none (migrate/index.js apply).
THEOREM MigrationTheorem == CoreSpec => NothingLost
<1>1. [CoreNext]_<<part, validator, mirror, migration>> =>
        [T!Applies =>
          /\ \A q \in DOMAIN text.doc :
               \/ q \in DOMAIN text'.doc /\ text'.doc[q] = text.doc[q]
               \/ \E p \in T!Promotions : p.source = q /\ T!Carried(p, text.doc, text'.doc)
          /\ \A q \in DOMAIN text'.doc \ DOMAIN text.doc :
               \/ T!Last(q) = "cattax"
               \/ \E p \in T!Promotions : p.target = q /\ p.source \in DOMAIN text.doc
                                          /\ T!Carried(p, text.doc, text'.doc)]_T!vars
  BY ApplyLosesNothing, Zenon
<1> QED
  BY <1>1, PTL DEF CoreSpec, NothingLost, T!NothingLost

-----------------------------------------------------------------------------
(* The mirror.                                                             *)

\* The mirror's listings are the ones proved about above.
LEMMA MirrorListing ==
  /\ \A S, R : M!InOrder(S, R) = InOrder(S, R)
  /\ \A S : M!Ascending(S) = Ascending(S)
  /\ \A s, at : M!KeptAt(s, at) = KeptAt(s, at)
<1>1. \A S : M!Cardinality(S) = Cardinality(S)
  BY DEF M!Cardinality, Cardinality
<1>2. \A S, R : M!InOrder(S, R) = InOrder(S, R)
  <2> SUFFICES ASSUME NEW S, NEW R PROVE M!InOrder(S, R) = InOrder(S, R)
    OBVIOUS
  <2>1. M!Places(S, R) = Places(S, R)
    BY <1>1 DEF M!Places, Places, M!Preceding, Preceding
  <2> QED
    BY <1>1, <2>1 DEF M!InOrder, InOrder
<1>3. \A S : M!Ascending(S) = Ascending(S)
  BY DEF M!Ascending, Ascending
<1> QED
  BY <1>1, <1>2, <1>3 DEF M!KeptAt, KeptAt

\* A price ten cents above a floor, rounded, is above it; half a price, rounded, is no more
\* than the price, from a cent on.
LEMMA Rounding ==
  /\ \A n \in Int : M!Round2(n) \in Int /\ M!Round2(n) >= n - 4
  /\ \A n \in Int : M!Halved(n) \in Int /\ (n >= 10 => M!Halved(n) <= n)
<1>1. \A n \in Int : M!Round2(n) \in Int /\ M!Round2(n) >= n - 4
  BY DEF M!Round2
<1>2. \A n \in Int : M!Halved(n) \in Int /\ (n >= 10 => M!Halved(n) <= n)
  BY DEF M!Halved
<1> QED
  BY <1>1, <1>2

\* So the floor made of a price is a cent at least and no more than the price.
LEMMA FloorIsUnder ==
  ASSUME NEW price \in M!AmountType
  PROVE  /\ M!FloorUnder(price) \in Int /\ M!FloorUnder(price) >= 10
         /\ price.n >= 10 => M!FloorUnder(price) <= price.n
<1>1. price.n \in Int
  BY DEF M!AmountType
<1>2. M!Halved(IF price.n > 0 THEN price.n ELSE 100) \in Int
  BY <1>1, Rounding
<1>3. price.n >= 10 => M!Halved(IF price.n > 0 THEN price.n ELSE 100) <= price.n
  BY <1>1, Rounding
<1> QED
  BY <1>1, <1>2, <1>3 DEF M!FloorUnder, M!Larger

\* And the price made of a floor is no less than the floor.
LEMMA PriceIsAbove ==
  ASSUME NEW imp, M!IsImp(imp)
  PROVE  /\ M!SafeFloor(imp) \in Int /\ M!SafeFloor(imp) >= 0 /\ M!SafeFloor(imp) >= imp.floor.n
         /\ M!Round2(M!SafeFloor(imp) + 100) \in Int
         /\ M!Round2(M!SafeFloor(imp) + 100) >= M!SafeFloor(imp)
<1>1. imp.floor.n \in Int
  BY DEF M!IsImp, M!AmountType
<1>2. M!SafeFloor(imp) \in Int /\ M!SafeFloor(imp) >= 0 /\ M!SafeFloor(imp) >= imp.floor.n
  BY <1>1 DEF M!SafeFloor
<1> QED
  BY <1>2, Rounding

\* The generated VAST, and the slot generated for a VAST.
LEMMA VastIsShort ==
  ASSUME NEW max \in Nat
  PROVE  LET vast == M!VastTemplate(max)
         IN /\ vast \in M!VastType
            /\ vast.inline /\ vast.protocol = 7 /\ vast.mime = "mp4" /\ vast.dur \in 5..30
            /\ max >= 5 => vast.dur <= max
            /\ \A min \in Nat : max >= 5 /\ min <= (IF max = M!NoLimit THEN 15 ELSE M!Smaller(30, max))
                 => min <= vast.dur
<1> DEFINE vast == M!VastTemplate(max)
           dur == IF max \in {0, 1000} THEN 15 ELSE M!Clamp(5, 30, max)
<1>1. dur \in 5..30 /\ (max >= 5 => dur <= max)
      /\ \A min \in Nat : max >= 5 /\ min <= (IF max = 1000 THEN 15 ELSE M!Smaller(30, max)) => min <= dur
  BY DEF M!Clamp, M!Larger, M!Smaller
<1>2. vast = [inline |-> TRUE, protocol |-> 7, mime |-> "mp4", dur |-> dur]
  BY DEF M!VastTemplate, M!NoLimit
<1> HIDE DEF dur
<1>3. vast \in M!VastType
  BY <1>1, <1>2 DEF M!VastType, M!AnyMime
<1> QED
  BY <1>1, <1>2, <1>3 DEF M!NoLimit

\* The slot takes an mp4 of VAST 3.0 or 4.0 of its own length.
LEMMA VideoIsLonger ==
  ASSUME NEW vast \in M!VastType
  PROVE  LET video == M!VideoFor(vast)
         IN /\ video \in M!VideoType /\ video.mimes = {"mp4"} /\ video.protocols = {3, 7}
            /\ video.min = 5 /\ video.max \in 15..60
            /\ vast.dur \in 5..60 => vast.dur <= video.max
<1> DEFINE max == M!Clamp(15, 60, (IF vast.dur = 0 THEN 30 ELSE vast.dur) + 5)
<1>1. vast.dur \in Nat
  BY DEF M!VastType
<1>2. max \in 15..60 /\ (vast.dur \in 5..60 => vast.dur <= max)
  BY <1>1 DEF M!Clamp, M!Larger, M!Smaller
<1>3. M!VideoFor(vast) = [mimes |-> {"mp4"}, protocols |-> {3, 7}, min |-> 5, max |-> max]
  BY DEF M!VideoFor
<1> HIDE DEF max
<1> QED
  BY <1>2, <1>3 DEF M!VideoType, M!AnyMime

\* The numbered assets are those of the list that have a number, and no other.
LEMMA NumberedAre ==
  ASSUME NEW assets \in Seq(M!AssetType)
  PROVE  LET numbered == M!NumberedAssets(assets)
         IN /\ numbered \in Seq(M!AssetType)
            /\ \A k \in DOMAIN numbered : numbered[k].id # M!NotANumber /\ \E i \in DOMAIN assets : numbered[k] = assets[i]
            /\ \A i \in DOMAIN assets : assets[i].id # M!NotANumber => \E k \in DOMAIN numbered : numbered[k] = assets[i]
<1> DEFINE at == {k \in DOMAIN assets : assets[k].id # M!NotANumber}
<1>1. M!NumberedAssets(assets) = KeptAt(assets, at)
  BY MirrorListing, Zenon DEF M!NumberedAssets
<1>2. at \in SUBSET DOMAIN assets
  OBVIOUS
<1>3. /\ \A k \in at : k \in DOMAIN assets /\ assets[k].id # M!NotANumber
      /\ \A k \in DOMAIN assets : assets[k].id # M!NotANumber => k \in at
  OBVIOUS
<1> HIDE DEF at
<1>4. /\ KeptAt(assets, at) \in Seq(M!AssetType)
      /\ \A k \in DOMAIN KeptAt(assets, at) : \E i \in at : KeptAt(assets, at)[k] = assets[i]
      /\ \A i \in at : \E k \in DOMAIN KeptAt(assets, at) : KeptAt(assets, at)[k] = assets[i]
  BY <1>2, KeptIsRange, Zenon
<1> QED
  BY <1>1, <1>3, <1>4, Zenon

\* What is written for an impression.
LEMMA CreativeIs ==
  ASSUME NEW imp, M!IsImp(imp)
  PROVE  LET made == M!CreativeFor(imp)
         IN /\ made.adm \in {"html", "vast", "native"}
            /\ made.vast \in M!VastType /\ made.assets \in Seq(M!AssetType)
            /\ made.adm = "vast" =>
                 /\ imp.offers \cap {"banner", "video"} = {"video"} \/ imp.offers = {"audio"}
                 /\ made.vast = M!VastTemplate(imp.video.max)
            /\ made.adm = "native" =>
                 /\ imp.native.shape = "wrapped"
                 /\ made.assets = M!NumberedAssets(imp.native.assets)
<1> DEFINE made == M!CreativeFor(imp)
           html == [adm |-> "html", vast |-> M!NoVast, assets |-> <<>>]
           vast == [adm |-> "vast", vast |-> M!VastTemplate(imp.video.max), assets |-> <<>>]
           native == [adm |-> "native", vast |-> M!NoVast, assets |-> M!NumberedAssets(imp.native.assets)]
<1>1. \/ made = html
      \/ made = vast /\ (imp.offers \cap {"banner", "video"} = {"video"} \/ imp.offers = {"audio"})
      \/ made = native /\ imp.native.shape = "wrapped"
  <2> DEFINE first == "banner" \in imp.offers
             second == "banner" \notin imp.offers /\ "video" \in imp.offers
             third == /\ imp.offers \cap {"banner", "video"} = {} /\ "native" \in imp.offers
                      /\ imp.native.shape = "wrapped"
             fourth == imp.offers = {"audio"}
  <2>2. made = CASE first -> html [] second -> vast [] third -> native [] fourth -> vast [] OTHER -> html
    BY Zenon DEF M!CreativeFor, M!Creative
  <2>3. /\ first => ~second /\ ~third /\ ~fourth
        /\ second => ~third /\ ~fourth
        /\ third => ~fourth
    OBVIOUS
  <2>4. /\ second => imp.offers \cap {"banner", "video"} = {"video"}
        /\ third => imp.native.shape = "wrapped"
    OBVIOUS
  <2>5. fourth => imp.offers = {"audio"}
    OBVIOUS
  <2> HIDE DEF first, second, third, fourth, made, html, vast, native
  <2> QED
    BY <2>2, <2>3, <2>4, <2>5
<1>2. imp.video.max \in Nat /\ imp.native.assets \in Seq(M!AssetType)
  BY DEF M!IsImp, M!VideoType, M!NativeType
<1>3. M!NoVast \in M!VastType
  BY DEF M!NoVast, M!VastType
<1>4. M!VastTemplate(imp.video.max) \in M!VastType
  BY <1>2, VastIsShort
<1>5. M!NumberedAssets(imp.native.assets) \in Seq(M!AssetType)
  BY <1>2, NumberedAre
<1>6. CASE made = html
  BY <1>3, <1>6
<1>7. CASE made = vast /\ (imp.offers \cap {"banner", "video"} = {"video"} \/ imp.offers = {"audio"})
  BY <1>4, <1>7
<1>8. CASE made = native /\ imp.native.shape = "wrapped"
  BY <1>3, <1>5, <1>8
<1> QED
  BY <1>1, <1>6, <1>7, <1>8, Zenon

\* The ids the generator gives in place of one that is no string.
LEMMA GivenIdsAre ==
  /\ Len(DefaultIds) \in Nat /\ Len(DefaultIds) >= 1
  /\ \A i \in 1..Len(DefaultIds) : M!IsStr(M!DefaultImpId(i)) /\ M!DefaultImpId(i) # "1"
<1>1. Len(DefaultIds) \in Nat /\ Len(DefaultIds) >= 1 /\ DOMAIN DefaultIds = 1..Len(DefaultIds)
  BY DefaultIdsAssumption
<1>2. \A i \in DOMAIN DefaultIds : DefaultIds[i] \notin {"missing", "1", "1#"}
  BY DefaultIdsAssumption
<1> QED
  BY <1>1, <1>2 DEF M!DefaultImpId, M!IsStr

\* What is bid for an impression.
LEMMA BidIs ==
  ASSUME NEW imp, M!IsImp(imp), NEW i \in 1..Len(DefaultIds), NEW best \in BOOLEAN
  PROVE  LET bid == M!BidFor(imp, i, best)
             made == M!CreativeFor(imp)
         IN /\ M!IsBid(bid)
            /\ bid.impid = IF M!IsStr(imp.id) THEN imp.id ELSE M!DefaultImpId(i)
            /\ M!IsStr(bid.impid)
            /\ bid.price.typed /\ bid.price.n \in Int /\ bid.price.n >= M!SafeFloor(imp)
            /\ bid.adm = made.adm /\ bid.vast = made.vast /\ bid.assets = made.assets
            /\ bid.unsafe = FALSE /\ bid.mtype = "none"
<1> DEFINE made == M!CreativeFor(imp)
           impid == IF M!IsStr(imp.id) THEN imp.id ELSE M!DefaultImpId(i)
           price == M!Round2(M!SafeFloor(imp) + 100)
           cat == IF best THEN {"IAB3-1"} ELSE {}
           bid == [impid |-> impid, price |-> M!Mills(price),
                   adm |-> made.adm, vast |-> made.vast, assets |-> made.assets, unsafe |-> FALSE,
                   mtype |-> "none", adomain |-> "advertiser.example", cat |-> cat]
<1>1. M!BidFor(imp, i, best) = bid
  BY Zenon DEF M!BidFor, M!BidOf
<1>2. M!IsStr(impid)
  BY GivenIdsAre
<1>3. price \in Int /\ price >= M!SafeFloor(imp)
  BY PriceIsAbove
<1>4. M!Mills(price) \in M!AmountType /\ M!Mills(price).typed /\ M!Mills(price).n = price
  BY <1>3 DEF M!Mills, M!AmountType
<1>5. made.vast \in M!VastType /\ made.assets \in Seq(M!AssetType)
  BY CreativeIs
<1> HIDE DEF made, impid, price, cat
<1>6. M!IsBid(bid)
  BY <1>4, <1>5 DEF M!IsBid
<1> QED
  BY <1>1, <1>2, <1>3, <1>4, <1>6 DEF made, impid, price

\* A generated response answers each impression in its place.
LEMMA ResponseIs ==
  ASSUME NEW r, M!IsRequest(r), NEW best \in BOOLEAN
  PROVE  LET s == M!ResponseFromRequest(r, best)
         IN /\ M!IsResponse(s) /\ DOMAIN s.bids = DOMAIN r.imps
            /\ \A i \in DOMAIN r.imps : /\ i \in 1..Len(DefaultIds) /\ M!IsImp(r.imps[i])
                                        /\ s.bids[i] = M!BidFor(r.imps[i], i, best)
            /\ M!IsStr(s.id) /\ (M!IsStr(r.id) => s.id = r.id)
<1> DEFINE bids == [i \in DOMAIN r.imps |-> M!BidFor(r.imps[i], i, best)]
           id == IF M!IsStr(r.id) THEN r.id ELSE "mirror-bid-1"
           seat == IF best /\ r.imps # <<>> THEN "mirror-seat" ELSE "none"
           s == [id |-> id, cur |-> r.cur, seat |-> seat, bids |-> bids]
<1>1. M!ResponseFromRequest(r, best) = s
  BY Zenon DEF M!ResponseFromRequest
<1>2. \A i \in DOMAIN r.imps : i \in 1..Len(DefaultIds) /\ M!IsImp(r.imps[i])
  BY GivenIdsAre DEF M!IsRequest, M!IsList
<1>3. \A i \in DOMAIN r.imps : M!IsBid(M!BidFor(r.imps[i], i, best))
  BY <1>2, BidIs
<1>4. /\ DOMAIN bids = DOMAIN r.imps
      /\ \A i \in DOMAIN r.imps : bids[i] = M!BidFor(r.imps[i], i, best)
  OBVIOUS
<1>5. M!IsStr(id) /\ (M!IsStr(r.id) => id = r.id)
  BY DEF M!IsStr
<1> HIDE DEF bids, id, seat
<1>6. M!IsResponse(s)
  BY <1>3, <1>4 DEF M!IsResponse, M!IsList, M!IsRequest
<1> QED
  BY <1>1, <1>2, <1>4, <1>5, <1>6

\* What is inferred from a bid.
LEMMA ImpIs ==
  ASSUME NEW bid, M!IsBid(bid), NEW id, NEW cur
  PROVE  LET imp == M!ImpFor(bid, id, cur)
         IN /\ M!IsImp(imp) /\ imp.id = id
            /\ imp.floor.typed /\ imp.floor.n = M!FloorUnder(bid.price)
            /\ bid.adm = "vast" => imp.offers = {"video"} /\ imp.video = M!VideoFor(bid.vast)
            /\ bid.adm = "native" => imp.offers = {"native"} /\ imp.native = M!NativeFor(bid.assets)
            /\ bid.adm # "native" => imp.native = M!NoNative
            /\ bid.adm \notin {"vast", "native"} => imp.offers = {"banner"}
<1> DEFINE offers == CASE bid.adm = "vast" -> {"video"} [] bid.adm = "native" -> {"native"}
                       [] OTHER -> {"banner"}
           video == IF bid.adm = "vast" THEN M!VideoFor(bid.vast) ELSE M!NoVideo
           native == IF bid.adm = "native" THEN M!NativeFor(bid.assets) ELSE M!NoNative
           floor == M!Mills(M!FloorUnder(bid.price))
           imp == [id |-> id, floor |-> floor, floorcur |-> cur, offers |-> offers, video |-> video,
                   native |-> native]
<1>1. M!ImpFor(bid, id, cur) = imp
  BY Zenon DEF M!ImpFor
<1>2. bid.price \in M!AmountType /\ bid.vast \in M!VastType /\ bid.assets \in Seq(M!AssetType)
  BY DEF M!IsBid
<1>3. floor \in M!AmountType /\ floor.typed /\ floor.n = M!FloorUnder(bid.price)
  BY <1>2, FloorIsUnder DEF M!Mills, M!AmountType
<1>4. /\ bid.adm = "vast" => offers = {"video"}
      /\ bid.adm = "native" => offers = {"native"}
      /\ bid.adm \notin {"vast", "native"} => offers = {"banner"}
      /\ offers \subseteq M!Media
  BY DEF M!Media
<1>5. video \in M!VideoType
  <2>1. M!NoVideo \in M!VideoType
    BY DEF M!NoVideo, M!VideoType, M!NoLimit
  <2> QED
    BY <1>2, <2>1, VideoIsLonger
<1>6. M!NativeFor(bid.assets) \in M!NativeType
  <2> DEFINE numbered == M!NumberedAssets(bid.assets)
             asked(i) == [numbered[i] EXCEPT !.required = numbered[i].kind # "data"]
             assets == [i \in DOMAIN numbered |-> asked(i)]
  <2>1. numbered \in Seq(M!AssetType)
    BY <1>2, NumberedAre
  <2>2. M!NativeFor(bid.assets) = [shape |-> "wrapped", assets |-> assets]
    BY Zenon DEF M!NativeFor
  <2> HIDE DEF numbered
  <2>3. \A i \in DOMAIN numbered : asked(i) \in M!AssetType
    <3> SUFFICES ASSUME NEW i \in DOMAIN numbered PROVE asked(i) \in M!AssetType
      OBVIOUS
    <3>1. numbered[i] \in M!AssetType
      BY <2>1
    <3>2. (numbered[i].kind # "data") \in BOOLEAN
      OBVIOUS
    <3> QED
      BY <3>1, <3>2 DEF M!AssetType
  <2> HIDE DEF asked
  <2>4. assets \in Seq(M!AssetType)
    BY <2>1, <2>3
  <2> HIDE DEF assets
  <2> QED
    BY <2>2, <2>4 DEF M!NativeType
<1>7. native \in M!NativeType
  <2>1. M!NoNative \in M!NativeType
    <3>1. <<>> \in Seq(M!AssetType)
      OBVIOUS
    <3> QED
      BY <3>1 DEF M!NoNative, M!NativeType
  <2> QED
    BY <1>6, <2>1
<1>8. /\ bid.adm = "vast" => video = M!VideoFor(bid.vast)
      /\ bid.adm = "native" => native = M!NativeFor(bid.assets)
      /\ bid.adm # "native" => native = M!NoNative
  OBVIOUS
<1> HIDE DEF offers, video, native, floor
<1>9. M!IsImp(imp)
  BY <1>3, <1>4, <1>5, <1>7 DEF M!IsImp
<1> QED
  BY <1>1, <1>3, <1>4, <1>8, <1>9

\* A set of places listed in order: each of them once.
LEMMA PlacesListed ==
  ASSUME NEW n \in Nat, NEW S \in SUBSET (1..n)
  PROVE  LET order == InOrder(S, Ascending(S))
         IN /\ Cardinality(S) \in 0..n /\ DOMAIN order = 1..Cardinality(S)
            /\ \A m \in DOMAIN order : order[m] \in S
            /\ \A k \in S : \E m \in DOMAIN order : order[m] = k
            /\ \A l, m \in DOMAIN order : l # m => order[l] # order[m]
<1> DEFINE order == InOrder(S, Ascending(S))
<1>1. IsFiniteSet(S) /\ Cardinality(S) \in 0..n
  <2>1. 1 \in Int /\ n \in Int
    OBVIOUS
  <2>2. IsFiniteSet(1..n) /\ Cardinality(1..n) = IF 1 > n THEN 0 ELSE n - 1 + 1
    BY <2>1, FS_Interval, Zenon
  <2>3. IsFiniteSet(S) /\ Cardinality(S) <= Cardinality(1..n)
    BY <2>2, FS_Subset, Zenon
  <2>4. Cardinality(S) \in Nat
    BY <2>3, FS_CardinalityType
  <2> QED
    BY <2>2, <2>3, <2>4
<1>2. Orders(Ascending(S), S)
  BY DEF Orders, Ascending
<1>3. /\ order \in [1..Cardinality(S) -> S]
      /\ \A k \in S : \E m \in 1..Cardinality(S) : order[m] = k
      /\ \A l, m \in 1..Cardinality(S) : l < m => <<order[l], order[m]>> \in Ascending(S)
  BY <1>1, <1>2, ListingLists
<1> HIDE DEF order
<1>4. \A l, m \in 1..Cardinality(S) : l < m => order[l] < order[m]
  BY <1>3 DEF Ascending
<1>5. \A l, m \in 1..Cardinality(S) : l # m => order[l] # order[m]
  <2> SUFFICES ASSUME NEW l \in 1..Cardinality(S), NEW m \in 1..Cardinality(S), l # m
               PROVE  order[l] # order[m]
    OBVIOUS
  <2>1. order[l] \in 1..n /\ order[m] \in 1..n
    <3>1. order[l] \in S /\ order[m] \in S
      BY <1>3
    <3> QED
      BY <3>1, Zenon
  <2>2. l < m \/ m < l
    BY <1>1
  <2> QED
    BY <1>4, <2>1, <2>2
<1> QED
  BY <1>1, <1>3, <1>5 DEF order

\* The impressions inferred from a list of bids: their ids are strings and each another
\* one, and each was inferred from a bid, the first to name its id.
LEMMA ImpsAre ==
  ASSUME NEW bids, M!IsList(bids), \A i \in DOMAIN bids : M!IsBid(bids[i]), NEW cur
  PROVE  LET imps == M!ImpsFor(bids, cur)
             inferred(k) == M!ImpFor(bids[k], M!BidImpId(bids[k], k), cur)
         IN /\ M!IsList(imps)
            /\ \A m \in DOMAIN imps :
                 \/ \E k \in DOMAIN bids : imps[m] = inferred(k)
                 \/ DOMAIN bids = {} /\ imps[m] = M!DefaultImp(cur)
            /\ \A l, m \in DOMAIN imps : l # m => imps[l].id # imps[m].id
            /\ \A k \in DOMAIN bids :
                 (\A j \in 1..(k - 1) : M!BidImpId(bids[j], j) # M!BidImpId(bids[k], k)) =>
                   \E m \in DOMAIN imps : imps[m] = inferred(k)
            /\ \A k \in DOMAIN bids : k \in 1..Len(DefaultIds)
<1> DEFINE imps == M!ImpsFor(bids, cur)
           id(k) == M!BidImpId(bids[k], k)
           inferred(k) == M!ImpFor(bids[k], id(k), cur)
           firsts == {i \in DOMAIN bids : \A j \in 1..(i - 1) : id(j) # id(i)}
           order == InOrder(firsts, Ascending(firsts))
<1>1. PICK n \in 0..Len(DefaultIds) : DOMAIN bids = 1..n
  BY DEF M!IsList
<1>2. Len(DefaultIds) \in Nat /\ Len(DefaultIds) >= 1 /\ n \in Nat
  BY GivenIdsAre
<1>3. imps = IF firsts = {} THEN <<M!DefaultImp(cur)>> ELSE [m \in DOMAIN order |-> inferred(order[m])]
  BY MirrorListing, Zenon DEF M!ImpsFor
<1>4. \A k : inferred(k).id = id(k)
  BY DEF M!ImpFor
<1> HIDE DEF id, inferred
<1>5. firsts \in SUBSET (1..n) /\ \A i \in firsts : \A j \in 1..(i - 1) : id(j) # id(i)
  BY <1>1
<1>6. firsts = {} => DOMAIN bids = {}
  <2>1. n >= 1 => 1 \in firsts
    BY <1>1, <1>2
  <2> HIDE DEF firsts
  <2> QED
    BY <1>1, <1>2, <2>1
<1>7. \A k \in DOMAIN bids : (\A j \in 1..(k - 1) : id(j) # id(k)) => k \in firsts
  OBVIOUS
<1> HIDE DEF firsts
<1>8. /\ Cardinality(firsts) \in 0..n /\ DOMAIN order = 1..Cardinality(firsts)
      /\ \A m \in DOMAIN order : order[m] \in firsts
      /\ \A k \in firsts : \E m \in DOMAIN order : order[m] = k
      /\ \A l, m \in DOMAIN order : l # m => order[l] # order[m]
  BY <1>2, <1>5, PlacesListed, Zenon
<1> HIDE DEF order
<1>9. CASE firsts = {}
  <2>1. imps = <<M!DefaultImp(cur)>>
    BY <1>3, <1>9
  <2>2. DOMAIN imps = 1..1 /\ imps[1] = M!DefaultImp(cur)
    BY <2>1
  <2>3. M!IsList(imps)
    <3>1. 1 \in 0..Len(DefaultIds)
      BY <1>2
    <3> QED
      BY <2>2, <3>1, Zenon DEF M!IsList
  <2>4. \A m \in DOMAIN imps : m = 1
    BY <2>2
  <2> QED
    BY <1>1, <1>2, <1>6, <1>9, <2>2, <2>3, <2>4
<1>10. CASE firsts # {}
  <2>1. imps = [m \in DOMAIN order |-> inferred(order[m])]
    BY <1>3, <1>10
  <2> HIDE DEF imps
  <2>2. DOMAIN imps = DOMAIN order /\ \A m \in DOMAIN imps : imps[m] = inferred(order[m])
    BY <2>1
  <2>3. M!IsList(imps)
    <3>1. Cardinality(firsts) \in 0..Len(DefaultIds)
      BY <1>2, <1>8
    <3> QED
      BY <1>8, <2>2, <3>1, Zenon DEF M!IsList
  <2>4. \A m \in DOMAIN imps : \E k \in DOMAIN bids : imps[m] = inferred(k)
    BY <1>1, <1>5, <1>8, <2>2
  <2>5. ASSUME NEW l \in DOMAIN imps, NEW m \in DOMAIN imps, l # m PROVE imps[l].id # imps[m].id
    <3>1. order[l] \in firsts /\ order[m] \in firsts /\ order[l] # order[m]
      BY <1>8, <2>2, <2>5
    <3>2. order[l] \in 1..n /\ order[m] \in 1..n
      BY <1>5, <3>1, Zenon
    <3>3. order[l] \in 1..(order[m] - 1) \/ order[m] \in 1..(order[l] - 1)
      BY <3>1, <3>2
    <3>4. id(order[l]) # id(order[m])
      BY <1>5, <3>1, <3>3
    <3> QED
      BY <1>4, <2>2, <3>4
  <2>6. ASSUME NEW k \in DOMAIN bids, \A j \in 1..(k - 1) : id(j) # id(k)
        PROVE  \E m \in DOMAIN imps : imps[m] = inferred(k)
    BY <1>7, <1>8, <2>2, <2>6
  <2>7. \A k \in DOMAIN bids : k \in 1..Len(DefaultIds)
    BY <1>1, <1>2
  <2> QED
    BY <2>3, <2>4, <2>5, <2>6, <2>7, Zenon DEF id, inferred, imps
<1> QED
  BY <1>9, <1>10

\* An impression's id is a string whatever the bid's is.
LEMMA BidIdsAre ==
  ASSUME NEW bid, NEW k \in 1..Len(DefaultIds)
  PROVE  /\ M!IsStr(M!BidImpId(bid, k))
         /\ M!Key(M!BidImpId(bid, k)) = M!BidImpId(bid, k)
         /\ M!IsStr(bid.impid) => M!BidImpId(bid, k) = bid.impid
         /\ ~M!IsStr(bid.impid) => M!BidImpId(bid, k) # "1"
BY GivenIdsAre DEF M!BidImpId, M!IsStr, M!Key

\* A generated request.
LEMMA RequestIs ==
  ASSUME NEW s, M!IsResponse(s)
  PROVE  LET r == M!RequestFromResponse(s)
         IN /\ M!IsRequest(r) /\ r.imps = M!ImpsFor(s.bids, s.cur)
            /\ M!IsStr(r.id) /\ (M!IsStr(s.id) => r.id = s.id)
            /\ r.badv = {} /\ r.bcat = {} /\ r.wseat = {}
<1> DEFINE id == IF M!IsStr(s.id) THEN s.id ELSE "mirror-req-1"
           imps == M!ImpsFor(s.bids, s.cur)
           r == [id |-> id, cur |-> s.cur, imps |-> imps, badv |-> {}, bcat |-> {}, wseat |-> {}]
<1>1. M!RequestFromResponse(s) = r
  BY Zenon DEF M!RequestFromResponse
<1>2. M!IsStr(id) /\ (M!IsStr(s.id) => id = s.id)
  BY DEF M!IsStr
<1>3. M!IsList(s.bids) /\ \A i \in DOMAIN s.bids : M!IsBid(s.bids[i])
  BY DEF M!IsResponse
<1>4. /\ M!IsList(imps)
      /\ \A m \in DOMAIN imps :
           \/ \E k \in DOMAIN s.bids : imps[m] = M!ImpFor(s.bids[k], M!BidImpId(s.bids[k], k), s.cur)
           \/ imps[m] = M!DefaultImp(s.cur)
  BY <1>3, ImpsAre
<1>5. M!IsImp(M!DefaultImp(s.cur))
  <2>1. M!NoVideo \in M!VideoType
    BY DEF M!NoVideo, M!VideoType, M!NoLimit
  <2>2. M!NoNative \in M!NativeType
    <3>1. <<>> \in Seq(M!AssetType)
      OBVIOUS
    <3> QED
      BY <3>1 DEF M!NoNative, M!NativeType
  <2>3. M!Mills(50) \in M!AmountType
    BY DEF M!Mills, M!AmountType
  <2> QED
    BY <2>1, <2>2, <2>3 DEF M!IsImp, M!DefaultImp, M!Media
<1>6. \A m \in DOMAIN imps : M!IsImp(imps[m])
  <2> SUFFICES ASSUME NEW m \in DOMAIN imps PROVE M!IsImp(imps[m])
    OBVIOUS
  <2>1. CASE imps[m] = M!DefaultImp(s.cur)
    BY <1>5, <2>1
  <2>2. ASSUME NEW k \in DOMAIN s.bids, imps[m] = M!ImpFor(s.bids[k], M!BidImpId(s.bids[k], k), s.cur)
        PROVE  M!IsImp(imps[m])
    <3>1. M!IsBid(s.bids[k])
      BY <1>3
    <3>2. M!IsImp(M!ImpFor(s.bids[k], M!BidImpId(s.bids[k], k), s.cur))
      BY <3>1, ImpIs, Zenon
    <3> QED
      BY <2>2, <3>2
  <2> QED
    BY <1>4, <2>1, <2>2, Zenon
<1> HIDE DEF id, imps
<1>7. M!IsRequest(r)
  BY <1>4, <1>6 DEF M!IsRequest
<1> QED
  BY <1>1, <1>2, <1>7 DEF imps

\* No finding of a set is a CRIT.
Harmless(findings) == \A f \in findings : ~f.crit

\* A finding says what it was made of.
LEMMA Reported ==
  /\ \A code, n : M!Warn(code, n).crit = FALSE /\ M!Warn(code, n).code = code /\ M!Warn(code, n).bid = n
  /\ \A code, n : M!Crit(code, n).crit = TRUE /\ M!Crit(code, n).code = code /\ M!Crit(code, n).bid = n
  /\ \A cond, x, f : f \in M!When(cond, x) <=> cond /\ f = x
BY DEF M!Warn, M!Crit, M!When

\* The price: a number is no CRIT, and is below a floor only if it is.
LEMMA PriceFindingsAre ==
  ASSUME NEW imp, NEW bid, M!IsBid(bid), M!IsImp(imp), NEW cur, NEW n, NEW f \in M!PriceFindings(imp, bid, cur, n)
  PROVE  /\ bid.price.typed /\ bid.price.n >= 0 => ~f.crit
         /\ f.code = "below_floor" => imp.floor.typed /\ bid.price.n < imp.floor.n
         /\ f.bid = n
<1> DEFINE explicit == imp.floor.typed /\ imp.floor.n >= 0
           unusable == imp.floor # M!Missing /\ ~explicit
           least == IF explicit THEN imp.floor.n ELSE 0
           readable == bid.price.typed /\ bid.price.n >= 0
           other == explicit /\ least > 0 /\ imp.floorcur # cur
           below == bid.price.n < least
<1>1. bid.price.n \in Int /\ imp.floor.n \in Int
  BY DEF M!IsBid, M!IsImp, M!AmountType
<1>2. M!PriceFindings(imp, bid, cur, n) =
        CASE ~readable -> {M!Crit("price_invalid", n)}
          [] readable /\ unusable -> {}
          [] OTHER -> M!When(other, M!Warn("floor_currency_mismatch", n))
                      \cup M!When(~other /\ below, M!Warn("below_floor", n))
  BY Zenon DEF M!PriceFindings
<1>3. below => bid.price.n < 0 \/ (imp.floor.typed /\ bid.price.n < imp.floor.n)
  BY <1>1
<1>4. readable => ~(bid.price.n < 0)
  BY <1>1
<1> HIDE DEF readable, unusable, other, below, explicit, least
<1>5. \/ ~readable /\ f = M!Crit("price_invalid", n)
      \/ readable /\ f \in M!When(other, M!Warn("floor_currency_mismatch", n))
      \/ readable /\ f \in M!When(~other /\ below, M!Warn("below_floor", n))
  BY <1>2
<1>6. \/ ~readable /\ f = M!Crit("price_invalid", n)
      \/ readable /\ f = M!Warn("floor_currency_mismatch", n)
      \/ readable /\ below /\ f = M!Warn("below_floor", n)
  BY <1>5 DEF M!When
<1>7. CASE ~readable /\ f = M!Crit("price_invalid", n)
  <2>1. f.code = "price_invalid" /\ f.bid = n
    BY <1>7, Reported
  <2>2. "price_invalid" # "below_floor"
    OBVIOUS
  <2> QED
    BY <1>7, <2>1, <2>2 DEF readable
<1>8. CASE readable /\ f = M!Warn("floor_currency_mismatch", n)
  <2>1. f.code = "floor_currency_mismatch" /\ f.bid = n /\ f.crit = FALSE
    BY <1>8, Reported, Zenon
  <2>2. "floor_currency_mismatch" # "below_floor"
    OBVIOUS
  <2> QED
    BY <2>1, <2>2
<1>9. CASE readable /\ below /\ f = M!Warn("below_floor", n)
  <2>1. f.bid = n /\ f.crit = FALSE
    BY <1>9, Reported, Zenon
  <2> QED
    BY <1>3, <1>4, <1>9, <2>1
<1> QED
  BY <1>6, <1>7, <1>8, <1>9

\* What the crosscheck may find in a bid.
LEMMA BidFindingsAre ==
  ASSUME NEW r, NEW s, NEW n, NEW f \in M!BidFindings(r, s, n)
  PROVE  LET bid == s.bids[n]
             imp == M!ImpOf(r, bid)
         IN \/ M!Resolves(r, bid) = {} /\ f = M!Crit("impid_unresolved", n)
            \/ M!Resolves(r, bid) # {} /\ f \in M!PriceFindings(imp, bid, s.cur, n)
            \/ f = M!Crit("cat_blocked", n) /\ r.bcat # {}
            \/ f = M!Crit("adomain_blocked", n) /\ r.badv # {}
            \/ M!Resolves(r, bid) # {} /\ f \in M!MediaFindings(imp, bid, n)
<1> DEFINE bid == s.bids[n]
           imp == M!ImpOf(r, bid)
           blocked == \E c \in bid.cat : c = "IAB3-1" /\ "IAB3" \in r.bcat
<1>1. M!BidFindings(r, s, n) =
        IF M!Resolves(r, bid) = {} THEN {M!Crit("impid_unresolved", n)}
        ELSE M!PriceFindings(imp, bid, s.cur, n)
             \cup M!When(blocked, M!Crit("cat_blocked", n))
             \cup M!When(bid.adomain \in r.badv, M!Crit("adomain_blocked", n))
             \cup M!MediaFindings(imp, bid, n)
  BY Zenon DEF M!BidFindings
<1>2. blocked => r.bcat # {}
  OBVIOUS
<1>3. bid.adomain \in r.badv => r.badv # {}
  OBVIOUS
<1> HIDE DEF blocked, bid, imp
<1>4. \/ M!Resolves(r, bid) = {} /\ f = M!Crit("impid_unresolved", n)
      \/ M!Resolves(r, bid) # {} /\ f \in M!PriceFindings(imp, bid, s.cur, n)
      \/ f \in M!When(blocked, M!Crit("cat_blocked", n))
      \/ f \in M!When(bid.adomain \in r.badv, M!Crit("adomain_blocked", n))
      \/ M!Resolves(r, bid) # {} /\ f \in M!MediaFindings(imp, bid, n)
  BY <1>1
<1>5. \/ M!Resolves(r, bid) = {} /\ f = M!Crit("impid_unresolved", n)
      \/ M!Resolves(r, bid) # {} /\ f \in M!PriceFindings(imp, bid, s.cur, n)
      \/ blocked /\ f = M!Crit("cat_blocked", n)
      \/ bid.adomain \in r.badv /\ f = M!Crit("adomain_blocked", n)
      \/ M!Resolves(r, bid) # {} /\ f \in M!MediaFindings(imp, bid, n)
  BY <1>4 DEF M!When
<1> QED
  BY <1>2, <1>3, <1>5, Zenon DEF bid, imp

\* And in a pair of documents.
LEMMA CrosscheckIs ==
  ASSUME NEW r, NEW s, NEW f \in M!Crosscheck(r, s)
  PROVE  \/ s.id # r.id /\ f = M!Crit("id_mismatch", 0)
         \/ r.wseat # {} /\ f = M!Crit("seat_not_allowed", 0)
         \/ \E n \in DOMAIN s.bids : f \in M!BidFindings(r, s, n)
<1> DEFINE seated == s.bids # <<>> /\ s.seat # "none" /\ r.wseat # {} /\ s.seat \notin r.wseat
           all == UNION {M!BidFindings(r, s, n) : n \in DOMAIN s.bids}
<1>1. M!Crosscheck(r, s) = M!When(s.id # r.id, M!Crit("id_mismatch", 0))
                           \cup M!When(seated, M!Crit("seat_not_allowed", 0))
                           \cup all
  BY Zenon DEF M!Crosscheck
<1>2. f \in all => \E n \in DOMAIN s.bids : f \in M!BidFindings(r, s, n)
  BY Zenon
<1>3. seated => r.wseat # {}
  OBVIOUS
<1> HIDE DEF seated, all
<1>4. \/ f \in M!When(s.id # r.id, M!Crit("id_mismatch", 0))
      \/ f \in M!When(seated, M!Crit("seat_not_allowed", 0))
      \/ f \in all
  BY <1>1
<1>5. \/ s.id # r.id /\ f = M!Crit("id_mismatch", 0)
      \/ seated /\ f = M!Crit("seat_not_allowed", 0)
      \/ f \in all
  BY <1>4 DEF M!When
<1> QED
  BY <1>2, <1>3, <1>5, Zenon

\* The kinds of markup are no floors.
LEMMA MediaFindingsAre ==
  ASSUME NEW imp, NEW bid, NEW n, NEW f \in M!MediaFindings(imp, bid, n)
  PROVE  LET medium == M!SelectBidMedia(imp, bid)
         IN /\ f.code # "below_floor"
            /\ \/ bid.mtype # "none" /\ bid.mtype \notin imp.offers
               \/ medium = "native" /\ bid.adm # "none" /\ f \in M!NativeFindings(imp.native, bid, n)
               \/ medium = "video" /\ bid.adm # "none" /\ f \in M!VideoFindings(imp.video, bid, n)
               \/ medium = "audio" /\ bid.adm # "none" /\ f \in M!AudioFindings(bid, n)
               \/ ~f.crit
<1> DEFINE medium == M!SelectBidMedia(imp, bid)
<1>1. \/ f \in M!When(bid.mtype # "none" /\ bid.mtype \notin imp.offers, M!Crit("mtype_offered_mismatch", n))
      \/ medium = "native" /\ bid.adm # "none" /\ f \in M!NativeFindings(imp.native, bid, n)
      \/ medium = "video" /\ bid.adm # "none" /\ f \in M!VideoFindings(imp.video, bid, n)
      \/ medium = "audio" /\ bid.adm # "none" /\ f \in M!AudioFindings(bid, n)
      \/ medium = "banner" /\ f \in M!When(bid.adm \notin {"html", "none"}, M!Warn("banner_not_banner", n))
  <2> DEFINE declared == M!When(bid.mtype # "none" /\ bid.mtype \notin imp.offers, M!Crit("mtype_offered_mismatch", n))
             native == M!NativeFindings(imp.native, bid, n)
             video == M!VideoFindings(imp.video, bid, n)
             audio == M!AudioFindings(bid, n)
             banner == M!When(bid.adm \notin {"html", "none"}, M!Warn("banner_not_banner", n))
  <2>1. M!MediaFindings(imp, bid, n) =
          declared \cup (CASE medium = "native" /\ bid.adm # "none" -> native
                           [] medium = "video" /\ bid.adm # "none" -> video
                           [] medium = "audio" /\ bid.adm # "none" -> audio
                           [] medium = "banner" -> banner
                           [] OTHER -> {})
    BY Zenon DEF M!MediaFindings
  <2> DEFINE judged == CASE medium = "native" /\ bid.adm # "none" -> native
                         [] medium = "video" /\ bid.adm # "none" -> video
                         [] medium = "audio" /\ bid.adm # "none" -> audio
                         [] medium = "banner" -> banner
                         [] OTHER -> {}
  <2> HIDE DEF declared, native, video, audio, banner, medium
  <2>1a. \/ medium = "native" /\ bid.adm # "none" /\ judged = native
         \/ medium = "video" /\ bid.adm # "none" /\ judged = video
         \/ medium = "audio" /\ bid.adm # "none" /\ judged = audio
         \/ medium = "banner" /\ judged = banner
         \/ judged = {}
    OBVIOUS
  <2>1b. f \in declared \/ f \in judged
    BY <2>1
  <2> HIDE DEF judged
  <2>2. \/ f \in declared
        \/ medium = "native" /\ bid.adm # "none" /\ f \in native
        \/ medium = "video" /\ bid.adm # "none" /\ f \in video
        \/ medium = "audio" /\ bid.adm # "none" /\ f \in audio
        \/ medium = "banner" /\ f \in banner
    BY <2>1a, <2>1b, Zenon
  <2> QED
    BY <2>2, Zenon DEF declared, native, video, audio, banner
<1>2. \A g \in M!NativeFindings(imp.native, bid, n) : g.code # "below_floor"
  BY DEF M!NativeFindings, M!When, M!Warn, M!Crit
<1>3. \A g \in M!VideoFindings(imp.video, bid, n) : g.code # "below_floor"
  BY DEF M!VideoFindings, M!When, M!Warn, M!Crit
<1>4. \A g \in M!AudioFindings(bid, n) : g.code # "below_floor"
  BY DEF M!AudioFindings, M!When, M!Warn, M!Crit
<1> HIDE DEF medium
<1>4a. "mtype_offered_mismatch" # "below_floor" /\ "banner_not_banner" # "below_floor"
  OBVIOUS
<1>5. CASE f \in M!When(bid.mtype # "none" /\ bid.mtype \notin imp.offers, M!Crit("mtype_offered_mismatch", n))
  BY <1>4a, <1>5 DEF M!When, M!Crit
<1>6. CASE f \in M!When(bid.adm \notin {"html", "none"}, M!Warn("banner_not_banner", n))
  BY <1>4a, <1>6 DEF M!When, M!Warn
<1> QED
  BY <1>1, <1>2, <1>3, <1>4, <1>5, <1>6, Zenon DEF medium

\* The medium a bid is judged as is one that was offered, if it is any.
LEMMA SelectIs ==
  ASSUME NEW imp, M!IsImp(imp), NEW bid
  PROVE  LET medium == M!SelectBidMedia(imp, bid)
         IN /\ medium \in imp.offers \cup {"nothing"}
            /\ bid.mtype \notin imp.offers /\ M!Actual(bid) \in imp.offers => medium = M!Actual(bid)
<1> DEFINE sole == CHOOSE m \in imp.offers : TRUE
           actual == M!Actual(bid)
           one == Cardinality(imp.offers) = 1
<1>1. M!SelectBidMedia(imp, bid) =
        CASE bid.mtype \in imp.offers -> bid.mtype
          [] bid.mtype \notin imp.offers /\ actual \in imp.offers -> actual
          [] OTHER -> IF one THEN sole ELSE "nothing"
  <2>1. M!Cardinality(imp.offers) = Cardinality(imp.offers)
    BY DEF M!Cardinality, Cardinality
  <2>2. M!SelectBidMedia(imp, bid) =
          CASE bid.mtype \in imp.offers -> bid.mtype
            [] bid.mtype \notin imp.offers /\ actual \in imp.offers -> actual
            [] OTHER -> IF M!Cardinality(imp.offers) = 1 THEN sole ELSE "nothing"
    BY Zenon DEF M!SelectBidMedia
  <2> HIDE DEF sole, actual
  <2> QED
    BY <2>1, <2>2
<1>2. one => sole \in imp.offers
  <2>1. imp.offers # {} => sole \in imp.offers
    BY Zenon
  <2>2. imp.offers = {} => Cardinality(imp.offers) = 0
    BY FS_EmptySet
  <2> QED
    BY <2>1, <2>2
<1> HIDE DEF sole, actual, one
<1>3. CASE bid.mtype \in imp.offers
  BY <1>1, <1>3
<1>4. CASE bid.mtype \notin imp.offers /\ actual \in imp.offers
  BY <1>1, <1>4 DEF actual
<1>5. CASE bid.mtype \notin imp.offers /\ actual \notin imp.offers
  BY <1>1, <1>2, <1>5 DEF actual
<1> QED
  BY <1>3, <1>4, <1>5

\* Markup that carries no CRIT, kind by kind.
LEMMA NativeIsHarmless ==
  ASSUME NEW native, NEW bid, NEW n, NEW f \in M!NativeFindings(native, bid, n),
         native.shape \in {"wrapped", "bare"} /\ bid.adm \in {"native", "bare-native"} =>
           M!MissingAssets(native, bid) = {} /\ ~bid.unsafe
  PROVE  ~f.crit
<1> DEFINE asked == native.shape \in {"wrapped", "bare"}
           answered == bid.adm \in {"native", "bare-native"}
           missing == M!MissingAssets(native, bid)
           empty == native.assets = <<>>
<1>1. M!NativeFindings(native, bid, n) =
        IF ~asked \/ empty THEN {M!Warn("native_invalid_request", n)}
        ELSE IF ~answered THEN {M!Warn("native_invalid_adm", n)}
        ELSE M!When(missing # {}, M!Crit("native_missing_assets", n))
             \cup M!When(missing = {} /\ bid.unsafe, M!Crit("native_unsafe_scheme", n))
  BY DEF M!NativeFindings
<1>2. asked /\ answered => missing = {} /\ ~bid.unsafe
  OBVIOUS
<1> HIDE DEF asked, answered, missing, empty
<1>3. \/ f = M!Warn("native_invalid_request", n)
      \/ f = M!Warn("native_invalid_adm", n)
      \/ asked /\ answered /\ f \in M!When(missing # {}, M!Crit("native_missing_assets", n))
      \/ asked /\ answered /\ f \in M!When(missing = {} /\ bid.unsafe, M!Crit("native_unsafe_scheme", n))
  BY <1>1
<1>4. \/ f = M!Warn("native_invalid_request", n)
      \/ f = M!Warn("native_invalid_adm", n)
  BY <1>2, <1>3 DEF M!When
<1> QED
  BY <1>4, Reported

\* Video: a VAST of a protocol, a type and a length the slot takes.
LEMMA VideoIsHarmless ==
  ASSUME NEW video, NEW bid, NEW n, NEW f \in M!VideoFindings(video, bid, n),
         bid.adm = "vast" =>
           /\ bid.vast.protocol \in video.protocols
           /\ bid.vast.inline =>
                /\ bid.vast.mime \in video.mimes
                /\ bid.vast.dur = 0 \/ ~(bid.vast.dur < video.min \/ bid.vast.dur > video.max)
  PROVE  ~f.crit
<1> DEFINE foreign == bid.vast.inline /\ bid.vast.mime \notin video.mimes
           long == bid.vast.inline /\ bid.vast.dur # 0
                   /\ (bid.vast.dur < video.min \/ bid.vast.dur > video.max)
           old == bid.vast.protocol \notin video.protocols
<1>1. M!VideoFindings(video, bid, n) =
        IF bid.adm # "vast" THEN {M!Warn("video_not_vast", n)}
        ELSE M!When(foreign, M!Crit("video_mime_mismatch", n))
             \cup M!When(long, M!Crit("video_duration_mismatch", n))
             \cup M!When(old, M!Crit("video_protocol_mismatch", n))
  BY DEF M!VideoFindings
<1>2. bid.adm = "vast" => ~foreign /\ ~long /\ ~old
  OBVIOUS
<1> HIDE DEF foreign, long, old
<1>3. \/ f = M!Warn("video_not_vast", n)
      \/ bid.adm = "vast" /\ f \in M!When(foreign, M!Crit("video_mime_mismatch", n))
      \/ bid.adm = "vast" /\ f \in M!When(long, M!Crit("video_duration_mismatch", n))
      \/ bid.adm = "vast" /\ f \in M!When(old, M!Crit("video_protocol_mismatch", n))
  BY <1>1
<1>4. f = M!Warn("video_not_vast", n)
  BY <1>2, <1>3 DEF M!When
<1> QED
  BY <1>4, Reported

\* Audio: any markup but an inline VAST of another type.
LEMMA AudioIsHarmless ==
  ASSUME NEW bid, NEW n, NEW f \in M!AudioFindings(bid, n),
         ~(bid.adm = "vast" /\ bid.vast.inline /\ bid.vast.mime # "mp3")
  PROVE  ~f.crit
<1> DEFINE other == bid.adm = "vast" /\ bid.vast.inline /\ bid.vast.mime # "mp3"
           neither == bid.adm \notin {"vast", "daast"}
<1>1. M!AudioFindings(bid, n) =
        CASE neither -> {M!Warn("audio_not_vast", n)}
          [] other -> {M!Crit("audio_media_mismatch", n)}
          [] OTHER -> {}
  BY Zenon DEF M!AudioFindings
<1>2. ~other
  OBVIOUS
<1> HIDE DEF other, neither
<1>3. f = M!Warn("audio_not_vast", n)
  BY <1>1, <1>2
<1> QED
  BY <1>3, Reported

\* Where no two impressions share an id, a bid resolves to at most one.
LEMMA ImpOfIs ==
  ASSUME NEW r, M!IsRequest(r), ~M!Twinned(r), NEW bid, NEW i \in M!Resolves(r, bid)
  PROVE  M!ImpOf(r, bid) = r.imps[i]
<1> DEFINE found == M!Resolves(r, bid)
<1>1. \A j \in found : /\ j \in DOMAIN r.imps /\ r.imps[j].id # "missing"
                       /\ M!Key(r.imps[j].id) = M!Key(bid.impid)
  BY DEF M!Resolves
<1>2. \A j \in found : j \in Nat
  <2>1. PICK n \in 0..Len(DefaultIds) : DOMAIN r.imps = 1..n
    BY DEF M!IsRequest, M!IsList
  <2> QED
    BY <1>1, <2>1
<1>3. ASSUME NEW j \in found PROVE j = i
  <2>1. \A k, l \in DOMAIN r.imps : k < l => ~M!SameKey(r.imps[k].id, r.imps[l].id)
    BY Zenon DEF M!Twinned
  <2>2. M!SameKey(r.imps[i].id, r.imps[j].id) /\ M!SameKey(r.imps[j].id, r.imps[i].id)
    BY <1>1, <1>3 DEF M!SameKey
  <2>3. ~(i < j) /\ ~(j < i)
    BY <1>1, <1>3, <2>1, <2>2, Zenon
  <2> QED
    BY <1>2, <1>3, <2>3
<1> DEFINE last == CHOOSE j \in found : \A k \in found : k <= j
<1>4. M!ImpOf(r, bid) = r.imps[last]
  BY Zenon DEF M!ImpOf
<1> HIDE DEF found
<1>5. i \in found
  BY DEF found
<1>6. \A k \in found : k <= i
  BY <1>2, <1>3, <1>5
<1>7. last \in found
  BY <1>5, <1>6, Zenon
<1> QED
  BY <1>3, <1>4, <1>7

\* A generated response: where impressions and bids do not share ids, a bid resolves to no
\* impression but the one it answers.
LEMMA OwnImp ==
  ASSUME NEW r, M!IsRequest(r), ~M!Twinned(r), NEW best \in BOOLEAN,
         ~M!Doubled(M!ResponseFromRequest(r, best)),
         NEW i \in DOMAIN r.imps,
         NEW m \in M!Resolves(r, M!ResponseFromRequest(r, best).bids[i])
  PROVE  m = i
<1> DEFINE s == M!ResponseFromRequest(r, best)
           impid(k) == IF M!IsStr(r.imps[k].id) THEN r.imps[k].id ELSE M!DefaultImpId(k)
<1>1. DOMAIN s.bids = DOMAIN r.imps /\ \A k \in DOMAIN r.imps : k \in 1..Len(DefaultIds)
  BY ResponseIs
<1>2. \A k \in DOMAIN r.imps : s.bids[k].impid = impid(k) /\ M!IsStr(impid(k))
  <2> SUFFICES ASSUME NEW k \in DOMAIN r.imps PROVE s.bids[k].impid = impid(k) /\ M!IsStr(impid(k))
    OBVIOUS
  <2>1. k \in 1..Len(DefaultIds) /\ M!IsImp(r.imps[k]) /\ s.bids[k] = M!BidFor(r.imps[k], k, best)
    BY ResponseIs
  <2>2. /\ M!BidFor(r.imps[k], k, best).impid = impid(k)
        /\ M!IsStr(M!BidFor(r.imps[k], k, best).impid)
    BY <2>1, BidIs, Zenon
  <2> HIDE DEF s, impid
  <2> QED
    BY <2>1, <2>2
<1>3. m \in DOMAIN r.imps /\ r.imps[m].id # "missing" /\ s.bids[i].impid # "missing"
      /\ M!Key(r.imps[m].id) = M!Key(s.bids[i].impid)
  BY DEF M!Resolves
<1>4. \A k, l \in DOMAIN s.bids : k < l =>
        ~M!SameKey(s.bids[k].impid, s.bids[l].impid)
  BY Zenon DEF M!Doubled
<1>5. \A k, l \in DOMAIN r.imps : k < l => ~M!SameKey(r.imps[k].id, r.imps[l].id)
  BY Zenon DEF M!Twinned
<1> HIDE DEF s
<1>6. m \in 1..Len(DefaultIds) /\ i \in 1..Len(DefaultIds)
  BY <1>1, <1>3
<1>7. CASE M!IsStr(r.imps[m].id)
  <2>1. M!SameKey(s.bids[m].impid, s.bids[i].impid) /\ M!SameKey(s.bids[i].impid, s.bids[m].impid)
    BY <1>2, <1>3, <1>7 DEF M!SameKey
  <2>2. ~(m < i) /\ ~(i < m)
    BY <1>1, <1>3, <1>4, <2>1
  <2> QED
    BY <1>6, <2>2, GivenIdsAre
<1>8. CASE ~M!IsStr(r.imps[m].id)
  <2>1. M!Key(impid(i)) = "1"
    BY <1>2, <1>3, <1>8 DEF M!IsStr, M!Key
  <2>2. impid(i) = "1"
    BY <1>2, <2>1 DEF M!IsStr, M!Key
  <2>3. M!IsStr(r.imps[i].id) /\ r.imps[i].id = "1"
    BY <1>6, <2>2, GivenIdsAre
  <2>4. M!SameKey(r.imps[m].id, r.imps[i].id) /\ M!SameKey(r.imps[i].id, r.imps[m].id)
    BY <1>2, <1>3, <2>2, <2>3 DEF M!SameKey
  <2>5. ~(m < i) /\ ~(i < m)
    BY <1>1, <1>3, <1>5, <2>4
  <2> QED
    BY <1>6, <2>5, GivenIdsAre
<1> QED
  BY <1>7, <1>8

\* A generated request: where no two bids share an impression, a bid resolves to no
\* impression but the one inferred from it.
LEMMA OwnBid ==
  ASSUME NEW s, M!IsResponse(s), ~M!Doubled(s), NEW k \in DOMAIN s.bids,
         NEW m \in M!Resolves(M!RequestFromResponse(s), s.bids[k])
  PROVE  M!RequestFromResponse(s).imps[m] = M!ImpFor(s.bids[k], M!BidImpId(s.bids[k], k), s.cur)
<1> DEFINE r == M!RequestFromResponse(s)
           id(l) == M!BidImpId(s.bids[l], l)
           inferred(l) == M!ImpFor(s.bids[l], id(l), s.cur)
<1>1. M!IsList(s.bids) /\ \A i \in DOMAIN s.bids : M!IsBid(s.bids[i])
  BY DEF M!IsResponse
<1>2. r.imps = M!ImpsFor(s.bids, s.cur)
  BY RequestIs
<1>3. /\ \A l \in DOMAIN r.imps : (\E j \in DOMAIN s.bids : r.imps[l] = inferred(j)) \/ DOMAIN s.bids = {}
      /\ \A j \in DOMAIN s.bids : j \in 1..Len(DefaultIds)
  BY <1>1, <1>2, ImpsAre
<1>4. m \in DOMAIN r.imps /\ r.imps[m].id # "missing" /\ s.bids[k].impid # "missing"
      /\ M!Key(r.imps[m].id) = M!Key(s.bids[k].impid)
  BY DEF M!Resolves
<1>5. PICK j \in DOMAIN s.bids : r.imps[m] = inferred(j)
  BY <1>3, <1>4
<1>6. \A i, l \in DOMAIN s.bids : i < l =>
        id(i) # id(l) /\ ~M!SameKey(s.bids[i].impid, s.bids[l].impid)
  BY Zenon DEF M!Doubled
<1>7. r.imps[m].id = id(j)
  BY <1>5 DEF M!ImpFor
<1> HIDE DEF r, inferred
<1>8. j \in 1..Len(DefaultIds) /\ k \in 1..Len(DefaultIds)
  BY <1>3
<1>9. /\ M!IsStr(id(j)) /\ M!Key(id(j)) = id(j)
      /\ M!IsStr(s.bids[k].impid) => id(k) = s.bids[k].impid
      /\ ~M!IsStr(s.bids[j].impid) => id(j) # "1"
      /\ M!IsStr(s.bids[j].impid) => id(j) = s.bids[j].impid
  BY <1>8, BidIdsAre
<1>10. id(j) = M!Key(s.bids[k].impid)
  BY <1>4, <1>7, <1>9
<1> HIDE DEF id
<1>11. j = k
  <2>1. CASE M!IsStr(s.bids[k].impid)
    <3>1. id(j) = id(k)
      BY <1>9, <1>10, <2>1 DEF M!IsStr, M!Key
    <3>2. ~(j < k) /\ ~(k < j)
      BY <1>6, <3>1
    <3> QED
      BY <1>8, <3>2, GivenIdsAre
  <2>2. CASE ~M!IsStr(s.bids[k].impid)
    <3>1. id(j) = "1"
      BY <1>4, <1>10, <2>2 DEF M!IsStr, M!Key
    <3>2. s.bids[j].impid = "1"
      BY <1>9, <3>1
    <3>3. s.bids[k].impid = "1#"
      BY <1>4, <2>2 DEF M!IsStr
    <3>4. M!SameKey(s.bids[j].impid, s.bids[k].impid) /\ M!SameKey(s.bids[k].impid, s.bids[j].impid)
      BY <3>2, <3>3 DEF M!SameKey, M!Key
    <3>5. ~(j < k) /\ ~(k < j)
      BY <1>6, <3>4
    <3> QED
      BY <1>8, <3>5, GivenIdsAre
  <2> QED
    BY <2>1, <2>2
<1> QED
  BY <1>5, <1>11 DEF inferred, r, id

\* No two inferred impressions share an id.
LEMMA NoneTwinned ==
  ASSUME NEW s, M!IsResponse(s)
  PROVE  ~M!Twinned(M!RequestFromResponse(s))
<1> DEFINE r == M!RequestFromResponse(s)
<1>1. M!IsList(s.bids) /\ \A i \in DOMAIN s.bids : M!IsBid(s.bids[i])
  BY DEF M!IsResponse
<1>2. r.imps = M!ImpsFor(s.bids, s.cur) /\ M!IsRequest(r)
  BY RequestIs
<1>3. \A l, m \in DOMAIN r.imps : l # m => r.imps[l].id # r.imps[m].id
  BY <1>1, <1>2, ImpsAre
<1>4. \A m \in DOMAIN r.imps : M!IsStr(r.imps[m].id)
  <2> SUFFICES ASSUME NEW m \in DOMAIN r.imps PROVE M!IsStr(r.imps[m].id)
    OBVIOUS
  <2>1. \/ \E k \in DOMAIN s.bids : r.imps[m] = M!ImpFor(s.bids[k], M!BidImpId(s.bids[k], k), s.cur)
        \/ r.imps[m] = M!DefaultImp(s.cur)
    BY <1>1, <1>2, ImpsAre
  <2>2. M!IsStr(M!DefaultImp(s.cur).id)
    BY DEF M!DefaultImp, M!IsStr
  <2>3. ASSUME NEW k \in DOMAIN s.bids, r.imps[m] = M!ImpFor(s.bids[k], M!BidImpId(s.bids[k], k), s.cur)
        PROVE  M!IsStr(r.imps[m].id)
    <3>1. k \in 1..Len(DefaultIds)
      BY <1>1, ImpsAre
    <3>2. M!IsStr(M!BidImpId(s.bids[k], k))
      BY <3>1, BidIdsAre
    <3> QED
      BY <2>3, <3>2 DEF M!ImpFor
  <2> QED
    BY <2>1, <2>2, <2>3
<1>5. DOMAIN r.imps \subseteq Int
  <2>1. PICK n \in 0..Len(DefaultIds) : DOMAIN r.imps = 1..n
    BY <1>2 DEF M!IsRequest, M!IsList
  <2> QED
    BY <2>1
<1> HIDE DEF r
<1>6. ASSUME NEW i \in DOMAIN r.imps, NEW j \in DOMAIN r.imps, i < j
      PROVE  ~M!SameKey(r.imps[i].id, r.imps[j].id)
  <2>1. r.imps[i].id # r.imps[j].id
    BY <1>3, <1>5, <1>6
  <2> QED
    BY <1>4, <2>1 DEF M!SameKey, M!IsStr, M!Key
<1> QED
  BY <1>6 DEF M!Twinned, r

\* A generated slot asks only for assets the bid has.
LEMMA NativeForIs ==
  ASSUME NEW assets \in Seq(M!AssetType)
  PROVE  \A k \in DOMAIN M!NativeFor(assets).assets :
           /\ M!NativeFor(assets).assets[k].id # M!NotANumber
           /\ \E i \in DOMAIN assets : M!NativeFor(assets).assets[k].id = assets[i].id
<1> DEFINE numbered == M!NumberedAssets(assets)
           asked(i) == [numbered[i] EXCEPT !.required = numbered[i].kind # "data"]
           all == [i \in DOMAIN numbered |-> asked(i)]
<1>1. M!NativeFor(assets).assets = all
  <2>1. M!NativeFor(assets) = [shape |-> "wrapped", assets |-> all]
    BY Zenon DEF M!NativeFor
  <2> HIDE DEF all
  <2> QED
    BY <2>1
<1>2. /\ numbered \in Seq(M!AssetType)
      /\ \A k \in DOMAIN numbered : numbered[k].id # M!NotANumber /\ \E i \in DOMAIN assets : numbered[k] = assets[i]
  BY NumberedAre
<1> HIDE DEF numbered
<1>3. \A k \in DOMAIN numbered : asked(k).id = numbered[k].id
  <2> SUFFICES ASSUME NEW k \in DOMAIN numbered PROVE asked(k).id = numbered[k].id
    OBVIOUS
  <2>1. numbered[k] \in M!AssetType
    BY <1>2
  <2> QED
    BY <2>1 DEF M!AssetType
<1> HIDE DEF asked
<1>4. DOMAIN all = DOMAIN numbered /\ \A k \in DOMAIN all : all[k].id = numbered[k].id
  BY <1>3
<1> HIDE DEF all
<1> QED
  BY <1>1, <1>2, <1>4

\* The generated request is one the generator's own creative fits.
LEMMA RequestIsFitting ==
  ASSUME NEW s, M!IsResponse(s)
  PROVE  M!RequestFits(M!RequestFromResponse(s))
<1> DEFINE r == M!RequestFromResponse(s)
<1>1. M!IsList(s.bids) /\ \A i \in DOMAIN s.bids : M!IsBid(s.bids[i])
  BY DEF M!IsResponse
<1>2. ASSUME NEW bid, M!IsBid(bid), NEW id, M!IsStr(id) PROVE M!ImpFits(M!ImpFor(bid, id, s.cur))
  <2> DEFINE imp == M!ImpFor(bid, id, s.cur)
  <2>1. /\ M!IsImp(imp) /\ imp.id = id
        /\ bid.adm = "vast" => imp.offers = {"video"} /\ imp.video = M!VideoFor(bid.vast)
        /\ bid.adm = "native" => imp.offers = {"native"} /\ imp.native = M!NativeFor(bid.assets)
        /\ bid.adm # "native" => imp.native = M!NoNative
        /\ bid.adm \notin {"vast", "native"} => imp.offers = {"banner"}
    BY <1>2, ImpIs
  <2>2. bid.vast \in M!VastType /\ bid.assets \in Seq(M!AssetType)
    BY <1>2 DEF M!IsBid
  <2> HIDE DEF imp
  <2>3. imp.offers # {"audio"} /\ (imp.offers \cap {"banner", "video"} = {"video"} => bid.adm = "vast")
    BY <2>1
  <2>4. bid.adm = "vast" =>
          /\ "mp4" \in imp.video.mimes /\ 7 \in imp.video.protocols /\ imp.video.max >= 5
          /\ imp.video.min <= IF imp.video.max = M!NoLimit THEN 15 ELSE M!Smaller(30, imp.video.max)
    <3>1. /\ M!VideoFor(bid.vast).mimes = {"mp4"} /\ M!VideoFor(bid.vast).protocols = {3, 7}
          /\ M!VideoFor(bid.vast).min = 5 /\ M!VideoFor(bid.vast).max \in 15..60
      BY <2>2, VideoIsLonger
    <3>2. CASE bid.adm = "vast"
      BY <2>1, <3>1, <3>2 DEF M!Smaller, M!NoLimit
    <3> QED
      BY <3>2
  <2>5. \A k \in DOMAIN imp.native.assets : imp.native.assets[k].id # M!NotANumber
    <3>1. CASE bid.adm = "native"
      BY <2>1, <2>2, <3>1, NativeForIs, Zenon
    <3>2. CASE bid.adm # "native"
      BY <2>1, <3>2 DEF M!NoNative
    <3> QED
      BY <3>1, <3>2
  <2>6. M!ImpFits(imp)
    BY <1>2, <2>1, <2>3, <2>4, <2>5, Zenon DEF M!ImpFits
  <2> QED
    BY <2>6 DEF imp
<1>3. M!ImpFits(M!DefaultImp(s.cur))
  <2> DEFINE imp == M!DefaultImp(s.cur)
  <2>1. imp.id = "imp-1" /\ imp.offers = {"banner"} /\ imp.native.assets = <<>>
    BY DEF M!DefaultImp, M!NoNative
  <2> HIDE DEF imp
  <2>2. M!IsStr(imp.id) /\ imp.offers # {"audio"} /\ imp.offers \cap {"banner", "video"} # {"video"}
    BY <2>1 DEF M!IsStr
  <2>3. DOMAIN imp.native.assets = {}
    BY <2>1
  <2>4. M!ImpFits(imp)
    BY <2>2, <2>3, Zenon DEF M!ImpFits
  <2> QED
    BY <2>4 DEF imp
<1>4. \A m \in DOMAIN r.imps : M!ImpFits(r.imps[m])
  <2> SUFFICES ASSUME NEW m \in DOMAIN r.imps PROVE M!ImpFits(r.imps[m])
    OBVIOUS
  <2>1. r.imps = M!ImpsFor(s.bids, s.cur)
    BY RequestIs
  <2>2. \/ \E k \in DOMAIN s.bids : r.imps[m] = M!ImpFor(s.bids[k], M!BidImpId(s.bids[k], k), s.cur)
        \/ r.imps[m] = M!DefaultImp(s.cur)
    BY <1>1, <2>1, ImpsAre
  <2>3. ASSUME NEW k \in DOMAIN s.bids, r.imps[m] = M!ImpFor(s.bids[k], M!BidImpId(s.bids[k], k), s.cur)
        PROVE  M!ImpFits(r.imps[m])
    <3>1. k \in 1..Len(DefaultIds) /\ M!IsBid(s.bids[k])
      BY <1>1, ImpsAre
    <3>2. M!IsStr(M!BidImpId(s.bids[k], k))
      BY <3>1, BidIdsAre
    <3>3. M!ImpFits(M!ImpFor(s.bids[k], M!BidImpId(s.bids[k], k), s.cur))
      BY <1>2, <3>1, <3>2, Zenon
    <3> QED
      BY <2>3, <3>3, Zenon
  <2> QED
    BY <1>3, <2>2, <2>3, Zenon
<1>5. M!IsStr(r.id) /\ ~M!Twinned(r) /\ r.badv = {} /\ r.bcat = {} /\ r.wseat = {}
  BY RequestIs, NoneTwinned
<1> HIDE DEF r
<1>6. M!RequestFits(r)
  BY <1>4, <1>5, Zenon DEF M!RequestFits
<1> QED
  BY <1>6 DEF r

\* The generated response is one the generator's own slot takes, if its bids have an
\* impression each.
LEMMA ResponseIsFitting ==
  ASSUME NEW r, M!IsRequest(r), NEW best \in BOOLEAN, ~M!Doubled(M!ResponseFromRequest(r, best))
  PROVE  M!ResponseFits(M!ResponseFromRequest(r, best))
<1> DEFINE s == M!ResponseFromRequest(r, best)
<1>1. M!IsStr(s.id) /\ DOMAIN s.bids = DOMAIN r.imps
  BY ResponseIs
<1>2. ASSUME NEW i \in DOMAIN r.imps PROVE M!BidFits(s.bids[i], s.cur)
  <2> DEFINE bid == M!BidFor(r.imps[i], i, best)
             made == M!CreativeFor(r.imps[i])
             max == r.imps[i].video.max
  <2>1. i \in 1..Len(DefaultIds) /\ M!IsImp(r.imps[i]) /\ s.bids[i] = bid
    BY ResponseIs
  <2>2. /\ M!IsStr(bid.impid) /\ bid.price.typed /\ bid.price.n \in Int
        /\ bid.price.n >= M!SafeFloor(r.imps[i])
        /\ bid.adm = made.adm /\ bid.vast = made.vast
        /\ bid.unsafe = FALSE /\ bid.mtype = "none"
    <3>1. M!IsStr(bid.impid) /\ bid.adm = made.adm /\ bid.vast = made.vast
      BY <2>1, BidIs, ZenonT(30)
    <3>2. bid.price.typed /\ bid.price.n \in Int /\ bid.price.n >= M!SafeFloor(r.imps[i])
      BY <2>1, BidIs, Zenon
    <3>3. bid.unsafe = FALSE /\ bid.mtype = "none"
      BY <2>1, BidIs, ZenonT(30)
    <3> QED
      BY <3>1, <3>2, <3>3, Zenon
  <2>3. M!SafeFloor(r.imps[i]) \in Int /\ M!SafeFloor(r.imps[i]) >= 0
    BY <2>1, PriceIsAbove, Zenon
  <2>4. made.adm = "vast" => made.vast = M!VastTemplate(max)
    BY <2>1, CreativeIs, Zenon
  <2>5. max \in Nat
    BY <2>1 DEF M!IsImp, M!VideoType
  <2>6. /\ M!VastTemplate(max).protocol = 7 /\ M!VastTemplate(max).mime = "mp4"
        /\ M!VastTemplate(max).dur \in 5..30
    BY <2>5, VastIsShort
  <2> HIDE DEF bid, made, max, s
  <2>7. bid.price.n >= 0
    BY <2>2, <2>3
  <2>8. bid.adm = "vast" => bid.vast.protocol = 7 /\ bid.vast.mime = "mp4" /\ bid.vast.dur \in 5..60
    BY <2>2, <2>4, <2>6
  <2>9. M!BidFits(bid, s.cur)
    BY <2>2, <2>7, <2>8 DEF M!BidFits
  <2> QED
    BY <2>1, <2>9
<1> HIDE DEF s
<1>3. ~M!Doubled(s)
  BY DEF s
<1>4. M!ResponseFits(s)
  BY <1>1, <1>2, <1>3 DEF M!ResponseFits
<1> QED
  BY <1>4 DEF s

\* The first self-test of a generated response: the request it answers takes it.
LEMMA AnswerIsClean ==
  ASSUME NEW r, M!IsRequest(r), M!RequestFits(r), NEW best \in BOOLEAN,
         NEW f \in M!Crosscheck(r, M!ResponseFromRequest(r, best))
  PROVE  ~f.crit
<1> DEFINE s == M!ResponseFromRequest(r, best)
<1>1. /\ M!IsStr(r.id) /\ ~M!Twinned(r) /\ r.badv = {} /\ r.bcat = {} /\ r.wseat = {}
      /\ \A i \in DOMAIN r.imps : M!ImpFits(r.imps[i])
  BY Zenon DEF M!RequestFits
<1>2. DOMAIN s.bids = DOMAIN r.imps /\ s.id = r.id
  BY <1>1, ResponseIs
<1>3. \E n \in DOMAIN s.bids : f \in M!BidFindings(r, s, n)
  <2>1. \/ s.id # r.id /\ f = M!Crit("id_mismatch", 0)
        \/ r.wseat # {} /\ f = M!Crit("seat_not_allowed", 0)
        \/ \E n \in DOMAIN s.bids : f \in M!BidFindings(r, s, n)
    BY CrosscheckIs, Zenon
  <2> QED
    BY <1>1, <1>2, <2>1, Zenon
<1>4. PICK n \in DOMAIN r.imps : f \in M!BidFindings(r, s, n)
  BY <1>2, <1>3
<1> DEFINE imp == r.imps[n]
           bid == s.bids[n]
           made == M!CreativeFor(imp)
<1>5. n \in 1..Len(DefaultIds) /\ M!IsImp(imp) /\ bid = M!BidFor(imp, n, best) /\ M!ImpFits(imp)
  BY <1>1, ResponseIs
<1>6. M!IsBid(bid) /\ bid.impid = imp.id /\ bid.mtype = "none"
  <2>1. M!IsStr(imp.id)
    BY <1>5 DEF M!ImpFits
  <2> HIDE DEF imp, bid, s
  <2>2. /\ M!IsBid(M!BidFor(imp, n, best)) /\ M!BidFor(imp, n, best).mtype = "none"
        /\ M!BidFor(imp, n, best).impid = IF M!IsStr(imp.id) THEN imp.id ELSE M!DefaultImpId(n)
    BY <1>5, BidIs, Zenon
  <2> QED
    BY <1>5, <2>1, <2>2
<1>7. bid.price.typed /\ bid.price.n >= 0 /\ bid.unsafe = FALSE
  <2>1. /\ M!BidFor(imp, n, best).price.typed /\ M!BidFor(imp, n, best).price.n \in Int
        /\ M!BidFor(imp, n, best).price.n >= M!SafeFloor(imp)
    BY <1>5, BidIs, Zenon
  <2>2. M!BidFor(imp, n, best).unsafe = FALSE
    BY <1>5, BidIs, Zenon
  <2>3. M!SafeFloor(imp) \in Int /\ M!SafeFloor(imp) >= 0
    BY <1>5, PriceIsAbove, Zenon
  <2> HIDE DEF imp, bid
  <2> QED
    BY <1>5, <2>1, <2>2, <2>3
<1>8. bid.adm = made.adm /\ bid.vast = made.vast /\ bid.assets = made.assets
  <2>1. /\ M!BidFor(imp, n, best).adm = made.adm /\ M!BidFor(imp, n, best).vast = made.vast
        /\ M!BidFor(imp, n, best).assets = made.assets
    BY <1>5, BidIs, ZenonT(30)
  <2> HIDE DEF imp, bid, made
  <2> QED
    BY <1>5, <2>1
<1>9. /\ made.adm \in {"html", "vast", "native"}
      /\ made.adm = "vast" =>
           /\ imp.offers \cap {"banner", "video"} = {"video"} \/ imp.offers = {"audio"}
           /\ made.vast = M!VastTemplate(imp.video.max)
      /\ made.adm = "native" => made.assets = M!NumberedAssets(imp.native.assets)
  BY <1>5, CreativeIs
<1>10. n \in M!Resolves(r, bid) /\ M!ImpOf(r, bid) = imp
  <2>1. imp.id # "missing"
    BY <1>5 DEF M!ImpFits, M!IsStr
  <2>2. n \in M!Resolves(r, bid)
    BY <1>6, <2>1 DEF M!Resolves
  <2> QED
    BY <1>1, <2>2, ImpOfIs
<1>11. \/ f \in M!PriceFindings(imp, bid, s.cur, n)
       \/ f \in M!MediaFindings(imp, bid, n)
  <2>1. \/ M!Resolves(r, bid) = {} /\ f = M!Crit("impid_unresolved", n)
        \/ M!Resolves(r, bid) # {} /\ f \in M!PriceFindings(M!ImpOf(r, bid), bid, s.cur, n)
        \/ f = M!Crit("cat_blocked", n) /\ r.bcat # {}
        \/ f = M!Crit("adomain_blocked", n) /\ r.badv # {}
        \/ M!Resolves(r, bid) # {} /\ f \in M!MediaFindings(M!ImpOf(r, bid), bid, n)
    BY <1>4, BidFindingsAre, Zenon
  <2> HIDE DEF s, imp, bid
  <2> QED
    BY <1>1, <1>10, <2>1
<1>12. CASE f \in M!PriceFindings(imp, bid, s.cur, n)
  BY <1>5, <1>6, <1>7, <1>12, PriceFindingsAre, Zenon
<1>13. imp.offers \subseteq M!Media /\ imp.video.max \in Nat /\ imp.native.assets \in Seq(M!AssetType)
       /\ imp.video.min \in Nat
  BY <1>5 DEF M!IsImp, M!VideoType, M!NativeType
<1>14. bid.adm = "vast" =>
         /\ imp.offers \cap {"banner", "video"} = {"video"}
         /\ bid.vast.inline /\ bid.vast.mime = "mp4" /\ bid.vast.protocol = 7
         /\ "mp4" \in imp.video.mimes /\ 7 \in imp.video.protocols
         /\ imp.video.min <= bid.vast.dur /\ bid.vast.dur <= imp.video.max /\ bid.vast.dur \in Nat
  <2> SUFFICES ASSUME bid.adm = "vast"
               PROVE  /\ imp.offers \cap {"banner", "video"} = {"video"}
                      /\ bid.vast.inline /\ bid.vast.mime = "mp4" /\ bid.vast.protocol = 7
                      /\ "mp4" \in imp.video.mimes /\ 7 \in imp.video.protocols
                      /\ imp.video.min <= bid.vast.dur /\ bid.vast.dur <= imp.video.max /\ bid.vast.dur \in Nat
    OBVIOUS
  <2> HIDE DEF imp, bid, made, s
  <2>1. /\ imp.offers \cap {"banner", "video"} = {"video"} \/ imp.offers = {"audio"}
        /\ bid.vast = M!VastTemplate(imp.video.max)
    BY <1>8, <1>9
  <2>2. /\ imp.offers # {"audio"}
        /\ imp.offers \cap {"banner", "video"} = {"video"} =>
             /\ "mp4" \in imp.video.mimes /\ 7 \in imp.video.protocols /\ imp.video.max >= 5
             /\ imp.video.min <= IF imp.video.max = M!NoLimit THEN 15 ELSE M!Smaller(30, imp.video.max)
    BY <1>5 DEF M!ImpFits
  <2>3. /\ bid.vast.inline /\ bid.vast.protocol = 7 /\ bid.vast.mime = "mp4" /\ bid.vast.dur \in 5..30
        /\ imp.video.max >= 5 => bid.vast.dur <= imp.video.max
        /\ \A min \in Nat : imp.video.max >= 5
             /\ min <= (IF imp.video.max = M!NoLimit THEN 15 ELSE M!Smaller(30, imp.video.max))
             => min <= bid.vast.dur
    BY <1>13, <2>1, VastIsShort
  <2>4. imp.offers \cap {"banner", "video"} = {"video"}
    BY <2>1, <2>2
  <2>5. imp.video.min <= bid.vast.dur /\ bid.vast.dur <= imp.video.max
    BY <1>13, <2>2, <2>3, <2>4
  <2>6. bid.vast.dur \in Nat
    BY <2>3
  <2> QED
    BY <2>2, <2>3, <2>4, <2>5, <2>6
<1>15. ASSUME f \in M!NativeFindings(imp.native, bid, n) PROVE ~f.crit
  <2>1. ASSUME bid.adm \in {"native", "bare-native"} PROVE M!MissingAssets(imp.native, bid) = {}
    <3>1. bid.assets = M!NumberedAssets(imp.native.assets)
      <4>1. bid.adm = "native"
        BY <1>8, <1>9, <2>1
      <4> QED
        BY <1>8, <1>9, <4>1
    <3>2. \A i \in DOMAIN imp.native.assets : imp.native.assets[i].id # M!NotANumber =>
            \E k \in DOMAIN bid.assets : bid.assets[k] = imp.native.assets[i]
      <4> DEFINE numbered == M!NumberedAssets(imp.native.assets)
      <4>1. \A i \in DOMAIN imp.native.assets : imp.native.assets[i].id # M!NotANumber =>
              \E k \in DOMAIN numbered : numbered[k] = imp.native.assets[i]
        BY <1>13, NumberedAre
      <4> HIDE DEF imp, bid
      <4> QED
        BY <3>1, <4>1
    <3>3. \A i \in DOMAIN imp.native.assets :
            imp.native.assets[i].required => imp.native.assets[i].id # M!NotANumber
      BY <1>5 DEF M!ImpFits
    <3> HIDE DEF imp, bid
    <3> QED
      BY <3>2, <3>3 DEF M!MissingAssets
  <2> QED
    BY <1>7, <1>15, <2>1, NativeIsHarmless
<1>16. ASSUME f \in M!VideoFindings(imp.video, bid, n) PROVE ~f.crit
  <2> HIDE DEF imp, bid
  <2>1. bid.adm = "vast" =>
           /\ bid.vast.protocol \in imp.video.protocols
           /\ bid.vast.inline =>
                /\ bid.vast.mime \in imp.video.mimes
                /\ bid.vast.dur = 0 \/ ~(bid.vast.dur < imp.video.min \/ bid.vast.dur > imp.video.max)
    BY <1>13, <1>14
  <2> QED
    BY <1>16, <2>1, VideoIsHarmless, Zenon
<1>17. ASSUME M!SelectBidMedia(imp, bid) = "audio", f \in M!AudioFindings(bid, n) PROVE ~f.crit
  <2>1. bid.adm # "vast"
    <3> SUFFICES ASSUME bid.adm = "vast" PROVE FALSE
      OBVIOUS
    <3> HIDE DEF imp, bid
    <3>1. M!Actual(bid) = "video" /\ "video" \in imp.offers
      BY <1>14 DEF M!Actual
    <3>2. bid.mtype \notin imp.offers
      BY <1>6, <1>13 DEF M!Media
    <3>3. M!SelectBidMedia(imp, bid) = "video"
      BY <1>5, <3>1, <3>2, SelectIs
    <3> QED
      BY <1>17, <3>3
  <2> QED
    BY <1>17, <2>1, AudioIsHarmless, Zenon
<1>18. CASE f \in M!MediaFindings(imp, bid, n)
  <2>1. \/ bid.mtype # "none" /\ bid.mtype \notin imp.offers
        \/ f \in M!NativeFindings(imp.native, bid, n)
        \/ f \in M!VideoFindings(imp.video, bid, n)
        \/ M!SelectBidMedia(imp, bid) = "audio" /\ f \in M!AudioFindings(bid, n)
        \/ ~f.crit
    BY <1>18, MediaFindingsAre, Zenon
  <2> HIDE DEF imp, bid
  <2> QED
    BY <1>6, <1>15, <1>16, <1>17, <2>1, Zenon
<1> HIDE DEF imp, bid, s
<1> QED
  BY <1>11, <1>12, <1>18

\* The first self-test of a generated request: it takes the response it was inferred from.
LEMMA SlotIsClean ==
  ASSUME NEW s, M!IsResponse(s), M!ResponseFits(s),
         NEW f \in M!Crosscheck(M!RequestFromResponse(s), s)
  PROVE  ~f.crit
<1> DEFINE r == M!RequestFromResponse(s)
<1>1. M!IsStr(s.id) /\ ~M!Doubled(s) /\ \A n \in DOMAIN s.bids : M!BidFits(s.bids[n], s.cur)
  BY Zenon DEF M!ResponseFits
<1>2. M!IsList(s.bids) /\ \A i \in DOMAIN s.bids : M!IsBid(s.bids[i])
  BY DEF M!IsResponse
<1>3. /\ M!IsRequest(r) /\ r.imps = M!ImpsFor(s.bids, s.cur) /\ r.id = s.id
      /\ r.badv = {} /\ r.bcat = {} /\ r.wseat = {} /\ ~M!Twinned(r)
  BY <1>1, RequestIs, NoneTwinned
<1>4. \E n \in DOMAIN s.bids : f \in M!BidFindings(r, s, n)
  <2>1. \/ s.id # r.id /\ f = M!Crit("id_mismatch", 0)
        \/ r.wseat # {} /\ f = M!Crit("seat_not_allowed", 0)
        \/ \E n \in DOMAIN s.bids : f \in M!BidFindings(r, s, n)
    BY CrosscheckIs, Zenon
  <2> QED
    BY <1>3, <2>1, Zenon
<1>5. PICK n \in DOMAIN s.bids : f \in M!BidFindings(r, s, n)
  BY <1>4
<1> DEFINE bid == s.bids[n]
           imp == M!ImpFor(bid, bid.impid, s.cur)
<1>6. M!IsBid(bid) /\ M!BidFits(bid, s.cur) /\ n \in 1..Len(DefaultIds)
  BY <1>1, <1>2, ImpsAre
<1>7. M!IsStr(bid.impid) /\ M!BidImpId(bid, n) = bid.impid
  BY <1>6, BidIdsAre DEF M!BidFits
<1>8. PICK m \in DOMAIN r.imps : r.imps[m] = imp
  <2>1. \A j \in DOMAIN s.bids : j < n => M!BidImpId(s.bids[j], j) # M!BidImpId(bid, n)
    <3>1. \A i, l \in DOMAIN s.bids : i < l => M!BidImpId(s.bids[i], i) # M!BidImpId(s.bids[l], l)
      BY <1>1, Zenon DEF M!Doubled
    <3> QED
      BY <3>1
  <2>2. \A j \in 1..(n - 1) : j \in DOMAIN s.bids /\ j < n
    <3>1. PICK l \in 0..Len(DefaultIds) : DOMAIN s.bids = 1..l
      BY <1>2 DEF M!IsList
    <3> QED
      BY <3>1, GivenIdsAre
  <2>3. \A j \in 1..(n - 1) : M!BidImpId(s.bids[j], j) # M!BidImpId(bid, n)
    BY <2>1, <2>2, Zenon
  <2>4. \E m \in DOMAIN r.imps : r.imps[m] = M!ImpFor(bid, M!BidImpId(bid, n), s.cur)
    BY <1>2, <1>3, <2>3, ImpsAre
  <2> QED
    BY <1>7, <2>4
<1>9. /\ M!IsImp(imp) /\ imp.id = bid.impid
      /\ bid.adm = "vast" => imp.offers = {"video"} /\ imp.video = M!VideoFor(bid.vast)
      /\ bid.adm = "native" => imp.offers = {"native"} /\ imp.native = M!NativeFor(bid.assets)
      /\ bid.adm # "native" => imp.native = M!NoNative
  BY <1>6, ImpIs
<1>10. M!Resolves(r, bid) # {} /\ M!ImpOf(r, bid) = imp
  <2>1. bid.impid # "missing"
    BY <1>7 DEF M!IsStr
  <2> HIDE DEF imp, r, bid
  <2>2. m \in M!Resolves(r, bid)
    BY <1>8, <1>9, <2>1 DEF M!Resolves
  <2> QED
    BY <1>3, <1>8, <2>2, ImpOfIs
<1>11. \/ f \in M!PriceFindings(imp, bid, s.cur, n)
       \/ f \in M!MediaFindings(imp, bid, n)
  <2>1. \/ M!Resolves(r, bid) = {} /\ f = M!Crit("impid_unresolved", n)
        \/ M!Resolves(r, bid) # {} /\ f \in M!PriceFindings(M!ImpOf(r, bid), bid, s.cur, n)
        \/ f = M!Crit("cat_blocked", n) /\ r.bcat # {}
        \/ f = M!Crit("adomain_blocked", n) /\ r.badv # {}
        \/ M!Resolves(r, bid) # {} /\ f \in M!MediaFindings(M!ImpOf(r, bid), bid, n)
    BY <1>5, BidFindingsAre, Zenon
  <2> HIDE DEF r, imp, bid
  <2> QED
    BY <1>3, <1>10, <2>1
<1>12. bid.price.typed /\ bid.price.n >= 0 /\ ~bid.unsafe /\ bid.mtype \in {"none"} \cup imp.offers
       /\ (bid.adm = "vast" => /\ bid.vast.protocol \in {3, 7}
                               /\ bid.vast.inline => bid.vast.mime = "mp4" /\ bid.vast.dur \in 5..60)
  BY <1>6, Zenon DEF M!BidFits
<1>13. CASE f \in M!PriceFindings(imp, bid, s.cur, n)
  BY <1>6, <1>9, <1>12, <1>13, PriceFindingsAre, Zenon
<1>14. bid.vast \in M!VastType /\ bid.assets \in Seq(M!AssetType)
  BY <1>6 DEF M!IsBid
<1>15. ASSUME f \in M!NativeFindings(imp.native, bid, n) PROVE ~f.crit
  <2>1. CASE bid.adm = "native"
    <3>1. \A k \in DOMAIN imp.native.assets :
            \E i \in DOMAIN bid.assets : imp.native.assets[k].id = bid.assets[i].id
      <4> DEFINE native == M!NativeFor(bid.assets)
      <4>1. \A k \in DOMAIN native.assets : \E i \in DOMAIN bid.assets : native.assets[k].id = bid.assets[i].id
        BY <1>14, NativeForIs
      <4>2. imp.native = native
        BY <1>9, <2>1
      <4> HIDE DEF imp, bid, native
      <4> QED
        BY <4>1, <4>2
    <3>2. M!MissingAssets(imp.native, bid) = {}
      <4> HIDE DEF imp, bid
      <4> QED
        BY <3>1 DEF M!MissingAssets
    <3> QED
      BY <1>12, <1>15, <3>2, NativeIsHarmless, Zenon
  <2>2. CASE bid.adm # "native"
    <3>1. imp.native.shape = "none"
      BY <1>9, <2>2 DEF M!NoNative
    <3>2. imp.native.shape \notin {"wrapped", "bare"}
      BY <3>1
    <3> QED
      BY <1>15, <3>2, NativeIsHarmless, Zenon
  <2> QED
    BY <2>1, <2>2
<1>16. ASSUME f \in M!VideoFindings(imp.video, bid, n) PROVE ~f.crit
  <2> HIDE DEF imp, bid
  <2>1. bid.adm = "vast" =>
           /\ bid.vast.protocol \in imp.video.protocols
           /\ bid.vast.inline =>
                /\ bid.vast.mime \in imp.video.mimes
                /\ bid.vast.dur = 0 \/ ~(bid.vast.dur < imp.video.min \/ bid.vast.dur > imp.video.max)
    <3> SUFFICES ASSUME bid.adm = "vast"
                 PROVE  /\ bid.vast.protocol \in imp.video.protocols
                        /\ bid.vast.inline =>
                             /\ bid.vast.mime \in imp.video.mimes
                             /\ bid.vast.dur = 0 \/ ~(bid.vast.dur < imp.video.min \/ bid.vast.dur > imp.video.max)
      OBVIOUS
    <3>1. /\ M!VideoFor(bid.vast).mimes = {"mp4"} /\ M!VideoFor(bid.vast).protocols = {3, 7}
          /\ M!VideoFor(bid.vast).min = 5 /\ M!VideoFor(bid.vast).max \in 15..60
          /\ bid.vast.dur \in 5..60 => bid.vast.dur <= M!VideoFor(bid.vast).max
      BY <1>14, VideoIsLonger
    <3>2. imp.video = M!VideoFor(bid.vast)
      BY <1>9
    <3> QED
      BY <1>12, <3>1, <3>2
  <2> QED
    BY <1>16, <2>1, VideoIsHarmless, Zenon
<1>17. ASSUME M!SelectBidMedia(imp, bid) = "audio", f \in M!AudioFindings(bid, n) PROVE ~f.crit
  <2>1. bid.adm # "vast"
    <3> SUFFICES ASSUME bid.adm = "vast" PROVE FALSE
      OBVIOUS
    <3> HIDE DEF imp, bid
    <3>1. imp.offers = {"video"} /\ M!SelectBidMedia(imp, bid) \in imp.offers \cup {"nothing"}
      BY <1>9, SelectIs
    <3> QED
      BY <1>17, <3>1
  <2> QED
    BY <1>17, <2>1, AudioIsHarmless, Zenon
<1>18. CASE f \in M!MediaFindings(imp, bid, n)
  <2>1. \/ bid.mtype # "none" /\ bid.mtype \notin imp.offers
        \/ f \in M!NativeFindings(imp.native, bid, n)
        \/ f \in M!VideoFindings(imp.video, bid, n)
        \/ M!SelectBidMedia(imp, bid) = "audio" /\ f \in M!AudioFindings(bid, n)
        \/ ~f.crit
    BY <1>18, MediaFindingsAre, Zenon
  <2> HIDE DEF imp, bid
  <2>2. ~(bid.mtype # "none" /\ bid.mtype \notin imp.offers)
    BY <1>12
  <2> QED
    BY <1>15, <1>16, <1>17, <2>1, <2>2, Zenon
<1> HIDE DEF imp, bid, r
<1> QED
  BY <1>11, <1>13, <1>18

\* A bid below a floor is a bid the crosscheck found an impression for.
LEMMA BelowFloorIs ==
  ASSUME NEW r, NEW s, NEW f \in M!Crosscheck(r, s), f.code = "below_floor",
         M!IsRequest(r), ~M!Twinned(r), M!IsResponse(s)
  PROVE  \E n \in DOMAIN s.bids : \E m \in M!Resolves(r, s.bids[n]) :
           /\ f.bid = n /\ M!IsImp(r.imps[m]) /\ m \in DOMAIN r.imps
           /\ s.bids[n].price.n < r.imps[m].floor.n
<1>1. \A n : /\ M!Crit("id_mismatch", n).code # "below_floor"
             /\ M!Crit("seat_not_allowed", n).code # "below_floor"
             /\ M!Crit("impid_unresolved", n).code # "below_floor"
             /\ M!Crit("cat_blocked", n).code # "below_floor"
             /\ M!Crit("adomain_blocked", n).code # "below_floor"
  BY DEF M!Crit
<1>2. PICK n \in DOMAIN s.bids : f \in M!BidFindings(r, s, n)
  <2>1. \/ s.id # r.id /\ f = M!Crit("id_mismatch", 0)
        \/ r.wseat # {} /\ f = M!Crit("seat_not_allowed", 0)
        \/ \E n \in DOMAIN s.bids : f \in M!BidFindings(r, s, n)
    BY CrosscheckIs, Zenon
  <2> QED
    BY <1>1, <2>1, Zenon
<1> DEFINE bid == s.bids[n]
           imp == M!ImpOf(r, bid)
<1>3. M!Resolves(r, bid) # {} /\ (f \in M!PriceFindings(imp, bid, s.cur, n) \/ f \in M!MediaFindings(imp, bid, n))
  <2>1. \/ M!Resolves(r, bid) = {} /\ f = M!Crit("impid_unresolved", n)
        \/ M!Resolves(r, bid) # {} /\ f \in M!PriceFindings(M!ImpOf(r, bid), bid, s.cur, n)
        \/ f = M!Crit("cat_blocked", n) /\ r.bcat # {}
        \/ f = M!Crit("adomain_blocked", n) /\ r.badv # {}
        \/ M!Resolves(r, bid) # {} /\ f \in M!MediaFindings(M!ImpOf(r, bid), bid, n)
    BY <1>2, BidFindingsAre, Zenon
  <2> QED
    BY <1>1, <2>1, Zenon
<1>4. f \in M!PriceFindings(imp, bid, s.cur, n)
  BY <1>3, MediaFindingsAre, Zenon
<1>5. PICK m \in M!Resolves(r, bid) : TRUE
  BY <1>3, Zenon
<1>6. imp = r.imps[m]
  BY <1>5, ImpOfIs
<1>7. m \in DOMAIN r.imps
  BY DEF M!Resolves
<1>8. M!IsImp(r.imps[m]) /\ M!IsBid(bid) /\ M!IsImp(imp)
  BY <1>6, <1>7 DEF M!IsRequest, M!IsResponse
<1>9. bid.price.n < imp.floor.n /\ f.bid = n
  <2> HIDE DEF imp, bid
  <2> QED
    BY <1>4, <1>8, PriceFindingsAre
<1> QED
  BY <1>6, <1>7, <1>8, <1>9

\* A generated bid clears its floor.
LEMMA AnswerClears ==
  ASSUME NEW r, M!IsRequest(r), NEW best \in BOOLEAN,
         NEW f \in M!Crosscheck(r, M!ResponseFromRequest(r, best)), f.code = "below_floor"
  PROVE  M!Doubled(M!ResponseFromRequest(r, best)) \/ M!Twinned(r)
<1> SUFFICES ASSUME ~M!Doubled(M!ResponseFromRequest(r, best)), ~M!Twinned(r) PROVE FALSE
  OBVIOUS
<1> DEFINE s == M!ResponseFromRequest(r, best)
<1>1. M!IsResponse(s) /\ DOMAIN s.bids = DOMAIN r.imps
  BY ResponseIs
<1>1a. PICK n \in DOMAIN s.bids : \E m \in M!Resolves(r, s.bids[n]) :
        M!IsImp(r.imps[m]) /\ m \in DOMAIN r.imps /\ s.bids[n].price.n < r.imps[m].floor.n
  BY <1>1, BelowFloorIs, Zenon
<1>2. PICK m \in M!Resolves(r, s.bids[n]) :
        M!IsImp(r.imps[m]) /\ m \in DOMAIN r.imps /\ s.bids[n].price.n < r.imps[m].floor.n
  BY <1>1a, Zenon
<1>3. m = n
  BY <1>1, <1>2, OwnImp, Zenon
<1>4. n \in 1..Len(DefaultIds) /\ s.bids[n] = M!BidFor(r.imps[n], n, best)
  BY <1>1, ResponseIs
<1>5. /\ M!BidFor(r.imps[n], n, best).price.n \in Int
      /\ M!BidFor(r.imps[n], n, best).price.n >= M!SafeFloor(r.imps[n])
  BY <1>2, <1>3, <1>4, BidIs, Zenon
<1>6. /\ M!SafeFloor(r.imps[n]) \in Int /\ M!SafeFloor(r.imps[n]) >= r.imps[n].floor.n
  BY <1>2, <1>3, PriceIsAbove, Zenon
<1>7. r.imps[n].floor.n \in Int
  BY <1>2, <1>3 DEF M!IsImp, M!AmountType
<1> HIDE DEF s
<1> QED
  BY <1>2, <1>3, <1>4, <1>5, <1>6, <1>7

\* A bid clears the floor of the impression inferred from it, from a cent on.
LEMMA SlotClears ==
  ASSUME NEW s, M!IsResponse(s),
         NEW f \in M!Crosscheck(M!RequestFromResponse(s), s), f.code = "below_floor"
  PROVE  s.bids[f.bid].price.n < 10 \/ M!Doubled(s)
<1> SUFFICES ASSUME ~M!Doubled(s) PROVE s.bids[f.bid].price.n < 10
  OBVIOUS
<1> DEFINE r == M!RequestFromResponse(s)
<1>1. M!IsRequest(r) /\ ~M!Twinned(r)
  BY RequestIs, NoneTwinned
<1>1a. PICK n \in DOMAIN s.bids : \E m \in M!Resolves(r, s.bids[n]) :
        f.bid = n /\ s.bids[n].price.n < r.imps[m].floor.n
  BY <1>1, BelowFloorIs, Zenon
<1>2. PICK m \in M!Resolves(r, s.bids[n]) : f.bid = n /\ s.bids[n].price.n < r.imps[m].floor.n
  BY <1>1a, Zenon
<1>3. r.imps[m] = M!ImpFor(s.bids[n], M!BidImpId(s.bids[n], n), s.cur)
  BY <1>2, OwnBid, Zenon
<1>4. M!IsBid(s.bids[n])
  BY DEF M!IsResponse
<1>5. M!ImpFor(s.bids[n], M!BidImpId(s.bids[n], n), s.cur).floor.n = M!FloorUnder(s.bids[n].price)
  BY <1>4, ImpIs
<1>6. s.bids[n].price \in M!AmountType
  BY <1>4 DEF M!IsBid
<1>7. /\ M!FloorUnder(s.bids[n].price) \in Int
      /\ s.bids[n].price.n >= 10 => M!FloorUnder(s.bids[n].price) <= s.bids[n].price.n
  BY <1>6, FloorIsUnder, Zenon
<1>8. s.bids[n].price.n \in Int
  BY <1>6 DEF M!AmountType
<1> HIDE DEF r
<1> QED
  BY <1>2, <1>3, <1>5, <1>7, <1>8

\* The pair is a request and a response, of the lengths and types the inputs have.
Documents ==
  /\ M!IsRequest(req) /\ M!IsResponse(res)
  /\ newest \in {"request", "response"} /\ presses \in Nat
\* The newest document was written for the other.
NewestAnswers ==
  presses > 0 =>
    /\ newest = "response" => \E best \in BOOLEAN : res = M!ResponseFromRequest(req, best)
    /\ newest = "request" => req = M!RequestFromResponse(res)
\* From the second press on, the older was written for one the newest has replaced.
OlderAnswered ==
  presses > 1 =>
    /\ newest = "response" => \E s : M!IsResponse(s) /\ req = M!RequestFromResponse(s)
    /\ newest = "request" => \E r : M!IsRequest(r) /\ \E best \in BOOLEAN : res = M!ResponseFromRequest(r, best)

\* The invariant of the mirror.
MInv == Documents /\ NewestAnswers /\ OlderAnswered

\* It holds of a pasted document beside an empty pane.
LEMMA MInit ==
  M!Init => MInv
<1> SUFFICES ASSUME M!Init PROVE MInv
  OBVIOUS
<1>1. presses = 0
  BY DEF M!Init
<1>2. M!IsList(<<>>)
  <2>1. DOMAIN <<>> = 1..0 /\ 0 \in 0..Len(DefaultIds)
    BY GivenIdsAre
  <2> QED
    BY <2>1, Zenon DEF M!IsList
<1>3. M!IsRequest(M!NoRequest) /\ M!IsResponse(M!NoResponse)
  BY <1>2 DEF M!IsRequest, M!IsResponse, M!NoRequest, M!NoResponse
<1>4. Documents
  BY <1>1, <1>3, DocumentsAssumption DEF M!Init, Documents
<1> QED
  BY <1>1, <1>4 DEF MInv, NewestAnswers, OlderAnswered

\* Steps of other parts leave it alone.
LEMMA MQuiet ==
  MInv /\ UNCHANGED mirror => MInv'
BY DEF MInv, Documents, NewestAnswers, OlderAnswered, mirror

\* Both directions of the mirror keep it.
LEMMA MStep ==
  MInv /\ M!Next => MInv'
<1> SUFFICES ASSUME MInv, M!Next PROVE MInv'
  OBVIOUS
<1>1. ASSUME NEW best \in BOOLEAN, M!MirrorRequest(best) PROVE MInv'
  <2>1. /\ newest = "request" /\ newest' = "response" /\ req' = req /\ presses' = presses + 1
        /\ res' = M!ResponseFromRequest(req, best)
    BY <1>1 DEF M!MirrorRequest
  <2>2. M!IsRequest(req) /\ presses \in Nat
    BY DEF MInv, Documents
  <2>3. M!IsResponse(res')
    BY <2>1, <2>2, ResponseIs
  <2>4. Documents'
    BY <2>1, <2>2, <2>3 DEF Documents
  <2>5. NewestAnswers'
    BY <2>1 DEF NewestAnswers
  <2>6. presses > 0 => \E s : M!IsResponse(s) /\ req = M!RequestFromResponse(s)
    BY <2>1 DEF MInv, Documents, NewestAnswers
  <2>7. OlderAnswered'
    BY <2>1, <2>2, <2>6 DEF OlderAnswered
  <2> QED
    BY <2>4, <2>5, <2>7 DEF MInv
<1>2. ASSUME M!MirrorResponse PROVE MInv'
  <2>1. /\ newest = "response" /\ newest' = "request" /\ res' = res /\ presses' = presses + 1
        /\ req' = M!RequestFromResponse(res)
    BY <1>2 DEF M!MirrorResponse
  <2>2. M!IsResponse(res) /\ presses \in Nat
    BY DEF MInv, Documents
  <2>3. M!IsRequest(req')
    BY <2>1, <2>2, RequestIs
  <2>4. Documents'
    BY <2>1, <2>2, <2>3 DEF Documents
  <2>5. NewestAnswers'
    BY <2>1 DEF NewestAnswers
  <2>6. presses > 0 => \E r : M!IsRequest(r) /\ \E best \in BOOLEAN : res = M!ResponseFromRequest(r, best)
    BY <2>1 DEF MInv, Documents, NewestAnswers
  <2>7. OlderAnswered'
    BY <2>1, <2>2, <2>6 DEF OlderAnswered
  <2> QED
    BY <2>4, <2>5, <2>7 DEF MInv
<1> QED
  BY <1>1, <1>2 DEF M!Next

\* And it says all that is claimed of the pair.
LEMMA MSound ==
  MInv => M!GeneratorIsClean /\ M!BidsClear
<1> SUFFICES ASSUME MInv PROVE M!GeneratorIsClean /\ M!BidsClear
  OBVIOUS
<1>1. M!IsRequest(req) /\ M!IsResponse(res) /\ newest \in {"request", "response"} /\ presses \in Nat
  BY DEF MInv, Documents
<1>2. presses > 0 =>
        /\ newest = "response" => \E best \in BOOLEAN : res = M!ResponseFromRequest(req, best)
        /\ newest = "request" => req = M!RequestFromResponse(res)
  BY DEF MInv, NewestAnswers
<1>3. presses > 1 =>
        /\ newest = "response" => \E s : M!IsResponse(s) /\ req = M!RequestFromResponse(s)
        /\ newest = "request" => \E r : M!IsRequest(r) /\ \E best \in BOOLEAN : res = M!ResponseFromRequest(r, best)
  BY DEF MInv, OlderAnswered
<1>4. ASSUME presses > 0, newest = "response", M!RequestFits(req) PROVE M!Crits = {}
  <2>1. \A f \in M!Crosscheck(req, res) : ~f.crit
    BY <1>1, <1>2, <1>4, AnswerIsClean, Zenon
  <2> QED
    BY <2>1, Zenon DEF M!Crits
<1>5. ASSUME presses > 0, newest = "request", M!ResponseFits(res) PROVE M!Crits = {}
  <2>1. \A f \in M!Crosscheck(req, res) : ~f.crit
    BY <1>1, <1>2, <1>5, SlotIsClean, Zenon
  <2> QED
    BY <2>1, Zenon DEF M!Crits
<1>6. M!FittingIsClean
  <2>1. presses = 1 => presses > 0
    BY <1>1
  <2> QED
    BY <1>1, <1>4, <1>5, <2>1 DEF M!FittingIsClean
<1>7. M!SettlesClean
  <2> SUFFICES ASSUME presses > 1, ~M!Doubled(res) PROVE M!Crits = {}
    BY DEF M!SettlesClean
  <2>1. presses > 0
    BY <1>1
  <2>2. CASE newest = "response"
    BY <1>3, <1>4, <2>1, <2>2, RequestIsFitting, Zenon
  <2>3. CASE newest = "request"
    BY <1>3, <1>5, <2>1, <2>3, ResponseIsFitting, Zenon
  <2> QED
    BY <1>1, <2>2, <2>3
<1>8. M!BidsClear
  <2> SUFFICES ASSUME presses > 0, NEW f \in M!Crosscheck(req, res), f.code = "below_floor"
               PROVE  res.bids[f.bid].price.n < 10 \/ M!Doubled(res) \/ M!Twinned(req)
    BY Zenon DEF M!BidsClear, M!Mirrored
  <2>1. CASE newest = "response"
    BY <1>1, <1>2, <2>1, AnswerClears, Zenon
  <2>2. CASE newest = "request"
    BY <1>1, <1>2, <2>2, SlotClears, Zenon
  <2> QED
    BY <1>1, <2>1, <2>2
<1> QED
  BY <1>6, <1>7, <1>8 DEF M!GeneratorIsClean

-----------------------------------------------------------------------------
(* The parts together.                                                     *)

\* The migration needs no invariant: it promises something of each step.
CoreInv == (part = "validator" => VInv) /\ (part = "mirror" => MInv)

\* It is inductive for the three parts together.
LEMMA CoreInductive ==
  /\ CoreInit => CoreInv
  /\ CoreInv /\ [CoreNext]_<<part, validator, mirror, migration>> => CoreInv'
<1> DEFINE VPart == part = "validator" => VInv
           MPart == part = "mirror" => MInv
<1>1. CoreInit => CoreInv
  <2>1. "validator" # "mirror" /\ "validator" # "migration" /\ "mirror" # "migration"
    OBVIOUS
  <2> QED
    BY <2>1, VInit, MInit, Zenon DEF CoreInit, CoreInv
<1>2. ASSUME CoreInv, UNCHANGED <<part, validator>> PROVE VPart'
  <2>1. part' = part /\ UNCHANGED <<job, side, raw, failed, spent, emitted, sides, report>>
    BY <1>2 DEF validator
  <2>2. ASSUME part = "validator" PROVE VInv'
    BY <1>2, <2>1, <2>2, VQuiet DEF CoreInv
  <2> QED
    BY <2>1, <2>2
<1>3. ASSUME CoreInv, UNCHANGED <<part, mirror>> PROVE MPart'
  <2>1. part' = part
    BY <1>3
  <2>2. ASSUME part = "mirror" PROVE MInv'
    BY <1>3, <2>2, MQuiet DEF CoreInv
  <2> QED
    BY <2>1, <2>2
<1> HIDE DEF VPart, MPart
<1>4. VPart' /\ MPart' => CoreInv'
  BY DEF CoreInv, VPart, MPart
<1>5. ASSUME CoreInv, Validates PROVE CoreInv'
  <2>1. VPart'
    BY <1>5, VStep, Zenon DEF CoreInv, Validates, VPart
  <2>2. MPart'
    BY <1>3, <1>5, Zenon DEF Validates
  <2> QED
    BY <1>4, <2>1, <2>2
<1>6. ASSUME CoreInv, Mirrors PROVE CoreInv'
  <2>1. VPart'
    BY <1>2, <1>6, Zenon DEF Mirrors
  <2>2. MPart'
    BY <1>6, MStep, Zenon DEF CoreInv, Mirrors, MPart
  <2> QED
    BY <1>4, <2>1, <2>2
<1>7. ASSUME CoreInv, UNCHANGED <<part, validator, mirror>> PROVE CoreInv'
  BY <1>2, <1>3, <1>4, <1>7
<1>8. ASSUME CoreInv, Migrates PROVE CoreInv'
  BY <1>7, <1>8, Zenon DEF Migrates
<1>9. ASSUME CoreInv, UNCHANGED <<part, validator, mirror, migration>> PROVE CoreInv'
  BY <1>7, <1>9
<1> QED
  BY <1>1, <1>5, <1>6, <1>8, <1>9, Zenon DEF CoreNext

\* No error is lost between the rule that raised it and the answer, an analysis in which
\* a rule family threw is never called clean, a report is in the canonical order with no
\* finding twice, and the detector agrees with the auction view's copy of it: whatever the
\* jobs, the number of findings and of failing families (validate.js, findings.js,
\* detect.js, routes/analyze.js).
THEOREM ValidatorTheorem == CoreSpec => []ValidatorIsSound
<1>1. CoreInv => ValidatorIsSound
  BY VSound, Zenon DEF CoreInv, ValidatorIsSound
<1> QED
  BY <1>1, CoreInductive, PTL DEF CoreSpec

\* What the generator writes in one direction, the other direction and the crosscheck
\* accept: at once where its fixed creative fits the pasted document, and for any document
\* once both are its own; and a mirrored bid of a cent or more clears its floor.  For
\* documents of any length and content, mirrored any number of times (mirror.js,
\* crosscheck.js).
THEOREM MirrorTheorem == CoreSpec => []MirrorIsSound
<1>1. CoreInv => MirrorIsSound
  BY MSound, Zenon DEF CoreInv, MirrorIsSound
<1> QED
  BY <1>1, CoreInductive, PTL DEF CoreSpec
=============================================================================
