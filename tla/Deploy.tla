------------------------------- MODULE Deploy -------------------------------
(***************************************************************************)
(* Releases of ortbtools on the one production host: scripts/deploy.sh,    *)
(* scripts/rollback.sh and what they share in deploy-lib.sh.  They keep    *)
(* three things in step that no transaction covers: deploy-state.env, the  *)
(* tag pinned in .env, and the container with its restart policy.          *)
(*                                                                         *)
(* One action is one command of a script that changes any of them.  A      *)
(* script can be killed between two commands, the host can reboot, and     *)
(* nothing keeps two scripts from running at once.                         *)
(*                                                                         *)
(* Abstractions: a tag is the image it names, as tags carry the commit     *)
(* they were built from; a script that aborts before it has written        *)
(* anything (git, permissions, seeding, privacy floor, build) is a killed  *)
(* one, and so is one that set -e ends in set_env or docker update.        *)
(* smoke.sh is one step: it passes on the build it asked for its SHA.      *)
(***************************************************************************)
EXTENDS Naturals, FiniteSets

CONSTANTS
  Images,   \* builds that exist on the host or may be built
  None,     \* no image: an empty field, no container
  Scripts   \* invocations of the two scripts

ASSUME NoneAssumption == None \notin Images

VARIABLES
  state,     \* deploy-state.env
  env,       \* ORTBTOOLS_TAG in .env
  box,       \* the container
  script,    \* the invocations
  verified,  \* history: images that passed the smoke test while they ran
  mixed      \* history: a script began to act while another was acting

vars == <<state, env, box, script, verified, mixed>>

Inflight == {"CANDIDATE_STARTING", "CANDIDATE_READY", "ROLLING_BACK"}
Settled  == {"none", "ACTIVE", "ROLLED_BACK", "CRITICAL"}
Acts     == {"pin", "arm", "record"}
Stages   == {"unused", "checked", "captured", "intended", "up", "ready", "smoked", "failed", "over", "aborted"}
Fresh    == [at |-> "unused", phase |-> "deploy", image |-> None, prev |-> None, done |-> {}]

\* It has announced itself in deploy-state.env, and not finished.
Acting(s) == script[s].at \in {"intended", "up", "ready", "smoked", "failed"}

Move(s, at) == script' = [script EXCEPT ![s].at = at]

\* write_state replaces the whole file, so a field not named is gone.
WriteState(status, active, rollback) ==
  state' = [status |-> status, active |-> active, rollback |-> rollback]

-----------------------------------------------------------------------------
\* deploy.sh, preflight: never on top of an unfinished transition.
StartDeploy(s, i) ==
  /\ script[s].at = "unused"
  /\ state.status \notin Inflight
  /\ script' = [script EXCEPT ![s].at = "checked", ![s].image = i]
  /\ UNCHANGED <<state, env, box, verified, mixed>>

\* The rollback target is whatever the container was made from.
Capture(s) ==
  /\ script[s].at = "checked"
  /\ script' = [script EXCEPT ![s].at = "captured", ![s].prev = box.image]
  /\ UNCHANGED <<state, env, box, verified, mixed>>

\* rollback.sh with a tag, or with the recorded one.
StartRollback(s, tag) ==
  /\ script[s].at = "unused"
  /\ script' = [script EXCEPT ![s] =
       IF tag = None THEN [Fresh EXCEPT !.at = "aborted"]
       ELSE [Fresh EXCEPT !.at = "captured", !.phase = "manual", !.image = tag, !.prev = state.rollback]]
  /\ UNCHANGED <<state, env, box, verified, mixed>>

\* The intent is on disk before anything is switched.
Intend(s) ==
  /\ script[s].at = "captured"
  /\ IF script[s].phase = "deploy"
       THEN WriteState("CANDIDATE_STARTING", None, script[s].prev)
       ELSE WriteState("ROLLING_BACK", None, IF script[s].phase = "auto" THEN script[s].prev ELSE None)
  /\ mixed' = (mixed \/ \E o \in Scripts \ {s} : Acting(o))
  /\ Move(s, "intended")
  /\ UNCHANGED <<env, box, verified>>

BasePolicy(i) == {"always"}

\* docker-compose.deploy-transition.yml.  Compose leaves a container alone
\* that it made from the same image and files.
TransitionPolicy(i) == IF box.image = i THEN {"no", box.policy} ELSE {"no"}

\* docker compose up: guarded, so a failure goes on to the rollback.
Up(s) ==
  /\ script[s].at = "intended"
  /\ \E policy \in TransitionPolicy(script[s].image), works \in BOOLEAN :
       /\ \/ box' = [image |-> script[s].image, policy |-> policy, running |-> works]
          \/ ~works /\ UNCHANGED box
       /\ Move(s, IF works THEN "up" ELSE "failed")
  /\ UNCHANGED <<state, env, verified, mixed>>

\* wait_ready: healthy in time, or not.
Ready(s) ==
  /\ script[s].at = "up"
  /\ \/ /\ box.running
        /\ IF script[s].phase = "deploy"
             THEN WriteState("CANDIDATE_READY", None, script[s].prev)
             ELSE UNCHANGED state
        /\ Move(s, "ready")
     \/ Move(s, "failed") /\ UNCHANGED state
  /\ UNCHANGED <<env, box, verified, mixed>>

AnyBuild(s) == box.running

\* smoke.sh asks the build it talks to for its BUILD_SHA.
Passes(s) == box.running /\ box.image = script[s].image

Smoke(s) ==
  /\ script[s].at = "ready"
  /\ \/ Passes(s) /\ Move(s, "smoked") /\ verified' = verified \cup {box.image}
     \/ Move(s, "failed") /\ UNCHANGED verified
  /\ UNCHANGED <<state, env, box, mixed>>

-----------------------------------------------------------------------------
\* The image passed: pin it, let Docker restart it, and only then say so.
RecordFirst == [record |-> {}, pin |-> {"record"}, arm |-> {"record", "pin"}]

Before == [pin |-> {}, arm |-> {"pin"}, record |-> {"pin", "arm"}]

Turn(s, act) == script[s].at = "smoked" /\ script[s].done = Before[act]

Finish(s, act) ==
  script' = [script EXCEPT ![s].done = @ \cup {act},
                           ![s].at = IF script[s].done \cup {act} = Acts THEN "over" ELSE @]

SetEnv(s) ==
  /\ Turn(s, "pin")
  /\ env' = script[s].image
  /\ Finish(s, "pin")
  /\ UNCHANGED <<state, box, verified, mixed>>

\* docker update works on the container of that name, whoever made it.
ArmRestart(s) ==
  /\ Turn(s, "arm")
  /\ box' = [box EXCEPT !.policy = "always"]
  /\ Finish(s, "arm")
  /\ UNCHANGED <<state, env, verified, mixed>>

Record(s) ==
  /\ Turn(s, "record")
  /\ WriteState(IF script[s].phase = "deploy" THEN "ACTIVE" ELSE "ROLLED_BACK",
                script[s].image, script[s].prev)
  /\ Finish(s, "record")
  /\ UNCHANGED <<env, box, verified, mixed>>

HasTarget(s) == script[s].prev # None

\* deploy.sh after a failure: back to the captured image, if there is one and
\* it still holds the privacy floor ...
AutoRollback(s) ==
  /\ script[s].at = "failed" /\ script[s].phase = "deploy" /\ HasTarget(s)
  /\ script' = [script EXCEPT ![s].at = "captured", ![s].phase = "auto", ![s].image = script[s].prev]
  /\ UNCHANGED <<state, env, box, verified, mixed>>

\* ... and when that has failed as well, or rollback.sh has: by hand.
Critical(s) ==
  /\ script[s].at = "failed"
  /\ WriteState("CRITICAL", None, IF script[s].phase = "manual" THEN None ELSE script[s].prev)
  /\ Move(s, "over")
  /\ UNCHANGED <<env, box, verified, mixed>>

-----------------------------------------------------------------------------
Kill(s) ==
  /\ script[s].at \notin {"unused", "over", "aborted"}
  /\ Move(s, "over")
  /\ UNCHANGED <<state, env, box, verified, mixed>>

\* Docker brings back what it was told to.
Reboot ==
  /\ script' = [s \in Scripts |-> IF script[s].at \in {"unused", "aborted"} THEN script[s]
                                  ELSE [script[s] EXCEPT !.at = "over"]]
  /\ box' = [box EXCEPT !.running = (box.policy = "always")]
  /\ UNCHANGED <<state, env, verified, mixed>>

\* The process in it ends, and nothing starts it again.
AppDies ==
  /\ box.running /\ box.policy = "no"
  /\ box' = [box EXCEPT !.running = FALSE]
  /\ UNCHANGED <<state, env, script, verified, mixed>>

\* docker compose up -d by hand, which OPERATIONS.md allows between releases.
BareUp ==
  /\ state.status \in Settled /\ env # None
  /\ box' = [image |-> env, policy |-> "always", running |-> TRUE]
  /\ UNCHANGED <<state, env, script, verified, mixed>>

-----------------------------------------------------------------------------
\* A host that serves a verified release, or a new one.
Init ==
  /\ script = [s \in Scripts |-> Fresh] /\ mixed = FALSE
  /\ \/ \E i \in Images :
          /\ state = [status |-> "ACTIVE", active |-> i, rollback |-> None]
          /\ env = i /\ verified = {i}
          /\ box = [image |-> i, policy |-> "always", running |-> TRUE]
     \/ /\ state = [status |-> "none", active |-> None, rollback |-> None]
        /\ env = None /\ verified = {}
        /\ box = [image |-> None, policy |-> "no", running |-> FALSE]

ScriptStep(s) ==
  \/ \E i \in Images : StartDeploy(s, i)
  \/ \E tag \in Images \cup {state.rollback} : StartRollback(s, tag)
  \/ Capture(s) \/ Intend(s) \/ Up(s) \/ Ready(s) \/ Smoke(s)
  \/ SetEnv(s) \/ ArmRestart(s) \/ Record(s)
  \/ AutoRollback(s) \/ Critical(s) \/ Kill(s)

Next == (\E s \in Scripts : ScriptStep(s)) \/ Reboot \/ AppDies \/ BareUp

Spec == Init /\ [][Next]_vars

-----------------------------------------------------------------------------
\* Types; a script that acts has an image to act on.
TypeOK ==
  /\ state \in [status : Inflight \cup Settled, active : Images \cup {None}, rollback : Images \cup {None}]
  /\ env \in Images \cup {None}
  /\ box \in [image : Images \cup {None}, policy : {"always", "no"}, running : BOOLEAN]
  /\ script \in [Scripts -> [at : Stages, phase : {"deploy", "auto", "manual"}, image : Images \cup {None},
                             prev : Images \cup {None}, done : SUBSET Acts]]
  /\ \A s \in Scripts : Acting(s) => script[s].image # None
  /\ verified \subseteq Images /\ mixed \in BOOLEAN

\* Whatever Docker starts by itself after a crash or a reboot has passed the
\* smoke test, at whichever command a script was cut off.  Two scripts acting
\* at once are excepted: docker update then arms the container of the other.
BootServesVerified == mixed \/ (box.policy = "always" => box.image \in verified)

\* The tag in .env, which every docker compose up by hand starts, has passed
\* the smoke test: even when two scripts act at once.
EnvIsVerified == env \in verified \cup {None}

\* A settled status tells the truth: the image it names runs, is pinned, and
\* will be restarted, however the scripts before it ended.
StateTellsTruth ==
  ~mixed /\ state.status \in {"ACTIVE", "ROLLED_BACK"} =>
    box.image = state.active /\ env = state.active /\ box.policy = "always"

\* OPERATIONS.md of a transition cut off in ROLLING_BACK: rollback.sh "remains
\* the correct action"; "it re-derives its target fresh".  False of the code,
\* which records no target there; no run checks it.
RollbackResumes ==
  [][\A s \in Scripts : script[s].at = "unused" /\ script'[s].at = "aborted"
       => state.status # "ROLLING_BACK"]_vars
=============================================================================
