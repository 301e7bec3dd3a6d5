------------------------------- MODULE MCCore -------------------------------
(***************************************************************************)
(* Three parts built on packages/core that share no state: the validator   *)
(* behind the analyze route, the mirror with its crosscheck, and the       *)
(* Migration tab.  A behaviour is one of one part, chosen in Init; the     *)
(* others keep their variables idle, and their properties hold of idle     *)
(* variables by their guard.                                               *)
(***************************************************************************)
EXTENDS Naturals, Sequences

CONSTANTS
  Jobs, MayFind, MayThrow,              \* Validator
  Requests, Responses,                  \* Mirror
  DefaultIds, MaxMirrors,
  Texts, Contexts, Impressions          \* Migration

VARIABLES
  part,
  job, side, queue, raw, failed, spent, emitted, sides, report,
  req, res, newest, presses,
  text, drawn, choice, undo, outcome, button

validator == <<job, side, queue, raw, failed, spent, emitted, sides, report>>
mirror == <<req, res, newest, presses>>
migration == <<text, drawn, choice, undo, outcome, button>>

V == INSTANCE MCValidator
M == INSTANCE MCMirror
T == INSTANCE MCMigration

\* The inputs a configuration names; none of them depends on the constant it becomes.
VInputs == INSTANCE MCValidator WITH Jobs <- {}
MInputs == INSTANCE MCMirror WITH Requests <- {}, Responses <- {}, DefaultIds <- <<>>
TInputs == INSTANCE MCMigration WITH Texts <- {}

AllJobs == VInputs!AllJobs
AllRequests == MInputs!AllRequests
AllResponses == MInputs!AllResponses
GivenIds == MInputs!GivenIds
AllTexts == TInputs!AllTexts

\* A job carries two panes in shapes the detectors tell apart.
ASSUME JobsAssumption == \A j \in Jobs : j.request \in V!Shapes /\ j.response \in V!Shapes

\* The ids the generator gives are no number, and there is one for each place.
ASSUME DefaultIdsAssumption ==
  /\ DefaultIds \in Seq(STRING) /\ DefaultIds # <<>>
  /\ \A i \in DOMAIN DefaultIds : DefaultIds[i] \notin {"missing", "1", "1#"}

ASSUME DocumentsAssumption ==
  (\A r \in Requests : M!IsRequest(r)) /\ (\A s \in Responses : M!IsResponse(s))

Idle == "idle"

ValidatorIdle ==
  /\ job = Idle /\ side = Idle /\ queue = Idle /\ raw = Idle /\ failed = Idle
  /\ spent = Idle /\ emitted = Idle /\ sides = Idle /\ report = Idle

MirrorIdle == req = Idle /\ res = Idle /\ newest = Idle /\ presses = Idle

MigrationIdle ==
  /\ text = Idle /\ drawn = Idle /\ choice = Idle
  /\ undo = Idle /\ outcome = Idle /\ button = Idle

CoreInit ==
  \/ part = "validator" /\ V!Init /\ MirrorIdle /\ MigrationIdle
  \/ part = "mirror" /\ M!Init /\ ValidatorIdle /\ MigrationIdle
  \/ part = "migration" /\ T!Init /\ ValidatorIdle /\ MirrorIdle

Validates == part = "validator" /\ V!Next /\ UNCHANGED <<part, mirror, migration>>
Mirrors == part = "mirror" /\ M!Next /\ UNCHANGED <<part, validator, migration>>
Migrates == part = "migration" /\ T!Next /\ UNCHANGED <<part, validator, mirror>>

CoreNext == Validates \/ Mirrors \/ Migrates

CoreSpec == CoreInit /\ [][CoreNext]_<<part, validator, mirror, migration>>

-----------------------------------------------------------------------------
(* The properties of the parts, each in its part.                          *)

\* Validator: no error gets lost between the rule and the answer, an analysis in which
\* a rule family threw is never called clean, and the detector and the auction view's
\* copy of it agree.
ValidatorIsSound ==
  part = "validator" =>
    V!ErrorsAreSaid /\ V!CleanIsComplete /\ V!ReportIsCanonical /\ V!DetectorsAgree

\* Mirror: what the generator writes, it accepts itself, and a mirrored bid clears its
\* floor.
MirrorIsSound == part = "mirror" => M!GeneratorIsClean /\ M!BidsClear

\* Migration tab: Apply loses no value and overwrites none.
NothingLost == T!NothingLost
=============================================================================
