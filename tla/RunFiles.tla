------------------------------ MODULE RunFiles ------------------------------
(***************************************************************************)
(* What the service keeps about one run outside the stage gates: the run   *)
(* record (run.json), the artifact stream (artifacts.jsonl), the decision  *)
(* stream of the publisher (approvals.jsonl) and the publisher's           *)
(* idempotency table, which lives in the memory of the process.            *)
(*                                                                         *)
(* Only what the workflows branch on is kept: of the artifact stream the   *)
(* version of the newest artifact of each kind, of the decision stream its *)
(* last entry, of the record its status and current_artifact_version.      *)
(***************************************************************************)
EXTENDS Naturals, Sequences

(* The stages of STAGE_DEFINITIONS, named by their sequence number. *)
Input == 0
Research == 1
Strategy == 2
Creative == 3
Compliance == 4
Advertisement == 5
PublishReview == 6
Analytics == 7
Optimization == 8

Stages == Input .. Optimization

(* Every other stage writes exactly one kind of artifact (STAGE_ARTIFACTS), *)
(* so an artifact kind is named here by the stage that produces it.         *)
Producing == Stages \ {Input, PublishReview}

Versions == Nat \ {0}

RunStatuses == {"absent", "pending", "running", "waiting_review", "revision_required",
                "failed", "human_handoff", "approved", "published", "analyzed",
                "optimized"}

NoRecord == [status |-> "absent", version |-> 1]
NewRecord == [status |-> "running", version |-> 1]

NoDecision == [decision |-> "none", version |-> 1]

VARIABLES
  record,        \* run.json; NoRecord while the file does not exist
  latest,        \* version of the newest artifact of each kind, 0 if none
  lastDecision,  \* last line of approvals.jsonl
  published,     \* the publisher's entry for this run: a version, 0 if none
  released       \* history: every version the publisher ever accepted

fileVars == <<record, latest, lastDecision, published, released>>

FilesInit ==
  /\ record = NoRecord
  /\ latest = [k \in Producing |-> 0]
  /\ lastDecision = NoDecision
  /\ published = 0
  /\ released = <<>>

FilesTypeOK ==
  /\ record \in [status : RunStatuses, version : Versions]
  /\ latest \in [Producing -> Nat]
  /\ lastDecision \in [decision : {"none", "approved", "rejected"},
                       version : Versions]
  /\ published \in Nat
  /\ released \in Seq(Nat)

(* RunStore.save_run replaces the whole record. *)
SaveRun(r) == record' = r

(* RunStore.artifact appends; readers take the newest of a kind. *)
AppendArtifact(kind, version) == latest' = [latest EXCEPT ![kind] = version]

(* ApprovalService.decide appends one event bound to the payload's version. *)
Decide(version, decision) ==
  lastDecision' = [decision |-> decision, version |-> version]

(* MockPublishTool.publish keeps one result per idempotency key, and the    *)
(* key is the run id: a second call for the run raises.  The look-up and    *)
(* the assignment are two steps of an unlocked dictionary.                  *)
(* Mutant: the key is not looked up. *)
CanPublishAgain == TRUE

CanPublish == published = 0
Publish(version) ==
  /\ published' = version
  /\ released' = Append(released, version)

(* The table of accepted keys is lost with the process. *)
ForgetPublished == published' = 0

=============================================================================
