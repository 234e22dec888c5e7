--------------------------- MODULE StagedWorkflow ---------------------------
(***************************************************************************)
(* The stage gates of one run: StagedCampaignWorkflow (start, execute,     *)
(* approve, reject) over StageStore's two files.                           *)
(*                                                                         *)
(* The API handlers are synchronous functions, so each request runs in a   *)
(* thread of its own and nothing locks the files: a request is a sequence  *)
(* of steps, one for each access to a file or to the publisher, and keeps  *)
(* the copies it has read in between.  A step is named by the program      *)
(* counter it leaves.  A request whose guard fails, or that raises, ends   *)
(* and leaves the files as they are at that moment.                        *)
(*                                                                         *)
(* Any access may raise, and one kind of access does so by itself: all     *)
(* saves of a file go through one temporary file (FileStore), so that of   *)
(* two that meet there one finds nothing left to rename.                   *)
(***************************************************************************)
EXTENDS RunFiles

CONSTANTS
  Workers,      \* the threads that serve requests
  MaxOverlaps,  \* bound: how many requests may arrive while another is served;
                \* 0 says that clients wait for each answer
  MaxVersion,   \* bound: no rejection pushes a version beyond it
  MaxInterruptions  \* bound: how often the process dies or an access to a
                    \* file raises

ASSUME BoundsAssumption ==
  /\ MaxOverlaps \in Nat
  /\ MaxVersion \in Nat \ {0}
  /\ MaxInterruptions \in Nat

VARIABLES
  gates,    \* stages.json
  gateLog,  \* stage-approvals.json, as the set of its entries
  logTorn,  \* TRUE while that file is not valid JSON
  req,      \* the request each worker serves
  overlaps, \* requests that arrived while another one was being served
  crashes,
  failures  \* requests that ended because an access to a file raised

gateVars == <<gates, gateLog, logTorn>>
counters == <<overlaps, crashes, failures>>
vars == <<fileVars, gateVars, req, counters>>

-----------------------------------------------------------------------------
(* REJECTED and SKIPPED exist in StageStatus, but nothing assigns them. *)
Statuses == {"locked", "ready", "running", "pending_review", "approved",
             "revision_required", "failed"}

Gates == [Stages -> [status : Statuses, version : Versions]]

Verdicts == [stage : Stages, version : Versions,
             decision : {"approved", "rejected"}]

(* No stages.json: no stage can be reviewed, as if all of them were locked. *)
NoGates == [s \in Stages |-> [status |-> "locked", version |-> 1]]

(* initial_stages, with the research stage made ready by start. *)
InitialGates ==
  [s \in Stages |-> [status |-> IF s = Input THEN "approved"
                                ELSE IF s = Research THEN "ready"
                                ELSE "locked",
                     version |-> 1]]

PCs == {"idle", "create_gates",
        "read_log", "truncate_log", "write_log", "save_rejection",
        "load_payload", "decide", "publish", "record_publication", "unlock",
        "open_publish_review",
        "load_final_record", "save_final_record", "save_final_gates",
        "load_gates", "save_running", "load_record", "save_record",
        "payload", "save_outcome_gates", "save_outcome_record"}

Requests == [pc : PCs, stage : Stages, decision : {"approved", "rejected"},
             gates : Gates, log : SUBSET Verdicts, payload : Nat,
             record : [status : RunStatuses, version : Versions]]

IdleRequest == [pc |-> "idle", stage |-> Research, decision |-> "approved",
                gates |-> NoGates, log |-> {}, payload |-> 0,
                record |-> NoRecord]

At(w, pc) == req[w].pc = pc

(* Worker w goes on with its locals changed to r. *)
Become(w, r) == req' = [req EXCEPT ![w] = r]
Goto(w, pc) == Become(w, [req[w] EXCEPT !.pc = pc])
Return(w) == Become(w, IdleRequest)

AllIdle == \A w \in Workers : At(w, "idle")

Arrive(w) ==
  /\ At(w, "idle")
  /\ IF AllIdle THEN UNCHANGED overlaps
                ELSE overlaps < MaxOverlaps /\ overlaps' = overlaps + 1

SetStatus(g, s, status) == [g EXCEPT ![s].status = status]

-----------------------------------------------------------------------------
(* start: the record, then the gates, then research is executed. *)
StartRun(w) ==
  /\ Arrive(w)
  /\ record = NoRecord
  /\ SaveRun(NewRecord)
  /\ Become(w, [IdleRequest EXCEPT !.pc = "create_gates"])
  /\ UNCHANGED <<latest, lastDecision, published, released, gateVars, crashes, failures>>

CreateGates(w) ==
  /\ At(w, "create_gates")
  /\ gates' = InitialGates
  /\ Become(w, [IdleRequest EXCEPT !.pc = "load_gates", !.stage = Research])
  /\ UNCHANGED <<fileVars, gateLog, logTorn, counters>>

-----------------------------------------------------------------------------
(* approve and reject up to the point where their verdict is on file. *)
(* Mutant: reject does not look at the status of the gate. *)
ReviewableAnyhow(decision) ==
  IF decision = "approved" THEN {"pending_review"}
                           ELSE {"pending_review", "revision_required", "approved"}

Reviewable(decision) ==
  IF decision = "approved" THEN {"pending_review"}
                           ELSE {"pending_review", "revision_required"}

(* The stage list is read, and the guard looks at that copy from here on. *)
BeginReview(w, s, decision) ==
  /\ Arrive(w)
  /\ gates[s].status \in Reviewable(decision)
  /\ decision = "rejected" => \A t \in s .. Optimization : gates[t].version < MaxVersion
  /\ Become(w, [IdleRequest EXCEPT !.pc = "read_log", !.stage = s,
                                   !.decision = decision, !.gates = gates])
  /\ UNCHANGED <<fileVars, gateVars, crashes, failures>>

(* Mutant: the log is started afresh for each verdict. *)
ReadLogAfresh(w) ==
  /\ At(w, "read_log")
  /\ Goto(w, "truncate_log")
  /\ UNCHANGED <<fileVars, gateVars, counters>>

ReadLog(w) ==
  /\ At(w, "read_log")
  /\ IF logTorn
       THEN Return(w)
       ELSE Become(w, [req[w] EXCEPT !.pc = "truncate_log", !.log = gateLog])
  /\ UNCHANGED <<fileVars, gateVars, counters>>

(* save_approvals is a plain write_text: opening the file empties it. *)
TruncateLog(w) ==
  /\ At(w, "truncate_log")
  /\ gateLog' = {}
  /\ logTorn' = TRUE
  /\ Goto(w, "write_log")
  /\ UNCHANGED <<fileVars, gates, counters>>

(* A new version of stage s and of everything downstream. *)
SendBack(g, s, status) ==
  [t \in Stages |->
     IF t < s THEN g[t]
     ELSE [status |-> IF t = s THEN status ELSE "locked", version |-> g[t].version + 1]]

(* Mutants: a rejection that asks for review again without new work, and    *)
(* one that forgets the stages downstream.                                  *)
DecidedForReview(g, s, decision) ==
  IF decision = "approved" THEN SetStatus(g, s, "approved")
                           ELSE SendBack(g, s, "pending_review")

DecidedAlone(g, s, decision) ==
  IF decision = "approved" THEN SetStatus(g, s, "approved")
                           ELSE [g EXCEPT ![s] = SendBack(g, s, "revision_required")[s]]

(* What the decision makes of the request's copy of the gates. *)
Decided(g, s, decision) ==
  IF decision = "approved" THEN SetStatus(g, s, "approved")
                           ELSE SendBack(g, s, "revision_required")

(* Mutants: the payload goes out with the approval of the stage that made  *)
(* it; it never goes out.                                                   *)
AfterVerdictHasty(s, decision) ==
  IF decision = "rejected" THEN "save_rejection"
  ELSE IF s = Advertisement THEN "load_payload"
  ELSE IF s = Optimization THEN "load_final_record"
  ELSE "unlock"

AfterVerdictUnpublished(s, decision) ==
  IF decision = "rejected" THEN "save_rejection"
  ELSE IF s = Optimization THEN "load_final_record"
  ELSE "unlock"

AfterVerdict(s, decision) ==
  IF decision = "rejected" THEN "save_rejection"
  ELSE IF s = PublishReview THEN "load_payload"
  ELSE IF s = Optimization THEN "load_final_record"
  ELSE "unlock"

(* If another writer filled the file after this one emptied it, the text   *)
(* written over it may be shorter and leave the other's tail behind.       *)
WriteLog(w) ==
  LET r == req[w]
      verdict == [stage |-> r.stage, version |-> r.gates[r.stage].version,
                  decision |-> r.decision]
  IN  /\ At(w, "write_log")
      /\ \/ /\ logTorn' = FALSE
            /\ gateLog' = r.log \union {verdict}
         \/ /\ ~logTorn
            /\ logTorn' = TRUE
            /\ gateLog' = {}
      /\ Become(w, [r EXCEPT !.pc = AfterVerdict(r.stage, r.decision),
                             !.gates = Decided(r.gates, r.stage, r.decision),
                             !.log = {}])
      /\ UNCHANGED <<fileVars, gates, counters>>

(* The rest of reject: the run record is left as it is. *)
SaveRejection(w) ==
  /\ At(w, "save_rejection")
  /\ gates' = req[w].gates
  /\ Return(w)
  /\ UNCHANGED <<fileVars, gateLog, logTorn, counters>>

-----------------------------------------------------------------------------
(* approve of publish_review: the newest payload is decided and published. *)
LoadPayload(w) ==
  /\ At(w, "load_payload")
  /\ IF latest[Advertisement] = 0
       THEN Return(w)
       ELSE Become(w, [req[w] EXCEPT !.pc = "decide", !.payload = latest[Advertisement]])
  /\ UNCHANGED <<fileVars, gateVars, counters>>

(* Mutant: the decision names the version of the gate. *)
DecideGateVersion(w) ==
  /\ At(w, "decide")
  /\ Decide(req[w].gates[PublishReview].version, "approved")
  /\ Goto(w, "publish")
  /\ UNCHANGED <<record, latest, published, released, gateVars, counters>>

DecidePayload(w) ==
  /\ At(w, "decide")
  /\ Decide(req[w].payload, "approved")
  /\ Goto(w, "publish")
  /\ UNCHANGED <<record, latest, published, released, gateVars, counters>>

CheckPublication(w) ==
  /\ At(w, "publish")
  /\ IF CanPublish THEN Goto(w, "record_publication") ELSE Return(w)
  /\ UNCHANGED <<fileVars, gateVars, counters>>

RecordPublication(w) ==
  /\ At(w, "record_publication")
  /\ Publish(req[w].payload)
  /\ Goto(w, "unlock")
  /\ UNCHANGED <<record, latest, lastDecision, gateVars, counters>>

-----------------------------------------------------------------------------
(* The rest of approve.  The next gate is opened; publish_review, which has *)
(* nothing to execute, goes straight to review with a second save.          *)
Unlock(w) ==
  LET r == req[w]
      next == r.stage + 1
      opened == SetStatus(r.gates, next, "ready")
  IN  /\ At(w, "unlock")
      /\ gates' = opened
      /\ IF next = PublishReview
           THEN Become(w, [r EXCEPT !.pc = "open_publish_review", !.gates = opened])
           ELSE Become(w, [IdleRequest EXCEPT !.pc = "load_gates", !.stage = next])
      /\ UNCHANGED <<fileVars, gateLog, logTorn, counters>>

OpenPublishReview(w) ==
  /\ At(w, "open_publish_review")
  /\ gates' = SetStatus(req[w].gates, PublishReview, "pending_review")
  /\ Return(w)
  /\ UNCHANGED <<fileVars, gateLog, logTorn, counters>>

LoadFinalRecord(w) ==
  /\ At(w, "load_final_record")
  /\ Become(w, [req[w] EXCEPT !.pc = "save_final_record", !.record = record])
  /\ UNCHANGED <<fileVars, gateVars, counters>>

SaveFinalRecord(w) ==
  /\ At(w, "save_final_record")
  /\ SaveRun([req[w].record EXCEPT !.status = "optimized"])
  /\ Goto(w, "save_final_gates")
  /\ UNCHANGED <<latest, lastDecision, published, released, gateVars, counters>>

SaveFinalGates(w) ==
  /\ At(w, "save_final_gates")
  /\ gates' = req[w].gates
  /\ Return(w)
  /\ UNCHANGED <<fileVars, gateLog, logTorn, counters>>

-----------------------------------------------------------------------------
(* execute: the copies of the gates and of the record it makes before the   *)
(* payload runs are what it writes back afterwards.                         *)
(* Mutant: execute takes whatever gate it is given. *)
ExecutableAnyhow == {"ready", "revision_required", "failed", "locked"}

Executable == {"ready", "revision_required", "failed"}

LoadGates(w) ==
  /\ At(w, "load_gates")
  /\ LET s == req[w].stage IN
     IF gates[s].status \in Executable
       THEN Become(w, [req[w] EXCEPT !.pc = "save_running",
                                     !.gates = SetStatus(gates, s, "running")])
       ELSE Return(w)
  /\ UNCHANGED <<fileVars, gateVars, counters>>

SaveRunning(w) ==
  /\ At(w, "save_running")
  /\ gates' = req[w].gates
  /\ Goto(w, "load_record")
  /\ UNCHANGED <<fileVars, gateLog, logTorn, counters>>

LoadRecord(w) ==
  /\ At(w, "load_record")
  /\ Become(w, [req[w] EXCEPT !.pc = "save_record",
                              !.record = [record EXCEPT !.status = "running"]])
  /\ UNCHANGED <<fileVars, gateVars, counters>>

SaveRecord(w) ==
  /\ At(w, "save_record")
  /\ SaveRun(req[w].record)
  /\ Goto(w, "payload")
  /\ UNCHANGED <<latest, lastDecision, published, released, gateVars, counters>>

(* The newest artifact that the work of a stage starts from. *)
Upstream == {<<Strategy, Research>>, <<Creative, Strategy>>,
             <<Compliance, Creative>>, <<Advertisement, Creative>>,
             <<Optimization, Analytics>>}

UpstreamExists(s) == \A e \in Upstream : e[1] = s => latest[e[2]] # 0

(* Mutants: a failure goes to review all the same; the run record is written *)
(* back as it was before the work.                                          *)
OutcomeReviewed(r, gateStatus, runStatus) ==
  [r EXCEPT !.pc = "save_outcome_gates",
            !.gates = SetStatus(r.gates, r.stage, "pending_review"),
            !.record.status = runStatus]

OutcomeUnrecorded(r, gateStatus, runStatus) ==
  [r EXCEPT !.pc = "save_outcome_gates",
            !.gates = SetStatus(r.gates, r.stage, gateStatus)]

Outcome(r, gateStatus, runStatus) ==
  [r EXCEPT !.pc = "save_outcome_gates",
            !.gates = SetStatus(r.gates, r.stage, gateStatus),
            !.record.status = runStatus]

PayloadSucceeds(w) ==
  LET r == req[w] IN
  /\ At(w, "payload")
  /\ UpstreamExists(r.stage)
  /\ AppendArtifact(r.stage, r.gates[r.stage].version)
  /\ Become(w, Outcome(r, "pending_review", "waiting_review"))
  /\ UNCHANGED <<record, lastDecision, published, released, gateVars, counters>>

(* Mutant: an exception of the payload is not caught. *)
PayloadEscapes(w) ==
  /\ At(w, "payload")
  /\ Return(w)
  /\ UNCHANGED <<fileVars, gateVars, counters>>

(* It may fail after its artifact was written, too: the report of research   *)
(* and advertisement cannot be exported, the compliance report says no, or   *)
(* the event of the success cannot be written.                               *)
PayloadFails(w) ==
  LET r == req[w] IN
  /\ At(w, "payload")
  /\ \/ UNCHANGED latest
     \/ /\ UpstreamExists(r.stage)
        /\ AppendArtifact(r.stage, r.gates[r.stage].version)
  /\ Become(w, Outcome(r, "failed", "failed"))
  /\ UNCHANGED <<record, lastDecision, published, released, gateVars, counters>>

SaveOutcomeGates(w) ==
  /\ At(w, "save_outcome_gates")
  /\ gates' = req[w].gates
  /\ Goto(w, "save_outcome_record")
  /\ UNCHANGED <<fileVars, gateLog, logTorn, counters>>

SaveOutcomeRecord(w) ==
  /\ At(w, "save_outcome_record")
  /\ SaveRun(req[w].record)
  /\ Return(w)
  /\ UNCHANGED <<latest, lastDecision, published, released, gateVars, counters>>

-----------------------------------------------------------------------------
MayInterrupt == crashes + failures < MaxInterruptions

(* The process dies and comes up again: requests and the publisher's table  *)
(* are gone, the files are what they were.                                  *)
Crash ==
  /\ MayInterrupt
  /\ crashes' = crashes + 1
  /\ req' = [w \in Workers |-> IdleRequest]
  /\ ForgetPublished
  /\ UNCHANGED <<record, latest, lastDecision, released, gateVars, overlaps, failures>>

CountFailure ==
  /\ MayInterrupt
  /\ failures' = failures + 1

(* An access to a file raises: the request ends there, the process goes on.  *)
(* A save that raises may have put its text in place, which is the save and  *)
(* then this.  Only what the payload of a stage raises is caught.            *)
AccessRaises(w) ==
  /\ ~At(w, "idle")
  /\ CountFailure
  /\ Return(w)
  /\ UNCHANGED <<fileVars, gateVars, overlaps, crashes>>

-----------------------------------------------------------------------------
Init ==
  /\ FilesInit
  /\ gates = NoGates
  /\ gateLog = {}
  /\ logTorn = FALSE
  /\ req = [w \in Workers |-> IdleRequest]
  /\ overlaps = 0
  /\ crashes = 0
  /\ failures = 0

Admit(w) ==
  \/ StartRun(w)
  \/ \E s \in Stages, d \in {"approved", "rejected"} : BeginReview(w, s, d)

Review(w) ==
  \/ ReadLog(w) \/ TruncateLog(w) \/ WriteLog(w) \/ SaveRejection(w)
  \/ LoadPayload(w) \/ DecidePayload(w) \/ CheckPublication(w) \/ RecordPublication(w)
  \/ Unlock(w) \/ OpenPublishReview(w)
  \/ LoadFinalRecord(w) \/ SaveFinalRecord(w) \/ SaveFinalGates(w)

Execute(w) ==
  \/ LoadGates(w) \/ SaveRunning(w) \/ LoadRecord(w) \/ SaveRecord(w)
  \/ PayloadSucceeds(w) \/ PayloadFails(w)
  \/ SaveOutcomeGates(w) \/ SaveOutcomeRecord(w)

(* What a worker does once it has a request. *)
Serve(w) == CreateGates(w) \/ Review(w) \/ Execute(w)

Next ==
  \/ \E w \in Workers : Admit(w) \/ Serve(w) \/ AccessRaises(w)
  \/ Crash

Spec == Init /\ [][Next]_vars

(* A thread that has a request keeps running; nobody has to send requests,  *)
(* and no access has to raise.                                              *)
FairSpec == Spec /\ \A w \in Workers : WF_vars(Serve(w))

-----------------------------------------------------------------------------
TypeOK ==
  /\ FilesTypeOK
  /\ gates \in Gates
  /\ gateLog \in SUBSET Verdicts
  /\ logTorn \in BOOLEAN
  /\ req \in [Workers -> Requests]
  /\ overlaps \in Nat
  /\ crashes \in Nat
  /\ failures \in Nat

-----------------------------------------------------------------------------
(* Properties of every interleaving of requests and crashes.                *)

Ordered(g) ==
  \A s, t \in Stages : s < t /\ g[t].status # "locked" => g[s].status = "approved"

(* The stage file never shows a gate open while an earlier one is not       *)
(* approved, whatever stale copies concurrent requests write back.          *)
GateOrder == Ordered(gates)

(* A gate that is up for review, was approved, or was sent back for         *)
(* revision has an artifact of its kind behind it, so that approving        *)
(* publish_review never finds the payload missing.                          *)
WorkBehindReview ==
  \A s \in Producing :
    gates[s].status \in {"pending_review", "approved", "revision_required"}
      => latest[s] # 0

(* A gate that was opened for work does not stay there: no interleaving of  *)
(* requests leaves a stage ready or running for ever, except that the       *)
(* process dies or an access to a file raises, as it may when two saves     *)
(* meet: nothing takes up the work of a request that ended so.              *)
OpenedGateSettles ==
  \A s \in Stages :
    gates[s].status \in {"ready", "running"}
      ~> crashes + failures > 0 \/ gates[s].status \notin {"ready", "running"}

-----------------------------------------------------------------------------
(* What reviewers are promised.                                             *)

PhaseOf(status) ==
  CASE status = "locked" -> "closed"
    [] status \in {"ready", "running"} -> "open"
    [] status = "pending_review" -> "review"
    [] status = "approved" -> "passed"
    [] status = "revision_required" -> "returned"
    [] status = "failed" -> "failed"

Promise == INSTANCE StageGates WITH
  StageCount <- Optimization, Delivery <- Advertisement, Desk <- PublishReview,
  phase <- [s \in 1 .. Optimization |-> PhaseOf(gates[s].status)],
  edition <- [s \in 1 .. Optimization |-> gates[s].version],
  released <- released

(* So far every client waited for the answer to its request. *)
ClientsWait == overlaps = 0

(* As long as clients wait for each answer, the files implement the gates   *)
(* as their reviewers understand them: every step of a thread or a crash is *)
(* one of StageGates or leaves its picture of the run alone.                *)
ImplementsStageGates ==
  Promise!Init /\ [][ClientsWait' => [Promise!Next]_(Promise!gateVars)]_vars

(* Requests ran into each other once at most. *)
OneOverlap == overlaps <= 1

(* What was published stays the version of the advertisement that was       *)
(* approved: no later rejection replaces it, not even after a restart or    *)
(* with the list of one request that overlapped.                            *)
ReleasesAreFinal == OneOverlap => Promise!ReleasesAreFinal

Verdict(s, decision) ==
  [stage |-> s, version |-> gates[s].version, decision |-> decision]

(* As long as clients wait, an approved gate has its approval on file, for  *)
(* the version it is at, unless a request was cut short while it wrote that *)
(* file.                                                                    *)
ApprovalOnFile ==
  ClientsWait /\ ~logTorn =>
    \A s \in Stages \ {Input} :
      gates[s].status = "approved" => Verdict(s, "approved") \in gateLog

(* What a reviewer sees is what was made at the version under review: the   *)
(* newest artifact of the stage carries the version of its gate, also with  *)
(* the list of one request that overlapped.                                 *)
ReviewedVersionIsNewest ==
  OneOverlap => \A s \in Producing :
    gates[s].status \in {"pending_review", "approved"} => latest[s] = gates[s].version

(* As long as clients wait, whatever is published went through every gate   *)
(* before publish_review, at the very version that was approved as          *)
(* advertisement, and the approval of publish_review is already on file.    *)
PublishedBehindGates ==
  [][ClientsWait /\ released' # released =>
       /\ \A s \in Stages : s < PublishReview => gates[s].status = "approved"
       /\ gates[Advertisement].version = released'[Len(released')]
       /\ Verdict(PublishReview, "approved") \in gateLog]_vars

(* One process publishes the run once; only a restart can publish it again. *)
OneReleasePerProcess == Len(released) <= crashes + 1

(* No request was cut short, by the end of its process or by a file. *)
NothingCutShort == crashes = 0 /\ failures = 0

(* As long as clients wait and no request was cut short, the status of the  *)
(* run record says between requests where the gates are.                    *)
RecordAgreesWithGates ==
  ClientsWait /\ AllIdle /\ NothingCutShort =>
    /\ record.status = "optimized" <=> \A s \in Stages : gates[s].status = "approved"
    /\ record.status = "failed" <=> \E s \in Stages : gates[s].status = "failed"
    /\ record.status = "waiting_review" <=>
         \E s \in Stages : gates[s].status \in {"pending_review", "revision_required"}
    /\ record.status # "running"

(* As long as clients wait and no request was cut short, no version of a    *)
(* stage is both approved and rejected.                                     *)
VerdictsAreFinal ==
  ClientsWait /\ NothingCutShort => \A a, b \in gateLog :
    a.stage = b.stage /\ a.version = b.version => a.decision = b.decision
=============================================================================
