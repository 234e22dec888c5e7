-------------------------- MODULE CampaignWorkflow --------------------------
(***************************************************************************)
(* CampaignWorkflow, the workflow without stage gates: run makes the whole *)
(* campaign in one request, and its payload is approved (published and     *)
(* analysed) or rejected as one.  The command line starts such runs, replay*)
(* clones one from any run, and the endpoints /runs/{id}/approve and       *)
(* /runs/{id}/reject take any run.                                         *)
(*                                                                         *)
(* A clerk is a thread that serves one of these requests.  It keeps the    *)
(* record it has read, and _status writes all of it back.  Retries of a    *)
(* model call change no file: a call succeeds or has failed for good.      *)
(***************************************************************************)
EXTENDS RunFiles

CONSTANTS
  Clerks,         \* the threads that serve requests
  MaxRevision,    \* bound: no rejection makes a payload beyond this version
  Faults          \* which failures of approve the harness injects

VARIABLE task     \* the request each clerk serves

(* The artifacts of run, in the order they are made. *)
RunPlan == <<Research, Strategy, Creative, Advertisement, Compliance>>

TaskPCs == {"idle", "save", "produce", "load_payload", "decide",
            "check_approval", "check_key", "record_publication",
            "analytics", "optimization", "revise"}

Tasks == [pc : TaskPCs, after : TaskPCs, made : 0 .. Len(RunPlan),
          decision : {"approved", "rejected"}, payload : Nat,
          record : [status : RunStatuses, version : Versions]]

IdleTask == [pc |-> "idle", after |-> "idle", made |-> 0,
             decision |-> "approved", payload |-> 0, record |-> NoRecord]

At(c, pc) == task[c].pc = pc
AllIdle == \A c \in Clerks : At(c, "idle")

Become(c, t) == task' = [task EXCEPT ![c] = t]
Goto(c, pc) == Become(c, [task[c] EXCEPT !.pc = pc])
Return(c) == Become(c, IdleTask)

(* t with a new status of its record, which it is about to save. *)
Saving(t, status, after) ==
  [t EXCEPT !.pc = "save", !.after = after, !.record.status = status]

(* _status: the clerk's record replaces the one on file. *)
SaveStatus(c) ==
  /\ At(c, "save")
  /\ SaveRun(task[c].record)
  /\ IF task[c].after = "idle" THEN Return(c) ELSE Goto(c, task[c].after)
  /\ UNCHANGED <<latest, lastDecision, published, released>>

-----------------------------------------------------------------------------
(* run *)
NewRun(c) ==
  /\ At(c, "idle")
  /\ record = NoRecord
  /\ SaveRun([NewRecord EXCEPT !.status = "pending"])
  /\ Become(c, Saving([IdleTask EXCEPT !.record = NewRecord], "running", "produce"))
  /\ UNCHANGED <<latest, lastDecision, published, released>>

Making(c) == RunPlan[task[c].made + 1]

(* Every artifact but the compliance report leads on to the next one. *)
ArtifactMade(c) ==
  /\ At(c, "produce")
  /\ Making(c) # Compliance
  /\ AppendArtifact(Making(c), 1)
  /\ Become(c, [task[c] EXCEPT !.made = @ + 1])
  /\ UNCHANGED <<record, lastDecision, published, released>>

ComplianceReported(c, passed) ==
  /\ At(c, "produce")
  /\ Making(c) = Compliance
  /\ AppendArtifact(Compliance, 1)
  /\ Become(c, Saving(task[c], IF passed THEN "waiting_review" ELSE "revision_required", "idle"))
  /\ UNCHANGED <<record, lastDecision, published, released>>

(* Mutant: an exception of run is not caught. *)
RunEscapes(c, retryable) ==
  /\ At(c, "produce")
  /\ Return(c)
  /\ UNCHANGED fileVars

(* A failure that a retry might have cured is handed to a person. *)
RunFails(c, retryable) ==
  /\ At(c, "produce")
  /\ Become(c, Saving(task[c], IF retryable THEN "human_handoff" ELSE "failed", "idle"))
  /\ UNCHANGED fileVars

-----------------------------------------------------------------------------
(* approve_and_analyze and reject, up to the decision. *)
BeginDecision(c, decision) ==
  /\ At(c, "idle")
  /\ record # NoRecord
  /\ decision = "rejected" => latest[Advertisement] < MaxRevision
  /\ Become(c, [IdleTask EXCEPT !.pc = "load_payload", !.decision = decision,
                                !.record = record])
  /\ UNCHANGED fileVars

LoadPayload(c) ==
  LET t == task[c] IN
  /\ At(c, "load_payload")
  /\ IF latest[Advertisement] # 0
        /\ (t.decision = "approved" => latest[Advertisement] = t.record.version)
       THEN Become(c, [t EXCEPT !.pc = "decide", !.payload = latest[Advertisement]])
       ELSE Return(c)
  /\ UNCHANGED fileVars

DecideTask(c) ==
  LET t == task[c] IN
  /\ At(c, "decide")
  /\ Decide(t.payload, t.decision)
  /\ IF t.decision = "approved"
       THEN Become(c, Saving(t, "approved", "check_approval"))
       ELSE Goto(c, "revise")
  /\ UNCHANGED <<record, latest, published, released>>

-----------------------------------------------------------------------------
(* The rest of approve_and_analyze. *)
(* The last decision must be an approval of this payload, by its version    *)
(* and by the images it refers to.  Two requests may have made payloads of  *)
(* one version with different images, which are not told apart here: the    *)
(* check may refuse an approval of the right version.                       *)
CheckApproval(c) ==
  /\ At(c, "check_approval")
  /\ \/ /\ lastDecision = [decision |-> "approved", version |-> task[c].payload]
        /\ Goto(c, "check_key")
     \/ Return(c)
     \/ /\ "publish_timeout" \in Faults
        /\ Become(c, Saving(task[c], "human_handoff", "idle"))
  /\ UNCHANGED fileVars

CheckKey(c) ==
  /\ At(c, "check_key")
  /\ IF CanPublish THEN Goto(c, "record_publication") ELSE Return(c)
  /\ UNCHANGED fileVars

RecordPublication(c) ==
  /\ At(c, "record_publication")
  /\ Publish(task[c].payload)
  /\ Become(c, Saving(task[c], "published", "analytics"))
  /\ UNCHANGED <<record, latest, lastDecision>>

(* A failed model call ends the request and leaves the record behind. *)
Analyze(c) ==
  /\ At(c, "analytics")
  /\ \/ /\ AppendArtifact(Analytics, 1)
        /\ Become(c, Saving(task[c], "analyzed", "optimization"))
     \/ Return(c) /\ UNCHANGED latest
     \/ /\ "metrics_failure" \in Faults
        /\ Become(c, Saving(task[c], "human_handoff", "idle"))
        /\ UNCHANGED latest
  /\ UNCHANGED <<record, lastDecision, published, released>>

Optimize(c) ==
  /\ At(c, "optimization")
  /\ \/ /\ AppendArtifact(Optimization, 1)
        /\ Become(c, Saving(task[c], "optimized", "idle"))
     \/ Return(c) /\ UNCHANGED latest
  /\ UNCHANGED <<record, lastDecision, published, released>>

-----------------------------------------------------------------------------
(* The rest of reject: the payload is copied to its next version. *)
(* Mutant: the record is not told of the new version. *)
RevisedAlone(t) == Saving(t, "revision_required", "idle")

Revised(t) ==
  [Saving(t, "revision_required", "idle") EXCEPT !.record.version = t.payload + 1]

Revise(c) ==
  /\ At(c, "revise")
  /\ AppendArtifact(Advertisement, task[c].payload + 1)
  /\ Become(c, Revised(task[c]))
  /\ UNCHANGED <<record, lastDecision, published, released>>

-----------------------------------------------------------------------------
(* An access to a file raises and the request ends, except in what run      *)
(* tries (RunFails): when it cannot save how it ended, it saves that it     *)
(* failed.  A handoff is saved inside and outside of what it tries.         *)
OfRun(t) == t.pc = "save" /\ t.payload = 0

AccessRaises(c) ==
  LET t == task[c] IN
  /\ ~At(c, "idle") /\ ~At(c, "produce")
  /\ \/ /\ ~(OfRun(t) /\ t.record.status \in {"waiting_review", "revision_required"})
        /\ Return(c)
     \/ /\ OfRun(t)
        /\ t.record.status \in {"waiting_review", "revision_required", "human_handoff"}
        /\ Become(c, Saving(t, "failed", "idle"))
  /\ UNCHANGED fileVars

-----------------------------------------------------------------------------
Init == task = [c \in Clerks |-> IdleTask]

Admit(c) == NewRun(c) \/ \E decision \in {"approved", "rejected"} : BeginDecision(c, decision)

Serve(c) ==
  \/ SaveStatus(c) \/ ArtifactMade(c)
  \/ \E passed \in BOOLEAN : ComplianceReported(c, passed)
  \/ \E retryable \in BOOLEAN : RunFails(c, retryable)
  \/ LoadPayload(c) \/ DecideTask(c) \/ CheckApproval(c) \/ CheckKey(c)
  \/ RecordPublication(c) \/ Analyze(c) \/ Optimize(c) \/ Revise(c)

ForgetTasks == task' = [c \in Clerks |-> IdleTask]

TasksTypeOK == task \in [Clerks -> Tasks]
=============================================================================
