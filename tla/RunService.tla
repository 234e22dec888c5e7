----------------------------- MODULE RunService -----------------------------
(***************************************************************************)
(* Everything the service offers on one run: the stage endpoints           *)
(* (StagedWorkflow) and the endpoints of the workflow without stages       *)
(* (CampaignWorkflow), which share the run's files, the publisher and the  *)
(* process, and know nothing of each other.                                *)
(*                                                                         *)
(* A process whose configuration is not accepted comes up without runtime: *)
(* it refuses every request that works on a run, and its pages of a run    *)
(* make up the gates from what the record says (sync_legacy_stages).       *)
(***************************************************************************)
EXTENDS StagedWorkflow

CONSTANTS
  Clerks,    \* the threads that serve the endpoints without stages
  Faults,    \* failures the harness injects into them
  MaxMixed   \* bound: how many requests may arrive while another one is
             \* being served, beyond the overlaps of stage requests

ASSUME MixedAssumption ==
  /\ MaxMixed \in Nat
  /\ Faults \subseteq {"publish_timeout", "metrics_failure"}

VARIABLES
  task,      \* the request each clerk serves
  mixed,     \* requests that arrived so
  runtime,   \* the process has its workflows
  page,      \* the request for a page of the run, while there is no runtime
  outages

serviceVars == <<vars, task, mixed, runtime, page, outages>>
processVars == <<runtime, page, outages>>

Campaign == INSTANCE CampaignWorkflow WITH MaxRevision <- MaxVersion

Mixes(othersAreIdle) ==
  IF othersAreIdle THEN UNCHANGED mixed
                 ELSE mixed < MaxMixed /\ mixed' = mixed + 1

StageRequest(w) ==
  /\ \/ runtime /\ Admit(w) /\ Mixes(Campaign!AllIdle)
     \/ (Serve(w) \/ AccessRaises(w)) /\ UNCHANGED mixed
  /\ UNCHANGED <<task, processVars>>

CampaignRequest(c) ==
  /\ \/ /\ runtime /\ Campaign!Admit(c) /\ Mixes(AllIdle /\ Campaign!AllIdle)
        /\ UNCHANGED failures
     \/ Campaign!Serve(c) /\ UNCHANGED <<mixed, failures>>
     \/ Campaign!AccessRaises(c) /\ CountFailure /\ UNCHANGED mixed
  /\ UNCHANGED <<gateVars, req, overlaps, crashes, processVars>>

(* Bound: interruptions and outages together. *)
MayEnd == crashes + outages + failures < MaxInterruptions

Restart ==
  /\ MayEnd
  /\ Crash /\ Campaign!ForgetTasks
  /\ UNCHANGED <<mixed, processVars>>

-----------------------------------------------------------------------------
(* The process is ended between requests and started with a configuration   *)
(* that is not accepted, then with one that is.                             *)
NoPage == [pc |-> "none", status |-> "absent", gates |-> NoGates]
Pages == [pc : {"none", "ensure", "sync", "save"}, status : RunStatuses, gates : Gates]

Outage ==
  /\ runtime /\ AllIdle /\ Campaign!AllIdle
  /\ MayEnd
  /\ runtime' = FALSE /\ outages' = outages + 1
  /\ ForgetPublished
  /\ UNCHANGED <<record, latest, lastDecision, released, gateVars, req, counters,
                 task, mixed, page>>

Recovery ==
  /\ ~runtime /\ page = NoPage
  /\ runtime' = TRUE
  /\ UNCHANGED <<vars, task, mixed, page, outages>>

Turn(p) ==
  /\ page' = p
  /\ UNCHANGED <<fileVars, gateLog, logTorn, req, counters, task, mixed, runtime, outages>>

(* The list of stages, the graph: the record is there and has a status. *)
OpenPage ==
  /\ ~runtime /\ page = NoPage /\ record # NoRecord
  /\ Turn([NoPage EXCEPT !.pc = "ensure", !.status = record.status])
  /\ UNCHANGED gates

(* initial_stages: the input is approved, everything else is locked. *)
FreshGates == SetStatus(NoGates, Input, "approved")

(* A run without gates is given fresh ones; the page of a single stage ends *)
(* there.                                                                   *)
EnsureGates ==
  /\ page.pc = "ensure"
  /\ gates' = IF gates = NoGates THEN FreshGates ELSE gates
  /\ \/ Turn([page EXCEPT !.pc = "sync", !.gates = gates'])
     \/ Turn(NoPage)

(* The gates that go with the status of a run. *)
SyncedGates(g, status) ==
  CASE status \in {"waiting_review", "revision_required"} ->
         [s \in Stages |-> [g[s] EXCEPT !.status =
            IF s < PublishReview THEN "approved"
            ELSE IF s = PublishReview THEN "pending_review" ELSE "locked"]]
    [] status \in {"optimized", "analyzed", "published", "approved"} ->
         [s \in Stages |-> [g[s] EXCEPT !.status = "approved"]]
    [] status \in {"failed", "human_handoff"} -> SetStatus(g, Research, "failed")
    [] OTHER -> g

(* A run with a verdict on file, or with a log that cannot be read, keeps   *)
(* its gates.                                                               *)
SyncGates ==
  /\ page.pc = "sync"
  /\ IF logTorn \/ gateLog # {}
       THEN Turn(NoPage)
       ELSE Turn([page EXCEPT !.pc = "save", !.gates = SyncedGates(@, page.status)])
  /\ UNCHANGED gates

SaveSynced ==
  /\ page.pc = "save"
  /\ gates' = page.gates
  /\ Turn(NoPage)

(* A page for which a file cannot be read or saved. *)
PageRaises ==
  /\ page # NoPage
  /\ Turn(NoPage)
  /\ UNCHANGED gates

ServePage == EnsureGates \/ SyncGates \/ SaveSynced \/ PageRaises

-----------------------------------------------------------------------------
ServiceInit ==
  /\ Init /\ Campaign!Init /\ mixed = 0
  /\ runtime = TRUE /\ page = NoPage /\ outages = 0

ServiceNext ==
  \/ \E w \in Workers : StageRequest(w)
  \/ \E c \in Clerks : CampaignRequest(c)
  \/ Restart \/ Outage \/ Recovery \/ OpenPage \/ ServePage

ServiceSpec == ServiceInit /\ [][ServiceNext]_serviceVars

(* Threads that have a request keep running. *)
FairServiceSpec ==
  /\ ServiceSpec
  /\ \A w \in Workers : WF_serviceVars(Serve(w) /\ UNCHANGED <<task, mixed, processVars>>)
  /\ \A c \in Clerks :
       WF_serviceVars(Campaign!Serve(c)
                        /\ UNCHANGED <<gateVars, req, counters, mixed, processVars>>)

-----------------------------------------------------------------------------
ServiceTypeOK ==
  /\ TypeOK /\ Campaign!TasksTypeOK /\ page \in Pages
  /\ mixed \in Nat /\ outages \in Nat /\ runtime \in BOOLEAN

(* So far every client waited for the answer to its request. *)
OneByOne == overlaps = 0 /\ mixed = 0

(* The two ways to publish share one idempotency key: while clients wait    *)
(* for each answer, a process publishes the run once, whichever it is asked *)
(* through.                                                                 *)
OneReleaseBothWays == OneByOne => Len(released) <= crashes + outages + 1

(* The run record names the version of the newest payload, so that approve  *)
(* never refuses a payload as outdated when no request overlapped another   *)
(* and none was cut short.                                                  *)
RecordNamesPayload ==
  OneByOne /\ NothingCutShort /\ AllIdle /\ Campaign!AllIdle /\ latest[Advertisement] # 0
    => record.version = latest[Advertisement]

(* A run that says it is published, analysed or optimized was published,    *)
(* and one that says it is optimized has its report and its brief, whatever *)
(* stale copies of the record concurrent requests write back.               *)
CompletedRunPublished ==
  /\ record.status \in {"published", "analyzed", "optimized"} => released # <<>>
  /\ record.status = "optimized" => latest[Analytics] # 0 /\ latest[Optimization] # 0

(* While clients wait for each answer, what is published is the newest      *)
(* payload, under the last decision on file, whichever interface made it.   *)
PublicationCovered ==
  [][OneByOne /\ released' # released =>
       LET version == released'[Len(released')] IN
       /\ version = latest[Advertisement]
       /\ lastDecision = [decision |-> "approved", version |-> version]]_serviceVars

(* "What is not approved does not unlock what comes after it" (README.md,   *)
(* the stage statuses): behind a gate that is not locked, every stage has   *)
(* its approval on file.                                                    *)
UnapprovedStaysLocked ==
  ~logTorn => \A s, t \in Stages \ {Input} :
    s < t /\ gates[t].status # "locked" => Verdict(s, "approved") \in gateLog

(* A run record does not show running for ever, whichever stale copies of   *)
(* it are written back, except that the process dies or an access to a file *)
(* raises, as it may when two saves meet.                                   *)
RunSettles ==
  record.status \in {"pending", "running"}
    ~> crashes + failures > 0 \/ record.status \notin {"pending", "running"}
=============================================================================
