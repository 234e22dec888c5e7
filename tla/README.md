# Verification of ShopPilot

TLA+ models of ShopPilot, checked with TLC and, for the core, proved with
TLAPS. Every definition is a translation of the code under `src/`;
`PROJECT.json` ("map") gives the lines each one stands for, and paths below are
relative to `src/shopilot/` unless they start with another directory of `src/`.

Contents: 1 the system, 2 what is hard about it, 3 the modules and the plan,
4 how modules correspond to code, 5 the runs, 6 fairness, 7 the proofs,
8 disagreements between code and documents, 9 what is not modelled.

To check a run: `tlc -config StagedWorkflow.cfg MCStagedWorkflow`; to check the
proofs of a module: `tlapm --threads 4 RunServiceProofs.tla`.

## 1. The system

ShopPilot runs marketing campaigns. A campaign is a *run*; it passes nine
stages (input, research, strategy, creative, compliance, advertisement, publish
review, analytics, optimization), each executed by an agent or a deterministic
substitute and then approved or rejected by a person. `server.py` starts one
process; the handlers of `app/api.py` are ordinary (not `async`) functions, so
requests run concurrently in a thread pool. No store takes a lock.

| part | state it keeps | operations | talks to | what makes it correct |
|---|---|---|---|---|
| stage gates: `workflows/staged.py`, `domain/stages.py`, `domain/stage_store.py` | `stages.json`, `stage-approvals.json` | start, execute, approve, reject | run files, publisher, agents | a gate opens only behind passed gates; what is reviewed is what was made; what is published is what was approved; versions, approvals and record agree |
| run files: `store.py`, `workflows/approval.py` | `run.json`, `artifacts.jsonl`, `approvals.jsonl`, `trace.jsonl`, `evaluation.json`, ... | replace a record, append to a stream, rewrite the evaluation | - | a reader sees whole records; no event is numbered ahead of its place; the evaluation on file is the latest |
| publisher: `tools/__init__.py` | idempotency keys, in memory | publish | - | a run is published once |
| campaign workflow: `workflows/campaign.py`, `domain/states.py` | the run files | run, approve_and_analyze, reject, cancel, replay | run files, publisher | a run ends with a status its files bear out; a publication has an approval |
| HTTP API: `app/api.py` | background tasks; whether the process has its runtime | the endpoints; `sync_legacy_stages` | all of the above | checks what it serves; a page does not change a run |
| digital assets: `assets/` | a SQLite catalog, files | create, content, quarantine, archive_expired, search | stage gates (advertisement, creative) | ready assets are stored whole; versions do not change; the quota holds |
| MCP connections: `capabilities/mcp.py` | per server: status, toolkit, failures, circuit | connect, close, health | external servers | healthy means connected; the circuit protects the server; connecting is left |
| capability registry and policy: `capabilities/registry.py`, `policy.py`, `models.py`, `defaults.py` | a registry, fixed after loading | load, decide, authorize, the tool hook | factory | only what a policy grants is bound or run |
| operator bindings: `capabilities/bindings.py` | `capability-bindings.json` | list, update | API, registry | versions count updates; the pages that show them resolve what is on file |
| agent factory: `runtime/agno_factory.py`, `runtime/providers.py` | the agents, toolkits bound | build, call a model | registry, MCP | agents exist whole or not at all |
| job queue and worker: `infra/redis_queue.py`, `worker.py` | Redis: markers, a stream, locks; a row per job | enqueue, read, start, acknowledge | Redis, database | one worker per stage; one start per job; no accepted job is forgotten |
| evidence: `evidence/` | SQLite: records, citations, conflicts | normalize, put, review | research stage | each claim is cited truthfully; a content is stored once |
| observability: `observability/` | SQLite: spans, events, reports; open spans in memory | consume, prune, aggregate, export | research team's stream | running means running; event numbers tell the order |
| sessions: `auth.py` | SQLite: users, sessions | login, authenticate, validate_csrf, logout | API middleware | an ended session is refused |
| harness: `harness/` | an evaluation of each run | evaluate, run the scenarios, inject failures | run files | the evaluation on file is the latest |
| agents, teams, fixtures, command line, frontend | - | pure functions, I/O, display | - | - |

Interactions: the stage endpoints and the older endpoints (`/runs/{id}/approve`,
`/runs/{id}/reject`, `/runs/{id}/replay`) share the run files and the publisher
and know nothing of each other. The stage gates call the publisher in the
approval of publish_review. Research stages write evidence, research streams
write traces, advertisement stages write assets; none of the three is read back
by the stage gates. The job queue stands alone: nothing in `src/` enqueues or
completes a job. The factory is used only when the runtime mode is Agno.

## 2. What is hard to test

The full list is `PROJECT.json`, "hazards", each with its line and the
properties that cover it. In groups:

* *Copies held across long work.* `execute` and `approve` read the stage list
  and the run record, do something slow (a model call, a publication) and write
  the whole copy back; `campaign.py`, `assets/service.py`, `bindings.py` and
  `redis_queue.py` do the same. Some windows are milliseconds, that of a stage's
  payload is as long as a model call.
* *Order of writes and crashes.* The decision and the publication are on record
  before the gates are saved; the idempotency table is lost with the process;
  a log is rewritten in place; a marker is set before the message it stands for.
* *Check, then act.* Quota, evidence hash, idempotency key, session, circuit.
* *Dead ends.* A rejected stage, a failed stage, a ready stage of a process that
  died, a spent asset id: nothing takes them up again.
* *Pages that write, pages that raise.* A page of a run saves made-up gates while
  the process has no runtime; the page of an agent raises when the bindings on
  file do not fit the registry.
* *Shared names.* All saves of one record use one temporary file, so that a save
  that meets another may raise, outside of every `try`.
* *Exceptions where nobody expects one.* A save of the stage list, an event of
  the catalog, a row of a trace: some are caught and undone, some end the
  request in the middle of what it changed.
* *Two interfaces to one run* with different ideas of what its state means.
* *Long sequences* of rejections and approvals over nine stages with versions.

## 3. Modules and plan

Order: what the system is for comes first.

| module | what it is | composed with |
|---|---|---|
| `RunFiles` | run record, artifacts, decisions, publisher, and the actions on them | extended by the next two |
| `StagedWorkflow` | start, execute, approve, reject as threads over the files, with crashes and accesses that raise | implements `StageGates` |
| `StageGates` | abstract: one stage at work, releases are final | |
| `CampaignWorkflow` | the endpoints without stages as threads over the same files | |
| `RunService` | everything offered on one run, and a process without runtime | extends `StagedWorkflow`, instantiates `CampaignWorkflow` |
| `FileStore` | the files of one run call by call of the file system | implements `AtomicRecord` |
| `AtomicRecord` | abstract: a record is there whole, unless saves run into each other | |
| `AssetService` | the assets of one tenant | implements `AssetLife` |
| `AssetLife` | abstract: the life of a version of an asset | |
| `JobQueue` | clients, stream, workers, locks | |
| `MCPConnections` | connect and close as tasks of an event loop | |
| `TraceBridge` | streams of events into spans, events and reports | |
| `EvidenceReview` | reviews over the evidence tables of one run | |
| `AdminApi` | middleware, sessions, logout, operator bindings | extended by `OperatorConsole` |
| `Governance` | registry, policy, construction of agents, tool hook | extended by `OperatorConsole` |
| `OperatorConsole` | requests to a process that loads a registry, restarts, and pages that look up what is on file | extends `AdminApi` and `Governance` |
| `RunServiceProofs` | theorems about `StageGates`, `StagedWorkflow`, `CampaignWorkflow`, `RunService` | extends `RunService`, instantiates `StageGates` |
| `FileStoreProofs`, `AssetServiceProofs`, `JobQueueProofs`, `MCPConnectionsProofs`, `TraceBridgeProofs`, `EvidenceReviewProofs`, `OperatorConsoleProofs` | theorems | extend the module they are about |

`MC...` modules give constants values that a `.cfg` cannot express and the
symmetry of interchangeable threads or sessions; where a cfg is enough there is
none.

Done so far: all modules above, their runs, and the theorems of section 7.
What could follow are extensions of the model: search and several tenants; the safe
browser's redirects as a bounded walk; the paging of event lists; the evaluator
over a run that goes on.

## 4. How the modules correspond to the code

**Steps.** A thread is a record with a program counter `pc`, named for the access
it does next, and the copies it has read. One step is one access to a file, a
table, Redis or the publisher, with the computation up to the next access. A
request whose guard fails or that raises ends there and leaves the files as
they are. Crashes end all threads of the process, between any two steps.

**Accesses that raise.** In the workflow modules, the asset catalog, the traces and
`FileStore` any access may raise (`AccessRaises`, `CatalogFails`, `ConsumeRaises`,
`CallRaises`): the disk is full, the database is busy - or, for the saves of
`run.json` and `stages.json`, another request has just renamed the temporary file
that both use, so that `os.replace` finds nothing there. What the code catches is
caught in the model (`PayloadFails`, `RunFails`, the failure branches of `create`),
and everything else ends the request where it is, in a process that lives on. A
save in the workflow modules is one step. Two saves that meet leave one of the two texts in place and
one or none of the requests with an exception, which is the same as two saves in
some order and then `AccessRaises` for one of the requests; or they leave a text
that is torn, which is only in `FileStore`, where each call of the file system is a
step. `MaxInterruptions` bounds crashes and accesses that raise together.

**StagedWorkflow.** `gates` is `stages.json` (status and version of each stage),
`gateLog` is `stage-approvals.json` as a set, `logTorn` says that the latter
was cut off in the middle of `write_text`. The stage list is written to a
temporary file and renamed; here that is one step (see above). `req[w]` is the request of
thread `w`. `Execute`'s steps are `save_running`, `load_record`, `save_record`,
`payload` (a model or a tool: the artifact of the stage is appended, or not, and
the stage is done or failed; research and advertisement can append and fail),
then the saves of stages and record. `Approve` and `Reject` read the gates,
append to the log (read, truncate, write), publish when the stage is
publish_review, unlock the next stage, save, and approve executes the next
stage in the same request. `AccessRaises` ends a request at any of these steps, in
particular at `save_running`, `save_record` and the saves of the outcome, which no
`try` covers: the stage stays ready or running then, and nothing takes it up.

**CampaignWorkflow.** A clerk serves `run` (all artifacts in turn),
`approve_and_analyze` (decide, publish, analytics, optimization, with the
failures of the harness's fault injection) or `reject`. Each `_status` writes
back the whole record the clerk read. `AccessRaises` follows the `try` of `run`: what
fails in it is saved as failed, even in the place of the status it was about to
save. `CheckApproval` may refuse an approval of the right version: the code also
compares the versions of the images, which are not told apart. Replay makes a new run (`NewRun`);
`cancel` has no caller in `src/` and is left out.

**RunService.** Both of the above on one run. `mixed` counts requests of one kind
that arrive during one of the other, or beyond the overlaps of stage requests.
A process whose configuration is refused comes up without runtime (`Outage`,
until `Recovery`): its endpoints that work on a run answer with an error, but
its pages of the run go through `sync_legacy_stages`, which makes up gates from
the status of the record and saves them. `page` is the one such request; its
steps are the accesses of `ensure_stages` and the save.

**FileStore.** One step is one call: open for writing empties the temporary file,
write fills it, rename makes it the record. A handle follows its file through a
rename, so that a writer may find itself writing the record; a text written
over a longer one leaves its end behind (`torn`). An event is appended with the number
counted before; an evaluation appends its report and rewrites `evaluation.json`
in place. Each call may raise, and a write may have written a part of its text.

**AssetService.** `rows` is the catalog, `files` the storage, keyed by asset and
version; an asset made without an id takes one from the hash of its content, so
a content stands for that id. `Create` checks, counts usage, puts a pending row,
writes, verifies, puts it ready and puts the lineage; every storage call may
fail, and a process that dies in between leaves what it had put. `CatalogFails` is
a transaction of the catalog that fails, of a row or of the event that goes with
it: the event of the pending row is outside of the `try`, so that the row stays
pending; the event of the ready row is inside, and the ready row becomes a failed
one; a failure after that ends the call. `archive_expired` has no caller in `src/` but is the documented retention
job (`docs/platform-operations.md`), and is modelled.

**JobQueue.** `marker`, `stream`, `delivered`, `acked`, `lock` are Redis, `row` the
job table. Workers read new messages only. Clients and whoever completes a job
are outside the repository (`Complete` is modelled from how the worker reads the status).

**MCPConnections.** One server. A task changes place with another where `connect`
and `close` await: entering, closing, the delay of a retry.

**TraceBridge.** `spans`, `events`, `reports` are the tables; `open` and `sequence`
are the memory of the bridge; `live` is which components a stream has started.
`ConsumeRaises` ends consume before any of its accesses: a number that was taken
for an event which is not put then is `lost`, and the stream ends (the research
stage catches the exception and may begin another attempt).
Only the stream of the research team reaches the bridge.

**EvidenceReview.** A review stores each finding twice (first by the team, then by
the reviewer, through the same look-up), cites each claim, looks for conflicts.
Citations are filed under the run of the first evidence, or under `unknown`
(`RunOf`).

**AdminApi.** A request is authenticated on the event loop, then handled in a
thread. `over` is a history variable: sessions ended by logout or time. A
request is `late` when it was sent after its session was over. With a row on file
`Authenticate` may also raise: under SQLite, the default, the time on file comes back
without its zone and cannot be compared, so that only a database that keeps the
zone lets anybody in. Two updates that meet on the temporary file of the bindings
(`Collide`) leave one text whole (`WriteSurvives`), be it that of the request that is
refused, or nothing that can be read (`WritesMix`).

**Governance.** `config` is what the file says, chosen at the start; `todo` is the set of
places in the profiles that are still to bind: an agent's number in the build
order and a reference's number in its profile, taken in that order. Tools are called once the runtime is
ready, by a function name that some toolkit of the agent exposes. An agent that is not registered
is no error of the file: the factory finds out when it comes to it
(`AgentMissing`) and the service comes up without runtime.

**OperatorConsole.** `AdminApi` and `Governance` in one process: requests arrive once
the service is up, an update is checked against the registry that was loaded
(`Accepted`: each reference is registered, under whichever kind) and what it
files is looked up by the page of an agent in the registry of the process that
shows it (`Resolves`: each reference among those of its kind). `filed` is the
content of the file beside the versions that `AdminApi` counts. `Restart` loads a
configuration again; sessions and bindings outlive it.

## 5. The runs

States are distinct states of the complete search, with the bounds of the cfg.

| run | states | instance | shows |
|---|---|---|---|
| `staged` | 163 605 | two threads, one request that arrives during another, versions to 3, one crash or one access that raises, at any step | whatever stale copies are written back: `GateOrder`, `WorkBehindReview`, `ReviewedVersionIsNewest`, `ReleasesAreFinal`, `OpenedGateSettles`; while clients wait, also when a request is cut short: `ImplementsStageGates` (the files are a faithful picture of the abstract gates), `ApprovalOnFile`, `PublishedBehindGates`; and until one is: `RecordAgreesWithGates`, `VerdictsAreFinal` |
| `staged_stale_approval` | violated | two threads, no interruption | section 8 |
| `staged_revision` | violated | one thread, no interruption | section 8 |
| `run_service` | 908 304 | one thread of each kind, one request during one of the other kind, harness faults, a crash, an access that raises or a time without runtime | `OneReleaseBothWays`, `RecordNamesPayload`, `PublicationCovered` for clients that wait; `CompletedRunPublished`, `RunSettles` for all |
| `run_service_outage` | violated | one thread of stage requests, no overlap, a time without runtime | section 8 |
| `file_store` | 1 107 143 | three threads, five saves, events or evaluations, calls that raise at any time, one crash between any two calls | `ImplementsAtomicRecord` (what a reader finds of the record), `NumbersStayBehind`, `EvaluationIsLatest` |
| `assets` | 250 966 | two threads, three calls, two contents and one named id, storage errors, one failing transaction of the catalog, one damaged file, one crash | `ImplementsAssetLife` (versions keep their content, what failed or was withdrawn is never ready again), `ReadyIsStored`, `LineageFollows`, `QuotaOvershootBounded`, `PendingSettles` |
| `jobs` | 247 132 | a client, two workers, two jobs of one stage (one without row), a lost message, a dead worker, an expiry of a marker and of a lock | `OneWorkerPerStage`, `StartsBounded`, `AttemptsCountStarts`, `AckedWasStarted`, `AcceptedJobAnswered` |
| `mcp` | 126 518 | two tasks, five calls, two overlaps, one cancelled or interrupted call, circuit after two failures | `CircuitHolds`, `HealthyIsConnected`, `ConnectingSettles` |
| `trace` | 5 636 083 | two streams, four events, a consume that raises at any time, a restart, retention | `RunningAreOpen`, `GapsAreLostEvents` |
| `evidence` | 319 345 | two threads, three reviews, three findings of which two are one content | `PackageIsBacked`, `StoredOnce` |
| `operator_console` | 187 208 | construction under every list of up to two of five policies, each with 30 combinations of registered references and profiles; then two requests of two sessions, two agents, two filings, one restart, served under three registries | `OverStaysOver`, `VersionsCountUpdates`, `RunsAreGranted`, `AgentsAreWhole`, `PagesResolve` |

Every property of a passing run has a mutant: a plausible bug in a translated
definition (a dropped guard, a swapped order, a missing reset) under which TLC
finds that property violated with the same cfg.

**Why the bounds are enough.** The races need one request that arrives during
another: `MaxOverlaps = 1` lets it arrive at every step of the first, and the
theorems of section 7 have no bound. A stage list depends on versions only by
comparison of a version with the one on file; version 3 allows two rejections
in a row and of different stages. A second crash only repeats the first: a
crash forgets everything that is not on file. A crash and an access that raises
end requests in the same way, so that the runs have one or the other
(`MaxInterruptions = 1`); the theorems allow any number of both. Calls of `FileStore`
and consume of `TraceBridge` may raise without a bound. Two workers, two tasks and two
streams share one row, server or trace in every pair; larger numbers add more
pairs. The queue needs two jobs of one stage for its lock. Two saves that
run into each other on the temporary file, with a third thread that reads or saves
on its own in between, are every way a record is spoilt and repaired. In the console two requests collide or follow one another, and a logout,
an update and a restart come in every order; `EndedSessionsAreRefused` and
`BindingVersionsCount` hold for any number. Bounds that end a counter (`MaxVersion`,
`MaxRevision`, `MaxCalls`, `MaxEvents`, `MaxReviews`, ...) stand in guards, so
that a state at a bound is one from which no such request arrives any more.
`CHECK_DEADLOCK FALSE` is set where a system at rest has no request to serve or
where a bound is exhausted; none of the models has a lock one can wait for
forever.

**What properties say of restricted clients.** Some hold only while clients wait
for each answer, and say so in their antecedent (`ClientsWait`, `OneByOne`,
`overlaps = 0`, ...); the runs let requests overlap all the same. This is not
what the frontend enforces - its buttons stay enabled while a request is served -
but what the code keeps: with overlapping requests they are false, as
`staged_stale_approval` shows for one of them. `ReleasesAreFinal` and
`ReviewedVersionIsNewest` survive one request that arrives during another
(`OneOverlap`; the run `staged`). More overlaps break them; TLC shows it with the
bounds of the run raised:

* with two overlaps, `ReleasesAreFinal`: a rejection of the advertisement reads the
  list before an approval of the advertisement and then one of publish_review
  pass it, and writes its list back after the publication: what was published
  is sent back for revision, and the list no longer says that it was approved;
* with three, and three threads, `ReviewedVersionIsNewest`: two approvals of one
  stage and a rejection of the next one bring about an execution at version 2,
  and a list from before puts version 1 back under review or approval.

With one overlap both are theorems, for any number of threads (section 7).

Things the runs bring out that are not contradictions of a document:

* A crash between the publication and the saving of the gates lets an approval
  of publish_review publish again after the restart: the idempotency table is
  in memory. Releases are bounded per life of the process.
* The older approve endpoint publishes a staged run whatever its gates say.
* Rejection is a dead end (section 8), so that without overlaps no stage is ever
  executed at a version above 1; later versions come only from the older
  reject, which appends a payload.
* The content of generated mock images is always the same, so one failed or
  archived row blocks every later creation without id (in `AssetLife` a version is
  made once and never leaves what withdrew it).
* Saves of one record share a temporary file: a save that overlaps another can
  put a text cut off or empty in the record's place, or fail for want of a file
  to rename; the next save that is alone repairs it (`AtomicRecord`, `Collide`).
  The request that fails so ends, in a process that lives, and its stage stays
  ready or running, or its record running, for good. `OpenedGateSettles` and
  `RunSettles` therefore except accesses that raise, and not deaths only.
* An asset stays pending for good when the event of its row cannot be written
  (`assets/service.py` line 97), and a ready one becomes a failed one when the
  event of that cannot (line 111); it stops counting against the quota then, and
  counts again if `archive_expired` had read it before.
* A gap in the numbers of a trace's events tells of an event that could not be
  put (`GapsAreLostEvents`), in the same process too.
* The older approve publishes a run whose compliance report did not pass: it
  compares the version of the payload and nothing else (`campaign.py` line 188),
  although the specification (`openspec/changes/establish-ecommerce-content-harness`,
  `specs/ecommerce-content-operations-harness/spec.md` line 63) says that the report
  blocks the publication of that version. No run is about it.
* An update of the bindings accepts a tool filed as a server, or the reverse, and
  the page of that agent raises from then on; so does the page of an agent whose
  references a later registry no longer has.
* The event numbers of one run repeat when requests overlap.
* A worker that dies keeps its message for good: nobody claims it.
* A content keeps its first subject, so that conflicts of a later package are
  judged by subjects it did not use.
* A missing MCP credential leaves the server shown as connecting.

## 6. Fairness

* `StagedWorkflow`, `RunService`, `AssetService`: weak fairness of each thread that
  has a request. Threads are scheduled by the operating system, file calls
  return, and model calls end by the provider's timeout (`provider_timeout`,
  60 seconds, in the settings of `runtime/providers.py`). Clients are not fair: nobody has to
  review. Crashes and accesses that raise are not fair - they need never happen -
  and liveness properties except both where nothing takes up the work of a request
  that was cut short: `OpenedGateSettles` and `RunSettles` once `crashes + failures > 0`,
  `PendingSettles` likewise with the failures of the catalog. What they show is that no
  interleaving of requests alone, and no failure the code catches, leaves work behind.
* `JobQueue`: weak fairness of workers, whose loop never ends, and of a client
  between the marker and the message; not of expiry, death or completion.
* `MCPConnections`: weak fairness of a task that awaits: each await ends, by a
  timeout at the latest.
* The other specifications have no liveness property and no fairness.

## 7. The proofs

All theorems hold for every value of the constants, with the named assumptions
of the modules only: bounds are natural numbers (and `MaxVersion` of the assets
at least 1), `NoJob`, `Free` and `Orphan` are no jobs or workers, the references
of a configuration and its policies are lists, and so are the findings and claims
of a package under review; what operators file are sets of references; a finite
number of threads create assets, and a content is the largest, since
`max_asset_bytes` limits them all (`QuotaAssumption`). Every inductive invariant was
checked with TLC on the run of its module before it was proved.

**RunServiceProofs**, in five parts, each resting on those before it.

*The abstract gates.* `GatesKeepTheirPromise`: whatever the number of stages, the
abstract gates have one stage at work, and what was released stays the edition
that was passed. The invariant is the conjunction of both with types: a stage
that is sent back lies behind the delivery because everything before a stage at
work is passed.

*Stage requests, whatever overlaps.* `TypeCorrect`, `GatesStayOrdered` (`[]GateOrder`) and
`ReviewedWorkExists` (`[]WorkBehindReview`), for any number of threads, overlaps,
crashes and accesses that raise. The properties speak of the files, but a request writes back copies
it read long ago, so that they are not inductive. `OrderInv` adds that the gates
in every copy are ordered, that the plan of a request (the stage it is at, what
it is about to do with it) agrees with its copy, and types; a write then puts
something ordered on file although it may be older than what it replaces.
`WorkInv` adds that every artifact a copy relies on has been appended - and
artifacts are never taken back, so that stale copies are harmless for it. This
is why these two survive races that `NewVersionVoidsApprovals` does not.

*Stage requests of clients that wait for each answer*, whatever
`MaxOverlaps` is: the theorems are about the states that were reached without an
overlap. `GatesArePromised` (`ImplementsStageGates`), `ReleasesBounded` (at most
one release per life of the process), `ApprovalsAreFiled`, `VerdictsStayFinal`,
`RecordsAgree`, `PublishedInOrder`. `OneAtATime` comes first: one thread at most has a request.
`SyncInv` says for every step of that request how its copies relate to the files
(`InStep`, `RecordShown`): equal, or ahead by what it is about to write. With it,
`GateMoves` says what each step does to the gates on file without mentioning a
copy: they are created, one is sent back, one is passed on, one changes status.
The other invariants need no more than that: the newest artifact and the gate
have one version (`NewestInv`), what is on its way to the publisher passed every
gate (`PublishInv`), an approval is in the log before it is in the gates
(`LogInv`), a version that has a verdict is decided or behind
(`VerdictInv`, until a request is cut short), the record is what the gates call for, or the
request is about to make it so (`RecordInv`, until a request is cut short). The refinement maps
each such move to the abstract step of the same name, and all other steps to
stutters; a crash, or an access that raises, changes nothing that the abstract gates see:
it drops the copies of a request, which is why the invariants need not know at
which step it came.

*One request that arrives during another*, for any number of threads, versions and
interruptions: `ReviewedIsNewest` (`ReviewedVersionIsNewest`) and `ReleasedIsFinal`
(`ReleasesAreFinal`). Two copies of the gates are then out, and either may be
written over the other, so that nothing like `SyncInv` holds any more. What holds
is an agreement (`Together`): a stage `b` and a version for each stage, such that all
requests review `b` or execute what comes after it, every gate in the files and in
the copies that is more than locked or sent back is at its agreed version, those
under review or approved have their newest artifact at it, and a stage is executed
at no other. The two may write over each other in any order without leaving the
agreement. `SyncInv` says why there is one to begin with: the request that arrives
finds a gate under review, so that the other has not written the gates since it read
them, or has only the record left to write; what is on file is what they agree on.
With a second overlap this is lost: a request may arrive when one of two has
written and the other has not.

*The whole service*: both workflows over the same files, crashes, outages, and the
pages of a process that has no runtime. `ServiceTypeCorrect`, `CompletedWasPublished`
(`CompletedRunPublished`), `ReleasedOnceBothWays` (`OneReleaseBothWays`),
`RecordsNamePayloads` (`RecordNamesPayload`), `PublicationsCovered`
(`PublicationCovered`). `ServiceInv` has five parts. `RuntimeInv`: a process without
runtime has no request of either workflow, so that nothing races its pages.
`CompletedInv`, with any overlap: every copy of the status and of the gates that
says "published" or more, in any thread of either workflow or in a page, is
backed by a publication and by the artifacts of the stages it counts as done;
neither is ever taken back, so that writing an old copy does no harm.
`ReleaseInv`, while clients wait: one request at most is under way, of whichever
workflow; what it is about to publish is the newest payload and its approval is the
last decision on file; publications are no more than the lives of the process that
ended, and one more if the key is in the publisher's table. `NamesInv`, until a
request is cut short: the copies agree with the files at every step of the one request, as the
workflow at hand counts versions, and unless that request is about to save it the
record names the newest payload. The last is what neither
workflow could show alone: each leaves the files as the other expects them.

**FileStoreProofs.** With any number of threads and crashes between any two calls of
the file system: `RecordIsAtomic` (`ImplementsAtomicRecord`), `EventsAreNumbered`
(`NumbersStayBehind`), `LatestEvaluationIsOnFile` (`EvaluationIsLatest`), also with calls
that raise. The refinement
needs `SaveInv`: a save that found none under way keeps the temporary name to
itself; one that opened it over another is marked as colliding, and only then may
a rename bring a foreign or torn text, or find nothing. `NumberInv` says the same of an
event under way as `NumbersStayBehind` of those on file: a call that raises leaves no
gap, since the number is the length of the stream, read anew. `FilingInv` is why one bad evaluation
does no lasting harm: the one that appended the last report emptied the file and
has it to itself, or is marked as disturbed.

**AssetServiceProofs.** `AssetsLiveOnce` (`ImplementsAssetLife`), `ReadyStaysStored`
(`ReadyIsStored`), `LineageIsPut` (`LineageFollows`). A pending row has one maker
(`OneMaker`): the catalog refuses a second row, so that the thread that put it
and nobody else settles it, however many threads create the same content; a row that
a failing event left pending has no maker any more and stays as it is. A
reader or archiver holds a key that was ready once; since a row that left
`ready` never comes back, writing the row it read earlier can only withdraw it.
`QuotaIsNearlyKept` (`QuotaOvershootBounded`), for a catalog that does not fail, rests on `QuotaInv`: of the calls that
passed the check and have no row yet, one (that which passed last, or any other once
that is gone) fits although each of the others be as large as can be; a row that is
put uses up what was set aside for its call, and nothing else takes bytes. The bytes
in use are a fold over the rows. The lemmas on `Total` show what such a sum is over
any finite set: that it exists, does not depend on the order, and grows by what an
element counts. The induction behind them is spelled out with a smallest exception
(`SmallestSubset`), since the theorems of the library that take an operator cannot
be used.

**JobQueueProofs.** `StagesAreLocked` (`OneWorkerPerStage`), `JobsStartOnce`
(`StartsBounded`), `AttemptsAreStarts` (`AttemptsCountStarts`),
`AcknowledgedIsAnnounced` (`AckedWasStarted`), for any number of clients, workers
and jobs. `HandInv`: no two workers hold one message. `LockInv`: until a lock
expires, whoever is inside a stage holds its lock, and the attempt it read is
the row's. `CountInv` is the heart of `StartsBounded`: starts, open messages,
clients between marker and message, and a missing marker add up to at most one,
plus one for each marker that expired; every step moves a unit from one place to
the next or drops it. The sums are cardinalities, by the theorems on finite sets.

**MCPConnectionsProofs.** `CircuitAlwaysHolds` (`CircuitHolds`) and
`HealthyStaysConnected` (`HealthyIsConnected`), for any number of tasks and calls,
any retry budget and any threshold. `SerialInv`: while no calls overlap, one task at
most waits. `CircuitInv` is then inductive: the circuit is opened by a task that
gives up, which was the only one with an attempt, and connect does not begin
another. `ToolkitInv` says of every wait what `HealthyIsConnected` says of a server
at rest: the toolkit the task waits for is that of the state, nothing else is
connected, and a delayed retry has let go of it; without that a retry could leave
a connected toolkit behind. `RestInv` needs it, and that a task that closes a
failed toolkit left the status unhealthy, so that giving up never leaves healthy.

**TraceBridgeProofs.** `TypeCorrect`, with the invariant that an event that starts
or ends something carries a span that exists (`HasSpan`); `RunningSpansAreOpen`
(`RunningAreOpen`) and `MissingNumbersAreLostEvents` (`GapsAreLostEvents`), for any
number of streams and components, whenever consume raises. Both properties speak of quiet moments only;
`HeldInv` says of every moment that a component has an open span exactly while an
attempt of it lives or its end is being saved, `NumberInv` that the numbers used,
lost or about to be used have no gap and reach up to the counter, also when two
streams took the same one; `OrderInv` that one stream at a time takes each number
once, and either puts its event or loses it.

**EvidenceReviewProofs.** `TypeCorrect`, `PackagesAreBacked` (`PackageIsBacked`) and
`ContentsAreStoredOnce` (`StoredOnce`), for any findings and packages, and any
number of reviews of a run that overlap. The tables only grow (`Grown`), so that what a
package cites stays what it cited. `CitedInv`: the citations stored so far are those
the claims of the review call for, claim by claim, which `PackageIsBacked` then says
of the package it leaves behind. `AloneInv`: as long as no review overlapped
another, nobody else stores what a review found missing and is about to insert;
this is why only overlaps get an insert refused.

**OperatorConsoleProofs.** Theorems of the composition, restarts under another
configuration included. A request of the console is a step of `AdminApi`, so that
its invariants carry over; a restart is shown to keep them.
`EndedSessionsAreRefused` (`OverStaysOver`): an ended session has no valid row, so
that a late request stays at `authenticate`. `BindingVersionsCount`
(`VersionsCountUpdates`): copies of concurrent updates never count more than the
updates made, whichever copy survives when two meet, and with no overlap the one copy is the file. `OnlyGrantedRuns`
(`RunsAreGranted`) rests on `AllowedIsGranted`: deciding by the first denial, or
else the first grant, is the same as asking for a grant and no denial, whatever
the order of the policies; that a non-empty set of numbers has a first one comes
from well-foundedness. `AgentsComeWhole` (`AgentsAreWhole`): while agents are
built, each has the toolkits of exactly the places that are bound (`BoundInv`).
`PagesFindTheirReferences` (`PagesResolve`): until a restart, what is on file for
an agent that has a version, and what a writer is about to file, names
registered references only (`PageInv`), also when a draft carries over what was
on file for other agents.

Only model-checked, since it is out of the prover's reach, is liveness under fairness:
`OpenedGateSettles`, `RunSettles`, `PendingSettles`, `AcceptedJobAnswered`,
`ConnectingSettles`. Every safety property of every passing run is proved.

The type invariants (`TypeOK`) of the modules that have a proof module are part of
the inductive invariants; the runs do not check them, since they say the least of
what can go wrong. No recursive operator is used.

## 8. Code and documents

Three runs show that the code does not do what a document says.

* `staged_stale_approval`: the README says that a new version voids older
  approvals. `approve` writes back the stage list it read (`workflows/staged.py`
  line 185 to 210). A rejection that completes in between is undone, and the
  rejected version is approved. The window is a few milliseconds.
* `staged_revision`: README and specification say that a rejection creates a new
  version. `reject` raises the version and sets `revision_required`; nothing
  executes the stage again.
* `run_service_outage`: the README says that a stage that is not approved unlocks
  nothing. In a process without runtime the page of a run
  makes up gates from the status of its record (`app/api.py` line 201) as long as
  there is no verdict on file. The record of a staged run says `waiting_review` while its first
  stage, research, is under review, so that one look at the page opens every
  gate up to publish_review, and a later process with runtime serves them.

## 9. What is not modelled

* Agents, teams, tools, fixtures, schemas: pure functions; a payload that
  succeeds or fails stands for them. Prompts and formats are data.
* The runner of the harness calls what is modelled over a fixed table; command
  line, settings, logging, frontend have no state of their own.
* Read-only endpoints, search, aggregates, exporter, health checks.
* Passwords, tokens, redaction, address checks of the safe browser: functions
  of their input.
* What the evaluator of the harness makes of the files it reads. It writes nothing but
  its report, and nothing acts on that. It asks a run of any status but optimized
  for every artifact of a campaign (`harness/evaluators.py` line 20), so that it
  reports a staged run incomplete from the first review on.
* The text of `stages.json` or `run.json` torn by two saves that meet: in the
  workflow modules one of them is on file whole; `ImplementsAtomicRecord` bounds
  what such a text may come from. A request that reads it raises; only one that is
  under way already saves it anew.
* In `FileStore` a write of a saved text may be cut short, but a line of a stream cut by a full
  disk or a power failure is not modelled, nor the order in which a disk takes
  what was written. The operator bindings have a file of their own and the same
  construction; `AdminApi` models it coarser (`readable`).
* The pages of lists, and the page of a run's events, which reads the trace file
  when there is no trace in the database.
* Skills cannot be bound with the factory's default bindings (it has no loaders)
  and credentials are only looked up; `Governance` leaves both out. Operator
  bindings are recorded and shown, and nothing consults them. The default
  authorizer has no audit sink. `/api/auth/session` is public, so the
  middleware sets no user and it always answers unauthenticated.
* Tables of `infra/models.py` without a user in the repository, and
  `infra/object_storage.py`.
