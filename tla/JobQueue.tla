------------------------------ MODULE JobQueue ------------------------------
(***************************************************************************)
(* The job queue: RedisCoordinator.enqueue adds a job to a Redis stream    *)
(* behind an idempotency marker, and worker processes read the stream as   *)
(* one consumer group, start the job of each message under the lock of its *)
(* stage and acknowledge the message.                                      *)
(*                                                                         *)
(* Workers ask for new messages (">") only: what a process took and did    *)
(* not acknowledge is not read again.  A message is known by its position  *)
(* in the stream.  Every call to Redis or to the database may fail.  The   *)
(* callers of enqueue, and whoever completes a job, are outside the        *)
(* repository.                                                             *)
(***************************************************************************)
EXTENDS Naturals, Sequences, FiniteSets

CONSTANTS
  Clients,        \* the processes that enqueue jobs
  Workers,        \* the worker processes
  Jobs,           \* job ids; a job has one idempotency key
  Known,          \* the jobs that have a row in the database
  Stage,          \* the stage run of each job
  MaxLosses,      \* bound: clients that fail between marker and message
  MaxDeaths,      \* bound: workers that die with a message in hand
  MaxExpiries     \* bound: markers, and locks, that expire

ASSUME QueueAssumption ==
  /\ Known \subseteq Jobs
  /\ DOMAIN Stage = Jobs
  /\ MaxLosses \in Nat /\ MaxDeaths \in Nat /\ MaxExpiries \in Nat

VARIABLES
  marker,         \* the jobs whose idempotency marker is set
  stream,         \* the jobs of the messages, in the order they were added
  delivered,      \* how many of them the group has handed out
  acked,          \* the messages acknowledged
  row,            \* the Job row of each job
  starts,         \* how many job_started audit events each job has
  announced,      \* the messages whose job_started event was published
  failed,         \* the messages whose job_error event was published
  lock,           \* who holds the lock of each stage run
  client,         \* the job each client is between marker and message with
  worker,         \* the message each worker has in hand
  losses, deaths, markerExpiries, lockExpiries

messageVars == <<marker, stream, client, losses, markerExpiries>>
rowVars == <<row, starts>>
eventVars == <<acked, announced, failed>>
lockVars == <<lock, lockExpiries>>
vars == <<messageVars, delivered, rowVars, eventVars, lockVars, worker, deaths>>

Stages == {Stage[j] : j \in Jobs}
NoJob == "none"        \* no job
Free == "free"         \* nobody holds the lock
Orphan == "orphan"     \* a process that died holds it

ASSUME NamesAssumption == NoJob \notin Jobs /\ {Free, Orphan} \cap Workers = {}

Rows == [status : {"queued", "running", "completed"}, attempt : Nat]

WorkerPCs == {"idle", "lock", "load", "start", "announce", "ack", "release",
              "unwind", "report"}
NoMessage == [pc |-> "idle", msg |-> 0, seen |-> 0]

Messages == 1 .. Len(stream)
JobOf(w) == stream[worker[w].msg]
StageOf(w) == Stage[JobOf(w)]
At(w, pc) == worker[w].pc = pc
Goto(w, pc) == worker' = [worker EXCEPT ![w].pc = pc]
Return(w) == worker' = [worker EXCEPT ![w] = NoMessage]

(* Workers that are inside the lock as far as they know. *)
InStage(w) == worker[w].pc \in {"load", "start", "announce", "ack", "release", "unwind"}

-----------------------------------------------------------------------------
(* enqueue: set the marker if it is not set, then add the message. *)
(* Mutant: the marker is set whether or not it was there. *)
MarkAlways(c, j) ==
  /\ client[c] = NoJob
  /\ marker' = marker \union {j}
  /\ client' = [client EXCEPT ![c] = j]
  /\ UNCHANGED <<stream, losses, markerExpiries, delivered, rowVars, eventVars,
                 lockVars, worker, deaths>>

Mark(c, j) ==
  /\ client[c] = NoJob
  /\ j \notin marker
  /\ marker' = marker \union {j}
  /\ client' = [client EXCEPT ![c] = j]
  /\ UNCHANGED <<stream, losses, markerExpiries, delivered, rowVars, eventVars,
                 lockVars, worker, deaths>>

AddMessage(c) ==
  /\ client[c] # NoJob
  /\ stream' = Append(stream, client[c])
  /\ client' = [client EXCEPT ![c] = NoJob]
  /\ UNCHANGED <<marker, losses, markerExpiries, delivered, rowVars, eventVars,
                 lockVars, worker, deaths>>

(* xadd fails, or the client dies before it. *)
LoseMessage(c) ==
  /\ client[c] # NoJob
  /\ losses < MaxLosses
  /\ losses' = losses + 1
  /\ client' = [client EXCEPT ![c] = NoJob]
  /\ UNCHANGED <<marker, stream, markerExpiries, delivered, rowVars, eventVars,
                 lockVars, worker, deaths>>

MarkerExpires(j) ==
  /\ j \in marker
  /\ markerExpiries < MaxExpiries
  /\ markerExpiries' = markerExpiries + 1
  /\ marker' = marker \ {j}
  /\ UNCHANGED <<stream, client, losses, delivered, rowVars, eventVars, lockVars,
                 worker, deaths>>

-----------------------------------------------------------------------------
(* main: take the next new message and the lock of its stage run. *)
Deliver(w) ==
  /\ At(w, "idle")
  /\ delivered < Len(stream)
  /\ delivered' = delivered + 1
  /\ worker' = [worker EXCEPT ![w] = [NoMessage EXCEPT !.pc = "lock", !.msg = delivered + 1]]
  /\ UNCHANGED <<messageVars, rowVars, eventVars, lockVars, deaths>>

(* Mutant: the lock is taken from its holder. *)
SeizeLock(w) ==
  /\ At(w, "lock")
  /\ lock' = [lock EXCEPT ![StageOf(w)] = w]
  /\ Goto(w, "load")
  /\ UNCHANGED <<messageVars, delivered, rowVars, eventVars, lockExpiries, deaths>>

AcquireLock(w) ==
  /\ At(w, "lock")
  /\ lock[StageOf(w)] = Free
  /\ lock' = [lock EXCEPT ![StageOf(w)] = w]
  /\ Goto(w, "load")
  /\ UNCHANGED <<messageVars, delivered, rowVars, eventVars, lockExpiries, deaths>>

(* Mutant: the error is swallowed. *)
LockPassedOver(w) ==
  /\ At(w, "lock")
  /\ Return(w)
  /\ UNCHANGED <<messageVars, delivered, rowVars, eventVars, lockVars, deaths>>

(* It stayed taken for a second, or Redis failed. *)
LockUnavailable(w) ==
  /\ At(w, "lock")
  /\ Goto(w, "report")
  /\ UNCHANGED <<messageVars, delivered, rowVars, eventVars, lockVars, deaths>>

(* process_message: a job without a row, or a completed one, is acknowledged; *)
(* any other is started with the attempt that was read.                       *)
LoadJob(w) ==
  /\ At(w, "load")
  /\ IF JobOf(w) \notin Known \/ row[JobOf(w)].status = "completed"
       THEN acked' = acked \union {worker[w].msg} /\ Goto(w, "release")
       ELSE /\ worker' = [worker EXCEPT ![w].pc = "start", ![w].seen = row[JobOf(w)].attempt]
            /\ UNCHANGED acked
  /\ UNCHANGED <<messageVars, delivered, rowVars, announced, failed, lockVars, deaths>>

(* Mutant: the attempt is not counted. *)
StartUncounted(w) ==
  /\ At(w, "start")
  /\ row' = [row EXCEPT ![JobOf(w)].status = "running"]
  /\ starts' = [starts EXCEPT ![JobOf(w)] = @ + 1]
  /\ Goto(w, "announce")
  /\ UNCHANGED <<messageVars, delivered, eventVars, lockVars, deaths>>

(* The transaction commits the row and the audit event together. *)
StartJob(w) ==
  /\ At(w, "start")
  /\ row' = [row EXCEPT ![JobOf(w)] = [status |-> "running", attempt |-> worker[w].seen + 1]]
  /\ starts' = [starts EXCEPT ![JobOf(w)] = @ + 1]
  /\ Goto(w, "announce")
  /\ UNCHANGED <<messageVars, delivered, eventVars, lockVars, deaths>>

(* Mutant: the message is acknowledged before the event is published. *)
AnnounceLast(w) ==
  /\ At(w, "announce")
  /\ acked' = acked \union {worker[w].msg}
  /\ Goto(w, "ack")
  /\ UNCHANGED <<messageVars, delivered, rowVars, announced, failed, lockVars, deaths>>

Announce(w) ==
  /\ At(w, "announce")
  /\ announced' = announced \union {worker[w].msg}
  /\ Goto(w, "ack")
  /\ UNCHANGED <<messageVars, delivered, rowVars, acked, failed, lockVars, deaths>>

Acknowledge(w) ==
  /\ At(w, "ack")
  /\ acked' = acked \union {worker[w].msg}
  /\ Goto(w, "release")
  /\ UNCHANGED <<messageVars, delivered, rowVars, announced, failed, lockVars, deaths>>

(* The database or Redis fails: the exception passes through the lock. *)
CallFails(w) ==
  /\ worker[w].pc \in {"load", "start", "announce", "ack"}
  /\ Goto(w, "unwind")
  /\ UNCHANGED <<messageVars, delivered, rowVars, eventVars, lockVars, deaths>>

(* Only the holder can release: an expired lock raises instead. *)
Release(w) ==
  LET own == lock[StageOf(w)] = w IN
  /\ InStage(w) /\ worker[w].pc \in {"release", "unwind"}
  /\ lock' = IF own THEN [lock EXCEPT ![StageOf(w)] = Free] ELSE lock
  /\ IF own /\ At(w, "release") THEN Return(w) ELSE Goto(w, "report")
  /\ UNCHANGED <<messageVars, delivered, rowVars, eventVars, lockExpiries, deaths>>

(* Redis fails during the release: the lock is left to expire. *)
ReleaseFails(w) ==
  /\ worker[w].pc \in {"release", "unwind"}
  /\ lock' = [lock EXCEPT ![StageOf(w)] = IF @ = w THEN Orphan ELSE @]
  /\ Goto(w, "report")
  /\ UNCHANGED <<messageVars, delivered, rowVars, eventVars, lockExpiries, deaths>>

Report(w) ==
  /\ At(w, "report")
  /\ failed' = failed \union {worker[w].msg}
  /\ Return(w)
  /\ UNCHANGED <<messageVars, delivered, rowVars, acked, announced, lockVars, deaths>>

(* The process is killed, or its report of an error fails too; another one *)
(* takes its place and knows nothing of the message.                       *)
Die(w) ==
  /\ ~ At(w, "idle")
  /\ deaths < MaxDeaths
  /\ deaths' = deaths + 1
  /\ lock' = [s \in Stages |-> IF lock[s] = w THEN Orphan ELSE lock[s]]
  /\ Return(w)
  /\ UNCHANGED <<messageVars, delivered, rowVars, eventVars, lockExpiries>>

(* 300 seconds have passed since the lock was taken. *)
LockExpires(s) ==
  /\ lock[s] # Free
  /\ lockExpiries < MaxExpiries
  /\ lockExpiries' = lockExpiries + 1
  /\ lock' = [lock EXCEPT ![s] = Free]
  /\ UNCHANGED <<messageVars, delivered, rowVars, eventVars, worker, deaths>>

(* Nothing in the repository completes a job. *)
Complete(j) ==
  /\ row[j].status = "running"
  /\ row' = [row EXCEPT ![j].status = "completed"]
  /\ UNCHANGED <<messageVars, delivered, starts, eventVars, lockVars, worker, deaths>>

-----------------------------------------------------------------------------
Init ==
  /\ marker = {} /\ stream = <<>> /\ delivered = 0
  /\ acked = {} /\ announced = {} /\ failed = {}
  /\ row = [j \in Jobs |-> [status |-> "queued", attempt |-> 0]]
  /\ starts = [j \in Jobs |-> 0]
  /\ lock = [s \in Stages |-> Free]
  /\ client = [c \in Clients |-> NoJob]
  /\ worker = [w \in Workers |-> NoMessage]
  /\ losses = 0 /\ deaths = 0 /\ markerExpiries = 0 /\ lockExpiries = 0

Work(w) ==
  \/ Deliver(w) \/ AcquireLock(w) \/ LockUnavailable(w)
  \/ LoadJob(w) \/ StartJob(w) \/ Announce(w) \/ Acknowledge(w)
  \/ CallFails(w) \/ Release(w) \/ ReleaseFails(w) \/ Report(w)

Next ==
  \/ \E c \in Clients : AddMessage(c) \/ LoseMessage(c) \/ \E j \in Jobs : Mark(c, j)
  \/ \E w \in Workers : Work(w) \/ Die(w)
  \/ \E j \in Jobs : MarkerExpires(j) \/ Complete(j)
  \/ \E s \in Stages : LockExpires(s)

Spec == Init /\ [][Next]_vars

(* Workers keep running, and a client that has set a marker goes on. *)
FairSpec ==
  /\ Spec
  /\ \A w \in Workers : WF_vars(Work(w))
  /\ \A c \in Clients : WF_vars(AddMessage(c))

-----------------------------------------------------------------------------
TypeOK ==
  /\ marker \subseteq Jobs
  /\ stream \in Seq(Jobs)
  /\ delivered \in 0 .. Len(stream)
  /\ acked \subseteq Messages /\ announced \subseteq Messages /\ failed \subseteq Messages
  /\ row \in [Jobs -> Rows] /\ starts \in [Jobs -> Nat]
  /\ lock \in [Stages -> Workers \union {Free, Orphan}]
  /\ client \in [Clients -> Jobs \union {NoJob}]
  /\ worker \in [Workers -> [pc : WorkerPCs, msg : Messages \union {0}, seen : Nat]]
  /\ {losses, deaths, markerExpiries, lockExpiries} \subseteq Nat

(* Two workers are inside the lock of one stage run only after a lock        *)
(* expired.                                                                  *)
OneWorkerPerStage ==
  lockExpiries = 0 =>
    \A v, w \in Workers : InStage(v) /\ InStage(w) /\ v # w => StageOf(v) # StageOf(w)

(* However often a job is enqueued, it is started once, and once more for    *)
(* each marker that expired.                                                 *)
StartsBounded ==
  \A j \in Jobs : starts[j] <= 1 + markerExpiries

(* The attempt of a job, which is read, raised and written back, counts its  *)
(* starts, unless a lock expired under a worker.                             *)
AttemptsCountStarts ==
  lockExpiries = 0 => \A j \in Jobs : row[j].attempt = starts[j]

(* A message is acknowledged after its start was announced, or when its job  *)
(* has no row or is completed: an acknowledged job is never a forgotten one. *)
AckedWasStarted ==
  [][\A m \in acked' \ acked :
       m \in announced \/ stream[m] \notin Known \/ row[stream[m]].status = "completed"]_vars

(* A job whose enqueue was accepted is acknowledged or its failure reported, *)
(* unless a client failed between marker and message or a worker died: no     *)
(* other order of events loses a job silently.                               *)
AcceptedJobAnswered ==
  \A j \in Jobs :
    j \in marker ~> \/ \E m \in acked \union failed : stream[m] = j
                    \/ losses > 0 \/ deaths > 0
=============================================================================
