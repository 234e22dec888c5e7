--------------------------- MODULE JobQueueProofs ---------------------------
(***************************************************************************)
(* Proofs about the job queue: the lock of a stage run keeps other workers *)
(* out until it expires, and a job is started once for each marker it had. *)
(***************************************************************************)
EXTENDS JobQueue, FiniteSetTheorems, SequenceTheorems, TLAPS

-----------------------------------------------------------------------------
(* The inductive invariant, part by part.                                   *)

(* A worker that is not idle has a message in hand that was handed out, and *)
(* no two workers have the same one.                                        *)
HandInv ==
  /\ \A w \in Workers : ~At(w, "idle") => worker[w].msg \in 1 .. delivered
  /\ \A v, w \in Workers :
       ~At(v, "idle") /\ ~At(w, "idle") /\ worker[v].msg = worker[w].msg => v = w

(* Until a lock expires, whoever is inside holds it, and the attempt that   *)
(* was read there is still the one of the row.                              *)
LockInv ==
  lockExpiries = 0 =>
    \A w \in Workers :
      /\ InStage(w) => lock[StageOf(w)] = w
      /\ At(w, "start") => worker[w].seen = row[JobOf(w)].attempt

AnnounceInv == \A w \in Workers : At(w, "ack") => worker[w].msg \in announced

(* The messages that may still start their job, the clients that are about  *)
(* to add one, the starts and a marker that can be set again: together no   *)
(* more than one and one for each marker that expired.                      *)
Waits(m) ==
  \/ m > delivered
  \/ \E w \in Workers : worker[w].msg = m /\ worker[w].pc \in {"lock", "load", "start"}
Open(j) == {m \in Messages : stream[m] = j /\ Waits(m)}
Senders(j) == {c \in Clients : client[c] = j}
Unmarked(j) == IF j \in marker THEN 0 ELSE 1

CountInv ==
  \A j \in Jobs :
    /\ IsFiniteSet(Open(j)) /\ IsFiniteSet(Senders(j))
    /\ starts[j] + Cardinality(Open(j)) + Cardinality(Senders(j)) + Unmarked(j)
         <= 1 + markerExpiries

QueueInv ==
  TypeOK /\ HandInv /\ LockInv /\ AttemptsCountStarts /\ AnnounceInv /\ CountInv

-----------------------------------------------------------------------------
(* What a step makes of the worker that takes it.                           *)

Apart(w) == \A v \in Workers \ {w} : worker'[v] = worker[v]
Moves(w, pc, msg, seen) ==
  /\ worker'[w].pc = pc /\ worker'[w].msg = msg /\ worker'[w].seen = seen
  /\ Apart(w)
Stays(w, pc) == Moves(w, pc, worker[w].msg, worker[w].seen)

Hands == [pc : WorkerPCs, msg : Messages \union {0}, seen : Nat]

(* The parts of a well-typed state have their types.                        *)
LEMMA Fields ==
  ASSUME TypeOK
  PROVE  /\ stream \in Seq(Jobs) /\ Len(stream) \in Nat /\ delivered \in 0 .. Len(stream)
         /\ \A m \in Messages : stream[m] \in Jobs
         /\ \A w \in Workers :
              /\ worker[w] \in Hands /\ worker[w].pc \in WorkerPCs
              /\ worker[w].msg \in Messages \union {0} /\ worker[w].seen \in Nat
         /\ \A j \in Jobs :
              /\ row[j] \in Rows /\ row[j].attempt \in Nat /\ starts[j] \in Nat
              /\ Stage[j] \in Stages
         /\ losses \in Nat /\ deaths \in Nat /\ markerExpiries \in Nat /\ lockExpiries \in Nat
<1>1. stream \in Seq(Jobs) /\ Len(stream) \in Nat /\ delivered \in 0 .. Len(stream)
      /\ \A m \in Messages : stream[m] \in Jobs
  BY DEF TypeOK, Messages
<1>2. \A w \in Workers :
        /\ worker[w] \in Hands /\ worker[w].pc \in WorkerPCs
        /\ worker[w].msg \in Messages \union {0} /\ worker[w].seen \in Nat
  <2>1. \A w \in Workers : worker[w] \in Hands  BY DEF TypeOK, Hands
  <2> QED  BY <2>1 DEF Hands
<1>3. \A j \in Jobs :
        row[j] \in Rows /\ row[j].attempt \in Nat /\ starts[j] \in Nat /\ Stage[j] \in Stages
  <2>1. \A j \in Jobs : row[j] \in Rows /\ starts[j] \in Nat /\ Stage[j] \in Stages
    BY DEF TypeOK, Stages
  <2> QED  BY <2>1 DEF Rows
<1>4. losses \in Nat /\ deaths \in Nat /\ markerExpiries \in Nat /\ lockExpiries \in Nat
  BY DEF TypeOK
<1> QED  BY <1>1, <1>2, <1>3, <1>4

(* A worker that goes on keeps its message and the attempt it read.         *)
LEMMA Goes ==
  ASSUME TypeOK, NEW w \in Workers, NEW pc \in WorkerPCs, Goto(w, pc)
  PROVE  Stays(w, pc) /\ worker' \in [Workers -> Hands]
<1> DEFINE q == [worker[w] EXCEPT !.pc = pc]
<1>1. worker \in [Workers -> Hands]  BY DEF TypeOK, Hands
<1>2. q \in Hands /\ q.pc = pc /\ q.msg = worker[w].msg /\ q.seen = worker[w].seen
  BY <1>1 DEF Hands
<1>3. worker' = [worker EXCEPT ![w] = q]  BY DEF Goto
<1> HIDE DEF q
<1> QED  BY <1>1, <1>2, <1>3 DEF Stays, Moves, Apart

(* A worker that returns leaves the others alone.                           *)
LEMMA Returns ==
  ASSUME TypeOK, NEW w \in Workers, Return(w)
  PROVE  worker'[w].pc = "idle" /\ Apart(w) /\ worker' \in [Workers -> Hands]
<1>1. worker \in [Workers -> Hands]  BY DEF TypeOK, Hands
<1>2. NoMessage \in Hands /\ NoMessage.pc = "idle"
  BY DEF NoMessage, Hands, WorkerPCs
<1> QED  BY <1>1, <1>2 DEF Return, Apart

(* The next message of the stream is delivered to one idle worker.          *)
LEMMA DeliverMoves ==
  ASSUME TypeOK, NEW w \in Workers, Deliver(w)
  PROVE  /\ At(w, "idle") /\ delivered < Len(stream) /\ delivered' = delivered + 1
         /\ Moves(w, "lock", delivered + 1, 0) /\ worker' \in [Workers -> Hands]
<1> DEFINE q == [NoMessage EXCEPT !.pc = "lock", !.msg = delivered + 1]
<1>1. At(w, "idle") /\ delivered < Len(stream) /\ delivered' = delivered + 1
      /\ worker' = [worker EXCEPT ![w] = q]
  BY DEF Deliver
<1>2. delivered + 1 \in Messages  BY <1>1, Fields DEF Messages
<1>3. q \in Hands /\ q.pc = "lock" /\ q.msg = delivered + 1 /\ q.seen = 0
  BY <1>2 DEF NoMessage, Hands, WorkerPCs
<1>4. worker \in [Workers -> Hands]  BY DEF TypeOK, Hands
<1> HIDE DEF q
<1> QED  BY <1>1, <1>3, <1>4 DEF Moves, Apart

(* A worker that finds a row acknowledges a completed job, or has read the  *)
(* attempt.                                                                 *)
LEMMA LoadMoves ==
  ASSUME TypeOK, NEW w \in Workers, LoadJob(w), JobOf(w) \in Jobs
  PROVE  /\ At(w, "load") /\ worker' \in [Workers -> Hands]
         /\ \/ Stays(w, "release") /\ acked' = acked \union {worker[w].msg}
            \/ Moves(w, "start", worker[w].msg, row[JobOf(w)].attempt) /\ acked' = acked
<1>1. At(w, "load")  BY DEF LoadJob
<1>2. CASE acked' = acked \union {worker[w].msg} /\ Goto(w, "release")
  BY <1>1, <1>2, Goes DEF WorkerPCs
<1>3. CASE /\ worker' = [worker EXCEPT ![w].pc = "start", ![w].seen = row[JobOf(w)].attempt]
           /\ acked' = acked
  <2> DEFINE a == row[JobOf(w)].attempt
             q == [worker[w] EXCEPT !.pc = "start", !.seen = a]
  <2>1. a \in Nat  BY Fields
  <2>2. worker' = [worker EXCEPT ![w] = q]  BY <1>3
  <2> HIDE DEF a
  <2>3. worker \in [Workers -> Hands] /\ worker[w] \in Hands  BY DEF TypeOK, Hands
  <2>4. q \in Hands /\ q.pc = "start" /\ q.msg = worker[w].msg /\ q.seen = a
    BY <2>1, <2>3 DEF Hands, WorkerPCs
  <2> HIDE DEF q
  <2>5. Moves(w, "start", worker[w].msg, a) /\ worker' \in [Workers -> Hands]
    BY <2>2, <2>3, <2>4 DEF Moves, Apart
  <2> QED  BY <1>1, <1>3, <2>5 DEF a
<1> QED  BY <1>2, <1>3 DEF LoadJob

(* The steps of a worker, by where it stands before and after.              *)
LEMMA WorkMoves ==
  ASSUME TypeOK, NEW w \in Workers
  PROVE  /\ AcquireLock(w) => At(w, "lock") /\ Stays(w, "load")
         /\ LockUnavailable(w) => At(w, "lock") /\ Stays(w, "report")
         /\ StartJob(w) => At(w, "start") /\ Stays(w, "announce")
         /\ Announce(w) => At(w, "announce") /\ Stays(w, "ack")
         /\ Acknowledge(w) => At(w, "ack") /\ Stays(w, "release")
         /\ CallFails(w) => worker[w].pc \in {"load", "start", "announce", "ack"}
                            /\ Stays(w, "unwind")
         /\ ReleaseFails(w) => worker[w].pc \in {"release", "unwind"} /\ Stays(w, "report")
         /\ Release(w) => /\ worker[w].pc \in {"release", "unwind"}
                          /\ \/ worker'[w].pc = "idle" /\ Apart(w)
                             \/ Stays(w, "report")
         /\ Report(w) \/ Die(w) => ~At(w, "idle") /\ worker'[w].pc = "idle" /\ Apart(w)
<1>1. /\ AcquireLock(w) => At(w, "lock") /\ Stays(w, "load")
      /\ LockUnavailable(w) => At(w, "lock") /\ Stays(w, "report")
      /\ StartJob(w) => At(w, "start") /\ Stays(w, "announce")
      /\ Announce(w) => At(w, "announce") /\ Stays(w, "ack")
      /\ Acknowledge(w) => At(w, "ack") /\ Stays(w, "release")
      /\ CallFails(w) => worker[w].pc \in {"load", "start", "announce", "ack"}
                         /\ Stays(w, "unwind")
      /\ ReleaseFails(w) => worker[w].pc \in {"release", "unwind"} /\ Stays(w, "report")
  BY Goes DEF AcquireLock, LockUnavailable, StartJob, Announce, Acknowledge, CallFails,
              ReleaseFails, WorkerPCs
<1>2. Release(w) => /\ worker[w].pc \in {"release", "unwind"}
                    /\ \/ worker'[w].pc = "idle" /\ Apart(w)
                       \/ Stays(w, "report")
  <2>1. Release(w) => /\ worker[w].pc \in {"release", "unwind"}
                      /\ Return(w) \/ Goto(w, "report")
    BY DEF Release
  <2> QED  BY <2>1, Goes, Returns DEF WorkerPCs
<1>3. Report(w) \/ Die(w) => ~At(w, "idle") /\ worker'[w].pc = "idle" /\ Apart(w)
  BY Returns DEF Report, Die, At
<1> QED  BY <1>1, <1>2, <1>3

(* What the workers do not touch.                                           *)
LEMMA WorkFrames ==
  ASSUME NEW w \in Workers, Work(w) \/ Die(w)
  PROVE  /\ UNCHANGED <<marker, stream, client, losses, markerExpiries, lockExpiries>>
         /\ ~Deliver(w) => delivered' = delivered
         /\ ~StartJob(w) => row' = row /\ starts' = starts
         /\ ~LoadJob(w) /\ ~Acknowledge(w) => acked' = acked
         /\ ~Announce(w) => announced' = announced
         /\ ~Report(w) => failed' = failed
         /\ ~AcquireLock(w) /\ ~Release(w) /\ ~ReleaseFails(w) /\ ~Die(w) => lock' = lock
         /\ ~Die(w) => deaths' = deaths
  BY DEF Work, Deliver, AcquireLock, LockUnavailable, LoadJob, StartJob, Announce, Acknowledge,
    CallFails, Release, ReleaseFails, Report, Die, messageVars, rowVars, eventVars, lockVars

(* Apart from the workers, only a client adds to the stream, at its end.    *)
LEMMA ClientFrames ==
  ASSUME NEW c \in Clients,
         AddMessage(c) \/ LoseMessage(c) \/ \E j \in Jobs : Mark(c, j)
  PROVE  /\ UNCHANGED <<markerExpiries, delivered, rowVars, eventVars, lockVars, worker, deaths>>
         /\ ~AddMessage(c) => stream' = stream
         /\ ~LoseMessage(c) => losses' = losses
         /\ marker' = marker \/ \E j \in Jobs : Mark(c, j)
BY DEF AddMessage, LoseMessage, Mark, messageVars, rowVars, eventVars, lockVars

(* What expiries and completed jobs leave alone.                            *)
LEMMA OtherFrames ==
  /\ \A j \in Jobs :
       /\ MarkerExpires(j) =>
            UNCHANGED <<stream, client, losses, delivered, rowVars, eventVars, lockVars,
                        worker, deaths>>
       /\ Complete(j) =>
            UNCHANGED <<messageVars, delivered, starts, eventVars, lockVars, worker, deaths>>
  /\ \A s \in Stages : LockExpires(s) =>
       UNCHANGED <<messageVars, delivered, rowVars, eventVars, worker, deaths>>
BY DEF MarkerExpires, Complete, LockExpires

(* A step is one of a client, of a worker, an expiry or a completed job.    *)
LEMMA Steps ==
  ASSUME [Next]_vars
  PROVE  \/ \E c \in Clients :
              AddMessage(c) \/ LoseMessage(c) \/ \E j \in Jobs : Mark(c, j)
         \/ \E w \in Workers : Work(w) \/ Die(w)
         \/ \E j \in Jobs : MarkerExpires(j)
         \/ \E j \in Jobs : Complete(j)
         \/ \E s \in Stages : LockExpires(s)
         \/ UNCHANGED vars
BY DEF Next

(* A client adds one message, of the job it marked.                         *)
LEMMA AddMoves ==
  ASSUME TypeOK, NEW c \in Clients, AddMessage(c)
  PROVE  /\ client[c] \in Jobs /\ stream' \in Seq(Jobs) /\ Len(stream') = Len(stream) + 1
         /\ stream'[Len(stream) + 1] = client[c]
         /\ \A m \in Messages : stream'[m] = stream[m]
         /\ client' = [client EXCEPT ![c] = NoJob]
<1>1. client[c] \in Jobs /\ stream' = Append(stream, client[c])
      /\ client' = [client EXCEPT ![c] = NoJob]
  BY DEF AddMessage, TypeOK
<1>2. stream \in Seq(Jobs)  BY Fields
<1> QED  BY <1>1, <1>2 DEF Messages

(* The stream only grows.                                                   *)
LEMMA StreamGrows ==
  ASSUME TypeOK, [Next]_vars
  PROVE  /\ stream' \in Seq(Jobs) /\ Len(stream) <= Len(stream')
         /\ \A m \in Messages : m \in Messages' /\ stream'[m] = stream[m]
<1>1. CASE stream' = stream  BY <1>1, Fields DEF Messages
<1>2. CASE \E c \in Clients : AddMessage(c)
  BY <1>2, AddMoves, Fields DEF Messages
<1>3. stream' = stream \/ \E c \in Clients : AddMessage(c)
  BY Steps, ClientFrames, WorkFrames, OtherFrames DEF vars, messageVars
<1> QED  BY <1>1, <1>2, <1>3

(* A worker that is busy has a message, of a job, for a stage run.          *)
LEMMA InHand ==
  ASSUME TypeOK, HandInv, NEW w \in Workers, ~At(w, "idle")
  PROVE  /\ worker[w].msg \in Messages /\ worker[w].msg \in 1 .. delivered
         /\ JobOf(w) \in Jobs /\ StageOf(w) \in Stages
<1>1. worker[w].msg \in 1 .. delivered  BY DEF HandInv
<1>2. worker[w].msg \in Messages  BY <1>1, Fields DEF Messages
<1>3. JobOf(w) \in Jobs  BY <1>2, Fields DEF JobOf
<1> QED  BY <1>1, <1>2, <1>3, Fields DEF StageOf

-----------------------------------------------------------------------------
(* Every variable keeps its type.                                           *)

(* The empty queue is well typed.                                           *)
LEMMA TypeStart == Init => TypeOK
<1> SUFFICES ASSUME Init  PROVE TypeOK
  OBVIOUS
<1>1. worker \in [Workers -> Hands]
  BY DEF Init, Hands, NoMessage, WorkerPCs
<1>2. row \in [Jobs -> Rows] /\ starts \in [Jobs -> Nat]
  BY DEF Init, Rows
<1>3. lock \in [Stages -> Workers \union {Free, Orphan}]
      /\ client \in [Clients -> Jobs \union {NoJob}]
  BY DEF Init
<1> QED  BY <1>1, <1>2, <1>3 DEF Init, TypeOK, Hands

(* Every step keeps the types.                                              *)
LEMMA TypeStep ==
  ASSUME TypeOK, HandInv, [Next]_vars
  PROVE  TypeOK'
<1>1. marker' \subseteq Jobs
  <2>1. \/ marker' = marker
        \/ \E c \in Clients, j \in Jobs : Mark(c, j)
        \/ \E j \in Jobs : MarkerExpires(j)
    BY Steps, ClientFrames, WorkFrames, OtherFrames DEF vars, messageVars, AddMessage, LoseMessage
  <2> QED  BY <2>1 DEF TypeOK, Mark, MarkerExpires
<1>2. stream' \in Seq(Jobs) /\ Len(stream) <= Len(stream') /\ Len(stream') \in Nat
      /\ Messages \subseteq Messages'
  BY StreamGrows
<1>3. delivered' \in 0 .. Len(stream')
  <2>1. \/ delivered' = delivered
        \/ \E w \in Workers : Deliver(w)
    BY Steps, ClientFrames, WorkFrames, OtherFrames DEF vars, messageVars
  <2> QED  BY <2>1, <1>2, DeliverMoves, Fields
<1>4. acked' \subseteq Messages' /\ announced' \subseteq Messages' /\ failed' \subseteq Messages'
  <2>1. \/ UNCHANGED eventVars
        \/ \E w \in Workers : /\ ~At(w, "idle")
                              /\ acked' \in {acked, acked \union {worker[w].msg}}
                              /\ announced' \in {announced, announced \union {worker[w].msg}}
                              /\ failed' \in {failed, failed \union {worker[w].msg}}
    <3>1. ASSUME NEW w \in Workers, LoadJob(w) \/ Announce(w) \/ Acknowledge(w) \/ Report(w)
          PROVE  /\ ~At(w, "idle")
                 /\ acked' \in {acked, acked \union {worker[w].msg}}
                 /\ announced' \in {announced, announced \union {worker[w].msg}}
                 /\ failed' \in {failed, failed \union {worker[w].msg}}
      BY <3>1 DEF LoadJob, Announce, Acknowledge, Report, At
    <3>2. ASSUME NEW w \in Workers, Work(w) \/ Die(w),
                 ~(LoadJob(w) \/ Announce(w) \/ Acknowledge(w) \/ Report(w))
          PROVE  UNCHANGED eventVars
      BY <3>2, WorkFrames DEF eventVars
    <3> QED  BY <3>1, <3>2, Steps, ClientFrames, OtherFrames DEF vars
  <2> QED  BY <2>1, <1>2, InHand DEF TypeOK, eventVars
<1>5. row' \in [Jobs -> Rows] /\ starts' \in [Jobs -> Nat]
  <2>1. \/ UNCHANGED rowVars
        \/ \E w \in Workers : StartJob(w)
        \/ \E j \in Jobs : Complete(j)
    BY Steps, ClientFrames, WorkFrames, OtherFrames DEF vars, rowVars
  <2>2. ASSUME NEW w \in Workers, StartJob(w)
        PROVE  row' \in [Jobs -> Rows] /\ starts' \in [Jobs -> Nat]
    <3>1. JobOf(w) \in Jobs /\ worker[w].seen \in Nat
      BY <2>2, InHand, Fields DEF StartJob, At
    <3>2. [status |-> "running", attempt |-> worker[w].seen + 1] \in Rows
      BY <3>1 DEF Rows
    <3> QED  BY <2>2, <3>1, <3>2 DEF StartJob, TypeOK
  <2>3. ASSUME NEW j \in Jobs, Complete(j)
        PROVE  row' \in [Jobs -> Rows] /\ starts' \in [Jobs -> Nat]
    <3> DEFINE r == [row[j] EXCEPT !.status = "completed"]
    <3>1. r \in Rows /\ row' = [row EXCEPT ![j] = r]
      BY <2>3, Fields DEF Rows, Complete
    <3> HIDE DEF r
    <3> QED  BY <2>3, <3>1, OtherFrames DEF TypeOK
  <2> QED  BY <2>1, <2>2, <2>3 DEF rowVars, TypeOK
<1>6. lock' \in [Stages -> Workers \union {Free, Orphan}]
  <2>1. \/ lock' = lock
        \/ \E w \in Workers : AcquireLock(w) \/ Release(w) \/ ReleaseFails(w) \/ Die(w)
        \/ \E s \in Stages : LockExpires(s)
    BY Steps, ClientFrames, WorkFrames, OtherFrames DEF vars, lockVars
  <2> QED
    BY <2>1 DEF TypeOK, AcquireLock, Release, ReleaseFails, Die, LockExpires
<1>7. client' \in [Clients -> Jobs \union {NoJob}]
  <2>1. \/ client' = client
        \/ \E c \in Clients, x \in Jobs \union {NoJob} : client' = [client EXCEPT ![c] = x]
    BY Steps, ClientFrames, WorkFrames, OtherFrames DEF vars, messageVars, AddMessage,
      LoseMessage, Mark
  <2> QED  BY <2>1 DEF TypeOK
<1>8. worker' \in [Workers -> Hands']
  <2>1. worker' \in [Workers -> Hands]
    <3>0. worker \in [Workers -> Hands]  BY DEF TypeOK, Hands
    <3>1. ASSUME NEW w \in Workers, Work(w) \/ Die(w)  PROVE worker' \in [Workers -> Hands]
      <4>1. CASE Deliver(w)  BY <4>1, DeliverMoves
      <4>2. CASE LoadJob(w)
        <5>1. JobOf(w) \in Jobs  BY <4>2, InHand DEF LoadJob, At
        <5> QED  BY <4>2, <5>1, LoadMoves
      <4>3. CASE \E pc \in WorkerPCs : Goto(w, pc)  BY <4>3, Goes
      <4>4. CASE Return(w)  BY <4>4, Returns
      <4>5. Deliver(w) \/ LoadJob(w) \/ Return(w) \/ \E pc \in WorkerPCs : Goto(w, pc)
        <5>1. /\ "load" \in WorkerPCs /\ "report" \in WorkerPCs /\ "announce" \in WorkerPCs
              /\ "ack" \in WorkerPCs /\ "release" \in WorkerPCs /\ "unwind" \in WorkerPCs
          BY DEF WorkerPCs
        <5> QED
          BY <3>1, <5>1 DEF Work, Die, AcquireLock, LockUnavailable, StartJob, Announce,
            Acknowledge, CallFails, Release, ReleaseFails, Report
      <4> QED  BY <4>1, <4>2, <4>3, <4>4, <4>5
    <3>2. (\E w \in Workers : Work(w) \/ Die(w)) \/ worker' = worker
      BY Steps, ClientFrames, OtherFrames DEF vars
    <3> QED  BY <3>0, <3>1, <3>2
  <2>2. Hands \subseteq Hands'  BY <1>2 DEF Hands
  <2> QED  BY <2>1, <2>2
<1>9. {losses', deaths', markerExpiries', lockExpiries'} \subseteq Nat
  <2>1. losses' \in {losses, losses + 1}
    BY Steps, ClientFrames, WorkFrames, OtherFrames DEF vars, messageVars, LoseMessage
  <2>2. deaths' \in {deaths, deaths + 1}
    BY Steps, ClientFrames, WorkFrames, OtherFrames DEF vars, Die
  <2>3. markerExpiries' \in {markerExpiries, markerExpiries + 1}
    BY Steps, ClientFrames, WorkFrames, OtherFrames
    DEF vars, messageVars, MarkerExpires
  <2>4. lockExpiries' \in {lockExpiries, lockExpiries + 1}
    BY Steps, ClientFrames, WorkFrames, OtherFrames
    DEF vars, lockVars, LockExpires
  <2> QED  BY <2>1, <2>2, <2>3, <2>4, Fields
<1> QED
  BY <1>1, <1>2, <1>3, <1>4, <1>5, <1>6, <1>7, <1>8, <1>9 DEF TypeOK, Hands

-----------------------------------------------------------------------------
(* No two workers have one message in hand.                                 *)

(* A worker keeps its message until it is idle again.                       *)
LEMMA KeepsMessage ==
  ASSUME TypeOK, HandInv, NEW w \in Workers, Work(w) \/ Die(w), ~Deliver(w)
  PROVE  /\ ~At(w, "idle") /\ Apart(w)
         /\ worker'[w].pc = "idle" \/ worker'[w].msg = worker[w].msg
<1>1. CASE LoadJob(w)
  <2>1. JobOf(w) \in Jobs /\ At(w, "load")  BY <1>1, InHand DEF LoadJob, At
  <2> QED  BY <1>1, <2>1, LoadMoves DEF Stays, Moves, At
<1>2. CASE ~LoadJob(w)
  BY <1>2, WorkMoves DEF Work, Stays, Moves, At
<1> QED  BY <1>1, <1>2

(* No two workers come to hold one message.                                 *)
LEMMA HandStep ==
  ASSUME TypeOK, HandInv, [Next]_vars
  PROVE  HandInv'
<1>1. CASE worker' = worker /\ delivered' = delivered
  BY <1>1 DEF HandInv, At
<1>2. ASSUME NEW w \in Workers, Deliver(w)  PROVE HandInv'
  <2>1. /\ delivered' = delivered + 1 /\ delivered \in Nat
        /\ worker'[w].msg = delivered + 1 /\ At(w, "idle") /\ Apart(w)
    BY <1>2, DeliverMoves, Fields DEF Moves
  <2>2. \A v \in Workers \ {w} : worker'[v].pc # "idle" => worker'[v].msg \in 1 .. delivered
    BY <2>1 DEF HandInv, At, Apart
  <2>3. \A v \in Workers : worker'[v].pc # "idle" => worker'[v].msg \in 1 .. delivered'
    BY <2>1, <2>2
  <2>4. ASSUME NEW u \in Workers, NEW v \in Workers, worker'[u].pc # "idle",
               worker'[v].pc # "idle", worker'[u].msg = worker'[v].msg
        PROVE  u = v
    <3>1. CASE u # w /\ v # w  BY <2>1, <2>4, <3>1 DEF HandInv, At, Apart
    <3>2. CASE u = w \/ v = w  BY <2>1, <2>2, <2>4, <3>2
    <3> QED  BY <3>1, <3>2
  <2> QED  BY <2>3, <2>4 DEF HandInv, At
<1>3. ASSUME NEW w \in Workers, Work(w) \/ Die(w), ~Deliver(w)  PROVE HandInv'
  <2>1. /\ delivered' = delivered /\ ~At(w, "idle") /\ Apart(w)
        /\ worker'[w].pc = "idle" \/ worker'[w].msg = worker[w].msg
    BY <1>3, KeepsMessage, WorkFrames
  <2>2. \A v \in Workers : worker'[v].pc # "idle" =>
          ~At(v, "idle") /\ worker'[v].msg = worker[v].msg
    BY <2>1 DEF Apart, At
  <2> QED  BY <2>1, <2>2 DEF HandInv, At
<1>4. \/ worker' = worker /\ delivered' = delivered
      \/ \E w \in Workers : Work(w) \/ Die(w)
  BY Steps, ClientFrames, OtherFrames DEF vars
<1> QED  BY <1>1, <1>2, <1>3, <1>4

-----------------------------------------------------------------------------
(* Inside the lock.                                                         *)

(* A worker at work keeps its message, its job and its stage run.           *)
LEMMA SameJob ==
  ASSUME TypeOK, HandInv, [Next]_vars, NEW v \in Workers, ~At(v, "idle"),
         worker'[v].msg = worker[v].msg
  PROVE  JobOf(v)' = JobOf(v) /\ StageOf(v)' = StageOf(v)
<1>1. worker[v].msg \in Messages  BY InHand
<1>2. stream'[worker[v].msg] = stream[worker[v].msg]  BY <1>1, StreamGrows
<1> QED  BY <1>2 DEF JobOf, StageOf

(* Nobody takes a lock from a worker that holds it.                         *)
LEMMA LockKept ==
  ASSUME TypeOK, NEW w \in Workers, Work(w) \/ Die(w), NEW v \in Workers \ {w},
         NEW s \in Stages, lock[s] = v
  PROVE  lock'[s] = v
<1>0. lock \in [Stages -> Workers \union {Free, Orphan}] /\ v # Free
  BY NamesAssumption DEF TypeOK
<1>1. CASE AcquireLock(w)  BY <1>0, <1>1 DEF AcquireLock
<1>2. CASE Release(w)  BY <1>0, <1>2 DEF Release
<1>3. CASE ReleaseFails(w)  BY <1>0, <1>3 DEF ReleaseFails
<1>4. CASE Die(w)  BY <1>0, <1>4 DEF Die
<1> QED  BY <1>1, <1>2, <1>3, <1>4, WorkFrames

(* Until a lock expires, whoever is inside a stage holds its lock, and the  *)
(* attempt it read is the one on the row.                                   *)
LEMMA LockStep ==
  ASSUME TypeOK, HandInv, LockInv, AttemptsCountStarts, [Next]_vars
  PROVE  LockInv' /\ AttemptsCountStarts'
<1> SUFFICES ASSUME lockExpiries' = 0
             PROVE  /\ \A v \in Workers :
                         /\ InStage(v)' => lock'[StageOf(v)'] = v
                         /\ At(v, "start")' => worker'[v].seen = row'[JobOf(v)'].attempt
                    /\ \A j \in Jobs : row'[j].attempt = starts'[j]
  BY DEF LockInv, AttemptsCountStarts
<1>1. lockExpiries = 0 /\ ~\E s \in Stages : LockExpires(s)
  BY Steps, ClientFrames, WorkFrames, OtherFrames, Fields DEF vars, lockVars, LockExpires
<1>2. \A v \in Workers : /\ InStage(v) => lock[StageOf(v)] = v
                         /\ At(v, "start") => worker[v].seen = row[JobOf(v)].attempt
  BY <1>1 DEF LockInv
<1>3. \A j \in Jobs : row[j].attempt = starts[j]
  BY <1>1 DEF AttemptsCountStarts
<1>4. \A v \in Workers : InStage(v) => ~At(v, "idle")  BY DEF InStage, At
<1>5. CASE UNCHANGED <<worker, lock>> /\ \A j \in Jobs : row'[j].attempt = row[j].attempt
           /\ starts' = starts
  <2>1. \A v \in Workers : InStage(v) => /\ JobOf(v)' = JobOf(v) /\ StageOf(v)' = StageOf(v)
                                         /\ JobOf(v) \in Jobs
    BY <1>4, <1>5, SameJob, InHand
  <2>2. \A v \in Workers : /\ InStage(v)' <=> InStage(v)
                           /\ At(v, "start")' <=> At(v, "start")
                           /\ At(v, "start") => InStage(v)
    BY <1>5 DEF InStage, At
  <2> QED  BY <1>2, <1>3, <1>5, <2>1, <2>2
<1>6. ASSUME NEW w \in Workers, Work(w) \/ Die(w)
      PROVE  /\ \A v \in Workers :
                  /\ InStage(v)' => lock'[StageOf(v)'] = v
                  /\ At(v, "start")' => worker'[v].seen = row'[JobOf(v)'].attempt
             /\ \A j \in Jobs : row'[j].attempt = starts'[j]
  <2>1. Apart(w)
    <3>1. Deliver(w) => Apart(w)  BY DeliverMoves DEF Moves
    <3> QED  BY <1>6, <3>1, KeepsMessage
  <2>2. CASE StartJob(w)
    <3>1. /\ At(w, "start") /\ InStage(w) /\ JobOf(w) \in Jobs /\ StageOf(w) \in Stages
          /\ ~At(w, "idle")
      BY <2>2, InHand DEF StartJob, At, InStage
    <3>2. worker[w].seen = starts[JobOf(w)]  BY <1>2, <1>3, <3>1
    <3>3. /\ row' = [row EXCEPT ![JobOf(w)] =
                       [status |-> "running", attempt |-> worker[w].seen + 1]]
          /\ starts' = [starts EXCEPT ![JobOf(w)] = @ + 1]
          /\ Stays(w, "announce") /\ lock' = lock
      BY <2>2, WorkMoves DEF StartJob, lockVars
    <3>4. row \in [Jobs -> Rows] /\ starts \in [Jobs -> Nat]  BY DEF TypeOK
    <3>5. \A j \in Jobs : row'[j].attempt = starts'[j]
      BY <1>3, <3>1, <3>2, <3>3, <3>4
    <3>6. ASSUME NEW v \in Workers \ {w}, InStage(v)'
          PROVE  /\ lock'[StageOf(v)'] = v
                 /\ At(v, "start")' => worker'[v].seen = row'[JobOf(v)'].attempt
      <4>1. worker'[v] = worker[v]  BY <2>1 DEF Apart
      <4>2. InStage(v) /\ ~At(v, "idle")  BY <1>4, <3>6, <4>1 DEF InStage
      <4>3. JobOf(v)' = JobOf(v) /\ StageOf(v)' = StageOf(v) /\ JobOf(v) \in Jobs
        BY <4>1, <4>2, SameJob, InHand
      <4>4. lock[StageOf(v)] = v /\ lock[StageOf(w)] = w  BY <1>2, <3>1, <4>2
      <4>5. JobOf(v) # JobOf(w)  BY <4>4 DEF StageOf
      <4>6. row'[JobOf(v)] = row[JobOf(v)]  BY <3>3, <3>4, <4>3, <4>5
      <4> QED  BY <1>2, <3>3, <4>1, <4>3, <4>4, <4>6 DEF At
    <3>7. lock'[StageOf(w)'] = w /\ ~At(w, "start")'
      <4>1. StageOf(w)' = StageOf(w)  BY <3>1, <3>3, SameJob DEF Stays, Moves
      <4> QED  BY <1>2, <3>1, <3>3, <4>1 DEF Stays, Moves, At
    <3>8. \A v \in Workers : At(v, "start")' => InStage(v)'  BY DEF At, InStage
    <3> QED  BY <3>5, <3>6, <3>7, <3>8
  <2>3. CASE ~StartJob(w)
    <3>1. row' = row /\ starts' = starts  BY <1>6, <2>3, WorkFrames
    <3>2. ASSUME NEW v \in Workers \ {w}, InStage(v)'
          PROVE  /\ lock'[StageOf(v)'] = v
                 /\ At(v, "start")' => worker'[v].seen = row'[JobOf(v)'].attempt
      <4>1. worker'[v] = worker[v]  BY <2>1 DEF Apart
      <4>2. InStage(v) /\ ~At(v, "idle")  BY <1>4, <3>2, <4>1 DEF InStage
      <4>3. JobOf(v)' = JobOf(v) /\ StageOf(v)' = StageOf(v) /\ StageOf(v) \in Stages
        BY <4>1, <4>2, SameJob, InHand
      <4>4. lock[StageOf(v)] = v  BY <1>2, <4>2
      <4>5. lock'[StageOf(v)] = v  BY <1>6, <4>3, <4>4, LockKept
      <4> QED  BY <1>2, <3>1, <4>1, <4>3, <4>5 DEF At
    <3>3. ASSUME InStage(w)'
          PROVE  /\ lock'[StageOf(w)'] = w
                 /\ At(w, "start")' => worker'[w].seen = row'[JobOf(w)'].attempt
      <4>1. CASE AcquireLock(w)
        <5>1. ~At(w, "idle") /\ Stays(w, "load")  BY <4>1, WorkMoves DEF At
        <5>2. StageOf(w)' = StageOf(w) /\ StageOf(w) \in Stages
          BY <5>1, SameJob, InHand DEF Stays, Moves
        <5>3. lock' = [lock EXCEPT ![StageOf(w)] = w]  BY <4>1 DEF AcquireLock
        <5>4. lock'[StageOf(w)] = w  BY <5>2, <5>3 DEF TypeOK
        <5> QED  BY <5>1, <5>2, <5>4 DEF At, Stays, Moves
      <4>2. CASE LoadJob(w)
        <5>1. /\ At(w, "load") /\ ~At(w, "idle") /\ InStage(w) /\ JobOf(w) \in Jobs
              /\ worker'[w].msg = worker[w].msg /\ lock' = lock
              /\ worker'[w].pc = "start" => worker'[w].seen = row[JobOf(w)].attempt
          <6>1. At(w, "load") /\ ~At(w, "idle") /\ InStage(w) /\ lock' = lock
            BY <4>2 DEF LoadJob, At, InStage, lockVars
          <6>2. JobOf(w) \in Jobs  BY <6>1, InHand
          <6> QED  BY <4>2, <6>1, <6>2, LoadMoves DEF Stays, Moves
        <5>2. JobOf(w)' = JobOf(w) /\ StageOf(w)' = StageOf(w)  BY <5>1, SameJob
        <5> QED  BY <1>2, <3>1, <5>1, <5>2 DEF At
      <4>3. CASE Announce(w) \/ Acknowledge(w) \/ CallFails(w)
        <5>1. /\ InStage(w) /\ ~At(w, "idle") /\ ~At(w, "start")' /\ lock' = lock
              /\ worker'[w].msg = worker[w].msg
          BY <4>3, WorkMoves
          DEF Announce, Acknowledge, CallFails, At, InStage, Stays, Moves, lockVars
        <5>2. StageOf(w)' = StageOf(w)  BY <5>1, SameJob
        <5> QED  BY <1>2, <5>1, <5>2
      <4>4. CASE Deliver(w)  BY <3>3, <4>4, DeliverMoves DEF Moves, InStage
      <4>5. CASE LockUnavailable(w) \/ Release(w) \/ ReleaseFails(w) \/ Report(w) \/ Die(w)
        BY <3>3, <4>5, WorkMoves DEF Stays, Moves, InStage
      <4> QED  BY <1>6, <2>3, <4>1, <4>2, <4>3, <4>4, <4>5 DEF Work
    <3>4. \A v \in Workers : At(v, "start")' => InStage(v)'  BY DEF At, InStage
    <3> QED  BY <1>3, <3>1, <3>2, <3>3, <3>4
  <2> QED  BY <2>2, <2>3
<1>7. ASSUME NEW j \in Jobs, Complete(j)
      PROVE  UNCHANGED <<worker, lock, starts>> /\ \A k \in Jobs : row'[k].attempt = row[k].attempt
  <2>1. /\ row' = [row EXCEPT ![j] = [row[j] EXCEPT !.status = "completed"]]
        /\ row \in [Jobs -> Rows] /\ row[j] \in Rows
    BY <1>7 DEF Complete, TypeOK
  <2>2. [row[j] EXCEPT !.status = "completed"].attempt = row[j].attempt
    BY <2>1 DEF Rows
  <2> QED  BY <1>7, <2>1, <2>2, OtherFrames DEF lockVars
<1>8. \/ UNCHANGED <<worker, lock, row, starts>>
      \/ \E w \in Workers : Work(w) \/ Die(w)
      \/ \E j \in Jobs : Complete(j)
  BY <1>1, Steps, ClientFrames, OtherFrames DEF vars, rowVars, lockVars
<1> QED  BY <1>5, <1>6, <1>7, <1>8

(* A worker acknowledges after it announced.                                *)
LEMMA AnnounceStep ==
  ASSUME TypeOK, HandInv, AnnounceInv, [Next]_vars
  PROVE  AnnounceInv'
<1>1. CASE UNCHANGED <<worker, announced>>  BY <1>1 DEF AnnounceInv, At
<1>2. ASSUME NEW w \in Workers, Announce(w)  PROVE AnnounceInv'
  <2>1. Stays(w, "ack") /\ announced' = announced \union {worker[w].msg}
    BY <1>2, WorkMoves DEF Announce
  <2> QED  BY <2>1 DEF AnnounceInv, At, Stays, Moves, Apart
<1>3. ASSUME NEW w \in Workers, Work(w) \/ Die(w), ~Announce(w)  PROVE AnnounceInv'
  <2>1. announced' = announced  BY <1>3, WorkFrames
  <2>2. worker'[w].pc # "ack" /\ Apart(w)
    <3>1. CASE LoadJob(w)
      <4>1. JobOf(w) \in Jobs  BY <3>1, InHand DEF LoadJob, At
      <4> QED  BY <3>1, <4>1, LoadMoves DEF Stays, Moves
    <3>2. CASE Deliver(w)  BY <3>2, DeliverMoves DEF Moves
    <3>3. CASE ~LoadJob(w) /\ ~Deliver(w)
      BY <1>3, <3>3, WorkMoves DEF Work, Stays, Moves
    <3> QED  BY <3>1, <3>2, <3>3
  <2> QED  BY <2>1, <2>2 DEF AnnounceInv, At, Apart
<1>4. UNCHANGED <<worker, announced>> \/ \E w \in Workers : Work(w) \/ Die(w)
  BY Steps, ClientFrames, OtherFrames DEF vars, eventVars
<1> QED  BY <1>1, <1>2, <1>3, <1>4

-----------------------------------------------------------------------------
(* A job is started once for each marker it had.                            *)

(* The count of one job: what has started and what still may.               *)
Count(j) == starts[j] + Cardinality(Open(j)) + Cardinality(Senders(j)) + Unmarked(j)

(* The sets that are counted are finite, and the count is a number.         *)
LEMMA Sizes ==
  ASSUME TypeOK, CountInv, NEW j \in Jobs
  PROVE  /\ IsFiniteSet(Open(j)) /\ IsFiniteSet(Senders(j))
         /\ Cardinality(Open(j)) \in Nat /\ Cardinality(Senders(j)) \in Nat
         /\ Unmarked(j) \in 0 .. 1 /\ starts[j] \in Nat /\ markerExpiries \in Nat
         /\ Count(j) <= 1 + markerExpiries
BY FS_CardinalityType, Fields DEF CountInv, Count, Unmarked

(* A set that does not grow, that gains or that loses one element.          *)
LEMMA SubsetSize ==
  ASSUME NEW S, IsFiniteSet(S), NEW T \in SUBSET S
  PROVE  IsFiniteSet(T) /\ Cardinality(T) \in Nat /\ Cardinality(T) <= Cardinality(S)
BY FS_Subset, FS_CardinalityType

(* A set that gains at most one element.                                    *)
LEMMA OneMore ==
  ASSUME NEW S, IsFiniteSet(S), NEW x, NEW T \in SUBSET (S \union {x})
  PROVE  IsFiniteSet(T) /\ Cardinality(T) \in Nat /\ Cardinality(T) <= Cardinality(S) + 1
<1>1. /\ IsFiniteSet(S \union {x}) /\ Cardinality(S) \in Nat
      /\ Cardinality(S \union {x}) \in {Cardinality(S), Cardinality(S) + 1}
  BY FS_AddElement, FS_CardinalityType
<1> QED  BY <1>1, SubsetSize

(* A set that loses one element.                                            *)
LEMMA OneLess ==
  ASSUME NEW S, IsFiniteSet(S), NEW x \in S, NEW T \in SUBSET (S \ {x})
  PROVE  IsFiniteSet(T) /\ Cardinality(T) \in Nat /\ Cardinality(T) + 1 <= Cardinality(S)
<1>1. /\ IsFiniteSet(S \ {x}) /\ Cardinality(S) \in Nat
      /\ Cardinality(S \ {x}) = Cardinality(S) - 1
  BY FS_RemoveElement, FS_CardinalityType
<1> QED  BY <1>1, SubsetSize

(* A worker makes no message wait again, and the start of a job uses up its *)
(* message.                                                                 *)
LEMMA OpenShrinks ==
  ASSUME TypeOK, HandInv, NEW w \in Workers, Work(w) \/ Die(w), NEW j \in Jobs
  PROVE  /\ Open(j)' \subseteq Open(j)
         /\ StartJob(w) => worker[w].msg \notin Open(j)'
<1>1. stream' = stream /\ delivered' \in {delivered, delivered + 1} /\ delivered \in Nat
  BY WorkFrames, DeliverMoves, Fields
<1>2. Apart(w)
  <2>1. Deliver(w) => Apart(w)  BY DeliverMoves DEF Moves
  <2> QED  BY <2>1, KeepsMessage
<1>3. \/ Deliver(w) /\ worker'[w].msg = delivered + 1
      \/ /\ worker[w].pc \in {"lock", "load"} /\ worker'[w].msg = worker[w].msg
         /\ delivered' = delivered /\ ~StartJob(w)
      \/ worker'[w].pc \notin {"lock", "load", "start"} /\ delivered' = delivered
  <2>1. CASE Deliver(w)  BY <2>1, DeliverMoves DEF Moves
  <2>2. CASE AcquireLock(w)
    BY <2>2, WorkMoves DEF Stays, Moves, At, AcquireLock, StartJob
  <2>3. CASE LoadJob(w)
    <3>1. JobOf(w) \in Jobs /\ At(w, "load")  BY <2>3, InHand DEF LoadJob, At
    <3> QED  BY <2>3, <3>1, LoadMoves DEF Stays, Moves, At, LoadJob, StartJob
  <2>4. CASE ~Deliver(w) /\ ~AcquireLock(w) /\ ~LoadJob(w)
    BY <2>4, WorkMoves, WorkFrames DEF Work, Stays, Moves
  <2> QED  BY <2>1, <2>2, <2>3, <2>4
<1>4. ASSUME NEW m \in Open(j)'  PROVE m \in Open(j)
  <2>1. m \in Messages /\ stream[m] = j /\ Waits(m)'
    BY <1>1, <1>4 DEF Open, Messages
  <2>2. m \in Nat  BY <2>1, Fields DEF Messages
  <2>3. CASE m > delivered'
    <3>1. Waits(m)  BY <1>1, <2>2, <2>3 DEF Waits
    <3> QED  BY <2>1, <3>1 DEF Open
  <2>4. ASSUME NEW v \in Workers, worker'[v].msg = m, worker'[v].pc \in {"lock", "load", "start"}
        PROVE  Waits(m)
    <3>1. CASE v # w  BY <1>2, <2>4, <3>1 DEF Waits, Apart
    <3>2. CASE v = w  BY <1>1, <1>3, <2>2, <2>4, <3>2 DEF Waits
    <3> QED  BY <3>1, <3>2
  <2> QED  BY <2>1, <2>3, <2>4 DEF Waits, Open
<1>5. ASSUME StartJob(w)  PROVE worker[w].msg \notin Open(j)'
  <2>1. /\ ~At(w, "idle") /\ worker'[w].pc = "announce" /\ delivered' = delivered
        /\ worker[w].msg \in 1 .. delivered
    BY <1>5, WorkMoves, InHand DEF StartJob, At, Stays, Moves
  <2>2. PICK m \in 1 .. delivered : m = worker[w].msg  BY <2>1
  <2>3. \A v \in Workers \ {w} : worker[v].pc # "idle" => worker[v].msg # m
    BY <2>1, <2>2 DEF HandInv, At
  <2>4. ~(m > delivered')  BY <1>1, <2>1
  <2>5. \A v \in Workers : worker'[v].msg = m => worker'[v].pc \notin {"lock", "load", "start"}
    BY <1>2, <2>1, <2>3 DEF Apart
  <2>6. ~Waits(m)'  BY <2>4, <2>5 DEF Waits
  <2> QED  BY <2>2, <2>6 DEF Open
<1> QED  BY <1>4, <1>5

(* What a client's step makes of the messages and of the clients of a job.  *)
LEMMA ClientCounts ==
  ASSUME TypeOK, NEW c \in Clients, NEW k \in Jobs
  PROVE  /\ AddMessage(c) /\ client[c] = k =>
              /\ c \in Senders(k) /\ Senders(k)' \subseteq Senders(k) \ {c}
              /\ Open(k)' \subseteq Open(k) \union {Len(stream) + 1}
         /\ AddMessage(c) /\ client[c] # k =>
              Senders(k)' \subseteq Senders(k) /\ Open(k)' \subseteq Open(k)
         /\ LoseMessage(c) => Senders(k)' \subseteq Senders(k) /\ Open(k)' \subseteq Open(k)
         /\ \A j \in Jobs : Mark(c, j) =>
              /\ Open(k)' \subseteq Open(k)
              /\ j # k => Senders(k)' \subseteq Senders(k)
              /\ Senders(k)' \subseteq Senders(k) \union {c}
<1>0. client \in [Clients -> Jobs \union {NoJob}] /\ k # NoJob
  BY NamesAssumption DEF TypeOK
<1>1. ASSUME NEW x \in Jobs \union {NoJob}, client' = [client EXCEPT ![c] = x]
      PROVE  /\ Senders(k)' \subseteq Senders(k) \union {c}
             /\ x # k => Senders(k)' \subseteq Senders(k) \ {c}
  BY <1>0, <1>1 DEF Senders
<1>2. UNCHANGED <<stream, worker, delivered>> => Open(k)' \subseteq Open(k)
  BY DEF Open, Waits, Messages
<1>3. ASSUME AddMessage(c)
      PROVE  /\ Open(k)' \subseteq Open(k) \union {Len(stream) + 1}
             /\ client[c] # k => Open(k)' \subseteq Open(k)
  <2>1. /\ Len(stream') = Len(stream) + 1 /\ stream'[Len(stream) + 1] = client[c]
        /\ \A m \in Messages : stream'[m] = stream[m]
        /\ worker' = worker /\ delivered' = delivered
    BY <1>3, AddMoves, ClientFrames
  <2>2. Messages' = Messages \union {Len(stream) + 1}
    BY <2>1, Fields DEF Messages
  <2>3. \A m : Waits(m)' <=> Waits(m)  BY <2>1 DEF Waits
  <2> QED  BY <2>1, <2>2, <2>3 DEF Open
<1>4. ASSUME AddMessage(c)  PROVE client' = [client EXCEPT ![c] = NoJob]
  BY <1>4 DEF AddMessage
<1>5. client[c] = k => c \in Senders(k)  BY DEF Senders
<1>6. ASSUME LoseMessage(c)
      PROVE  client' = [client EXCEPT ![c] = NoJob] /\ UNCHANGED <<stream, worker, delivered>>
  BY <1>6 DEF LoseMessage
<1>7. ASSUME NEW j \in Jobs, Mark(c, j)
      PROVE  client' = [client EXCEPT ![c] = j] /\ UNCHANGED <<stream, worker, delivered>>
  BY <1>7 DEF Mark
<1>8. client' = [client EXCEPT ![c] = NoJob] => Senders(k)' \subseteq Senders(k) \ {c}
  BY <1>0, <1>1
<1> QED  BY <1>0, <1>1, <1>2, <1>3, <1>4, <1>5, <1>6, <1>7, <1>8

(* Nothing is started, sent or open at first.                               *)
LEMMA CountStart == Init => CountInv
<1> SUFFICES ASSUME Init, NEW j \in Jobs
             PROVE  /\ IsFiniteSet(Open(j)) /\ IsFiniteSet(Senders(j))
                    /\ Count(j) <= 1 + markerExpiries
  BY DEF CountInv, Count
<1>1. Open(j) = {}  BY DEF Init, Open, Messages
<1>2. Senders(j) = {}  BY NamesAssumption DEF Init, Senders
<1>3. Unmarked(j) = 1 /\ starts[j] = 0 /\ markerExpiries = 0  BY DEF Init, Unmarked
<1> QED  BY <1>1, <1>2, <1>3, FS_EmptySet DEF Count

(* Each step moves what is counted from one place to the next or drops it;  *)
(* only the expiry of a marker raises the bound.                            *)
LEMMA CountStep ==
  ASSUME TypeOK, HandInv, CountInv, [Next]_vars
  PROVE  CountInv'
<1> SUFFICES ASSUME NEW k \in Jobs
             PROVE  /\ IsFiniteSet(Open(k)') /\ IsFiniteSet(Senders(k)')
                    /\ starts'[k] + Cardinality(Open(k)') + Cardinality(Senders(k)')
                         + Unmarked(k)' <= 1 + markerExpiries'
  BY DEF CountInv
<1>1. /\ IsFiniteSet(Open(k)) /\ IsFiniteSet(Senders(k))
      /\ Cardinality(Open(k)) \in Nat /\ Cardinality(Senders(k)) \in Nat
      /\ Unmarked(k) \in 0 .. 1 /\ starts[k] \in Nat /\ markerExpiries \in Nat
      /\ starts[k] + Cardinality(Open(k)) + Cardinality(Senders(k)) + Unmarked(k)
           <= 1 + markerExpiries
  BY Sizes DEF Count
<1> DEFINE Good == /\ IsFiniteSet(Open(k)') /\ IsFiniteSet(Senders(k)')
                   /\ starts'[k] + Cardinality(Open(k)') + Cardinality(Senders(k)')
                        + Unmarked(k)' <= 1 + markerExpiries'
(* Nothing is added. *)
<1>2. ASSUME Open(k)' \subseteq Open(k), Senders(k)' \subseteq Senders(k),
             starts'[k] = starts[k], Unmarked(k)' = Unmarked(k), markerExpiries' = markerExpiries
      PROVE  Good
  <2>1. /\ IsFiniteSet(Open(k)') /\ Cardinality(Open(k)') \in Nat
        /\ Cardinality(Open(k)') <= Cardinality(Open(k))
    BY <1>1, <1>2, SubsetSize
  <2>2. /\ IsFiniteSet(Senders(k)') /\ Cardinality(Senders(k)') \in Nat
        /\ Cardinality(Senders(k)') <= Cardinality(Senders(k))
    BY <1>1, <1>2, SubsetSize
  <2> QED  BY <1>1, <1>2, <2>1, <2>2
<1>3. marker' = marker => Unmarked(k)' = Unmarked(k)  BY DEF Unmarked
<1>4. client' = client => Senders(k)' \subseteq Senders(k)  BY DEF Senders
<1>5. ASSUME NEW c \in Clients, AddMessage(c)  PROVE Good
  <2>1. UNCHANGED <<starts, marker, markerExpiries>>
    BY <1>5 DEF AddMessage, rowVars
  <2>2. CASE client[c] # k  BY <1>2, <1>3, <1>5, <2>1, <2>2, ClientCounts
  <2>3. CASE client[c] = k
    <3>1. /\ c \in Senders(k) /\ Senders(k)' \subseteq Senders(k) \ {c}
          /\ Open(k)' \subseteq Open(k) \union {Len(stream) + 1}
      BY <1>5, <2>3, ClientCounts
    <3>2. /\ IsFiniteSet(Open(k)') /\ Cardinality(Open(k)') \in Nat
          /\ Cardinality(Open(k)') <= Cardinality(Open(k)) + 1
      BY <1>1, <3>1, OneMore
    <3>3. /\ IsFiniteSet(Senders(k)') /\ Cardinality(Senders(k)') \in Nat
          /\ Cardinality(Senders(k)') + 1 <= Cardinality(Senders(k))
      BY <1>1, <3>1, OneLess
    <3> QED  BY <1>1, <1>3, <2>1, <3>2, <3>3
  <2> QED  BY <2>2, <2>3
<1>6. ASSUME NEW c \in Clients, LoseMessage(c)  PROVE Good
  <2>1. UNCHANGED <<starts, marker, markerExpiries>>
    BY <1>6 DEF LoseMessage, rowVars
  <2> QED  BY <1>2, <1>3, <1>6, <2>1, ClientCounts
<1>7. ASSUME NEW c \in Clients, NEW j \in Jobs, Mark(c, j)  PROVE Good
  <2>1. /\ UNCHANGED <<starts, markerExpiries>> /\ j \notin marker
        /\ marker' = marker \union {j}
    BY <1>7 DEF Mark, rowVars
  <2>2. CASE j # k
    <3>1. Unmarked(k)' = Unmarked(k)  BY <2>1, <2>2 DEF Unmarked
    <3> QED  BY <1>2, <1>7, <2>1, <2>2, <3>1, ClientCounts
  <2>3. CASE j = k
    <3>1. Unmarked(k) = 1 /\ Unmarked(k)' = 0  BY <2>1, <2>3 DEF Unmarked
    <3>2. Open(k)' \subseteq Open(k) /\ Senders(k)' \subseteq Senders(k) \union {c}
      BY <1>7, <2>3, ClientCounts
    <3>3. /\ IsFiniteSet(Open(k)') /\ Cardinality(Open(k)') \in Nat
          /\ Cardinality(Open(k)') <= Cardinality(Open(k))
      BY <1>1, <3>2, SubsetSize
    <3>4. /\ IsFiniteSet(Senders(k)') /\ Cardinality(Senders(k)') \in Nat
          /\ Cardinality(Senders(k)') <= Cardinality(Senders(k)) + 1
      BY <1>1, <3>2, OneMore
    <3> QED  BY <1>1, <2>1, <3>1, <3>3, <3>4
  <2> QED  BY <2>2, <2>3
<1>8. ASSUME NEW w \in Workers, Work(w) \/ Die(w)  PROVE Good
  <2>1. UNCHANGED <<marker, markerExpiries, client>>  BY <1>8, WorkFrames
  <2>2. Open(k)' \subseteq Open(k) /\ Senders(k)' \subseteq Senders(k)
        /\ Unmarked(k)' = Unmarked(k)
    BY <1>3, <1>4, <1>8, <2>1, OpenShrinks
  <2>3. CASE StartJob(w) /\ JobOf(w) = k
    <3>1. worker[w].msg \in Open(k) /\ worker[w].msg \notin Open(k)'
      <4>1. ~At(w, "idle") /\ At(w, "start")  BY <2>3 DEF StartJob, At
      <4>2. worker[w].msg \in Messages  BY <4>1, InHand
      <4>3. Waits(worker[w].msg)  BY <4>1 DEF Waits, At
      <4> QED  BY <1>8, <2>3, <4>2, <4>3, OpenShrinks DEF Open, JobOf
    <3>2. starts'[k] = starts[k] + 1
      BY <2>3 DEF StartJob, TypeOK
    <3>3. /\ IsFiniteSet(Open(k)') /\ Cardinality(Open(k)') \in Nat
          /\ Cardinality(Open(k)') + 1 <= Cardinality(Open(k))
      BY <1>1, <2>2, <3>1, OneLess
    <3>4. /\ IsFiniteSet(Senders(k)') /\ Cardinality(Senders(k)') \in Nat
          /\ Cardinality(Senders(k)') <= Cardinality(Senders(k))
      BY <1>1, <2>2, SubsetSize
    <3> QED  BY <1>1, <2>1, <2>2, <3>2, <3>3, <3>4
  <2>4. CASE ~(StartJob(w) /\ JobOf(w) = k)
    <3>1. starts'[k] = starts[k]
      <4>1. ~StartJob(w) => starts' = starts  BY <1>8, WorkFrames
      <4>2. StartJob(w) => starts'[k] = starts[k]  BY <2>4 DEF StartJob, TypeOK
      <4> QED  BY <4>1, <4>2
    <3> QED  BY <1>2, <2>1, <2>2, <3>1
  <2> QED  BY <2>3, <2>4
<1>9. UNCHANGED <<stream, worker, delivered>> => Open(k)' \subseteq Open(k)
  BY DEF Open, Waits, Messages
<1>10. ASSUME NEW j \in Jobs, MarkerExpires(j)  PROVE Good
  <2>1. /\ markerExpiries' = markerExpiries + 1
        /\ UNCHANGED <<stream, worker, delivered, client, starts>>
    BY <1>10 DEF MarkerExpires, rowVars
  <2>2. Open(k)' \subseteq Open(k) /\ Senders(k)' \subseteq Senders(k)
    BY <1>4, <1>9, <2>1
  <2>3. Unmarked(k)' \in 0 .. 1 /\ Unmarked(k)' <= Unmarked(k) + 1
    BY <1>1 DEF Unmarked
  <2>4. /\ IsFiniteSet(Open(k)') /\ Cardinality(Open(k)') \in Nat
        /\ Cardinality(Open(k)') <= Cardinality(Open(k))
    BY <1>1, <2>2, SubsetSize
  <2>5. /\ IsFiniteSet(Senders(k)') /\ Cardinality(Senders(k)') \in Nat
        /\ Cardinality(Senders(k)') <= Cardinality(Senders(k))
    BY <1>1, <2>2, SubsetSize
  <2> QED  BY <1>1, <2>1, <2>3, <2>4, <2>5
<1>11. ASSUME UNCHANGED <<stream, worker, delivered, client, starts, marker, markerExpiries>>
       PROVE  Good
  BY <1>2, <1>3, <1>4, <1>9, <1>11
<1>12. \/ UNCHANGED <<stream, worker, delivered, client, starts, marker, markerExpiries>>
       \/ \E c \in Clients : AddMessage(c) \/ LoseMessage(c) \/ \E j \in Jobs : Mark(c, j)
       \/ \E w \in Workers : Work(w) \/ Die(w)
       \/ \E j \in Jobs : MarkerExpires(j)
  BY Steps, OtherFrames DEF vars, messageVars, rowVars
<1>13. Good  BY <1>5, <1>6, <1>7, <1>8, <1>10, <1>11, <1>12
<1> QED  BY <1>13

-----------------------------------------------------------------------------
(* The invariant holds in every reachable state.                            *)
THEOREM QueueInvariance == Spec => []QueueInv
<1>1. Init => QueueInv
  <2> SUFFICES ASSUME Init  PROVE QueueInv
    OBVIOUS
  <2>1. \A w \in Workers : At(w, "idle")  BY DEF Init, At, NoMessage
  <2>2. HandInv /\ AnnounceInv /\ LockInv
    BY <2>1 DEF HandInv, AnnounceInv, LockInv, At, InStage
  <2>3. AttemptsCountStarts  BY DEF Init, AttemptsCountStarts
  <2> QED  BY <2>2, <2>3, TypeStart, CountStart DEF QueueInv
<1>2. QueueInv /\ [Next]_vars => QueueInv'
  BY TypeStep, HandStep, LockStep, AnnounceStep, CountStep DEF QueueInv
<1> QED  BY <1>1, <1>2, PTL DEF Spec

(* Until a lock expires, no two workers are inside the lock of one stage    *)
(* run.                                                                     *)
THEOREM StagesAreLocked == Spec => []OneWorkerPerStage
<1>1. QueueInv => OneWorkerPerStage
  <2> SUFFICES ASSUME QueueInv, lockExpiries = 0, NEW v \in Workers, NEW w \in Workers,
                      InStage(v), InStage(w), v # w
               PROVE  StageOf(v) # StageOf(w)
    BY DEF OneWorkerPerStage
  <2> QED  BY DEF QueueInv, LockInv
<1> QED  BY <1>1, QueueInvariance, PTL

(* However often clients enqueue a job and whatever fails, it is started at *)
(* most once, and once more for each marker that expired.                   *)
THEOREM JobsStartOnce == Spec => []StartsBounded
<1>1. QueueInv => StartsBounded
  <2> SUFFICES ASSUME QueueInv, NEW j \in Jobs  PROVE starts[j] <= 1 + markerExpiries
    BY DEF StartsBounded
  <2> QED  BY Sizes DEF QueueInv, Count
<1> QED  BY <1>1, QueueInvariance, PTL

(* The attempt in the row, which is read before the start and written with  *)
(* it, counts the starts until a lock expires.                              *)
THEOREM AttemptsAreStarts == Spec => []AttemptsCountStarts
<1>1. QueueInv => AttemptsCountStarts  BY DEF QueueInv
<1> QED  BY <1>1, QueueInvariance, PTL

(* A worker acknowledges a message when it announced its start, or when the *)
(* job has no row or is completed.                                          *)
THEOREM AcknowledgedIsAnnounced == Spec => AckedWasStarted
<1>1. QueueInv /\ [Next]_vars =>
        [\A m \in acked' \ acked :
           m \in announced \/ stream[m] \notin Known \/ row[stream[m]].status = "completed"]_vars
  <2> SUFFICES ASSUME QueueInv, Next, NEW m \in acked' \ acked
               PROVE  \/ m \in announced \/ stream[m] \notin Known
                      \/ row[stream[m]].status = "completed"
    OBVIOUS
  <2>1. PICK w \in Workers : LoadJob(w) \/ Acknowledge(w)
    BY Steps, ClientFrames, OtherFrames, WorkFrames DEF vars, eventVars
  <2>2. CASE LoadJob(w)  BY <2>2 DEF LoadJob, JobOf
  <2>3. CASE Acknowledge(w)  BY <2>3 DEF Acknowledge, QueueInv, AnnounceInv
  <2> QED  BY <2>1, <2>2, <2>3
<1> QED  BY <1>1, QueueInvariance, PTL DEF Spec, AckedWasStarted
=============================================================================
