-------------------------- MODULE RunServiceProofs --------------------------
(***************************************************************************)
(* What holds of the runs behind the HTTP API, for any number of threads,  *)
(* overlapping requests, versions, crashes and outages.                    *)
(*                                                                         *)
(* Five parts, each resting on those before it: the abstract gates; the    *)
(* stage requests alone, whatever overlaps; the stage requests while       *)
(* clients wait for each answer, which then implement the abstract gates;  *)
(* the stage requests when one of them arrives during another; and the     *)
(* whole service, both workflows over the same files, with the pages of a  *)
(* process that has no runtime.                                            *)
(***************************************************************************)
EXTENDS RunService, SequenceTheorems, TLAPS

-----------------------------------------------------------------------------
(* The abstract gates, of any number of stages.                            *)
CONSTANTS
  StageCount,  \* how many stages there are
  Delivery,    \* the one that makes what is published
  Desk         \* the one in whose review it is published

VARIABLES
  phase,    \* where each stage is
  edition,  \* which edition of its work each stage is at
  editions  \* the editions published so far

Gate == INSTANCE StageGates WITH released <- editions

(* The desk is reached only after the delivery was passed, which is what    *)
(* makes the editions published the one that was passed.                    *)
GateInv == Gate!GatesTypeOK /\ Gate!OneStageAtWork /\ Gate!ReleasesAreFinal

(* In the initial state every gate is closed and nothing was released. *)
LEMMA GateInvAtFirst == ASSUME Gate!StagesInOrder, Gate!Init PROVE GateInv
BY DEF Gate!StagesInOrder, Gate!Init, GateInv, Gate!GatesTypeOK, Gate!OneStageAtWork,
       Gate!ReleasesAreFinal, Gate!Steps, Gate!Phases

(* Moving a stage that is at work leaves what was passed as it is. *)
LEMMA MoveKeepsGateInv ==
  ASSUME Gate!StagesInOrder, GateInv, NEW s \in Gate!Steps,
         NEW from \in {"closed", "open"}, NEW to \in Gate!Phases \ {"closed"},
         Gate!Move(s, from, to), from = "closed" => s = 1,
         UNCHANGED <<edition, editions>>
  PROVE  GateInv'
<1>1. Gate!GatesTypeOK'
  BY DEF Gate!StagesInOrder, GateInv, Gate!GatesTypeOK, Gate!Move, Gate!Steps, Gate!Phases
<1>2. Gate!OneStageAtWork'
  <2> SUFFICES ASSUME NEW t \in Gate!Steps, NEW u \in Gate!Steps, t < u
               PROVE  phase'[u] = "closed" \/ phase'[t] = "passed"
    BY DEF Gate!OneStageAtWork
  <2>1. phase[u] = "closed" \/ phase[t] = "passed"
    BY DEF GateInv, Gate!OneStageAtWork
  <2>2. CASE u = s
    BY <2>1, <2>2 DEF GateInv, Gate!GatesTypeOK, Gate!Move, Gate!Steps, Gate!StagesInOrder
  <2>3. CASE u # s
    BY <2>1, <2>3 DEF GateInv, Gate!GatesTypeOK, Gate!Move
  <2> QED BY <2>2, <2>3
<1>3. Gate!ReleasesAreFinal'
  BY DEF GateInv, Gate!ReleasesAreFinal, Gate!GatesTypeOK, Gate!Move, Gate!StagesInOrder,
         Gate!Steps
<1> QED BY <1>1, <1>2, <1>3 DEF GateInv

(* Passing a stage opens the next one only. *)
LEMMA PassKeepsGateInv ==
  ASSUME Gate!StagesInOrder, GateInv, NEW s \in Gate!Steps, Gate!Pass(s)
  PROVE  GateInv'
<1>1. Gate!GatesTypeOK'
  BY DEF GateInv, Gate!GatesTypeOK, Gate!Pass, Gate!Steps, Gate!Phases
<1>2. Gate!OneStageAtWork'
  <2> SUFFICES ASSUME NEW t \in Gate!Steps, NEW u \in Gate!Steps, t < u
               PROVE  phase'[u] = "closed" \/ phase'[t] = "passed"
    BY DEF Gate!OneStageAtWork
  <2>1. phase[u] = "closed" \/ phase[t] = "passed"
    BY DEF GateInv, Gate!OneStageAtWork
  <2>2. s \in Int /\ t \in Int /\ u \in Int
    BY DEF Gate!Steps
  <2>3. phase'[t] = "passed" \/ t = s + 1 \/ phase'[t] = phase[t]
    BY DEF Gate!Pass, GateInv, Gate!GatesTypeOK
  <2>4. CASE t = s
    BY <2>4 DEF Gate!Pass
  <2>5. CASE t < s
    BY <2>2, <2>5 DEF Gate!Pass, GateInv, Gate!OneStageAtWork
  <2>6. CASE s < t
    <3>1. phase[u] = "closed"
      BY <2>1, <2>2, <2>6 DEF Gate!Pass, GateInv, Gate!OneStageAtWork
    <3> QED BY <2>2, <2>6, <3>1 DEF Gate!Pass
  <2> QED BY <2>2, <2>4, <2>5, <2>6
<1>3. Gate!ReleasesAreFinal'
  <2> SUFFICES ASSUME NEW i \in DOMAIN editions
               PROVE  phase'[Delivery] = "passed" /\ editions[i] = edition[Delivery]
    BY DEF Gate!ReleasesAreFinal, Gate!Pass
  <2>1. phase[Delivery] = "passed" /\ editions[i] = edition[Delivery]
    BY DEF GateInv, Gate!ReleasesAreFinal
  <2>2. Delivery \in Gate!Steps /\ s \in Int /\ Delivery \in Int
    BY DEF Gate!StagesInOrder, Gate!Steps
  <2>3. Delivery # s + 1
    BY <2>1, <2>2 DEF Gate!Pass, GateInv, Gate!OneStageAtWork
  <2> QED BY <2>1, <2>2, <2>3 DEF Gate!Pass
<1> QED BY <1>1, <1>2, <1>3 DEF GateInv

(* A stage that is sent back comes after the delivery, or nothing was       *)
(* released yet.                                                            *)
LEMMA ReturnKeepsGateInv ==
  ASSUME Gate!StagesInOrder, GateInv, NEW s \in Gate!Steps, Gate!Return(s)
  PROVE  GateInv'
<1>1. Gate!GatesTypeOK'
  BY DEF GateInv, Gate!GatesTypeOK, Gate!Return, Gate!Steps, Gate!Phases
<1>2. Gate!OneStageAtWork'
  BY DEF GateInv, Gate!OneStageAtWork, Gate!Return, Gate!Steps, Gate!GatesTypeOK
<1>3. Gate!ReleasesAreFinal'
  <2> SUFFICES ASSUME NEW i \in DOMAIN editions
               PROVE  phase'[Delivery] = "passed" /\ editions[i] = edition'[Delivery]
    BY DEF Gate!ReleasesAreFinal, Gate!Return
  <2>1. phase[Delivery] = "passed" /\ editions[i] = edition[Delivery]
    BY DEF GateInv, Gate!ReleasesAreFinal
  <2>2. Delivery \in Gate!Steps /\ s \in Int /\ Delivery \in Int
    BY DEF Gate!StagesInOrder, Gate!Steps
  <2>3. phase[s] \in {"review", "returned"}
    BY DEF Gate!Return
  <2>4. Delivery < s
    BY <2>1, <2>2, <2>3 DEF GateInv, Gate!OneStageAtWork
  <2> QED BY <2>1, <2>2, <2>4 DEF Gate!Return, GateInv, Gate!GatesTypeOK
<1> QED BY <1>1, <1>2, <1>3 DEF GateInv

(* The desk is in review only when the delivery was passed. *)
LEMMA ReleaseKeepsGateInv ==
  ASSUME Gate!StagesInOrder, GateInv, Gate!Release
  PROVE  GateInv'
<1>1. phase[Delivery] = "passed"
  BY DEF Gate!StagesInOrder, GateInv, Gate!OneStageAtWork, Gate!Release, Gate!Steps
<1>2. edition[Delivery] \in Nat /\ editions \in Seq(Nat)
  BY DEF Gate!StagesInOrder, GateInv, Gate!GatesTypeOK, Gate!Steps
<1>3. Gate!GatesTypeOK'
  BY <1>2 DEF GateInv, Gate!GatesTypeOK, Gate!Release
<1>4. Gate!OneStageAtWork'
  BY DEF GateInv, Gate!OneStageAtWork, Gate!Release
<1>5. Gate!ReleasesAreFinal'
  BY <1>1, <1>2 DEF GateInv, Gate!ReleasesAreFinal, Gate!Release
<1> QED BY <1>3, <1>4, <1>5 DEF GateInv

(* Whoever works behind such gates works on one stage at a time and cannot  *)
(* replace what was published: the promise that the staged workflow is      *)
(* shown to keep.                                                           *)
THEOREM GatesKeepTheirPromise ==
  ASSUME Gate!StagesInOrder
  PROVE  Gate!Spec => [](Gate!OneStageAtWork /\ Gate!ReleasesAreFinal)
<1>1. Gate!Init => GateInv
  BY GateInvAtFirst
<1>2. GateInv /\ [Gate!Next]_(Gate!gateVars) => GateInv'
  <2> SUFFICES ASSUME GateInv, [Gate!Next]_(Gate!gateVars) PROVE GateInv'
    OBVIOUS
  <2>1. CASE Gate!Start
    BY <2>1, MoveKeepsGateInv DEF Gate!Start, Gate!StagesInOrder, Gate!Steps, Gate!Phases
  <2>2. CASE Gate!Release
    BY <2>2, ReleaseKeepsGateInv
  <2>3. ASSUME NEW s \in Gate!Steps, Gate!Finish(s) PROVE GateInv'
    BY <2>3, MoveKeepsGateInv DEF Gate!Finish, Gate!Phases
  <2>4. ASSUME NEW s \in Gate!Steps, Gate!Fail(s) PROVE GateInv'
    BY <2>4, MoveKeepsGateInv DEF Gate!Fail, Gate!Phases
  <2>5. ASSUME NEW s \in Gate!Steps, Gate!Pass(s) PROVE GateInv'
    BY <2>5, PassKeepsGateInv
  <2>6. ASSUME NEW s \in Gate!Steps, Gate!Return(s) PROVE GateInv'
    BY <2>6, ReturnKeepsGateInv
  <2>7. CASE UNCHANGED Gate!gateVars
    BY <2>7
    DEF Gate!gateVars, GateInv, Gate!GatesTypeOK, Gate!OneStageAtWork, Gate!ReleasesAreFinal
  <2> QED BY <2>1, <2>2, <2>3, <2>4, <2>5, <2>6, <2>7 DEF Gate!Next
<1>3. GateInv => Gate!OneStageAtWork /\ Gate!ReleasesAreFinal
  BY DEF GateInv
<1> QED BY <1>1, <1>2, <1>3, PTL DEF Gate!Spec

-----------------------------------------------------------------------------
(* The stages are numbers, in the order of STAGE_DEFINITIONS. *)
LEMMA StageFacts ==
  /\ Stages = 0 .. 8
  /\ Producing \subseteq Stages
  /\ PublishReview = 6 /\ Optimization = 8 /\ Advertisement = 5
  /\ Input = 0 /\ Research = 1
  /\ Research \in Producing /\ Advertisement \in Producing
  /\ PublishReview \notin Producing
  BY DEF Stages, Producing, Input, Research, Strategy, Creative, Compliance,
         Advertisement, PublishReview, Analytics, Optimization

(* Changing the status of one gate keeps the gates well typed. *)
LEMMA SetStatusType ==
  ASSUME NEW g \in Gates, NEW s \in Stages, NEW status \in Statuses
  PROVE  SetStatus(g, s, status) \in Gates
  BY DEF SetStatus, Gates

(* A verdict keeps the gates well typed, whichever it is. *)
LEMMA DecidedType ==
  ASSUME NEW g \in Gates, NEW s \in Stages, NEW d \in {"approved", "rejected"}
  PROVE  Decided(g, s, d) \in Gates
<1>1. CASE d = "approved"
  BY <1>1, SetStatusType DEF Decided, Statuses
<1>2. CASE d = "rejected"
  <2>1. \A t \in Stages : g[t] \in [status : Statuses, version : Versions]
    BY DEF Gates
  <2>2. \A t \in Stages : g[t].version + 1 \in Versions
    BY <2>1 DEF Versions
  <2> QED  BY <1>2, <2>1, <2>2 DEF Decided, SendBack, Gates, Statuses
<1> QED  BY <1>1, <1>2

(* What a run and a request start from is well typed. *)
LEMMA InitialTypes ==
  /\ NoGates \in Gates
  /\ InitialGates \in Gates
  /\ NoRecord \in [status : RunStatuses, version : Versions]
  /\ NewRecord \in [status : RunStatuses, version : Versions]
  /\ IdleRequest \in Requests
<1>1. NoGates \in Gates /\ InitialGates \in Gates
  BY DEF NoGates, InitialGates, Gates, Statuses, Versions
<1>2. /\ NoRecord \in [status : RunStatuses, version : Versions]
      /\ NewRecord \in [status : RunStatuses, version : Versions]
  BY DEF NoRecord, NewRecord, RunStatuses, Versions
<1>3. IdleRequest \in Requests
  BY <1>1, <1>2, StageFacts DEF IdleRequest, Requests, PCs
<1> QED  BY <1>1, <1>2, <1>3

-----------------------------------------------------------------------------
(* A request past the verdict on publish_review has publish_review as its   *)
(* stage, it decides a payload that it found, and only a stage that has a    *)
(* next one is left by unlocking it.                                        *)
Underway(r) ==
  /\ r.pc \in {"load_payload", "decide", "publish", "record_publication"} =>
       r.stage = PublishReview
  /\ r.pc = "decide" => r.payload # 0
  /\ r.pc = "unlock" => r.stage # Optimization

TypeInv ==
  /\ TypeOK
  /\ \A w \in Workers : Underway(req[w])

(* Whatever a worker goes on with, if it is well formed so are all requests. *)
LEMMA BecomeTyped ==
  ASSUME TypeInv, NEW w \in Workers, NEW r \in Requests, Underway(r), Become(w, r)
  PROVE  /\ req' \in [Workers -> Requests]
         /\ \A v \in Workers : Underway(req'[v])
         /\ req'[w] = r
         /\ \A v \in Workers \ {w} : req'[v] = req[v]
<1>1. req \in [Workers -> Requests]  BY DEF TypeInv, TypeOK
<1>2. req' = [req EXCEPT ![w] = r]  BY DEF Become
<1>3. req'[w] = r /\ \A v \in Workers \ {w} : req'[v] = req[v]
  BY <1>1, <1>2
<1> QED  BY <1>1, <1>2, <1>3 DEF TypeInv

(* Answering a request leaves the requests well typed. *)
LEMMA ReturnTyped ==
  ASSUME TypeInv, NEW w \in Workers, Return(w)
  PROVE  req' \in [Workers -> Requests] /\ \A v \in Workers : Underway(req'[v])
  BY BecomeTyped, InitialTypes DEF Return, Underway, IdleRequest

(* The first state is well typed. *)
LEMMA TypeInit == Init => TypeInv
<1> SUFFICES ASSUME Init PROVE TypeInv
  OBVIOUS
<1>1. FilesTypeOK
  BY InitialTypes DEF Init, FilesInit, FilesTypeOK, NoDecision, Versions
<1>2. req \in [Workers -> Requests] /\ \A w \in Workers : req[w] = IdleRequest
  BY InitialTypes DEF Init
<1>3. Underway(IdleRequest)
  BY DEF Underway, IdleRequest
<1> QED
  BY <1>1, <1>2, <1>3, InitialTypes DEF Init, TypeInv, TypeOK

(* Taking up a request keeps the types. *)
LEMMA TypeAdmit ==
  ASSUME TypeInv, NEW w \in Workers, Admit(w)
  PROVE  TypeInv'
<1>1. Arrive(w) => overlaps' \in Nat
  BY DEF Arrive, TypeInv, TypeOK
<1>2. CASE StartRun(w)
  <2>1. [IdleRequest EXCEPT !.pc = "create_gates"] \in Requests
    BY InitialTypes DEF Requests, PCs
  <2>2. Underway([IdleRequest EXCEPT !.pc = "create_gates"])
    BY DEF Underway, IdleRequest
  <2> QED
    BY <1>1, <1>2, <2>1, <2>2, BecomeTyped, InitialTypes
    DEF StartRun, SaveRun, TypeInv, TypeOK, FilesTypeOK, gateVars
<1>3. ASSUME NEW s \in Stages, NEW d \in {"approved", "rejected"}, BeginReview(w, s, d)
      PROVE  TypeInv'
  <2> DEFINE r == [IdleRequest EXCEPT !.pc = "read_log", !.stage = s,
                                      !.decision = d, !.gates = gates]
  <2>1. r \in Requests
    BY InitialTypes DEF Requests, PCs, TypeInv, TypeOK
  <2>2. Underway(r)
    BY InitialTypes DEF Underway, IdleRequest
  <2>3. Become(w, r)  BY <1>3 DEF BeginReview
  <2> HIDE DEF r
  <2> QED
    BY <1>1, <1>3, <2>1, <2>2, <2>3, BecomeTyped
    DEF BeginReview, TypeInv, TypeOK, FilesTypeOK, fileVars, gateVars
<1> QED  BY <1>2, <1>3 DEF Admit

(* The types of what a request carries, field by field. *)
LEMMA RequestFields ==
  ASSUME TypeInv, NEW w \in Workers
  PROVE  /\ req[w] \in Requests
         /\ req[w].stage \in Stages
         /\ req[w].decision \in {"approved", "rejected"}
         /\ req[w].gates \in Gates
         /\ req[w].gates[req[w].stage] \in [status : Statuses, version : Versions]
         /\ req[w].log \in SUBSET Verdicts
         /\ req[w].payload \in Nat
         /\ req[w].record \in [status : RunStatuses, version : Versions]
         /\ Underway(req[w])
<1>1. req[w] \in Requests /\ Underway(req[w])
  BY DEF TypeInv, TypeOK
<1> QED  BY <1>1 DEF Requests, Gates

(* Moving a request to its next step keeps the requests well typed. *)
LEMMA GotoTyped ==
  ASSUME TypeInv, NEW w \in Workers, NEW pc \in PCs, Goto(w, pc),
         Underway([req[w] EXCEPT !.pc = pc])
  PROVE  req' \in [Workers -> Requests] /\ \A v \in Workers : Underway(req'[v])
<1>1. [req[w] EXCEPT !.pc = pc] \in Requests
  BY RequestFields DEF Requests
<1> QED  BY <1>1, BecomeTyped DEF Goto

(* The steps of a review, one by one. *)
LEMMA TypeReview ==
  ASSUME TypeInv, NEW w \in Workers, Review(w)
  PROVE  TypeInv'
<1> DEFINE r == req[w]
<1> USE DEF At
<1>0. /\ r \in Requests /\ r.stage \in Stages /\ r.gates \in Gates
      /\ r.gates[r.stage] \in [status : Statuses, version : Versions]
      /\ r.record \in [status : RunStatuses, version : Versions]
      /\ Underway(r)
  BY RequestFields
<1>1. CASE ReadLog(w)
  <2>1. CASE logTorn
    BY <1>1, <2>1, ReturnTyped
    DEF ReadLog, TypeInv, TypeOK, FilesTypeOK, fileVars, gateVars, counters
  <2>2. CASE ~logTorn
    <3> DEFINE q == [r EXCEPT !.pc = "truncate_log", !.log = gateLog]
    <3>1. q \in Requests  BY <1>0 DEF Requests, PCs, TypeInv, TypeOK
    <3>2. Underway(q)  BY <1>0 DEF Underway, Requests
    <3>3. Become(w, q)  BY <1>1, <2>2 DEF ReadLog
    <3> HIDE DEF q
    <3> QED  BY <1>1, <3>1, <3>2, <3>3, BecomeTyped
             DEF ReadLog, TypeInv, TypeOK, FilesTypeOK, fileVars, gateVars, counters
  <2> QED  BY <2>1, <2>2
<1>2. CASE TruncateLog(w)
  <2>1. Underway([req[w] EXCEPT !.pc = "write_log"]) /\ "write_log" \in PCs
    BY <1>0 DEF Underway, Requests, PCs
  <2> QED  BY <1>2, <2>1, GotoTyped
           DEF TruncateLog, TypeInv, TypeOK, FilesTypeOK, fileVars, counters
<1>3. CASE WriteLog(w)
  <2> DEFINE verdict == [stage |-> r.stage, version |-> r.gates[r.stage].version,
                         decision |-> r.decision]
             q == [r EXCEPT !.pc = AfterVerdict(r.stage, r.decision),
                            !.gates = Decided(r.gates, r.stage, r.decision),
                            !.log = {}]
  <2>1. AfterVerdict(r.stage, r.decision) \in PCs
    BY DEF AfterVerdict, PCs
  <2>2. r.decision \in {"approved", "rejected"} /\ r.log \in SUBSET Verdicts
    BY RequestFields
  <2>3. Decided(r.gates, r.stage, r.decision) \in Gates
    BY <1>0, <2>2, DecidedType
  <2>4. q \in Requests  BY <1>0, <2>1, <2>3 DEF Requests
  <2>5. q.pc = AfterVerdict(r.stage, r.decision) /\ q.stage = r.stage
    BY <1>0 DEF Requests
  <2>6. Underway(q)  BY <2>5, StageFacts DEF Underway, AfterVerdict
  <2>7. verdict \in Verdicts  BY <1>0, <2>2 DEF Verdicts
  <2>8. gateLog' \in SUBSET Verdicts /\ logTorn' \in BOOLEAN
    BY <1>3, <2>2, <2>7 DEF WriteLog
  <2>9. Become(w, q)  BY <1>3 DEF WriteLog
  <2> HIDE DEF q, verdict
  <2> QED  BY <1>3, <2>4, <2>6, <2>8, <2>9, BecomeTyped
           DEF WriteLog, TypeInv, TypeOK, FilesTypeOK, fileVars, counters
<1>4. CASE SaveRejection(w)
  BY <1>0, <1>4, ReturnTyped
  DEF SaveRejection, TypeInv, TypeOK, FilesTypeOK, fileVars, counters
<1>5. CASE LoadPayload(w)
  <2>1. CASE latest[Advertisement] = 0
    BY <1>5, <2>1, ReturnTyped
    DEF LoadPayload, TypeInv, TypeOK, FilesTypeOK, fileVars, gateVars, counters
  <2>2. CASE latest[Advertisement] # 0
    <3> DEFINE q == [r EXCEPT !.pc = "decide", !.payload = latest[Advertisement]]
    <3>1. latest[Advertisement] \in Nat
      BY StageFacts DEF TypeInv, TypeOK, FilesTypeOK
    <3>2. q \in Requests  BY <1>0, <3>1 DEF Requests, PCs
    <3>3. Underway(q)  BY <1>0, <1>5, <2>2 DEF Underway, Requests, LoadPayload
    <3>4. Become(w, q)  BY <1>5, <2>2 DEF LoadPayload
    <3> HIDE DEF q
    <3> QED  BY <1>5, <3>2, <3>3, <3>4, BecomeTyped
             DEF LoadPayload, TypeInv, TypeOK, FilesTypeOK, fileVars, gateVars, counters
  <2> QED  BY <2>1, <2>2
<1>6. CASE CheckPublication(w)
  <2>1. /\ Underway([req[w] EXCEPT !.pc = "record_publication"])
        /\ "record_publication" \in PCs
    BY <1>0, <1>6 DEF Underway, Requests, PCs, CheckPublication
  <2> QED  BY <1>6, <2>1, GotoTyped, ReturnTyped
           DEF CheckPublication, TypeInv, TypeOK, FilesTypeOK, fileVars, gateVars, counters
<1>7. CASE RecordPublication(w)
  <2>1. Underway([req[w] EXCEPT !.pc = "unlock"]) /\ "unlock" \in PCs
    BY <1>0, <1>7, StageFacts DEF Underway, Requests, PCs, RecordPublication
  <2>2. published' \in Nat /\ released' \in Seq(Nat)
    BY <1>7, RequestFields DEF RecordPublication, Publish, TypeInv, TypeOK, FilesTypeOK
  <2> QED  BY <1>7, <2>1, <2>2, GotoTyped
           DEF RecordPublication, TypeInv, TypeOK, FilesTypeOK, gateVars, counters
<1>8. CASE Unlock(w)
  <2> DEFINE next == r.stage + 1
             opened == SetStatus(r.gates, next, "ready")
             q1 == [r EXCEPT !.pc = "open_publish_review", !.gates = opened]
             q2 == [IdleRequest EXCEPT !.pc = "load_gates", !.stage = next]
  <2>1. next \in Stages  BY <1>0, <1>8, StageFacts DEF Unlock, Underway
  <2>2. opened \in Gates  BY <1>0, <2>1, SetStatusType DEF Statuses
  <2>3. q1 \in Requests /\ Underway(q1)
    BY <1>0, <2>2 DEF Requests, PCs, Underway
  <2>4. q2 \in Requests /\ Underway(q2)
    BY <2>1, InitialTypes DEF Requests, PCs, Underway
  <2>5. gates' = opened /\ (Become(w, q1) \/ Become(w, q2))
    BY <1>8 DEF Unlock
  <2> HIDE DEF q1, q2, opened
  <2> QED  BY <1>8, <2>2, <2>3, <2>4, <2>5, BecomeTyped
           DEF Unlock, TypeInv, TypeOK, FilesTypeOK, fileVars, counters
<1>9. CASE OpenPublishReview(w)
  <2>1. gates' \in Gates
    BY <1>0, <1>9, SetStatusType, StageFacts DEF OpenPublishReview, Statuses
  <2> QED  BY <1>9, <2>1, ReturnTyped
           DEF OpenPublishReview, TypeInv, TypeOK, FilesTypeOK, fileVars, counters
<1>10. CASE LoadFinalRecord(w)
  <2> DEFINE q == [r EXCEPT !.pc = "save_final_record", !.record = record]
  <2>1. q \in Requests  BY <1>0 DEF Requests, PCs, TypeInv, TypeOK, FilesTypeOK
  <2>2. Underway(q)  BY <1>0 DEF Underway, Requests
  <2>3. Become(w, q)  BY <1>10 DEF LoadFinalRecord
  <2> HIDE DEF q
  <2> QED  BY <1>10, <2>1, <2>2, <2>3, BecomeTyped
           DEF LoadFinalRecord, TypeInv, TypeOK, FilesTypeOK, fileVars, gateVars, counters
<1>11. CASE SaveFinalRecord(w)
  <2>1. Underway([req[w] EXCEPT !.pc = "save_final_gates"]) /\ "save_final_gates" \in PCs
    BY <1>0 DEF Underway, Requests, PCs
  <2>2. record' \in [status : RunStatuses, version : Versions]
    BY <1>0, <1>11 DEF SaveFinalRecord, SaveRun, RunStatuses
  <2> QED  BY <1>11, <2>1, <2>2, GotoTyped
           DEF SaveFinalRecord, TypeInv, TypeOK, FilesTypeOK, gateVars, counters
<1>12. CASE SaveFinalGates(w)
  BY <1>0, <1>12, ReturnTyped
  DEF SaveFinalGates, TypeInv, TypeOK, FilesTypeOK, fileVars, counters
<1>13. CASE DecidePayload(w)
  <2>1. Underway([req[w] EXCEPT !.pc = "publish"]) /\ "publish" \in PCs
    BY <1>0, <1>13 DEF Underway, Requests, PCs, DecidePayload
  <2>2. r.payload \in Versions
    BY <1>0, <1>13, RequestFields DEF Underway, DecidePayload, Versions
  <2>3. lastDecision' \in [decision : {"none", "approved", "rejected"}, version : Versions]
    BY <1>13, <2>2 DEF DecidePayload, Decide
  <2> QED  BY <1>13, <2>1, <2>3, GotoTyped
           DEF DecidePayload, TypeInv, TypeOK, FilesTypeOK, gateVars, counters
<1> QED
  BY <1>1, <1>2, <1>3, <1>4, <1>5, <1>6, <1>7, <1>8, <1>9, <1>10, <1>11, <1>12, <1>13
  DEF Review

(* The steps of an execution, one by one. *)
LEMMA TypeExecute ==
  ASSUME TypeInv, NEW w \in Workers, Execute(w)
  PROVE  TypeInv'
<1> DEFINE r == req[w]
<1>0. /\ r \in Requests /\ r.stage \in Stages /\ r.gates \in Gates
      /\ r.gates[r.stage] \in [status : Statuses, version : Versions]
      /\ r.record \in [status : RunStatuses, version : Versions]
      /\ Underway(r)
  BY RequestFields
<1>1. CASE LoadGates(w)
  <2> DEFINE q == [r EXCEPT !.pc = "save_running",
                            !.gates = SetStatus(gates, r.stage, "running")]
  <2>1. SetStatus(gates, r.stage, "running") \in Gates
    BY <1>0, SetStatusType DEF TypeInv, TypeOK, Statuses
  <2>2. q \in Requests /\ Underway(q)
    BY <1>0, <2>1 DEF Requests, PCs, Underway
  <2>3. Become(w, q) \/ Return(w)
    BY <1>1 DEF LoadGates
  <2> HIDE DEF q
  <2> QED  BY <1>1, <2>2, <2>3, BecomeTyped, ReturnTyped
           DEF LoadGates, TypeInv, TypeOK, FilesTypeOK, fileVars, gateVars, counters
<1>2. CASE SaveRunning(w)
  <2>1. Underway([req[w] EXCEPT !.pc = "load_record"]) /\ "load_record" \in PCs
    BY <1>0 DEF Underway, Requests, PCs
  <2> QED  BY <1>0, <1>2, <2>1, GotoTyped
           DEF SaveRunning, TypeInv, TypeOK, FilesTypeOK, fileVars, counters
<1>3. CASE LoadRecord(w)
  <2> DEFINE q == [r EXCEPT !.pc = "save_record",
                            !.record = [record EXCEPT !.status = "running"]]
  <2>1. [record EXCEPT !.status = "running"] \in [status : RunStatuses, version : Versions]
    BY DEF TypeInv, TypeOK, FilesTypeOK, RunStatuses
  <2>2. q \in Requests /\ Underway(q)
    BY <1>0, <2>1 DEF Requests, PCs, Underway
  <2>3. Become(w, q)  BY <1>3 DEF LoadRecord
  <2> HIDE DEF q
  <2> QED  BY <1>3, <2>2, <2>3, BecomeTyped
           DEF LoadRecord, TypeInv, TypeOK, FilesTypeOK, fileVars, gateVars, counters
<1>4. CASE SaveRecord(w)
  <2>1. Underway([req[w] EXCEPT !.pc = "payload"]) /\ "payload" \in PCs
    BY <1>0 DEF Underway, Requests, PCs
  <2> QED  BY <1>0, <1>4, <2>1, GotoTyped
           DEF SaveRecord, SaveRun, TypeInv, TypeOK, FilesTypeOK, gateVars, counters
<1>5. ASSUME PayloadSucceeds(w) \/ PayloadFails(w)
      PROVE  TypeInv'
  <2>1. ASSUME NEW g \in Statuses, NEW n \in RunStatuses
        PROVE  Outcome(r, g, n) \in Requests /\ Underway(Outcome(r, g, n))
    <3>1. SetStatus(r.gates, r.stage, g) \in Gates
      BY <1>0, SetStatusType
    <3> QED  BY <1>0, <3>1 DEF Outcome, Requests, PCs, Underway
  <2>2. PICK g \in Statuses, n \in RunStatuses : Become(w, Outcome(r, g, n))
    BY <1>5 DEF PayloadSucceeds, PayloadFails, Statuses, RunStatuses
  <2>3. latest' \in [Producing -> Nat]
    <3>1. r.gates[r.stage].version \in Nat  BY <1>0 DEF Versions
    <3>2. UNCHANGED latest \/ AppendArtifact(r.stage, r.gates[r.stage].version)
      BY <1>5 DEF PayloadSucceeds, PayloadFails
    <3> QED  BY <3>1, <3>2 DEF AppendArtifact, TypeInv, TypeOK, FilesTypeOK
  <2>4. UNCHANGED <<record, lastDecision, published, released, gateVars, counters>>
    BY <1>5 DEF PayloadSucceeds, PayloadFails
  <2> QED  BY <2>1, <2>2, <2>3, <2>4, BecomeTyped
           DEF TypeInv, TypeOK, FilesTypeOK, gateVars, counters
<1>6. CASE SaveOutcomeGates(w)
  <2>1. /\ Underway([req[w] EXCEPT !.pc = "save_outcome_record"])
        /\ "save_outcome_record" \in PCs
    BY <1>0 DEF Underway, Requests, PCs
  <2> QED  BY <1>0, <1>6, <2>1, GotoTyped
           DEF SaveOutcomeGates, TypeInv, TypeOK, FilesTypeOK, fileVars, counters
<1>7. CASE SaveOutcomeRecord(w)
  BY <1>0, <1>7, ReturnTyped
  DEF SaveOutcomeRecord, SaveRun, TypeInv, TypeOK, FilesTypeOK, gateVars, counters
<1> QED
  BY <1>1, <1>2, <1>3, <1>4, <1>5, <1>6, <1>7 DEF Execute

(* Every step keeps the types. *)
LEMMA TypeStep == TypeInv /\ [Next]_vars => TypeInv'
<1> SUFFICES ASSUME TypeInv, [Next]_vars PROVE TypeInv'
  OBVIOUS
<1>1. ASSUME NEW w \in Workers, CreateGates(w)
      PROVE  TypeInv'
  <2> DEFINE q == [IdleRequest EXCEPT !.pc = "load_gates", !.stage = Research]
  <2>1. q \in Requests /\ Underway(q)
    BY InitialTypes, StageFacts DEF Requests, PCs, Underway
  <2>2. Become(w, q)  BY <1>1 DEF CreateGates
  <2> HIDE DEF q
  <2> QED  BY <1>1, <2>1, <2>2, BecomeTyped, InitialTypes
           DEF CreateGates, TypeInv, TypeOK, FilesTypeOK, fileVars, counters
<1>2. CASE Crash
  <2>1. req' \in [Workers -> Requests] /\ \A w \in Workers : req'[w] = IdleRequest
    BY <1>2, InitialTypes DEF Crash
  <2>2. Underway(IdleRequest)
    BY DEF Underway, IdleRequest
  <2> QED  BY <1>2, <2>1, <2>2
           DEF Crash, ForgetPublished, TypeInv, TypeOK, FilesTypeOK, gateVars
<1>3. CASE UNCHANGED vars
  BY <1>3 DEF vars, fileVars, gateVars, counters, TypeInv, TypeOK, FilesTypeOK
<1>4. ASSUME NEW w \in Workers, AccessRaises(w)
      PROVE  TypeInv'
  BY <1>4, ReturnTyped
  DEF AccessRaises, CountFailure, TypeInv, TypeOK, FilesTypeOK, fileVars, gateVars
<1> QED
  BY <1>1, <1>2, <1>3, <1>4, TypeAdmit, TypeReview, TypeExecute DEF Next, Serve

(* The types hold in every state. *)
LEMMA TypeInvariant == Spec => []TypeInv
  BY TypeInit, TypeStep, PTL DEF Spec

(* Every file and every request stays well formed: in particular no step of *)
(* approve looks for a gate after the last one.                             *)
THEOREM TypeCorrect == Spec => []TypeOK
<1>1. TypeInv => TypeOK  BY DEF TypeInv
<1> QED  BY <1>1, TypeInvariant, PTL

-----------------------------------------------------------------------------
(* GateOrder.  The stage file is only ever replaced by a copy some request  *)
(* holds, however old; so it is ordered if every copy is.  A copy stays     *)
(* ordered because of what its owner knew when it took it: the gate under   *)
(* review, or at work, is open and not approved, so nothing after it is.     *)

BeforeVerdict == {"read_log", "truncate_log", "write_log"}

AfterApproval == {"load_payload", "decide", "publish", "record_publication", "unlock",
                  "load_final_record", "save_final_record", "save_final_gates"}

AtWork == {"save_running", "load_record", "save_record", "payload"}

PlanOrdered(r) ==
  /\ Ordered(r.gates)
  /\ r.pc \in BeforeVerdict =>
       r.gates[r.stage].status \in {"pending_review", "revision_required"}
  /\ r.pc \in AfterApproval =>
       /\ r.gates[r.stage].status = "approved"
       /\ \A t \in Stages : r.stage < t => r.gates[t].status = "locked"
  /\ r.pc = "open_publish_review" => r.gates[PublishReview].status = "ready"
  /\ r.pc \in AtWork => r.gates[r.stage].status = "running"

OrderInv ==
  /\ TypeInv
  /\ GateOrder
  /\ \A w \in Workers : PlanOrdered(req[w])

(* A gate that is open and not approved may change to any other open status. *)
LEMMA OpenGateMoves ==
  ASSUME NEW g \in Gates, NEW s \in Stages, NEW status \in Statuses, Ordered(g),
         g[s].status \notin {"locked", "approved"}, status # "locked"
  PROVE  /\ Ordered(SetStatus(g, s, status))
         /\ SetStatus(g, s, status)[s].status = status
         /\ \A t \in Stages : s < t => SetStatus(g, s, status)[t].status = "locked"
<1> DEFINE h == SetStatus(g, s, status)
<1>1. h[s].status = status /\ \A t \in Stages \ {s} : h[t] = g[t]
  BY DEF SetStatus, Gates
<1>2. \A t \in Stages : s < t => g[t].status = "locked"
  BY DEF Ordered
<1>3. \A t \in Stages : s < t => h[t].status = "locked"
  BY <1>1, <1>2, StageFacts
<1>4. Ordered(h)
  BY <1>1, <1>2, <1>3, StageFacts DEF Ordered
<1> QED  BY <1>1, <1>3, <1>4

(* The gate after the last approved one may be opened. *)
LEMMA NextGateOpens ==
  ASSUME NEW g \in Gates, NEW s \in Stages, s # Optimization, Ordered(g),
         g[s].status = "approved",
         \A t \in Stages : s < t => g[t].status = "locked"
  PROVE  /\ Ordered(SetStatus(g, s + 1, "ready"))
         /\ SetStatus(g, s + 1, "ready")[s + 1].status = "ready"
<1> DEFINE h == SetStatus(g, s + 1, "ready")
<1>1. s + 1 \in Stages
  BY StageFacts
<1>2. h[s + 1].status = "ready" /\ \A t \in Stages \ {s + 1} : h[t] = g[t]
  BY <1>1 DEF SetStatus, Gates
<1>3. \A t \in Stages : t < s => g[t].status = "approved"
  BY DEF Ordered
<1>4. \A t \in Stages : t < s + 1 => h[t].status = "approved"
  BY <1>2, <1>3, StageFacts
<1>5. \A t \in Stages : s + 1 < t => h[t].status = "locked"
  BY <1>2, StageFacts
<1>6. Ordered(h)
  BY <1>1, <1>4, <1>5, StageFacts DEF Ordered
<1> QED  BY <1>2, <1>6

(* A verdict on a gate under review: approved, it is the last open one;     *)
(* rejected, everything after it is locked.                                 *)
LEMMA VerdictKeepsOrder ==
  ASSUME NEW g \in Gates, NEW s \in Stages, NEW d \in {"approved", "rejected"},
         Ordered(g), g[s].status \in {"pending_review", "revision_required"}
  PROVE  /\ Ordered(Decided(g, s, d))
         /\ d = "approved" =>
              /\ Decided(g, s, d)[s].status = "approved"
              /\ \A t \in Stages : s < t => Decided(g, s, d)[t].status = "locked"
<1>1. CASE d = "approved"
  BY <1>1, OpenGateMoves DEF Decided, Statuses
<1>2. CASE d = "rejected"
  <2> DEFINE h == Decided(g, s, d)
  <2>1. /\ \A t \in Stages : t < s => h[t] = g[t]
        /\ h[s].status = "revision_required"
        /\ \A t \in Stages : s < t => h[t].status = "locked"
    BY <1>2, StageFacts DEF Decided, SendBack
  <2>2. \A t \in Stages : t < s => g[t].status = "approved"
    BY DEF Ordered
  <2>3. Ordered(h)
    BY <2>1, <2>2, StageFacts DEF Ordered
  <2> QED  BY <1>2, <2>3
<1> QED  BY <1>1, <1>2

(* A request that changes its locals leaves every plan ordered if its own    *)
(* new one is.                                                               *)
LEMMA BecomeOrdered ==
  ASSUME OrderInv, NEW w \in Workers, NEW r, Become(w, r), PlanOrdered(r)
  PROVE  \A v \in Workers : PlanOrdered(req'[v])
<1>1. req \in [Workers -> Requests]  BY DEF OrderInv, TypeInv, TypeOK
<1>2. req'[w] = r /\ \A v \in Workers \ {w} : req'[v] = req[v]
  BY <1>1 DEF Become
<1> QED  BY <1>2 DEF OrderInv

(* Nothing is out of order in an idle request or in gates just made. *)
LEMMA IdleOrdered == PlanOrdered(IdleRequest) /\ Ordered(NoGates) /\ Ordered(InitialGates)
<1>1. Ordered(NoGates)
  BY DEF Ordered, NoGates
<1>2. Ordered(InitialGates)
  BY StageFacts DEF Ordered, InitialGates
<1> QED
  BY <1>1, <1>2
  DEF PlanOrdered, IdleRequest, BeforeVerdict, AfterApproval, AtWork

(* In the first state nothing is out of order. *)
LEMMA OrderInit == Init => OrderInv
<1> SUFFICES ASSUME Init PROVE OrderInv
  OBVIOUS
<1>1. \A w \in Workers : req[w] = IdleRequest
  BY DEF Init
<1> QED  BY <1>1, TypeInit, IdleOrdered DEF Init, OrderInv, GateOrder

(* A step that leaves the stage file alone, or replaces it by an ordered    *)
(* copy, and leaves its request ordered keeps the invariant.                *)
LEMMA OrderKept ==
  ASSUME OrderInv, TypeInv', NEW w \in Workers, NEW r, Become(w, r), PlanOrdered(r),
         gates' = gates \/ Ordered(gates')
  PROVE  OrderInv'
<1>1. \A v \in Workers : PlanOrdered(req'[v])
  BY BecomeOrdered
<1>2. Ordered(gates')
  BY DEF OrderInv, GateOrder
<1> QED  BY <1>1, <1>2 DEF OrderInv, GateOrder, PlanOrdered

(* Reviewing a stage keeps the gates in order. *)
LEMMA OrderReview ==
  ASSUME OrderInv, TypeInv', NEW w \in Workers, Review(w)
  PROVE  OrderInv'
<1> DEFINE r == req[w]
<1>0. /\ r \in Requests /\ r.stage \in Stages /\ r.gates \in Gates
      /\ r.decision \in {"approved", "rejected"}
      /\ Underway(r) /\ PlanOrdered(r)
  BY RequestFields DEF OrderInv
<1> USE DEF BeforeVerdict, AfterApproval, AtWork
<1>1. CASE ReadLog(w)
  <2> DEFINE q == [r EXCEPT !.pc = "truncate_log", !.log = gateLog]
  <2>1. PlanOrdered(q)  BY <1>0, <1>1 DEF PlanOrdered, Requests, ReadLog, At
  <2>2. Become(w, q) \/ Return(w)  BY <1>1 DEF ReadLog
  <2> HIDE DEF q
  <2> QED  BY <1>1, <2>1, <2>2, IdleOrdered, OrderKept DEF ReadLog, Return, gateVars
<1>2. CASE TruncateLog(w)
  <2>1. PlanOrdered([r EXCEPT !.pc = "write_log"])
    BY <1>0, <1>2 DEF PlanOrdered, Requests, TruncateLog, At
  <2> QED  BY <1>2, <2>1, OrderKept DEF TruncateLog, Goto
<1>3. CASE WriteLog(w)
  <2> DEFINE h == Decided(r.gates, r.stage, r.decision)
             q == [r EXCEPT !.pc = AfterVerdict(r.stage, r.decision),
                            !.gates = h, !.log = {}]
  <2>1. /\ Ordered(h)
        /\ r.decision = "approved" =>
             /\ h[r.stage].status = "approved"
             /\ \A t \in Stages : r.stage < t => h[t].status = "locked"
    BY <1>0, <1>3, VerdictKeepsOrder DEF PlanOrdered, WriteLog, At
  <2>2. /\ q.pc = AfterVerdict(r.stage, r.decision)
        /\ q.stage = r.stage /\ q.gates = h
    BY <1>0 DEF Requests
  <2>3. AfterVerdict(r.stage, r.decision)
          \in IF r.decision = "rejected" THEN {"save_rejection"}
              ELSE {"load_payload", "load_final_record", "unlock"}
    BY DEF AfterVerdict
  <2> HIDE DEF h
  <2>4. PlanOrdered(q)
    BY <1>0, <2>1, <2>2, <2>3 DEF PlanOrdered
  <2>5. Become(w, q)  BY <1>3 DEF WriteLog, h
  <2> HIDE DEF q
  <2> QED  BY <1>3, <2>4, <2>5, OrderKept DEF WriteLog
<1>4. CASE SaveRejection(w)
  BY <1>0, <1>4, IdleOrdered, OrderKept DEF SaveRejection, Return, PlanOrdered
<1>5. CASE LoadPayload(w)
  <2> DEFINE q == [r EXCEPT !.pc = "decide", !.payload = latest[Advertisement]]
  <2>1. PlanOrdered(q)  BY <1>0, <1>5 DEF PlanOrdered, Requests, LoadPayload, At
  <2>2. Become(w, q) \/ Return(w)  BY <1>5 DEF LoadPayload
  <2> HIDE DEF q
  <2> QED  BY <1>5, <2>1, <2>2, IdleOrdered, OrderKept DEF LoadPayload, Return, gateVars
<1>6. CASE CheckPublication(w)
  <2>1. PlanOrdered([r EXCEPT !.pc = "record_publication"])
    BY <1>0, <1>6 DEF PlanOrdered, Requests, CheckPublication, At
  <2> QED  BY <1>6, <2>1, IdleOrdered, OrderKept DEF CheckPublication, Return, Goto, gateVars
<1>7. CASE RecordPublication(w)
  <2>1. PlanOrdered([r EXCEPT !.pc = "unlock"])
    BY <1>0, <1>7 DEF PlanOrdered, Requests, RecordPublication, At
  <2> QED  BY <1>7, <2>1, OrderKept DEF RecordPublication, Goto, gateVars
<1>8. CASE Unlock(w)
  <2> DEFINE next == r.stage + 1
             opened == SetStatus(r.gates, next, "ready")
             q1 == [r EXCEPT !.pc = "open_publish_review", !.gates = opened]
             q2 == [IdleRequest EXCEPT !.pc = "load_gates", !.stage = next]
  <2>1. Ordered(opened) /\ opened[next].status = "ready"
    BY <1>0, <1>8, NextGateOpens DEF Unlock, Underway, PlanOrdered, At
  <2>2. next = PublishReview => PlanOrdered(q1)
    BY <1>0, <2>1 DEF PlanOrdered, Requests
  <2>3. q2.pc = "load_gates" /\ q2.gates = NoGates
    BY DEF IdleRequest
  <2>4. PlanOrdered(q2)
    BY <2>3, IdleOrdered DEF PlanOrdered
  <2>5. /\ gates' = opened
        /\ \/ next = PublishReview /\ Become(w, q1)
           \/ Become(w, q2)
    BY <1>8 DEF Unlock
  <2> HIDE DEF q1, q2, opened, next
  <2> QED  BY <2>1, <2>2, <2>4, <2>5, OrderKept
<1>9. CASE OpenPublishReview(w)
  <2>1. Ordered(SetStatus(r.gates, PublishReview, "pending_review"))
    BY <1>0, <1>9, OpenGateMoves, StageFacts
    DEF OpenPublishReview, PlanOrdered, Statuses, At
  <2> QED  BY <1>9, <2>1, IdleOrdered, OrderKept DEF OpenPublishReview, Return
<1>10. CASE LoadFinalRecord(w)
  <2> DEFINE q == [r EXCEPT !.pc = "save_final_record", !.record = record]
  <2>1. PlanOrdered(q)  BY <1>0, <1>10 DEF PlanOrdered, Requests, LoadFinalRecord, At
  <2>2. Become(w, q)  BY <1>10 DEF LoadFinalRecord
  <2> HIDE DEF q
  <2> QED  BY <1>10, <2>1, <2>2, OrderKept DEF LoadFinalRecord, gateVars
<1>11. CASE SaveFinalRecord(w)
  <2>1. PlanOrdered([r EXCEPT !.pc = "save_final_gates"])
    BY <1>0, <1>11 DEF PlanOrdered, Requests, SaveFinalRecord, At
  <2> QED  BY <1>11, <2>1, OrderKept DEF SaveFinalRecord, Goto, gateVars
<1>12. CASE SaveFinalGates(w)
  BY <1>0, <1>12, IdleOrdered, OrderKept DEF SaveFinalGates, Return, PlanOrdered
<1>13. CASE DecidePayload(w)
  <2>1. PlanOrdered([r EXCEPT !.pc = "publish"])
    BY <1>0, <1>13 DEF PlanOrdered, Requests, DecidePayload, At
  <2> QED  BY <1>13, <2>1, OrderKept DEF DecidePayload, Goto, gateVars
<1> QED
  BY <1>1, <1>2, <1>3, <1>4, <1>5, <1>6, <1>7, <1>8, <1>9, <1>10, <1>11, <1>12, <1>13
  DEF Review

(* Executing a stage keeps the gates in order. *)
LEMMA OrderExecute ==
  ASSUME OrderInv, TypeInv', NEW w \in Workers, Execute(w)
  PROVE  OrderInv'
<1> DEFINE r == req[w]
<1>0. /\ r \in Requests /\ r.stage \in Stages /\ r.gates \in Gates
      /\ PlanOrdered(r)
  BY RequestFields DEF OrderInv
<1> USE DEF BeforeVerdict, AfterApproval, AtWork
<1>1. CASE LoadGates(w)
  <2> DEFINE h == SetStatus(gates, r.stage, "running")
             q == [r EXCEPT !.pc = "save_running", !.gates = h]
  <2>1. CASE gates[r.stage].status \in Executable
    <3>1. gates \in Gates /\ Ordered(gates)
      BY DEF OrderInv, GateOrder, TypeInv, TypeOK
    <3>2. Ordered(h) /\ h[r.stage].status = "running"
      BY <1>0, <2>1, <3>1, OpenGateMoves DEF Executable, Statuses
    <3>3. PlanOrdered(q)
      BY <1>0, <3>2 DEF PlanOrdered, Requests
    <3>4. Become(w, q)  BY <1>1, <2>1 DEF LoadGates
    <3> HIDE DEF q
    <3> QED  BY <1>1, <3>3, <3>4, OrderKept DEF LoadGates, gateVars
  <2>2. CASE gates[r.stage].status \notin Executable
    BY <1>1, <2>2, IdleOrdered, OrderKept DEF LoadGates, Return, gateVars
  <2> QED  BY <2>1, <2>2
<1>2. CASE SaveRunning(w)
  <2>1. PlanOrdered([r EXCEPT !.pc = "load_record"])
    BY <1>0, <1>2 DEF PlanOrdered, Requests, SaveRunning, At
  <2> QED  BY <1>0, <1>2, <2>1, OrderKept DEF SaveRunning, Goto, PlanOrdered
<1>3. CASE LoadRecord(w)
  <2> DEFINE q == [r EXCEPT !.pc = "save_record",
                            !.record = [record EXCEPT !.status = "running"]]
  <2>1. PlanOrdered(q)  BY <1>0, <1>3 DEF PlanOrdered, Requests, LoadRecord, At
  <2>2. Become(w, q)  BY <1>3 DEF LoadRecord
  <2> HIDE DEF q
  <2> QED  BY <1>3, <2>1, <2>2, OrderKept DEF LoadRecord, gateVars
<1>4. CASE SaveRecord(w)
  <2>1. PlanOrdered([r EXCEPT !.pc = "payload"])
    BY <1>0, <1>4 DEF PlanOrdered, Requests, SaveRecord, At
  <2> QED  BY <1>4, <2>1, OrderKept DEF SaveRecord, Goto, gateVars
<1>5. ASSUME PayloadSucceeds(w) \/ PayloadFails(w)
      PROVE  OrderInv'
  <2>1. ASSUME NEW g \in {"pending_review", "failed"}, NEW n \in RunStatuses
        PROVE  PlanOrdered(Outcome(r, g, n))
    <3>1. Ordered(SetStatus(r.gates, r.stage, g))
      BY <1>0, <1>5, OpenGateMoves
      DEF PayloadSucceeds, PayloadFails, PlanOrdered, Statuses, At
    <3> QED  BY <1>0, <3>1 DEF Outcome, PlanOrdered, Requests
  <2>2. PICK g \in {"pending_review", "failed"}, n \in RunStatuses :
          Become(w, Outcome(r, g, n))
    BY <1>5 DEF PayloadSucceeds, PayloadFails, RunStatuses
  <2>3. gates' = gates
    BY <1>5 DEF PayloadSucceeds, PayloadFails, gateVars
  <2> QED  BY <2>1, <2>2, <2>3, OrderKept
<1>6. CASE SaveOutcomeGates(w)
  <2>1. PlanOrdered([r EXCEPT !.pc = "save_outcome_record"])
    BY <1>0, <1>6 DEF PlanOrdered, Requests, SaveOutcomeGates, At
  <2> QED  BY <1>0, <1>6, <2>1, OrderKept DEF SaveOutcomeGates, Goto, PlanOrdered
<1>7. CASE SaveOutcomeRecord(w)
  BY <1>7, IdleOrdered, OrderKept DEF SaveOutcomeRecord, Return, gateVars
<1> QED
  BY <1>1, <1>2, <1>3, <1>4, <1>5, <1>6, <1>7 DEF Execute

(* Every step keeps the gates in order. *)
LEMMA OrderStep == OrderInv /\ [Next]_vars => OrderInv'
<1> SUFFICES ASSUME OrderInv, [Next]_vars PROVE OrderInv'
  OBVIOUS
<1>0. TypeInv'
  BY TypeStep DEF OrderInv
<1> USE DEF BeforeVerdict, AfterApproval, AtWork
<1>1. ASSUME NEW w \in Workers, StartRun(w)
      PROVE  OrderInv'
  <2> DEFINE q == [IdleRequest EXCEPT !.pc = "create_gates"]
  <2>1. PlanOrdered(q)  BY IdleOrdered DEF PlanOrdered, IdleRequest
  <2>2. Become(w, q)  BY <1>1 DEF StartRun
  <2> HIDE DEF q
  <2> QED  BY <1>0, <1>1, <2>1, <2>2, OrderKept DEF StartRun, gateVars
<1>2. ASSUME NEW w \in Workers, NEW s \in Stages, NEW d \in {"approved", "rejected"},
             BeginReview(w, s, d)
      PROVE  OrderInv'
  <2> DEFINE q == [IdleRequest EXCEPT !.pc = "read_log", !.stage = s,
                                      !.decision = d, !.gates = gates]
  <2>1. q.pc = "read_log" /\ q.stage = s /\ q.gates = gates
    BY DEF IdleRequest
  <2>2. gates[s].status \in {"pending_review", "revision_required"}
    BY <1>2 DEF BeginReview, Reviewable
  <2>3. PlanOrdered(q)
    BY <2>1, <2>2 DEF PlanOrdered, OrderInv, GateOrder
  <2>4. Become(w, q)  BY <1>2 DEF BeginReview
  <2> HIDE DEF q
  <2> QED  BY <1>0, <1>2, <2>3, <2>4, OrderKept DEF BeginReview, gateVars
<1>3. ASSUME NEW w \in Workers, CreateGates(w)
      PROVE  OrderInv'
  <2> DEFINE q == [IdleRequest EXCEPT !.pc = "load_gates", !.stage = Research]
  <2>1. q.pc = "load_gates" /\ q.gates = NoGates
    BY DEF IdleRequest
  <2>2. PlanOrdered(q)  BY <2>1, IdleOrdered DEF PlanOrdered
  <2>3. Become(w, q)  BY <1>3 DEF CreateGates
  <2> HIDE DEF q
  <2> QED  BY <1>0, <1>3, <2>2, <2>3, IdleOrdered, OrderKept DEF CreateGates
<1>4. CASE Crash
  <2>1. \A w \in Workers : req'[w] = IdleRequest
    BY <1>4 DEF Crash
  <2> QED  BY <1>0, <1>4, <2>1, IdleOrdered
           DEF Crash, OrderInv, GateOrder, gateVars, PlanOrdered
<1>5. CASE UNCHANGED vars
  BY <1>0, <1>5 DEF vars, gateVars, OrderInv, GateOrder, PlanOrdered
<1>6. ASSUME NEW w \in Workers, AccessRaises(w)
      PROVE  OrderInv'
  BY <1>0, <1>6, IdleOrdered, OrderKept DEF AccessRaises, Return, gateVars
<1> QED
  BY <1>0, <1>1, <1>2, <1>3, <1>4, <1>5, <1>6, OrderReview, OrderExecute
  DEF Next, Admit, Serve

(* The gates are in order in every state. *)
LEMMA OrderInvariant == Spec => []OrderInv
  BY OrderInit, OrderStep, PTL DEF Spec

(* Whatever requests overlap, whatever stale copies they write back and     *)
(* wherever the process dies: no gate is open before all earlier ones are    *)
(* approved.                                                                *)
THEOREM GatesStayOrdered == Spec => []GateOrder
<1>1. OrderInv => GateOrder  BY DEF OrderInv
<1> QED  BY <1>1, OrderInvariant, PTL

-----------------------------------------------------------------------------
(* WorkBehindReview.  Shown(g) are the gates that g shows as worked through; *)
(* in every copy they are among the stages with an artifact, of which there  *)
(* only ever come to be more.                                               *)

Worked == {"pending_review", "approved", "revision_required"}
Shown(g) == {s \in Producing : g[s].status \in Worked}
Filled == {s \in Producing : latest[s] # 0}

WorkInv ==
  /\ OrderInv
  /\ Shown(gates) \subseteq Filled
  /\ \A w \in Workers : Shown(req[w].gates) \subseteq Filled

(* Changing one status shows at most that stage's work besides. *)
LEMMA ShownAfter ==
  ASSUME NEW g \in Gates, NEW s \in Stages, NEW status \in Statuses
  PROVE  Shown(SetStatus(g, s, status))
           \subseteq Shown(g) \union (IF status \in Worked THEN {s} ELSE {})
<1>1. \A t \in Stages \ {s} : SetStatus(g, s, status)[t] = g[t]
  BY DEF SetStatus, Gates
<1>2. SetStatus(g, s, status)[s].status = status
  BY DEF SetStatus, Gates
<1> QED  BY <1>1, <1>2, StageFacts DEF Shown

(* A verdict shows no work that was not shown before. *)
LEMMA ShownAfterVerdict ==
  ASSUME NEW g \in Gates, NEW s \in Stages, NEW d \in {"approved", "rejected"},
         g[s].status \in {"pending_review", "revision_required"}
  PROVE  Shown(Decided(g, s, d)) \subseteq Shown(g)
<1>1. s \in Producing => s \in Shown(g)
  BY DEF Shown, Worked
<1>2. CASE d = "approved"
  <2>1. Shown(Decided(g, s, d)) \subseteq Shown(g) \union {s}
    BY <1>2, ShownAfter DEF Decided, Statuses, Worked
  <2> QED  BY <1>1, <2>1 DEF Shown
<1>3. CASE d = "rejected"
  <2>1. \A t \in Stages : t < s => Decided(g, s, d)[t] = g[t]
    BY <1>3 DEF Decided, SendBack
  <2>2. \A t \in Stages : s < t => Decided(g, s, d)[t].status = "locked"
    BY <1>3, StageFacts DEF Decided, SendBack
  <2>3. ASSUME NEW t \in Shown(Decided(g, s, d))
        PROVE  t \in Shown(g)
    <3>1. t \in Producing /\ t \in Stages /\ Decided(g, s, d)[t].status # "locked"
      BY StageFacts DEF Shown, Worked
    <3>2. ~(s < t)
      BY <2>2, <3>1
    <3>3. t < s \/ t = s
      BY <3>1, <3>2, StageFacts
    <3> QED  BY <1>1, <2>1, <3>1, <3>3 DEF Shown
  <2> QED  BY <2>3
<1> QED  BY <1>2, <1>3

(* Gates just made show no work. *)
LEMMA NothingShown == Shown(NoGates) = {} /\ Shown(InitialGates) = {}
<1>1. Input \notin Producing
  BY DEF Producing
<1> QED  BY <1>1, StageFacts DEF Shown, NoGates, InitialGates, Worked

(* A step keeps the invariant if artifacts stay and the two copies it writes *)
(* show no stage without one.                                               *)
LEMMA WorkKept ==
  ASSUME WorkInv, OrderInv', NEW w \in Workers, NEW r, Become(w, r),
         Filled \subseteq Filled',
         Shown(r.gates) \subseteq Filled',
         gates' = gates \/ Shown(gates') \subseteq Filled'
  PROVE  WorkInv'
<1>1. req \in [Workers -> Requests]  BY DEF WorkInv, OrderInv, TypeInv, TypeOK
<1>2. req'[w] = r /\ \A v \in Workers \ {w} : req'[v] = req[v]
  BY <1>1 DEF Become
<1>3. \A v \in Workers : Shown(req'[v].gates) \subseteq Filled'
  BY <1>2 DEF WorkInv
<1>4. Shown(gates') \subseteq Filled'
  BY DEF WorkInv
<1> QED  BY <1>3, <1>4 DEF WorkInv, Shown

(* Executing a stage shows its work only after it is on file. *)
LEMMA WorkExecute ==
  ASSUME WorkInv, OrderInv', NEW w \in Workers, Execute(w)
  PROVE  WorkInv'
<1> DEFINE r == req[w]
<1>0. /\ r \in Requests /\ r.stage \in Stages /\ r.gates \in Gates
      /\ r.gates[r.stage].version \in Versions
      /\ Shown(r.gates) \subseteq Filled
  BY RequestFields DEF WorkInv, OrderInv, Gates
<1>1. latest \in [Producing -> Nat] /\ gates \in Gates
  BY DEF WorkInv, OrderInv, TypeInv, TypeOK, FilesTypeOK
<1>2. latest' = latest => Filled' = Filled
  BY DEF Filled
<1>3. ASSUME PayloadSucceeds(w) \/ PayloadFails(w)
      PROVE  WorkInv'
  <2> DEFINE filling == AppendArtifact(r.stage, r.gates[r.stage].version)
  <2>1. filling => Filled \subseteq Filled' /\ ({r.stage} \cap Producing) \subseteq Filled'
    BY <1>0, <1>1 DEF AppendArtifact, Filled, Versions
  <2>2. Filled \subseteq Filled' /\ gates' = gates
    BY <1>2, <1>3, <2>1 DEF PayloadSucceeds, PayloadFails, gateVars
  <2>3. PICK g \in {"pending_review", "failed"}, n \in RunStatuses :
          Become(w, Outcome(r, g, n)) /\ (g = "pending_review" => filling)
    BY <1>3 DEF PayloadSucceeds, PayloadFails, RunStatuses
  <2>4. Outcome(r, g, n).gates = SetStatus(r.gates, r.stage, g)
    BY <1>0 DEF Outcome, Requests
  <2>5. Shown(SetStatus(r.gates, r.stage, g))
          \subseteq Shown(r.gates) \union (IF g = "pending_review" THEN {r.stage} ELSE {})
    BY <1>0, ShownAfter DEF Statuses, Worked
  <2>6. Shown(SetStatus(r.gates, r.stage, g)) \subseteq Filled'
    BY <1>0, <2>1, <2>2, <2>3, <2>5 DEF Shown
  <2> QED  BY <2>2, <2>3, <2>4, <2>6, WorkKept
<1>4. CASE LoadGates(w)
  <2> DEFINE h == SetStatus(gates, r.stage, "running")
             q == [r EXCEPT !.pc = "save_running", !.gates = h]
  <2>1. Shown(h) \subseteq Filled
    BY <1>0, <1>1, ShownAfter DEF WorkInv, Statuses, Worked
  <2>2. q.gates = h  BY <1>0 DEF Requests
  <2>3. Become(w, q) \/ Become(w, IdleRequest)  BY <1>4 DEF LoadGates, Return
  <2>4. gates' = gates /\ Filled' = Filled
    BY <1>2, <1>4 DEF LoadGates, fileVars, gateVars
  <2>5. IdleRequest.gates = NoGates  BY DEF IdleRequest
  <2> HIDE DEF q, h
  <2> QED  BY <2>1, <2>2, <2>3, <2>4, <2>5, NothingShown, WorkKept
<1>5. ASSUME NEW pc, Goto(w, pc), gates' = gates \/ gates' = r.gates, latest' = latest
      PROVE  WorkInv'
  <2> DEFINE q == [r EXCEPT !.pc = pc]
  <2>1. q.gates = r.gates  BY <1>0 DEF Requests
  <2>2. Become(w, q)  BY <1>5 DEF Goto
  <2> HIDE DEF q
  <2>3. Shown(q.gates) \subseteq Filled'  BY <1>0, <1>2, <1>5, <2>1
  <2>4. gates' = gates \/ Shown(gates') \subseteq Filled'  BY <1>0, <1>2, <1>5
  <2> QED  BY <1>2, <1>5, <2>2, <2>3, <2>4, WorkKept
<1>6. CASE SaveRunning(w) \/ SaveRecord(w) \/ SaveOutcomeGates(w)
  BY <1>5, <1>6 DEF SaveRunning, SaveRecord, SaveOutcomeGates, fileVars, gateVars
<1>7. CASE LoadRecord(w)
  <2> DEFINE q == [r EXCEPT !.pc = "save_record",
                            !.record = [record EXCEPT !.status = "running"]]
  <2>1. q.gates = r.gates  BY <1>0 DEF Requests
  <2>2. Become(w, q) /\ gates' = gates /\ latest' = latest
    BY <1>7 DEF LoadRecord, fileVars, gateVars
  <2> HIDE DEF q
  <2> QED  BY <1>0, <1>2, <2>1, <2>2, WorkKept
<1>8. CASE SaveOutcomeRecord(w)
  <2>1. IdleRequest.gates = NoGates  BY DEF IdleRequest
  <2> QED  BY <1>2, <1>8, <2>1, NothingShown, WorkKept
           DEF SaveOutcomeRecord, Return, gateVars
<1> QED  BY <1>3, <1>4, <1>6, <1>7, <1>8 DEF Execute

(* Reviewing a stage shows no work that is not on file. *)
LEMMA WorkReview ==
  ASSUME WorkInv, OrderInv', NEW w \in Workers, Review(w)
  PROVE  WorkInv'
<1> DEFINE r == req[w]
<1>0. /\ r \in Requests /\ r.stage \in Stages /\ r.gates \in Gates
      /\ r.decision \in {"approved", "rejected"}
      /\ Underway(r) /\ PlanOrdered(r)
      /\ Shown(r.gates) \subseteq Filled
  BY RequestFields DEF WorkInv, OrderInv
<1>1. latest' = latest
  BY DEF Review, ReadLog, TruncateLog, WriteLog, SaveRejection, LoadPayload,
         DecidePayload, CheckPublication, RecordPublication, Unlock, OpenPublishReview,
         LoadFinalRecord, SaveFinalRecord, SaveFinalGates, fileVars
<1>2. Filled' = Filled
  BY <1>1 DEF Filled
<1>3. ASSUME NEW q, Become(w, q), Shown(q.gates) \subseteq Shown(r.gates),
             gates' = gates \/ Shown(gates') \subseteq Shown(r.gates)
      PROVE  WorkInv'
  BY <1>0, <1>2, <1>3, WorkKept
<1>4. ASSUME NEW pc, Goto(w, pc), gates' = gates
      PROVE  WorkInv'
  <2>1. [r EXCEPT !.pc = pc].gates = r.gates  BY <1>0 DEF Requests
  <2> QED  BY <1>3, <1>4, <2>1 DEF Goto
<1>5. ASSUME Return(w), gates' = gates \/ Shown(gates') \subseteq Shown(r.gates)
      PROVE  WorkInv'
  <2>1. IdleRequest.gates = NoGates  BY DEF IdleRequest
  <2> QED  BY <1>3, <1>5, <2>1, NothingShown DEF Return
<1>6. CASE ReadLog(w)
  <2> DEFINE q == [r EXCEPT !.pc = "truncate_log", !.log = gateLog]
  <2>1. q.gates = r.gates  BY <1>0 DEF Requests
  <2>2. gates' = gates /\ (Become(w, q) \/ Return(w))  BY <1>6 DEF ReadLog, gateVars
  <2> HIDE DEF q
  <2> QED  BY <1>3, <1>5, <2>1, <2>2
<1>7. CASE TruncateLog(w) \/ DecidePayload(w) \/ RecordPublication(w) \/ SaveFinalRecord(w)
  BY <1>4, <1>7 DEF TruncateLog, DecidePayload, RecordPublication, SaveFinalRecord, gateVars
<1>8. CASE WriteLog(w)
  <2> DEFINE h == Decided(r.gates, r.stage, r.decision)
             q == [r EXCEPT !.pc = AfterVerdict(r.stage, r.decision),
                            !.gates = h, !.log = {}]
  <2>1. Shown(h) \subseteq Shown(r.gates)
    BY <1>0, <1>8, ShownAfterVerdict DEF PlanOrdered, BeforeVerdict, WriteLog, At
  <2>2. q.gates = h  BY <1>0 DEF Requests
  <2>3. Become(w, q) /\ gates' = gates  BY <1>8 DEF WriteLog
  <2> HIDE DEF q, h
  <2> QED  BY <1>3, <2>1, <2>2, <2>3
<1>9. CASE SaveRejection(w) \/ SaveFinalGates(w)
  <2>1. gates' = r.gates /\ Return(w)  BY <1>9 DEF SaveRejection, SaveFinalGates
  <2>2. Shown(gates') \subseteq Shown(r.gates)  BY <2>1
  <2> QED  BY <1>5, <2>1, <2>2
<1>10. CASE LoadPayload(w)
  <2> DEFINE q == [r EXCEPT !.pc = "decide", !.payload = latest[Advertisement]]
  <2>1. q.gates = r.gates  BY <1>0 DEF Requests
  <2>2. gates' = gates /\ (Become(w, q) \/ Return(w))
    BY <1>10 DEF LoadPayload, gateVars
  <2> HIDE DEF q
  <2> QED  BY <1>3, <1>5, <2>1, <2>2
<1>11. CASE CheckPublication(w)
  BY <1>4, <1>5, <1>11 DEF CheckPublication, gateVars
<1>12. CASE Unlock(w)
  <2> DEFINE next == r.stage + 1
             opened == SetStatus(r.gates, next, "ready")
             q1 == [r EXCEPT !.pc = "open_publish_review", !.gates = opened]
             q2 == [IdleRequest EXCEPT !.pc = "load_gates", !.stage = next]
  <2>1. next \in Stages
    BY <1>0, <1>12, StageFacts DEF Unlock, Underway, At
  <2>2. Shown(opened) \subseteq Shown(r.gates)
    BY <1>0, <2>1, ShownAfter DEF Statuses, Worked
  <2>3. q1.gates = opened /\ q2.gates = NoGates
    BY <1>0 DEF Requests, IdleRequest
  <2>4. gates' = opened /\ (Become(w, q1) \/ Become(w, q2))
    BY <1>12 DEF Unlock
  <2> HIDE DEF q1, q2, opened
  <2>5. Shown(gates') \subseteq Shown(r.gates)  BY <2>2, <2>4
  <2> QED  BY <1>3, <2>2, <2>3, <2>4, <2>5, NothingShown
<1>13. CASE OpenPublishReview(w)
  <2> DEFINE h == SetStatus(r.gates, PublishReview, "pending_review")
  <2>1. Shown(h) \subseteq Shown(r.gates) \union {PublishReview}
    BY <1>0, ShownAfter, StageFacts DEF Statuses, Worked
  <2>2. Shown(h) \subseteq Shown(r.gates)
    BY <2>1, StageFacts DEF Shown
  <2>3. gates' = h /\ Return(w)  BY <1>13 DEF OpenPublishReview
  <2> HIDE DEF h
  <2>4. Shown(gates') \subseteq Shown(r.gates)  BY <2>2, <2>3
  <2> QED  BY <1>5, <2>3, <2>4
<1>14. CASE LoadFinalRecord(w)
  <2> DEFINE q == [r EXCEPT !.pc = "save_final_record", !.record = record]
  <2>1. q.gates = r.gates  BY <1>0 DEF Requests
  <2>2. gates' = gates /\ Become(w, q)  BY <1>14 DEF LoadFinalRecord, gateVars
  <2> HIDE DEF q
  <2> QED  BY <1>3, <2>1, <2>2
<1> QED
  BY <1>6, <1>7, <1>8, <1>9, <1>10, <1>11, <1>12, <1>13, <1>14 DEF Review

(* No step shows work that is not on file. *)
LEMMA WorkStep == WorkInv /\ [Next]_vars => WorkInv'
<1> SUFFICES ASSUME WorkInv, [Next]_vars PROVE WorkInv'
  OBVIOUS
<1>0. OrderInv'
  BY OrderStep DEF WorkInv
<1>1. latest' = latest => Filled' = Filled
  BY DEF Filled
<1>2. ASSUME NEW w \in Workers, StartRun(w)
      PROVE  WorkInv'
  <2> DEFINE q == [IdleRequest EXCEPT !.pc = "create_gates"]
  <2>1. q.gates = NoGates  BY DEF IdleRequest
  <2>2. Become(w, q) /\ gates' = gates /\ latest' = latest
    BY <1>2 DEF StartRun, gateVars
  <2> HIDE DEF q
  <2> QED  BY <1>0, <1>1, <2>1, <2>2, NothingShown, WorkKept
<1>3. ASSUME NEW w \in Workers, NEW s \in Stages, NEW d \in {"approved", "rejected"},
             BeginReview(w, s, d)
      PROVE  WorkInv'
  <2> DEFINE q == [IdleRequest EXCEPT !.pc = "read_log", !.stage = s,
                                      !.decision = d, !.gates = gates]
  <2>1. q.gates = gates  BY DEF IdleRequest
  <2>2. Become(w, q) /\ gates' = gates /\ latest' = latest
    BY <1>3 DEF BeginReview, fileVars, gateVars
  <2> HIDE DEF q
  <2>3. Shown(q.gates) \subseteq Filled  BY <2>1 DEF WorkInv
  <2> QED  BY <1>0, <1>1, <2>2, <2>3, WorkKept
<1>4. ASSUME NEW w \in Workers, CreateGates(w)
      PROVE  WorkInv'
  <2> DEFINE q == [IdleRequest EXCEPT !.pc = "load_gates", !.stage = Research]
  <2>1. q.gates = NoGates  BY DEF IdleRequest
  <2>2. Become(w, q) /\ gates' = InitialGates /\ latest' = latest
    BY <1>4 DEF CreateGates, fileVars
  <2> HIDE DEF q
  <2>3. Shown(gates') \subseteq Filled  BY <2>2, NothingShown
  <2> QED  BY <1>0, <1>1, <2>1, <2>2, <2>3, NothingShown, WorkKept
<1>5. CASE Crash
  <2>1. \A w \in Workers : req'[w].gates = NoGates
    BY <1>5 DEF Crash, IdleRequest
  <2>2. gates' = gates /\ latest' = latest
    BY <1>5 DEF Crash, gateVars
  <2> QED  BY <1>0, <1>1, <2>1, <2>2, NothingShown DEF WorkInv, Shown
<1>6. CASE UNCHANGED vars
  BY <1>0, <1>1, <1>6 DEF vars, fileVars, gateVars, WorkInv, Shown
<1>7. ASSUME NEW w \in Workers, AccessRaises(w)
      PROVE  WorkInv'
  <2>1. IdleRequest.gates = NoGates  BY DEF IdleRequest
  <2>2. Become(w, IdleRequest) /\ gates' = gates /\ latest' = latest
    BY <1>7 DEF AccessRaises, Return, fileVars, gateVars
  <2> QED  BY <1>0, <1>1, <2>1, <2>2, NothingShown, WorkKept
<1> QED
  BY <1>0, <1>2, <1>3, <1>4, <1>5, <1>6, <1>7, WorkReview, WorkExecute
  DEF Next, Admit, Serve

(* In every state the work a gate shows is on file. *)
LEMMA WorkInvariant == Spec => []WorkInv
<1>1. Init => WorkInv
  <2>1. Init => \A w \in Workers : req[w].gates = NoGates
    BY DEF Init, IdleRequest
  <2>2. Init => gates = NoGates  BY DEF Init
  <2> QED  BY <2>1, <2>2, OrderInit, NothingShown DEF WorkInv
<1> QED  BY <1>1, WorkStep, PTL DEF Spec

(* Nothing is put up for review, approved or sent back without an artifact, *)
(* under any interleaving: approve of publish_review finds its payload.     *)
THEOREM ReviewedWorkExists == Spec => []WorkBehindReview
<1>1. WorkInv => WorkBehindReview
  BY DEF WorkInv, WorkBehindReview, Shown, Filled, Worked
<1> QED  BY <1>1, WorkInvariant, PTL

(***************************************************************************)
(* What holds of the stage gates when clients wait for each answer: the    *)
(* request that is served has the stage file to itself, so what it read is *)
(* what is there when it writes.  Every invariant is about overlaps = 0;   *)
(* the number of workers, the versions and the crashes are arbitrary.      *)
(***************************************************************************)

-----------------------------------------------------------------------------
(* What a step leaves in the hands of its request.                           *)

(* A thread that changes its request leaves the others alone.               *)
LEMMA BecomeFields ==
  ASSUME TypeInv, NEW w \in Workers, NEW r, Become(w, r)
  PROVE  req'[w] = r /\ \A v \in Workers \ {w} : req'[v] = req[v]
  BY DEF TypeInv, TypeOK, Become

(* A request goes on to another step with these copies. *)
GoesOn(w, pc, g, log, payload, rec) ==
  /\ req'[w].pc = pc
  /\ req'[w].stage = req[w].stage /\ req'[w].decision = req[w].decision
  /\ req'[w].gates = g /\ req'[w].log = log
  /\ req'[w].payload = payload /\ req'[w].record = rec
  /\ \A v \in Workers \ {w} : req'[v] = req[v]

(* What the record of a request is after each kind of step.                 *)
LEMMA GotoFields ==
  ASSUME TypeInv, NEW w \in Workers, NEW pc, Goto(w, pc)
  PROVE  GoesOn(w, pc, req[w].gates, req[w].log, req[w].payload, req[w].record)
  BY BecomeFields, RequestFields DEF Goto, GoesOn, Requests

(* A request that ends leaves the others alone.                             *)
LEMMA ReturnFields ==
  ASSUME TypeInv, NEW w \in Workers, Return(w)
  PROVE  req'[w].pc = "idle" /\ \A v \in Workers \ {w} : req'[v] = req[v]
  BY BecomeFields DEF Return, IdleRequest

(* The log that was read is kept beside the gates.                          *)
LEMMA ReadLogFields ==
  ASSUME TypeInv, NEW w \in Workers, ReadLog(w), ~logTorn
  PROVE  GoesOn(w, "truncate_log", req[w].gates, gateLog, req[w].payload, req[w].record)
<1> DEFINE q == [req[w] EXCEPT !.pc = "truncate_log", !.log = gateLog]
<1>1. /\ q.pc = "truncate_log" /\ q.stage = req[w].stage /\ q.decision = req[w].decision
      /\ q.gates = req[w].gates /\ q.log = gateLog /\ q.payload = req[w].payload
      /\ q.record = req[w].record
  BY RequestFields DEF Requests
<1>2. Become(w, q)  BY DEF ReadLog
<1> HIDE DEF q
<1> QED  BY <1>1, <1>2, BecomeFields DEF GoesOn

(* After its line is written, a verdict is applied to the copy of the       *)
(* gates.                                                                   *)
LEMMA WriteLogFields ==
  ASSUME TypeInv, NEW w \in Workers, WriteLog(w)
  PROVE  GoesOn(w, AfterVerdict(req[w].stage, req[w].decision),
                Decided(req[w].gates, req[w].stage, req[w].decision), {},
                req[w].payload, req[w].record)
<1> DEFINE pc == AfterVerdict(req[w].stage, req[w].decision)
           g == Decided(req[w].gates, req[w].stage, req[w].decision)
           q == [req[w] EXCEPT !.pc = pc, !.gates = g, !.log = {}]
<1>1. Become(w, q)  BY DEF WriteLog
<1> HIDE DEF pc, g
<1>2. /\ q.pc = pc /\ q.stage = req[w].stage /\ q.decision = req[w].decision
      /\ q.gates = g /\ q.log = {} /\ q.payload = req[w].payload
      /\ q.record = req[w].record
  BY RequestFields DEF Requests
<1> HIDE DEF q
<1>3. GoesOn(w, pc, g, {}, req[w].payload, req[w].record)
  BY <1>1, <1>2, BecomeFields DEF GoesOn
<1> QED  BY <1>3 DEF pc, g

(* The newest advertisement is what is decided.                             *)
LEMMA LoadPayloadFields ==
  ASSUME TypeInv, NEW w \in Workers, LoadPayload(w), latest[Advertisement] # 0
  PROVE  GoesOn(w, "decide", req[w].gates, req[w].log, latest[Advertisement], req[w].record)
<1> DEFINE q == [req[w] EXCEPT !.pc = "decide", !.payload = latest[Advertisement]]
<1>1. /\ q.pc = "decide" /\ q.stage = req[w].stage /\ q.decision = req[w].decision
      /\ q.gates = req[w].gates /\ q.log = req[w].log
      /\ q.payload = latest[Advertisement] /\ q.record = req[w].record
  BY RequestFields DEF Requests
<1>2. Become(w, q)  BY DEF LoadPayload
<1> HIDE DEF q
<1> QED  BY <1>1, <1>2, BecomeFields DEF GoesOn

(* The next stage is opened, and executed unless it is the review before    *)
(* publication.                                                             *)
LEMMA UnlockFields ==
  ASSUME TypeInv, NEW w \in Workers, Unlock(w)
  PROVE  LET next == req[w].stage + 1
             opened == SetStatus(req[w].gates, next, "ready")
         IN  /\ next = PublishReview =>
                  GoesOn(w, "open_publish_review", opened, req[w].log,
                         req[w].payload, req[w].record)
             /\ next # PublishReview =>
                  /\ req'[w].pc = "load_gates" /\ req'[w].stage = next
                  /\ \A v \in Workers \ {w} : req'[v] = req[v]
<1> DEFINE next == req[w].stage + 1
           opened == SetStatus(req[w].gates, next, "ready")
           q1 == [req[w] EXCEPT !.pc = "open_publish_review", !.gates = opened]
           q2 == [IdleRequest EXCEPT !.pc = "load_gates", !.stage = next]
<1>1. /\ next = PublishReview => Become(w, q1)
      /\ next # PublishReview => Become(w, q2)
  BY DEF Unlock
<1> HIDE DEF opened, next
<1>2. /\ q1.pc = "open_publish_review" /\ q1.stage = req[w].stage
      /\ q1.decision = req[w].decision /\ q1.gates = opened /\ q1.log = req[w].log
      /\ q1.payload = req[w].payload /\ q1.record = req[w].record
  BY RequestFields DEF Requests
<1>3. q2.pc = "load_gates" /\ q2.stage = next
  BY DEF IdleRequest
<1> HIDE DEF q1, q2
<1>4. next = PublishReview =>
        GoesOn(w, "open_publish_review", opened, req[w].log, req[w].payload, req[w].record)
  BY <1>1, <1>2, BecomeFields DEF GoesOn
<1>5. next # PublishReview =>
        /\ req'[w].pc = "load_gates" /\ req'[w].stage = next
        /\ \A v \in Workers \ {w} : req'[v] = req[v]
  BY <1>1, <1>3, BecomeFields
<1> QED  BY <1>4, <1>5 DEF opened, next

(* An execution sets its stage running in the copy it read.                 *)
LEMMA LoadGatesFields ==
  ASSUME TypeInv, NEW w \in Workers, LoadGates(w), gates[req[w].stage].status \in Executable
  PROVE  GoesOn(w, "save_running", SetStatus(gates, req[w].stage, "running"), req[w].log,
                req[w].payload, req[w].record)
<1> DEFINE g == SetStatus(gates, req[w].stage, "running")
           q == [req[w] EXCEPT !.pc = "save_running", !.gates = g]
<1>1. Become(w, q)  BY DEF LoadGates
<1> HIDE DEF g
<1>2. /\ q.pc = "save_running" /\ q.stage = req[w].stage /\ q.decision = req[w].decision
      /\ q.gates = g /\ q.log = req[w].log /\ q.payload = req[w].payload
      /\ q.record = req[w].record
  BY RequestFields DEF Requests
<1> HIDE DEF q
<1>3. GoesOn(w, "save_running", g, req[w].log, req[w].payload, req[w].record)
  BY <1>1, <1>2, BecomeFields DEF GoesOn
<1> QED  BY <1>3 DEF g

(* The last approval reads the record.                                      *)
LEMMA LoadFinalRecordFields ==
  ASSUME TypeInv, NEW w \in Workers, LoadFinalRecord(w)
  PROVE  GoesOn(w, "save_final_record", req[w].gates, req[w].log, req[w].payload, record)
<1> DEFINE q == [req[w] EXCEPT !.pc = "save_final_record", !.record = record]
<1>1. /\ q.pc = "save_final_record" /\ q.stage = req[w].stage
      /\ q.decision = req[w].decision /\ q.gates = req[w].gates /\ q.log = req[w].log
      /\ q.payload = req[w].payload /\ q.record = record
  BY RequestFields DEF Requests
<1>2. Become(w, q)  BY DEF LoadFinalRecord
<1> HIDE DEF q
<1> QED  BY <1>1, <1>2, BecomeFields DEF GoesOn

(* An execution sets the record running in its copy.                        *)
LEMMA LoadRecordFields ==
  ASSUME TypeInv, NEW w \in Workers, LoadRecord(w)
  PROVE  GoesOn(w, "save_record", req[w].gates, req[w].log, req[w].payload,
                [record EXCEPT !.status = "running"])
<1> DEFINE rec == [record EXCEPT !.status = "running"]
           q == [req[w] EXCEPT !.pc = "save_record", !.record = rec]
<1>1. Become(w, q)  BY DEF LoadRecord
<1> HIDE DEF rec
<1>2. /\ q.pc = "save_record" /\ q.stage = req[w].stage
      /\ q.decision = req[w].decision /\ q.gates = req[w].gates /\ q.log = req[w].log
      /\ q.payload = req[w].payload /\ q.record = rec
  BY RequestFields DEF Requests
<1> HIDE DEF q
<1>3. GoesOn(w, "save_record", req[w].gates, req[w].log, req[w].payload, rec)
  BY <1>1, <1>2, BecomeFields DEF GoesOn
<1> QED  BY <1>3 DEF rec

(* The outcome of a payload is put in both copies.                          *)
LEMMA OutcomeFields ==
  ASSUME TypeInv, NEW w \in Workers, NEW g \in Statuses, NEW n \in RunStatuses,
         Become(w, Outcome(req[w], g, n))
  PROVE  GoesOn(w, "save_outcome_gates", SetStatus(req[w].gates, req[w].stage, g),
                req[w].log, req[w].payload, [req[w].record EXCEPT !.status = n])
<1> DEFINE h == SetStatus(req[w].gates, req[w].stage, g)
           q == Outcome(req[w], g, n)
<1>1. q = [req[w] EXCEPT !.pc = "save_outcome_gates", !.gates = h, !.record.status = n]
  BY DEF Outcome
<1> HIDE DEF h, q
<1>2. /\ q.pc = "save_outcome_gates" /\ q.stage = req[w].stage
      /\ q.decision = req[w].decision /\ q.gates = h /\ q.log = req[w].log
      /\ q.payload = req[w].payload /\ q.record = [req[w].record EXCEPT !.status = n]
  BY <1>1, RequestFields DEF Requests
<1>3. GoesOn(w, "save_outcome_gates", h, req[w].log, req[w].payload,
             [req[w].record EXCEPT !.status = n])
  BY <1>2, BecomeFields DEF GoesOn, q
<1> QED  BY <1>3 DEF h

(* A review begins with a copy of the gates as they are.                    *)
LEMMA BeginReviewFields ==
  ASSUME TypeInv, NEW w \in Workers, NEW s \in Stages, NEW d \in {"approved", "rejected"},
         BeginReview(w, s, d)
  PROVE  /\ req'[w].pc = "read_log" /\ req'[w].stage = s /\ req'[w].decision = d
         /\ req'[w].gates = gates
         /\ \A v \in Workers \ {w} : req'[v] = req[v]
<1> DEFINE q == [IdleRequest EXCEPT !.pc = "read_log", !.stage = s,
                                    !.decision = d, !.gates = gates]
<1>1. q.pc = "read_log" /\ q.stage = s /\ q.decision = d /\ q.gates = gates
  BY DEF IdleRequest
<1>2. Become(w, q)  BY DEF BeginReview
<1> HIDE DEF q
<1> QED  BY <1>1, <1>2, BecomeFields

(* A run starts with its gates, then executes research.                     *)
LEMMA StartFields ==
  ASSUME TypeInv, NEW w \in Workers
  PROVE  /\ StartRun(w) => req'[w].pc = "create_gates"
         /\ CreateGates(w) => req'[w].pc = "load_gates" /\ req'[w].stage = Research
         /\ StartRun(w) \/ CreateGates(w) => \A v \in Workers \ {w} : req'[v] = req[v]
<1> DEFINE q1 == [IdleRequest EXCEPT !.pc = "create_gates"]
           q2 == [IdleRequest EXCEPT !.pc = "load_gates", !.stage = Research]
<1>1. q1.pc = "create_gates" /\ q2.pc = "load_gates" /\ q2.stage = Research
  BY DEF IdleRequest
<1>2. (StartRun(w) => Become(w, q1)) /\ (CreateGates(w) => Become(w, q2))
  BY DEF StartRun, CreateGates
<1> HIDE DEF q1, q2
<1> QED  BY <1>1, <1>2, BecomeFields

-----------------------------------------------------------------------------
(* Alone with the files.  At most one worker is busy, and what it holds is   *)
(* the stage file with its own work on top.                                  *)

OneAtATime == \A v, w \in Workers : v # w => At(v, "idle") \/ At(w, "idle")

Open == {"pending_review", "revision_required"}

(* What a request has in its hands is the stage file with its own work on   *)
(* top, and nothing has happened to the gate it is at.                      *)
InStep(w) ==
  LET r == req[w] IN
  /\ r.pc = "create_gates" => gates = NoGates
  /\ r.pc \notin {"idle", "create_gates"} => r.stage # Input
  /\ r.pc \in BeforeVerdict =>
       r.gates = gates /\ gates[r.stage].status \in Reviewable(r.decision)
  /\ r.pc = "save_rejection" =>
       /\ gates[r.stage].status \in Open
       /\ r.gates = Decided(gates, r.stage, "rejected")
  /\ r.pc \in AfterApproval =>
       /\ gates[r.stage].status = "pending_review"
       /\ r.gates = SetStatus(gates, r.stage, "approved")
  /\ r.pc \in {"load_final_record", "save_final_record", "save_final_gates"} =>
       r.stage = Optimization
  /\ r.pc = "open_publish_review" =>
       r.gates = gates /\ gates[PublishReview].status = "ready"
  /\ r.pc \in {"load_gates", "save_running"} => gates[r.stage].status = "ready"
  /\ r.pc = "save_running" => r.gates = SetStatus(gates, r.stage, "running")
  /\ r.pc \in {"load_record", "save_record", "payload"} =>
       r.gates = gates /\ gates[r.stage].status = "running"
  /\ r.pc = "save_outcome_gates" =>
       /\ gates[r.stage].status = "running"
       /\ r.gates[r.stage].status \in {"pending_review", "failed"}
       /\ r.gates = SetStatus(gates, r.stage, r.gates[r.stage].status)
  /\ r.pc = "save_outcome_record" =>
       r.gates = gates /\ gates[r.stage].status \in {"pending_review", "failed"}

NothingBefore == record.status = "absent" => gates = NoGates /\ AllIdle

RecordShown(w) ==
  LET r == req[w] IN
  /\ r.pc \in {"save_record", "payload"} => r.record.status = "running"
  /\ r.pc \in {"save_outcome_gates", "save_outcome_record"} =>
       r.record.status = IF r.gates[r.stage].status = "failed" THEN "failed" ELSE "waiting_review"

CopiesInStep ==
  /\ OneAtATime
  /\ gates[Input].status \in {"locked", "approved"}
  /\ NothingBefore
  /\ \A w \in Workers : InStep(w) /\ RecordShown(w)

SyncInv == OrderInv /\ (overlaps = 0 => CopiesInStep)

(* SetStatus changes one status and nothing else.                           *)
LEMMA SetStatusIs ==
  ASSUME NEW g \in Gates, NEW s \in Stages, NEW status
  PROVE  /\ SetStatus(g, s, status)[s].status = status
         /\ SetStatus(g, s, status)[s].version = g[s].version
         /\ \A t \in Stages \ {s} : SetStatus(g, s, status)[t] = g[t]
  BY DEF SetStatus, Gates

(* Steps of a review are made by a thread at work.                          *)
LEMMA ReviewSteps ==
  ASSUME NEW w \in Workers, Review(w)
  PROVE  req[w].pc # "idle" /\ overlaps' = overlaps
  BY DEF Review, ReadLog, TruncateLog, WriteLog, SaveRejection, LoadPayload,
         DecidePayload, CheckPublication, RecordPublication, Unlock, OpenPublishReview, LoadFinalRecord,
         SaveFinalRecord, SaveFinalGates, counters, At

(* So are those of an execution.                                            *)
LEMMA ExecuteSteps ==
  ASSUME NEW w \in Workers, Execute(w)
  PROVE  req[w].pc # "idle" /\ overlaps' = overlaps
  BY DEF Execute, LoadGates, SaveRunning, LoadRecord, SaveRecord, PayloadSucceeds,
         PayloadFails, SaveOutcomeGates, SaveOutcomeRecord, counters, At

(* While clients wait, the copy of a review is what is on file, up to what  *)
(* it is about to write.                                                    *)
LEMMA SyncReview ==
  ASSUME TypeInv, CopiesInStep, NEW w \in Workers, Review(w)
  PROVE  /\ \A v \in Workers \ {w} : req'[v] = req[v]
         /\ InStep(w)' /\ RecordShown(w)'
         /\ gates'[Input].status \in {"locked", "approved"}
         /\ record'.status # "absent"
<1> DEFINE r == req[w]
<1> USE DEF At
<1>0. /\ TypeInv /\ InStep(w) /\ NothingBefore
      /\ gates \in Gates /\ gates[Input].status \in {"locked", "approved"}
      /\ r.stage \in Stages /\ r.decision \in {"approved", "rejected"}
      /\ r.gates \in Gates /\ Underway(r)
      /\ record.status # "absent" 
  <2>1. TypeInv /\ InStep(w) /\ NothingBefore /\ gates[Input].status \in {"locked", "approved"}
    BY DEF CopiesInStep
  <2>2. ~AllIdle  BY ReviewSteps DEF AllIdle
  <2> QED  BY <2>1, <2>2, RequestFields DEF NothingBefore, TypeInv, TypeOK
<1> USE DEF BeforeVerdict, AfterApproval
<1>1. CASE ReadLog(w)
  <2>1. gates' = gates /\ record' = record  BY <1>1 DEF ReadLog, gateVars, fileVars
  <2>2. CASE logTorn
    <3>1. Return(w)  BY <1>1, <2>2 DEF ReadLog
    <3> QED  BY <1>0, <2>1, <3>1, ReturnFields DEF InStep, RecordShown
  <2>3. CASE ~logTorn
    BY <1>0, <1>1, <2>1, <2>3, ReadLogFields DEF ReadLog, GoesOn, InStep, RecordShown
  <2> QED  BY <2>2, <2>3
<1>2. CASE TruncateLog(w)
  BY <1>0, <1>2, GotoFields DEF TruncateLog, GoesOn, InStep, RecordShown, fileVars
<1>3. CASE WriteLog(w)
  <2>1. /\ r.pc = "write_log" /\ gates' = gates /\ record' = record
        /\ r.gates = gates /\ gates[r.stage].status \in Reviewable(r.decision)
        /\ r.stage # Input
    BY <1>0, <1>3 DEF WriteLog, InStep, fileVars
  <2>2. GoesOn(w, AfterVerdict(r.stage, r.decision), Decided(gates, r.stage, r.decision),
               {}, r.payload, r.record)
    BY <1>0, <1>3, <2>1, WriteLogFields
  <2>3. CASE r.decision = "approved"
    <3>1. Decided(gates, r.stage, r.decision) = SetStatus(gates, r.stage, "approved")
      BY <2>3 DEF Decided
    <3>2. \/ AfterVerdict(r.stage, r.decision) \in {"load_payload", "unlock"}
          \/ /\ AfterVerdict(r.stage, r.decision) = "load_final_record"
             /\ r.stage = Optimization
      BY <2>3 DEF AfterVerdict
    <3>3. gates[r.stage].status = "pending_review"
      BY <2>1, <2>3 DEF Reviewable
    <3>4. /\ \/ req'[w].pc \in {"load_payload", "unlock"}
             \/ req'[w].pc = "load_final_record" /\ r.stage = Optimization
          /\ req'[w].stage = r.stage
          /\ req'[w].gates = SetStatus(gates, r.stage, "approved")
          /\ \A v \in Workers \ {w} : req'[v] = req[v]
      BY <2>1, <2>2, <3>1, <3>2 DEF GoesOn
    <3>5. InStep(w)'
      BY <2>1, <3>3, <3>4 DEF InStep
    <3>6. RecordShown(w)'
      BY <3>4 DEF RecordShown
    <3> QED  BY <1>0, <2>1, <3>4, <3>5, <3>6
  <2>4. CASE r.decision = "rejected"
    <3>1. AfterVerdict(r.stage, r.decision) = "save_rejection"
      BY <2>4 DEF AfterVerdict
    <3>2. gates[r.stage].status \in Open
      BY <2>1, <2>4 DEF Reviewable, Open
    <3> QED  BY <1>0, <2>1, <2>2, <2>4, <3>1, <3>2 DEF GoesOn, InStep, RecordShown
  <2> QED  BY <1>0, <2>3, <2>4
<1>4. CASE SaveRejection(w)
  <2>1. gates' = Decided(gates, r.stage, "rejected") /\ r.stage # Input /\ record' = record
    BY <1>0, <1>4 DEF SaveRejection, InStep, fileVars
  <2>2. gates'[Input] = gates[Input]
    BY <1>0, <2>1, StageFacts DEF Decided, SendBack
  <2> QED  BY <1>0, <1>4, <2>1, <2>2, ReturnFields DEF SaveRejection, InStep, RecordShown
<1>5. CASE LoadPayload(w)
  <2>1. gates' = gates /\ record' = record  BY <1>5 DEF LoadPayload, gateVars, fileVars
  <2>2. CASE latest[Advertisement] = 0
    <3>1. Return(w)  BY <1>5, <2>2 DEF LoadPayload
    <3> QED  BY <1>0, <2>1, <3>1, ReturnFields DEF InStep, RecordShown
  <2>3. CASE latest[Advertisement] # 0
    BY <1>0, <1>5, <2>1, <2>3, LoadPayloadFields DEF LoadPayload, GoesOn, InStep, RecordShown
  <2> QED  BY <2>2, <2>3
<1>6. CASE CheckPublication(w)
  <2>1. gates' = gates /\ record' = record  BY <1>6 DEF CheckPublication, gateVars, fileVars
  <2>2. CASE Return(w)
    BY <1>0, <2>1, <2>2, ReturnFields DEF InStep, RecordShown
  <2>3. CASE Goto(w, "record_publication")
    BY <1>0, <1>6, <2>1, <2>3, GotoFields DEF CheckPublication, GoesOn, InStep, RecordShown
  <2> QED  BY <1>6, <2>2, <2>3 DEF CheckPublication
<1>7. CASE RecordPublication(w)
  BY <1>0, <1>7, GotoFields DEF RecordPublication, GoesOn, InStep, RecordShown, gateVars
<1>8. CASE Unlock(w)
  <2> DEFINE next == r.stage + 1
             opened == SetStatus(r.gates, next, "ready")
  <2>1. /\ gates' = opened /\ record' = record /\ r.stage # Input
        /\ r.gates = SetStatus(gates, r.stage, "approved")
    BY <1>0, <1>8 DEF Unlock, InStep, fileVars
  <2>2. next \in Stages /\ next # Input
    BY <1>0, <1>8, StageFacts DEF Unlock, Underway
  <2>3. opened[next].status = "ready" /\ opened[Input] = gates[Input]
    BY <1>0, <2>1, <2>2, SetStatusIs, StageFacts
  <2> HIDE DEF next
  <2>4. CASE next = PublishReview
    <3>1. GoesOn(w, "open_publish_review", opened, r.log, r.payload, r.record)
      BY <1>0, <1>8, <2>4, UnlockFields DEF next
    <3> QED  BY <1>0, <2>1, <2>3, <2>4, <3>1 DEF GoesOn, InStep, RecordShown
  <2>5. CASE next # PublishReview
    <3>1. /\ req'[w].pc = "load_gates" /\ req'[w].stage = next
          /\ \A v \in Workers \ {w} : req'[v] = req[v]
      BY <1>0, <1>8, <2>5, UnlockFields DEF next
    <3> QED  BY <1>0, <2>1, <2>2, <2>3, <3>1 DEF InStep, RecordShown
  <2> QED  BY <2>4, <2>5
<1>9. CASE OpenPublishReview(w)
  <2>1. gates' = SetStatus(r.gates, PublishReview, "pending_review") /\ r.gates = gates /\ record' = record
    BY <1>0, <1>9 DEF OpenPublishReview, InStep, fileVars
  <2>2. gates'[Input] = gates[Input]
    BY <1>0, <2>1, SetStatusIs, StageFacts
  <2> QED  BY <1>0, <1>9, <2>1, <2>2, ReturnFields DEF OpenPublishReview, InStep, RecordShown
<1>10. CASE LoadFinalRecord(w)
  BY <1>0, <1>10, LoadFinalRecordFields
  DEF LoadFinalRecord, GoesOn, InStep, RecordShown, gateVars, fileVars
<1>11. CASE SaveFinalRecord(w)
  <2>1. record'.status = "optimized"
    BY <1>11, RequestFields, <1>0 DEF SaveFinalRecord, SaveRun
  <2> QED  BY <1>0, <1>11, <2>1, GotoFields DEF SaveFinalRecord, GoesOn, InStep, RecordShown, gateVars
<1>12. CASE SaveFinalGates(w)
  <2>1. gates' = SetStatus(gates, r.stage, "approved") /\ r.stage # Input /\ record' = record
    BY <1>0, <1>12 DEF SaveFinalGates, InStep, fileVars
  <2>2. gates'[Input] = gates[Input]
    BY <1>0, <2>1, SetStatusIs, StageFacts
  <2> QED  BY <1>0, <1>12, <2>1, <2>2, ReturnFields DEF SaveFinalGates, InStep, RecordShown
<1>13. CASE DecidePayload(w)
  BY <1>0, <1>13, GotoFields DEF DecidePayload, GoesOn, InStep, RecordShown, gateVars
<1> QED
  BY <1>1, <1>2, <1>3, <1>4, <1>5, <1>6, <1>7, <1>8, <1>9, <1>10, <1>11, <1>12, <1>13
  DEF Review

(* The same for an execution.                                               *)
LEMMA SyncExecute ==
  ASSUME TypeInv, CopiesInStep, NEW w \in Workers, Execute(w)
  PROVE  /\ \A v \in Workers \ {w} : req'[v] = req[v]
         /\ InStep(w)' /\ RecordShown(w)'
         /\ gates'[Input].status \in {"locked", "approved"}
         /\ record'.status # "absent"
<1> DEFINE r == req[w]
<1> USE DEF At
<1>0. /\ TypeInv /\ InStep(w) /\ RecordShown(w)
      /\ gates \in Gates /\ gates[Input].status \in {"locked", "approved"}
      /\ r.stage \in Stages /\ r.gates \in Gates
      /\ record \in [status : RunStatuses, version : Versions]
      /\ r.record \in [status : RunStatuses, version : Versions]
      /\ record.status # "absent"
  <2>1. /\ TypeInv /\ InStep(w) /\ RecordShown(w) /\ NothingBefore
        /\ gates[Input].status \in {"locked", "approved"}
    BY DEF CopiesInStep
  <2>2. ~AllIdle  BY ExecuteSteps DEF AllIdle
  <2> QED  BY <2>1, <2>2, RequestFields DEF NothingBefore, TypeInv, TypeOK, FilesTypeOK
<1>s. \A t : t # Input /\ t \in Stages =>
        \A g \in Gates : \A status : SetStatus(g, t, status)[Input] = g[Input]
  BY SetStatusIs, StageFacts
<1> USE DEF BeforeVerdict, AfterApproval
<1>1. CASE LoadGates(w)
  <2>1. gates[r.stage].status \in Executable
    BY <1>0, <1>1 DEF LoadGates, InStep, Executable
  <2> QED
    BY <1>0, <1>1, <2>1, LoadGatesFields
    DEF LoadGates, GoesOn, InStep, RecordShown, fileVars, gateVars
<1>2. CASE SaveRunning(w)
  <2>1. /\ gates' = SetStatus(gates, r.stage, "running") /\ r.stage # Input
        /\ record' = record /\ r.gates = gates'
    BY <1>0, <1>2 DEF SaveRunning, InStep, fileVars
  <2>2. gates'[Input] = gates[Input] /\ gates'[r.stage].status = "running"
    BY <1>0, <1>s, <2>1, SetStatusIs
  <2>3. GoesOn(w, "load_record", r.gates, r.log, r.payload, r.record)
    BY <1>0, <1>2, GotoFields DEF SaveRunning
  <2> QED  BY <1>0, <2>1, <2>2, <2>3 DEF GoesOn, InStep, RecordShown
<1>3. CASE LoadRecord(w)
  <2>1. gates' = gates /\ record' = record /\ r.pc = "load_record"
    BY <1>3 DEF LoadRecord, gateVars, fileVars
  <2>2. [record EXCEPT !.status = "running"].status = "running"
    BY <1>0
  <2> QED
    BY <1>0, <1>3, <2>1, <2>2, LoadRecordFields DEF GoesOn, InStep, RecordShown
<1>4. CASE SaveRecord(w)
  <2>1. gates' = gates /\ record' = r.record /\ r.record.status = "running"
    BY <1>0, <1>4 DEF SaveRecord, SaveRun, RecordShown, gateVars
  <2> QED
    BY <1>0, <1>4, <2>1, GotoFields DEF SaveRecord, GoesOn, InStep, RecordShown
<1>5. CASE PayloadSucceeds(w) \/ PayloadFails(w)
  <2>1. /\ gates' = gates /\ record' = record
        /\ r.gates = gates /\ gates[r.stage].status = "running" /\ r.stage # Input
    BY <1>0, <1>5 DEF PayloadSucceeds, PayloadFails, InStep, gateVars
  <2>2. PICK g \in {"pending_review", "failed"}, n \in RunStatuses :
          /\ Become(w, Outcome(r, g, n))
          /\ n = IF g = "failed" THEN "failed" ELSE "waiting_review"
    BY <1>5 DEF PayloadSucceeds, PayloadFails, RunStatuses
  <2>3. GoesOn(w, "save_outcome_gates", SetStatus(r.gates, r.stage, g),
               r.log, r.payload, [r.record EXCEPT !.status = n])
    BY <1>0, <2>2, OutcomeFields DEF Statuses
  <2>4. /\ SetStatus(gates, r.stage, g)[r.stage].status = g
        /\ [r.record EXCEPT !.status = n].status = n
    BY <1>0, SetStatusIs
  <2> QED  BY <1>0, <2>1, <2>2, <2>3, <2>4 DEF GoesOn, InStep, RecordShown
<1>6. CASE SaveOutcomeGates(w)
  <2>1. /\ r.pc = "save_outcome_gates" /\ gates' = r.gates /\ r.stage # Input
        /\ record' = record
        /\ r.gates = SetStatus(gates, r.stage, r.gates[r.stage].status)
        /\ r.gates[r.stage].status \in {"pending_review", "failed"}
    BY <1>0, <1>6 DEF SaveOutcomeGates, InStep, fileVars
  <2>2. gates'[Input] = gates[Input]
    BY <1>0, <1>s, <2>1
  <2>3. GoesOn(w, "save_outcome_record", r.gates, r.log, r.payload, r.record)
    BY <1>0, <1>6, GotoFields DEF SaveOutcomeGates
  <2> QED  BY <1>0, <2>1, <2>2, <2>3 DEF GoesOn, InStep, RecordShown
<1>7. CASE SaveOutcomeRecord(w)
  <2>1. gates' = gates /\ record' = r.record /\ r.record.status # "absent"
    BY <1>0, <1>7 DEF SaveOutcomeRecord, SaveRun, RecordShown, gateVars
  <2> QED
    BY <1>0, <1>7, <2>1, ReturnFields DEF SaveOutcomeRecord, InStep, RecordShown
<1> QED  BY <1>1, <1>2, <1>3, <1>4, <1>5, <1>6, <1>7 DEF Execute

(* A request that arrives with nothing to overlap finds everybody idle. *)
LEMMA ArrivesAlone ==
  ASSUME TypeInv, NEW w \in Workers, Admit(w), overlaps' = 0
  PROVE  AllIdle /\ overlaps = 0
<1>1. Arrive(w)  BY DEF Admit, StartRun, BeginReview
<1>2. overlaps \in Nat  BY DEF TypeInv, TypeOK
<1>3. CASE AllIdle  BY <1>1, <1>3 DEF Arrive
<1>4. CASE ~AllIdle  BY <1>1, <1>2, <1>4 DEF Arrive
<1> QED  BY <1>3, <1>4

(* The same for a request that begins.                                      *)
LEMMA SyncAdmit ==
  ASSUME TypeInv, CopiesInStep, AllIdle, NEW w \in Workers, Admit(w)
  PROVE  /\ \A v \in Workers \ {w} : req'[v] = req[v]
         /\ InStep(w)' /\ RecordShown(w)'
         /\ gates' = gates /\ record'.status # "absent"
<1>0. /\ NothingBefore /\ gates[Input].status \in {"locked", "approved"}
      /\ record \in [status : RunStatuses, version : Versions]
  BY DEF CopiesInStep, TypeInv, TypeOK, FilesTypeOK
<1> USE DEF BeforeVerdict, AfterApproval
<1>1. CASE StartRun(w)
  <2>1. gates = NoGates /\ gates' = gates /\ record' = NewRecord
    BY <1>0, <1>1 DEF StartRun, SaveRun, NothingBefore, NoRecord, gateVars
  <2>2. /\ req'[w].pc = "create_gates"
        /\ \A v \in Workers \ {w} : req'[v] = req[v]
    BY <1>0, <1>1, StartFields
  <2>3. InStep(w)' /\ RecordShown(w)'
    BY <2>1, <2>2 DEF InStep, RecordShown
  <2> QED  BY <2>1, <2>2, <2>3 DEF NewRecord
<1>2. ASSUME NEW s \in Stages, NEW d \in {"approved", "rejected"}, BeginReview(w, s, d)
      PROVE  /\ \A v \in Workers \ {w} : req'[v] = req[v]
             /\ InStep(w)' /\ RecordShown(w)'
             /\ gates' = gates /\ record'.status # "absent"
  <2>1. gates' = gates /\ record' = record /\ gates[s].status \in Reviewable(d)
    BY <1>2 DEF BeginReview, gateVars, fileVars
  <2>2. s # Input /\ gates[s].status # "locked"
    BY <1>0, <2>1 DEF Reviewable
  <2>3. record.status # "absent"
    BY <1>0, <2>2 DEF NothingBefore, NoGates
  <2> QED
    BY <1>0, <1>2, <2>1, <2>2, <2>3, BeginReviewFields DEF InStep, RecordShown
<1> QED  BY <1>1, <1>2 DEF Admit

(* The same for the creation of the gates.                                  *)
LEMMA SyncCreate ==
  ASSUME TypeInv, CopiesInStep, NEW w \in Workers, CreateGates(w)
  PROVE  /\ \A v \in Workers \ {w} : req'[v] = req[v]
         /\ InStep(w)' /\ RecordShown(w)'
         /\ gates'[Input].status \in {"locked", "approved"}
         /\ record'.status # "absent"
<1>1. TypeInv /\ req[w].pc # "idle" /\ NothingBefore
  BY DEF CreateGates, At, CopiesInStep
<1>2. record.status # "absent" /\ record' = record
  BY <1>1 DEF NothingBefore, AllIdle, At, CreateGates, fileVars
<1>3. gates'[Input].status = "approved" /\ gates'[Research].status = "ready"
  BY StageFacts DEF CreateGates, InitialGates
<1> QED
  BY <1>1, <1>2, <1>3, StartFields, StageFacts
  DEF InStep, RecordShown, BeforeVerdict, AfterApproval

(* What holds of whoever took the step holds of all: the others are idle. *)
LEMMA AloneKept ==
  ASSUME NEW w \in Workers, \A v \in Workers \ {w} : req[v].pc = "idle",
         \A v \in Workers \ {w} : req'[v] = req[v]
  PROVE  OneAtATime' /\ \A v \in Workers \ {w} : req'[v].pc = "idle"
  BY DEF OneAtATime, At

(* An idle thread claims nothing.                                           *)
LEMMA IdleInStep ==
  ASSUME NEW w \in Workers, req[w].pc = "idle"
  PROVE  InStep(w) /\ RecordShown(w)
  BY DEF InStep, RecordShown, BeforeVerdict, AfterApproval

(* Whoever begins or serves a request alone leaves copies and files in step. *)
LEMMA InStepKept ==
  ASSUME NEW w \in Workers, \A v \in Workers \ {w} : req[v].pc = "idle",
         \A v \in Workers \ {w} : req'[v] = req[v],
         InStep(w)', RecordShown(w)',
         gates'[Input].status \in {"locked", "approved"},
         record'.status # "absent"
  PROVE  CopiesInStep'
<1>1. OneAtATime' /\ \A v \in Workers \ {w} : req'[v].pc = "idle"
  BY AloneKept
<1>2. \A v \in Workers : InStep(v)' /\ RecordShown(v)'
  BY <1>1 DEF InStep, RecordShown, BeforeVerdict, AfterApproval
<1> QED  BY <1>1, <1>2 DEF CopiesInStep, NothingBefore

(* A request begins with everybody idle. *)
LEMMA CopiesAdmit ==
  ASSUME TypeInv, CopiesInStep, AllIdle, NEW w \in Workers, Admit(w)
  PROVE  CopiesInStep' /\ record'.status # "absent"
<1>1. gates[Input].status \in {"locked", "approved"}  BY DEF CopiesInStep
<1> QED  BY <1>1, SyncAdmit, InStepKept DEF AllIdle, At

(* It is served with everybody else idle. *)
LEMMA CopiesServe ==
  ASSUME TypeInv, CopiesInStep, NEW w \in Workers, Serve(w)
  PROVE  /\ CopiesInStep' /\ record'.status # "absent"
         /\ \A v \in Workers \ {w} : req[v].pc = "idle" /\ req'[v] = req[v]
<1>1. req[w].pc # "idle"
  BY ReviewSteps, ExecuteSteps DEF Serve, CreateGates, At
<1>2. \A v \in Workers \ {w} : req[v].pc = "idle"
  BY <1>1 DEF CopiesInStep, OneAtATime, At
<1> QED  BY <1>2, SyncReview, SyncExecute, SyncCreate, InStepKept DEF Serve

(* Without requests there are no copies. *)
LEMMA CopiesIdle ==
  ASSUME \A w \in Workers : req'[w].pc = "idle",
         gates'[Input].status \in {"locked", "approved"},
         record'.status = "absent" => gates' = NoGates
  PROVE  CopiesInStep'
  BY DEF CopiesInStep, NothingBefore, AllIdle, OneAtATime, At, InStep, RecordShown,
         BeforeVerdict, AfterApproval

(* No copy is left when the process dies. *)
LEMMA CopiesForgotten ==
  ASSUME CopiesInStep, req' = [w \in Workers |-> IdleRequest], record' = record,
         gates' = gates
  PROVE  CopiesInStep'
<1>1. \A w \in Workers : req'[w].pc = "idle"
  BY DEF IdleRequest
<1> QED
  BY <1>1 DEF CopiesInStep, NothingBefore, AllIdle, OneAtATime, At, InStep, RecordShown,
     BeforeVerdict, AfterApproval

(* Every step keeps copies and files in step.                               *)
LEMMA SyncStep == SyncInv /\ [Next]_vars => SyncInv'
<1> SUFFICES ASSUME SyncInv, [Next]_vars PROVE SyncInv'
  OBVIOUS
<1>0. OrderInv' /\ TypeInv
  BY OrderStep DEF SyncInv, OrderInv
<1> SUFFICES ASSUME overlaps' = 0 PROVE CopiesInStep'
  BY <1>0 DEF SyncInv
<1>1. ASSUME NEW w \in Workers, Admit(w)
      PROVE  CopiesInStep'
  <2>1. AllIdle /\ overlaps = 0  BY <1>0, <1>1, ArrivesAlone
  <2> QED  BY <1>0, <1>1, <2>1, CopiesAdmit DEF SyncInv
<1>2. ASSUME NEW w \in Workers, Serve(w)
      PROVE  CopiesInStep'
  <2>1. overlaps' = overlaps
    BY <1>2, ReviewSteps, ExecuteSteps DEF Serve, CreateGates, counters
  <2> QED  BY <1>0, <1>2, <2>1, CopiesServe DEF SyncInv
<1>3. CASE Crash
  BY <1>3, CopiesForgotten DEF Crash, gateVars, SyncInv
<1>4. CASE UNCHANGED vars
  <2>1. UNCHANGED <<gates, record, overlaps, req>>
    BY <1>4 DEF vars, fileVars, gateVars, counters
  <2> QED
    BY <2>1
    DEF SyncInv, CopiesInStep, OneAtATime, NothingBefore, AllIdle, At, InStep, RecordShown
<1>5. ASSUME NEW w \in Workers, AccessRaises(w)
      PROVE  CopiesInStep'
  <2>1. CopiesInStep /\ UNCHANGED <<gates, record, overlaps>> /\ ~At(w, "idle") /\ Return(w)
    BY <1>5 DEF SyncInv, AccessRaises, fileVars, gateVars
  <2>2. \A v \in Workers \ {w} : req[v].pc = "idle"
    BY <2>1 DEF CopiesInStep, OneAtATime, At
  <2>3. \A v \in Workers : req'[v].pc = "idle"
    BY <1>0, <2>1, <2>2, ReturnFields
  <2> QED  BY <2>1, <2>3, CopiesIdle DEF CopiesInStep, NothingBefore
<1> QED  BY <1>1, <1>2, <1>3, <1>4, <1>5 DEF Next

(* They are at the start.                                                   *)
LEMMA SyncInit == Init => SyncInv
<1> SUFFICES ASSUME Init PROVE SyncInv
  OBVIOUS
<1>1. /\ \A w \in Workers : req[w].pc = "idle"
      /\ gates = NoGates /\ gates[Input].status = "locked"
  BY StageFacts DEF Init, IdleRequest, NoGates
<1> QED
  BY <1>1, OrderInit
  DEF SyncInv, CopiesInStep, OneAtATime, AllIdle, NothingBefore, At, InStep, RecordShown,
      BeforeVerdict, AfterApproval

-----------------------------------------------------------------------------
(* What the steps of such a request do to the files.                         *)

(* Where a request is after each step of its own. *)
LEMMA StepsOn ==
  ASSUME TypeInv, NEW w \in Workers
  PROVE  /\ CreateGates(w) => req'[w].pc = "load_gates"
         /\ ReadLog(w) => req'[w].pc \in {"idle", "truncate_log"}
         /\ TruncateLog(w) => req'[w].pc = "write_log"
         /\ WriteLog(w) => req'[w].pc \in {"save_rejection", "load_payload",
                                           "load_final_record", "unlock"}
         /\ SaveRejection(w) => req'[w].pc = "idle"
         /\ LoadPayload(w) => req'[w].pc \in {"idle", "decide"}
         /\ DecidePayload(w) => req'[w].pc = "publish"
         /\ CheckPublication(w) => req'[w].pc \in {"idle", "record_publication"}
         /\ RecordPublication(w) => req'[w].pc = "unlock"
         /\ Unlock(w) => req'[w].pc \in {"open_publish_review", "load_gates"}
         /\ OpenPublishReview(w) => req'[w].pc = "idle"
         /\ LoadFinalRecord(w) => req'[w].pc = "save_final_record"
         /\ SaveFinalRecord(w) => req'[w].pc = "save_final_gates"
         /\ SaveFinalGates(w) => req'[w].pc = "idle"
         /\ LoadGates(w) => req'[w].pc \in {"idle", "save_running"}
         /\ SaveRunning(w) => req'[w].pc = "load_record"
         /\ LoadRecord(w) => req'[w].pc = "save_record"
         /\ SaveRecord(w) => req'[w].pc = "payload"
         /\ PayloadSucceeds(w) \/ PayloadFails(w) => req'[w].pc = "save_outcome_gates"
         /\ SaveOutcomeGates(w) => req'[w].pc = "save_outcome_record"
         /\ SaveOutcomeRecord(w) => req'[w].pc = "idle"
<1>1. CreateGates(w) => req'[w].pc = "load_gates"
  BY StartFields
<1>2. ReadLog(w) => req'[w].pc \in {"idle", "truncate_log"}
  BY ReadLogFields, ReturnFields DEF ReadLog, GoesOn
<1>3. WriteLog(w) => req'[w].pc \in {"save_rejection", "load_payload",
                                     "load_final_record", "unlock"}
  BY WriteLogFields DEF GoesOn, AfterVerdict
<1>4. LoadPayload(w) => req'[w].pc \in {"idle", "decide"}
  BY LoadPayloadFields, ReturnFields DEF LoadPayload, GoesOn
<1>5. CheckPublication(w) => req'[w].pc \in {"idle", "record_publication"}
  BY GotoFields, ReturnFields DEF CheckPublication, GoesOn
<1>6. Unlock(w) => req'[w].pc \in {"open_publish_review", "load_gates"}
  BY UnlockFields DEF GoesOn
<1>7. LoadFinalRecord(w) => req'[w].pc = "save_final_record"
  BY LoadFinalRecordFields DEF GoesOn
<1>8. LoadGates(w) => req'[w].pc \in {"idle", "save_running"}
  BY LoadGatesFields, ReturnFields DEF LoadGates, GoesOn
<1>9. LoadRecord(w) => req'[w].pc = "save_record"
  BY LoadRecordFields DEF GoesOn
<1>10. PayloadSucceeds(w) \/ PayloadFails(w) => req'[w].pc = "save_outcome_gates"
  BY OutcomeFields
  DEF PayloadSucceeds, PayloadFails, GoesOn, Statuses, RunStatuses
<1>11. /\ TruncateLog(w) => req'[w].pc = "write_log"
       /\ DecidePayload(w) => req'[w].pc = "publish"
       /\ RecordPublication(w) => req'[w].pc = "unlock"
       /\ SaveFinalRecord(w) => req'[w].pc = "save_final_gates"
       /\ SaveRunning(w) => req'[w].pc = "load_record"
       /\ SaveRecord(w) => req'[w].pc = "payload"
       /\ SaveOutcomeGates(w) => req'[w].pc = "save_outcome_record"
  BY GotoFields
  DEF TruncateLog, DecidePayload, RecordPublication, SaveFinalRecord, SaveRunning, SaveRecord,
      SaveOutcomeGates, GoesOn
<1>12. /\ SaveRejection(w) => req'[w].pc = "idle"
       /\ OpenPublishReview(w) => req'[w].pc = "idle"
       /\ SaveFinalGates(w) => req'[w].pc = "idle"
       /\ SaveOutcomeRecord(w) => req'[w].pc = "idle"
  BY ReturnFields
  DEF SaveRejection, OpenPublishReview, SaveFinalGates, SaveOutcomeRecord
<1> QED
  BY <1>1, <1>2, <1>3, <1>4, <1>5, <1>6, <1>7, <1>8, <1>9, <1>10, <1>11, <1>12

(* Which step changes what. *)
LEMMA Frames ==
  ASSUME NEW w \in Workers, Serve(w)
  PROVE  /\ crashes' = crashes /\ failures' = failures /\ overlaps' = overlaps
         /\ latest' = latest \/ PayloadSucceeds(w) \/ PayloadFails(w)
         /\ UNCHANGED <<published, released>> \/ RecordPublication(w)
         /\ UNCHANGED <<gateLog, logTorn>> \/ TruncateLog(w) \/ WriteLog(w)
         /\ \/ record' = record
            \/ SaveRecord(w) \/ SaveOutcomeRecord(w) \/ SaveFinalRecord(w)
         /\ \/ gates' = gates
            \/ CreateGates(w) \/ SaveRejection(w) \/ Unlock(w) \/ OpenPublishReview(w)
            \/ SaveFinalGates(w) \/ SaveRunning(w) \/ SaveOutcomeGates(w)
<1>1. CASE CreateGates(w)
  BY <1>1 DEF CreateGates, fileVars, counters
<1>2. CASE Review(w)
  BY <1>2
  DEF Review, ReadLog, TruncateLog, WriteLog, SaveRejection, LoadPayload,
      DecidePayload, CheckPublication, RecordPublication, Unlock, OpenPublishReview, LoadFinalRecord,
      SaveFinalRecord, SaveFinalGates, fileVars, gateVars, counters
<1>3. CASE Execute(w)
  BY <1>3
  DEF Execute, LoadGates, SaveRunning, LoadRecord, SaveRecord, PayloadSucceeds,
      PayloadFails, SaveOutcomeGates, SaveOutcomeRecord, fileVars, gateVars, counters
<1> QED  BY <1>1, <1>2, <1>3 DEF Serve

(* The ways in which the stage file changes when nobody else is at it. *)
Created == gates = NoGates /\ gates' = InitialGates

SentBack(s) ==
  /\ s # Input /\ gates[s].status \in Open
  /\ gates' = Decided(gates, s, "rejected")

PassedOn(s) ==
  /\ s # Input /\ s + 1 \in Stages
  /\ gates[s].status = "pending_review"
  /\ gates' = SetStatus(SetStatus(gates, s, "approved"), s + 1, "ready")

Moved(s, from, to) ==
  /\ s # Input
  /\ gates[s].status = from
  /\ gates' = SetStatus(gates, s, to)

(* A request that is served alone. *)
Alone(w) ==
  \A v \in Workers \ {w} : req[v].pc = "idle" /\ req'[v].pc = "idle"

(* While clients wait, whoever works works alone, with copies in step.      *)
LEMMA ServesAlone ==
  ASSUME SyncInv, overlaps = 0, NEW w \in Workers, Serve(w)
  PROVE  /\ Alone(w) /\ InStep(w) /\ RecordShown(w)
         /\ TypeInv /\ OrderInv /\ Ordered(gates)
         /\ gates \in Gates /\ gates' \in Gates
         /\ req[w].stage \in Stages /\ req[w].gates \in Gates
         /\ req[w].decision \in {"approved", "rejected"}
<1>1. TypeInv /\ CopiesInStep  BY DEF SyncInv, OrderInv
<1>2. \A v \in Workers \ {w} : req[v].pc = "idle" /\ req'[v] = req[v]
  BY <1>1, CopiesServe
<1>3. TypeInv'
  BY TypeStep DEF SyncInv, OrderInv, Next
<1>4. gates' \in Gates /\ gates \in Gates
  BY <1>3 DEF TypeInv, TypeOK, SyncInv, OrderInv
<1> QED
  BY <1>1, <1>2, <1>4, RequestFields DEF Alone, CopiesInStep, SyncInv, OrderInv, GateOrder

(* What each step does to the gates on file, said without the copies.       *)
LEMMA StepMovesGates ==
  ASSUME TypeInv, NEW w \in Workers, InStep(w), Serve(w)
  PROVE  /\ CreateGates(w) => Created
         /\ SaveRejection(w) => SentBack(req[w].stage)
         /\ Unlock(w) => PassedOn(req[w].stage)
         /\ OpenPublishReview(w) => Moved(PublishReview, "ready", "pending_review")
         /\ SaveFinalGates(w) =>
              req[w].stage = Optimization /\ Moved(Optimization, "pending_review", "approved")
         /\ SaveRunning(w) => Moved(req[w].stage, "ready", "running")
         /\ SaveOutcomeGates(w) =>
              /\ req[w].gates[req[w].stage].status \in {"pending_review", "failed"}
              /\ Moved(req[w].stage, "running", req[w].gates[req[w].stage].status)
<1> DEFINE r == req[w]
<1>0. /\ InStep(w) /\ Underway(r) /\ r.stage \in Stages
      /\ gates \in Gates
  BY RequestFields DEF TypeInv, TypeOK
<1> USE DEF At, BeforeVerdict, AfterApproval
<1>1. CreateGates(w) => Created
  BY <1>0 DEF CreateGates, InStep, Created
<1>2. SaveRejection(w) => SentBack(r.stage)
  BY <1>0 DEF SaveRejection, InStep, SentBack
<1>3. Unlock(w) => PassedOn(r.stage)
  <2> SUFFICES ASSUME Unlock(w) PROVE PassedOn(r.stage)
    OBVIOUS
  <2>1. r.stage + 1 \in Stages
    BY <1>0, StageFacts DEF Unlock, Underway
  <2> QED  BY <1>0, <2>1 DEF Unlock, InStep, PassedOn
<1>4. OpenPublishReview(w) => Moved(PublishReview, "ready", "pending_review")
  BY <1>0, StageFacts DEF OpenPublishReview, InStep, Moved
<1>5. SaveFinalGates(w) =>
        r.stage = Optimization /\ Moved(Optimization, "pending_review", "approved")
  BY <1>0 DEF SaveFinalGates, InStep, Moved
<1>6. SaveRunning(w) => Moved(r.stage, "ready", "running")
  BY <1>0 DEF SaveRunning, InStep, Moved
<1>7. SaveOutcomeGates(w) =>
        /\ r.gates[r.stage].status \in {"pending_review", "failed"}
        /\ Moved(r.stage, "running", r.gates[r.stage].status)
  BY <1>0 DEF SaveOutcomeGates, InStep, Moved
<1> QED  BY <1>1, <1>2, <1>3, <1>4, <1>5, <1>6, <1>7

(* The same of a client that waits.                                         *)
LEMMA GateMoves ==
  ASSUME SyncInv, overlaps = 0, NEW w \in Workers, Serve(w)
  PROVE  /\ CreateGates(w) => Created
         /\ SaveRejection(w) => SentBack(req[w].stage)
         /\ Unlock(w) => PassedOn(req[w].stage)
         /\ OpenPublishReview(w) => Moved(PublishReview, "ready", "pending_review")
         /\ SaveFinalGates(w) =>
              req[w].stage = Optimization /\ Moved(Optimization, "pending_review", "approved")
         /\ SaveRunning(w) => Moved(req[w].stage, "ready", "running")
         /\ SaveOutcomeGates(w) =>
              /\ req[w].gates[req[w].stage].status \in {"pending_review", "failed"}
              /\ Moved(req[w].stage, "running", req[w].gates[req[w].stage].status)
  BY ServesAlone, StepMovesGates

(* What each of these ways does to a single gate. *)
LEMMA CreatedGate ==
  ASSUME Created, NEW s \in Stages
  PROVE  /\ gates[s].status = "locked" /\ gates[s].version = 1
         /\ gates'[s].status = IF s = Input THEN "approved"
                               ELSE IF s = Research THEN "ready" ELSE "locked"
         /\ gates'[s].version = 1
  BY DEF Created, NoGates, InitialGates

(* Sending a stage back, gate by gate.                                      *)
LEMMA SentBackGate ==
  ASSUME gates \in Gates, Ordered(gates), NEW s \in Stages, SentBack(s), NEW t \in Stages
  PROVE  /\ t < s => gates'[t] = gates[t] /\ gates[t].status = "approved"
         /\ s <= t =>
              /\ gates[t].status # "approved"
              /\ gates'[t].version = gates[t].version + 1
              /\ gates'[t].status = IF t = s THEN "revision_required" ELSE "locked"
<1>1. t < s => gates[t].status = "approved"
  BY DEF SentBack, Ordered, Open
<1>2. s < t => gates[t].status = "locked"
  BY DEF SentBack, Ordered, Open
<1>3. s = t => gates[t].status # "approved"
  BY DEF SentBack, Open
<1>4. gates'[t] = IF t < s THEN gates[t]
                  ELSE [status |-> IF t = s THEN "revision_required" ELSE "locked",
                        version |-> gates[t].version + 1]
  BY DEF SentBack, Decided, SendBack
<1> QED  BY <1>1, <1>2, <1>3, <1>4, StageFacts

(* Passing on to the next stage, gate by gate.                              *)
LEMMA PassedOnGate ==
  ASSUME gates \in Gates, Ordered(gates), NEW s \in Stages, PassedOn(s), NEW t \in Stages
  PROVE  /\ gates'[t].version = gates[t].version
         /\ gates'[t].status = IF t = s THEN "approved"
                               ELSE IF t = s + 1 THEN "ready" ELSE gates[t].status
         /\ t # s /\ t # s + 1 => gates'[t] = gates[t]
         /\ gates[s + 1].status = "locked"
<1> DEFINE h == SetStatus(gates, s, "approved")
<1>1. h \in Gates
  BY SetStatusType DEF Statuses
<1>2. s + 1 \in Stages /\ s # s + 1 /\ s < s + 1
  BY StageFacts DEF PassedOn
<1>3. gates[s + 1].status = "locked"
  BY <1>2 DEF PassedOn, Ordered
<1>4. /\ h[s].status = "approved" /\ h[s].version = gates[s].version
      /\ \A u \in Stages \ {s} : h[u] = gates[u]
  BY SetStatusIs
<1>5. /\ gates'[s + 1].status = "ready" /\ gates'[s + 1].version = h[s + 1].version
      /\ \A u \in Stages \ {s + 1} : gates'[u] = h[u]
  BY <1>1, <1>2, SetStatusIs DEF PassedOn
<1> QED  BY <1>2, <1>3, <1>4, <1>5

(* A change of one status, gate by gate.                                    *)
LEMMA MovedGate ==
  ASSUME gates \in Gates, NEW s \in Stages, NEW from, NEW to, Moved(s, from, to),
         NEW t \in Stages
  PROVE  /\ gates'[t].version = gates[t].version
         /\ gates'[t].status = IF t = s THEN to ELSE gates[t].status
         /\ t # s => gates'[t] = gates[t]
  BY SetStatusIs DEF Moved

(* Nothing that was approved changes any more. *)
LEMMA ApprovedStays ==
  ASSUME SyncInv, overlaps = 0, NEW w \in Workers, Serve(w),
         NEW t \in Stages, gates[t].status = "approved"
  PROVE  gates'[t] = gates[t]
<1> DEFINE s == req[w].stage
<1>0. gates \in Gates /\ Ordered(gates) /\ s \in Stages
  BY ServesAlone
<1>1. CASE gates' = gates
  BY <1>1
<1>2. CASE Created
  BY <1>2, CreatedGate
<1>3. CASE SentBack(s)
  BY <1>0, <1>3, SentBackGate, StageFacts
<1>4. CASE PassedOn(s)
  BY <1>0, <1>4, PassedOnGate DEF PassedOn
<1>5. ASSUME NEW u \in Stages, NEW from \in {"ready", "running", "pending_review"},
             NEW to, Moved(u, from, to)
      PROVE  gates'[t] = gates[t]
  BY <1>0, <1>5, MovedGate DEF Moved
<1> QED
  BY <1>0, <1>1, <1>2, <1>3, <1>4, <1>5, GateMoves, Frames, StageFacts

-----------------------------------------------------------------------------
(* ReviewedVersionIsNewest.  The artifact appended by the work carries the   *)
(* version of the gate the work began at, and nothing moves that gate while  *)
(* its request is the only one.                                              *)

Newest(w) ==
  LET r == req[w] IN
  /\ r.pc = "save_outcome_gates"
  /\ r.gates[r.stage].status = "pending_review"
  /\ r.stage \in Producing
  => latest[r.stage] = gates[r.stage].version

NewestReviewed ==
  \A s \in Producing :
    gates[s].status \in {"pending_review", "approved"} => latest[s] = gates[s].version
NewestInv == NewestReviewed /\ \A w \in Workers : Newest(w)

(* What is under review stays the newest artifact.                          *)
LEMMA NewestServe ==
  ASSUME SyncInv, overlaps = 0, NewestInv, NEW w \in Workers, Serve(w)
  PROVE  NewestInv'
<1> DEFINE r == req[w]
<1>0. /\ Alone(w) /\ InStep(w) /\ TypeInv /\ gates \in Gates /\ Ordered(gates)
      /\ r.stage \in Stages /\ r.gates \in Gates
      /\ latest \in [Producing -> Nat]
  BY ServesAlone DEF TypeInv, TypeOK, FilesTypeOK
<1>1. ASSUME NewestReviewed', Newest(w)'
      PROVE  NewestInv'
  BY <1>0, <1>1 DEF Alone, NewestInv, Newest
<1>2. CASE PayloadSucceeds(w) \/ PayloadFails(w)
  <2> DEFINE made == AppendArtifact(r.stage, r.gates[r.stage].version)
  <2>1. /\ r.pc = "payload" /\ gates' = gates
        /\ r.gates = gates /\ gates[r.stage].status = "running"
    BY <1>0, <1>2 DEF PayloadSucceeds, PayloadFails, InStep, gateVars, At
  <2>2. PICK g \in {"pending_review", "failed"}, n \in RunStatuses :
          /\ Become(w, Outcome(r, g, n))
          /\ g = "pending_review" => made
    BY <1>2 DEF PayloadSucceeds, PayloadFails, RunStatuses
  <2>3. GoesOn(w, "save_outcome_gates", SetStatus(gates, r.stage, g),
               r.log, r.payload, [r.record EXCEPT !.status = n])
    BY <1>0, <2>1, <2>2, OutcomeFields DEF Statuses
  <2>4. SetStatus(gates, r.stage, g)[r.stage].status = g
    BY <1>0, SetStatusIs
  <2>5. /\ latest' = latest \/ made
        /\ made => /\ r.stage \in Producing => latest'[r.stage] = gates[r.stage].version
                   /\ \A s \in Producing \ {r.stage} : latest'[s] = latest[s]
    BY <1>0, <1>2, <2>1 DEF PayloadSucceeds, PayloadFails, AppendArtifact
  <2>6. Newest(w)'
    BY <2>1, <2>2, <2>3, <2>4, <2>5 DEF GoesOn, Newest
  <2>7. NewestReviewed'
    BY <2>1, <2>5 DEF NewestInv, NewestReviewed
  <2> QED  BY <1>1, <2>6, <2>7
<1>3. CASE ~(PayloadSucceeds(w) \/ PayloadFails(w))
  <2>1. latest' = latest
    BY <1>3, Frames
  <2>2. Newest(w)'
    BY <1>0, <1>3, StepsOn DEF Newest, Serve, Review, Execute
  <2> SUFFICES ASSUME NEW t \in Producing,
                      gates'[t].status \in {"pending_review", "approved"}
               PROVE  latest[t] = gates'[t].version
    BY <1>1, <2>1, <2>2 DEF NewestReviewed
  <2>3. /\ t \in Stages /\ t # Input /\ t # PublishReview
        /\ gates[t].status \in {"pending_review", "approved"} => latest[t] = gates[t].version
    BY StageFacts DEF NewestInv, NewestReviewed, Producing
  <2>4. CASE gates' = gates
    BY <2>3, <2>4
  <2>5. CASE CreateGates(w)
    BY <2>3, <2>5, CreatedGate, GateMoves
  <2>6. CASE SaveRejection(w)
    BY <1>0, <2>3, <2>6, SentBackGate, GateMoves, StageFacts
  <2>7. CASE Unlock(w)
    BY <1>0, <2>3, <2>7, PassedOnGate, GateMoves DEF PassedOn
  <2>8. CASE OpenPublishReview(w)
    BY <1>0, <2>3, <2>8, MovedGate, GateMoves, StageFacts
  <2>9. CASE SaveFinalGates(w)
    BY <1>0, <2>3, <2>9, MovedGate, GateMoves, StageFacts DEF Moved
  <2>10. CASE SaveRunning(w)
    BY <1>0, <2>3, <2>10, MovedGate, GateMoves
  <2>11. CASE SaveOutcomeGates(w)
    <3>1. /\ r.gates[r.stage].status \in {"pending_review", "failed"}
          /\ Moved(r.stage, "running", r.gates[r.stage].status)
          /\ r.pc = "save_outcome_gates"
      BY <2>11, GateMoves DEF SaveOutcomeGates, At
    <3>2. CASE t = r.stage
      BY <1>0, <2>3, <3>1, <3>2, MovedGate DEF NewestInv, Newest
    <3>3. CASE t # r.stage
      BY <1>0, <2>3, <3>1, <3>3, MovedGate
    <3> QED  BY <3>2, <3>3
  <2> QED
    BY <2>4, <2>5, <2>6, <2>7, <2>8, <2>9, <2>10, <2>11, Frames
<1> QED  BY <1>2, <1>3

-----------------------------------------------------------------------------
(* What is published: the payload is the approved advertisement, it goes out *)
(* before publish_review is passed, and once in the life of a process.       *)

Delivered(i) ==
  /\ gates[Advertisement].status = "approved"
  /\ released[i] = gates[Advertisement].version

Publishing(w) ==
  LET r == req[w] IN
  /\ r.pc \in {"decide", "publish", "record_publication"} =>
       r.payload = gates[Advertisement].version
  /\ r.pc = "record_publication" => published = 0
  /\ r.pc = "unlock" /\ r.stage = PublishReview => released # <<>>

PublishInv ==
  /\ \A i \in DOMAIN released : Delivered(i)
  /\ Len(released) <= crashes + (IF published = 0 THEN 0 ELSE 1)
  /\ \A w \in Workers : Publishing(w)

(* The desk is reached with the advertisement approved and its newest        *)
(* artifact made for that version.                                           *)
LEMMA DeskFacts ==
  ASSUME SyncInv, overlaps = 0, NewestInv, NEW w \in Workers, Serve(w),
         req[w].pc \in {"load_payload", "decide", "publish", "record_publication"}
  PROVE  /\ req[w].stage = PublishReview
         /\ gates[PublishReview].status = "pending_review"
         /\ \A s \in Stages : s < PublishReview => gates[s].status = "approved"
         /\ latest[Advertisement] = gates[Advertisement].version
         /\ gates[Advertisement].version \in Versions
<1>1. /\ InStep(w) /\ Underway(req[w]) /\ gates \in Gates /\ Ordered(gates)
  BY ServesAlone, RequestFields
<1>2. req[w].stage = PublishReview /\ gates[PublishReview].status = "pending_review"
  BY <1>1 DEF InStep, Underway, AfterApproval
<1>3. \A s \in Stages : s < PublishReview => gates[s].status = "approved"
  BY <1>1, <1>2, StageFacts DEF Ordered
<1>4. latest[Advertisement] = gates[Advertisement].version
  BY <1>3, StageFacts DEF NewestInv, NewestReviewed
<1>5. gates[Advertisement].version \in Versions
  BY <1>1, StageFacts DEF Gates
<1> QED  BY <1>2, <1>3, <1>4, <1>5

(* What is on its way to the publisher passed every gate before.            *)
LEMMA PublishServe ==
  ASSUME SyncInv, overlaps = 0, NewestInv, PublishInv, NEW w \in Workers, Serve(w)
  PROVE  PublishInv'
<1> DEFINE r == req[w]
<1> USE DEF At
<1>0. /\ Alone(w) /\ InStep(w) /\ TypeInv /\ gates \in Gates
      /\ r.stage \in Stages
      /\ released \in Seq(Nat) /\ crashes \in Nat /\ published \in Nat
  BY ServesAlone DEF TypeInv, TypeOK, FilesTypeOK
<1>1. ASSUME \A i \in DOMAIN released : Delivered(i)
      PROVE  gates[Advertisement].status = "approved" => gates'[Advertisement] = gates[Advertisement]
  BY ApprovedStays, StageFacts
<1>2. ASSUME UNCHANGED <<released, published>>, Publishing(w)'
      PROVE  PublishInv'
  <2>1. \A i \in DOMAIN released' : Delivered(i)'
    BY <1>1, <1>2 DEF PublishInv, Delivered
  <2>2. crashes' = crashes  BY Frames
  <2> QED  BY <1>0, <1>2, <2>1, <2>2 DEF PublishInv, Alone, Publishing
<1>3. CASE LoadPayload(w)
  <2>1. UNCHANGED <<released, published, gates>>
    BY <1>3 DEF LoadPayload, gateVars, fileVars
  <2>2. CASE latest[Advertisement] = 0
    BY <1>0, <1>2, <1>3, <2>1, <2>2, ReturnFields DEF LoadPayload, Publishing
  <2>3. CASE latest[Advertisement] # 0
    <3>1. latest[Advertisement] = gates[Advertisement].version
      BY <1>3, DeskFacts DEF LoadPayload
    <3>2. req'[w].pc = "decide" /\ req'[w].payload = gates'[Advertisement].version
      BY <1>0, <1>3, <2>1, <2>3, <3>1, LoadPayloadFields DEF GoesOn
    <3> QED  BY <1>2, <2>1, <3>2 DEF Publishing
  <2> QED  BY <2>2, <2>3
<1>4. CASE CheckPublication(w)
  <2>1. /\ UNCHANGED <<released, published, gates>> /\ r.pc = "publish"
        /\ r.payload = gates[Advertisement].version
    BY <1>4 DEF CheckPublication, gateVars, fileVars, PublishInv, Publishing
  <2>2. CASE Return(w)
    BY <1>0, <1>2, <2>1, <2>2, ReturnFields DEF Publishing
  <2>3. CASE CanPublish /\ Goto(w, "record_publication")
    BY <1>0, <1>2, <2>1, <2>3, GotoFields DEF CanPublish, GoesOn, Publishing
  <2> QED  BY <1>4, <2>2, <2>3 DEF CheckPublication
<1>5. CASE RecordPublication(w)
  <2>1. /\ r.pc = "record_publication" /\ published = 0
        /\ r.payload = gates[Advertisement].version
        /\ gates' = gates /\ crashes' = crashes
        /\ published' = r.payload /\ released' = Append(released, r.payload)
    BY <1>5 DEF RecordPublication, Publish, gateVars, counters, PublishInv, Publishing
  <2>2. /\ gates[Advertisement].status = "approved" /\ r.payload \in Nat \ {0}
    BY <1>5, <2>1, DeskFacts, StageFacts DEF Versions
  <2>3. Len(released') = Len(released) + 1 /\ released' # <<>>
    BY <1>0, <2>1, <2>2
  <2>4. Len(released') <= crashes' + (IF published' = 0 THEN 0 ELSE 1)
    BY <1>0, <2>1, <2>2, <2>3 DEF PublishInv
  <2>5. ASSUME NEW i \in DOMAIN released'
        PROVE  released'[i] = r.payload \/ (i \in DOMAIN released /\ released'[i] = released[i])
    BY <1>0, <2>1, <2>2
  <2>6. \A i \in DOMAIN released' : Delivered(i)'
    BY <2>1, <2>2, <2>5 DEF Delivered, PublishInv
  <2>7. req'[w].pc = "unlock"
    BY <1>0, <1>5, StepsOn
  <2>8. \A v \in Workers : Publishing(v)'
    BY <1>0, <2>3, <2>7 DEF Publishing, Alone
  <2> QED  BY <2>4, <2>6, <2>8 DEF PublishInv
<1>6. CASE WriteLog(w)
  <2>1. UNCHANGED <<released, published, gates>>
    BY <1>6 DEF WriteLog, fileVars
  <2>2. /\ req'[w].pc = AfterVerdict(r.stage, r.decision) /\ req'[w].stage = r.stage
    BY <1>0, <1>6, WriteLogFields DEF GoesOn
  <2>3. Publishing(w)'
    BY <2>2 DEF Publishing, AfterVerdict
  <2> QED  BY <1>2, <2>1, <2>3
<1>7. CASE ~(\/ LoadPayload(w) \/ DecidePayload(w) \/ CheckPublication(w)
             \/ RecordPublication(w) \/ WriteLog(w))
  <2>1. UNCHANGED <<released, published>>
    BY <1>7, Frames
  <2>2. req'[w].pc \notin {"decide", "publish", "record_publication", "unlock"}
    BY <1>0, <1>7, StepsOn DEF Serve, Review, Execute
  <2> QED  BY <1>2, <2>1, <2>2 DEF Publishing
<1>8. CASE DecidePayload(w)
  <2>1. /\ UNCHANGED <<released, published, gates>> /\ r.pc = "decide"
        /\ r.payload = gates[Advertisement].version
    BY <1>8 DEF DecidePayload, gateVars, PublishInv, Publishing
  <2>2. req'[w].pc = "publish" /\ req'[w].payload = r.payload
    BY <1>0, <1>8, GotoFields DEF DecidePayload, GoesOn
  <2> QED  BY <1>2, <2>1, <2>2 DEF Publishing
<1> QED  BY <1>3, <1>4, <1>5, <1>6, <1>7, <1>8

-----------------------------------------------------------------------------
(* ApprovalOnFile.  A verdict is on file before the gate moves, and the file *)
(* is written over with everything that was read from it.                    *)

Filed(log, g) ==
  \A s \in Stages \ {Input} : g[s].status = "approved" =>
    [stage |-> s, version |-> g[s].version, decision |-> "approved"] \in log

Filing(w) ==
  LET r == req[w] IN
  /\ r.pc = "truncate_log" => ~logTorn /\ r.log = gateLog
  /\ r.pc = "write_log" => logTorn /\ Filed(r.log, gates)
  /\ r.pc \in AfterApproval => ~logTorn /\ Filed(gateLog, r.gates)
  /\ r.pc = "save_rejection" => ~logTorn

LogInv ==
  /\ logTorn \/ Filed(gateLog, gates)
  /\ \A w \in Workers : Filing(w)

(* Approvals stay on file when the log grows and gates close.               *)
LEMMA FiledStill ==
  ASSUME NEW log, NEW more, log \subseteq more, NEW g, NEW h, Filed(log, g),
         \A s \in Stages \ {Input} : h[s].status = "approved" =>
            g[s].status = "approved" /\ g[s].version = h[s].version
  PROVE  Filed(more, h)
<1> SUFFICES ASSUME NEW s \in Stages \ {Input}, h[s].status = "approved"
             PROVE  [stage |-> s, version |-> h[s].version, decision |-> "approved"] \in more
  BY DEF Filed
<1>1. g[s].status = "approved" /\ g[s].version = h[s].version
  OBVIOUS
<1> QED  BY <1>1 DEF Filed

(* Every approval stays on file.                                            *)
LEMMA LogServe ==
  ASSUME SyncInv, overlaps = 0, LogInv, NEW w \in Workers, Serve(w)
  PROVE  LogInv'
<1> DEFINE r == req[w]
<1> USE DEF At
<1>0. /\ Alone(w) /\ InStep(w) /\ TypeInv /\ gates \in Gates /\ Ordered(gates)
      /\ r.stage \in Stages /\ r.gates \in Gates /\ Filing(w)
      /\ r.decision \in {"approved", "rejected"}
      /\ logTorn \/ Filed(gateLog, gates)
  BY ServesAlone DEF LogInv
<1>1. ASSUME logTorn' \/ Filed(gateLog', gates'), Filing(w)'
      PROVE  LogInv'
  BY <1>0, <1>1 DEF Alone, LogInv, Filing, AfterApproval
<1>2. CASE ReadLog(w)
  <2>1. UNCHANGED <<gates, gateLog, logTorn>>
    BY <1>2 DEF ReadLog, gateVars
  <2>2. CASE logTorn
    BY <1>0, <1>1, <1>2, <2>1, <2>2, ReturnFields DEF ReadLog, Filing, AfterApproval
  <2>3. CASE ~logTorn
    BY <1>0, <1>1, <1>2, <2>1, <2>3, ReadLogFields DEF GoesOn, Filing, AfterApproval
  <2> QED  BY <2>2, <2>3
<1>3. CASE TruncateLog(w)
  <2>1. gates' = gates /\ logTorn' /\ r.pc = "truncate_log" /\ Goto(w, "write_log")
    BY <1>3 DEF TruncateLog
  <2>2. r.log = gateLog /\ Filed(gateLog, gates)
    BY <1>0, <2>1 DEF Filing
  <2>3. req'[w].pc = "write_log" /\ req'[w].log = gateLog
    BY <1>0, <2>1, <2>2, GotoFields DEF GoesOn
  <2> QED  BY <1>1, <2>1, <2>2, <2>3 DEF Filing, AfterApproval
<1>4. CASE WriteLog(w)
  <2> DEFINE verdict == [stage |-> r.stage, version |-> r.gates[r.stage].version,
                         decision |-> r.decision]
             h == Decided(r.gates, r.stage, r.decision)
  <2>1. /\ r.pc = "write_log" /\ r.gates = gates /\ gates' = gates
        /\ logTorn /\ Filed(r.log, gates)
    BY <1>0, <1>4 DEF WriteLog, InStep, Filing, BeforeVerdict
  <2>2. gateLog' = r.log \union {verdict} /\ logTorn' = FALSE
    BY <1>4, <2>1 DEF WriteLog
  <2>3. Filed(gateLog', gates')
    BY <2>1, <2>2, FiledStill
  <2>4. /\ req'[w].pc = AfterVerdict(r.stage, r.decision) /\ req'[w].gates = h
    BY <1>0, <1>4, WriteLogFields DEF GoesOn
  <2>5. CASE r.decision = "rejected"
    BY <1>1, <2>2, <2>3, <2>4, <2>5 DEF Filing, AfterVerdict, AfterApproval
  <2>6. CASE r.decision = "approved"
    <3>1. h = SetStatus(gates, r.stage, "approved")
      BY <2>1, <2>6 DEF Decided
    <3>2. /\ h[r.stage].version = gates[r.stage].version
          /\ \A s \in Stages \ {r.stage} : h[s] = gates[s]
      BY <1>0, <3>1, SetStatusIs
    <3> HIDE DEF h
    <3>3. ASSUME NEW s \in Stages \ {Input}, h[s].status = "approved"
          PROVE  [stage |-> s, version |-> h[s].version, decision |-> "approved"] \in gateLog'
      <4>1. CASE s = r.stage
        BY <2>1, <2>2, <2>6, <3>2, <4>1
      <4>2. CASE s # r.stage
        BY <2>1, <2>3, <3>2, <3>3, <4>2 DEF Filed
      <4> QED  BY <4>1, <4>2
    <3>4. Filed(gateLog', h)
      BY <3>3 DEF Filed
    <3> QED  BY <1>1, <2>2, <2>3, <2>4, <2>6, <3>4 DEF Filing, AfterVerdict, h
  <2> QED  BY <1>0, <2>5, <2>6
<1>5. CASE SaveRejection(w)
  <2>1. UNCHANGED <<gateLog, logTorn>> /\ SentBack(r.stage)
    BY <1>5, GateMoves DEF SaveRejection
  <2>2. logTorn \/ Filed(gateLog, gates')
    BY <1>0, <2>1, SentBackGate, FiledStill, StageFacts
  <2>3. req'[w].pc = "idle"
    BY <1>0, <1>5, StepsOn
  <2> QED  BY <1>1, <2>1, <2>2, <2>3 DEF Filing, AfterApproval
<1>6. CASE \/ LoadPayload(w) \/ DecidePayload(w) \/ CheckPublication(w)
           \/ RecordPublication(w) \/ LoadFinalRecord(w) \/ SaveFinalRecord(w)
  <2>1. UNCHANGED <<gates, gateLog, logTorn>> /\ r.pc \in AfterApproval
    BY <1>6
    DEF LoadPayload, DecidePayload, CheckPublication, RecordPublication,
        LoadFinalRecord, SaveFinalRecord, gateVars, AfterApproval
  <2>2. req'[w].pc = "idle" \/ (req'[w].pc \in AfterApproval /\ req'[w].gates = r.gates)
    <3>1. CASE LoadPayload(w)
      BY <1>0, <3>1, ReturnFields, LoadPayloadFields DEF LoadPayload, GoesOn, AfterApproval
    <3>2. CASE CheckPublication(w)
      BY <1>0, <3>2, ReturnFields, GotoFields DEF CheckPublication, GoesOn, AfterApproval
    <3>3. CASE DecidePayload(w) \/ RecordPublication(w) \/ SaveFinalRecord(w)
      BY <1>0, <3>3, GotoFields
      DEF DecidePayload, RecordPublication, SaveFinalRecord, GoesOn, AfterApproval
    <3>4. CASE LoadFinalRecord(w)
      BY <1>0, <3>4, LoadFinalRecordFields DEF GoesOn, AfterApproval
    <3> QED  BY <1>6, <3>1, <3>2, <3>3, <3>4
  <2> QED  BY <1>0, <1>1, <2>1, <2>2 DEF Filing, AfterApproval
<1>7. CASE Unlock(w)
  <2>1. /\ UNCHANGED <<gateLog, logTorn>> /\ r.pc = "unlock"
        /\ gates' = SetStatus(r.gates, r.stage + 1, "ready")
    BY <1>7 DEF Unlock
  <2>2. r.stage + 1 \in Stages /\ Filed(gateLog, r.gates)
    BY <1>0, <1>7, <2>1, GateMoves DEF PassedOn, Filing, AfterApproval
  <2>3. Filed(gateLog, gates')
    BY <1>0, <2>1, <2>2, SetStatusIs, FiledStill
  <2>4. req'[w].pc \in {"open_publish_review", "load_gates"}
    BY <1>0, <1>7, StepsOn
  <2> QED  BY <1>1, <2>1, <2>3, <2>4 DEF Filing, AfterApproval
<1>8. CASE SaveFinalGates(w)
  <2>1. /\ UNCHANGED <<gateLog, logTorn>> /\ gates' = r.gates
        /\ Filed(gateLog, r.gates)
    BY <1>0, <1>8 DEF SaveFinalGates, Filing, AfterApproval
  <2>2. req'[w].pc = "idle"
    BY <1>0, <1>8, StepsOn
  <2> QED  BY <1>1, <2>1, <2>2 DEF Filing, AfterApproval
<1>9. CASE CreateGates(w) \/ OpenPublishReview(w) \/ Execute(w)
  <2>1. UNCHANGED <<gateLog, logTorn>>
    BY <1>9
    DEF CreateGates, OpenPublishReview, Execute, LoadGates, SaveRunning, LoadRecord,
        SaveRecord, PayloadSucceeds, PayloadFails, SaveOutcomeGates, SaveOutcomeRecord,
        gateVars
  <2>2. ASSUME NEW s \in Stages \ {Input}, gates'[s].status = "approved"
        PROVE  gates[s].status = "approved" /\ gates[s].version = gates'[s].version
    <3>1. CASE gates' = gates
      BY <2>2, <3>1
    <3>2. CASE CreateGates(w)
      BY <2>2, <3>2, CreatedGate, GateMoves
    <3>3. CASE OpenPublishReview(w)
      BY <1>0, <2>2, <3>3, MovedGate, GateMoves, StageFacts
    <3>4. CASE SaveRunning(w)
      BY <1>0, <2>2, <3>4, MovedGate, GateMoves
    <3>5. CASE SaveOutcomeGates(w)
      BY <1>0, <2>2, <3>5, MovedGate, GateMoves
    <3>6. CASE LoadGates(w) \/ LoadRecord(w) \/ SaveRecord(w) \/ PayloadSucceeds(w)
               \/ PayloadFails(w) \/ SaveOutcomeRecord(w)
      BY <2>2, <3>6
      DEF LoadGates, LoadRecord, SaveRecord, PayloadSucceeds, PayloadFails,
          SaveOutcomeRecord, gateVars
    <3> QED  BY <1>9, <3>1, <3>2, <3>3, <3>4, <3>5, <3>6 DEF Execute
  <2>3. logTorn \/ Filed(gateLog, gates')
    BY <1>0, <2>2, FiledStill
  <2>4. req'[w].pc \notin {"truncate_log", "write_log", "save_rejection"} \union AfterApproval
    BY <1>0, <1>9, StepsOn DEF Execute, AfterApproval
  <2> QED  BY <1>1, <2>1, <2>3, <2>4 DEF Filing, AfterApproval
<1> QED
  BY <1>2, <1>3, <1>4, <1>5, <1>6, <1>7, <1>8, <1>9 DEF Serve, Review

-----------------------------------------------------------------------------
(* VerdictsAreFinal and RecordAgreesWithGates hold as long as no request is   *)
(* cut short: a verdict that is on file is followed by the move of its gate.     *)

(* Every verdict on file is about a version that is behind its gate, or is   *)
(* the approval that its gate shows.                                         *)
Consistent(log, g) ==
  \A e \in log :
    /\ e.stage # Input
    /\ e.version <= g[e.stage].version
    /\ e.decision = "approved" /\ e.version = g[e.stage].version
         => g[e.stage].status = "approved"
    /\ e.decision = "rejected" => e.version < g[e.stage].version

NoTwo(log) ==
  \A a, b \in log : a.stage = b.stage /\ a.version = b.version => a.decision = b.decision

(* A request whose verdict is not yet on file, or is ahead of the gates. *)
Ahead == {"write_log", "save_rejection"} \union AfterApproval

Judging(w) ==
  LET r == req[w] IN
  /\ r.pc = "write_log" => Consistent(r.log, gates) /\ NoTwo(r.log)
  /\ r.pc \in Ahead \ {"write_log"} => Consistent(gateLog, r.gates)

VerdictInv ==
  NothingCutShort =>
    /\ NoTwo(gateLog)
    /\ (\A w \in Workers : req[w].pc \notin Ahead) => Consistent(gateLog, gates)
    /\ \A w \in Workers : Judging(w)
    /\ published # 0 =>
         \/ gates[PublishReview].status = "approved"
         \/ \E w \in Workers : At(w, "unlock") /\ req[w].stage = PublishReview

(* Verdicts stay consistent when the gates keep versions and approvals.     *)
LEMMA ConsistentStill ==
  ASSUME NEW log \in SUBSET Verdicts, NEW g \in Gates, NEW h \in Gates, Consistent(log, g),
         \A s \in Stages : h[s].version = g[s].version,
         \A s \in Stages : g[s].status = "approved" => h[s].status = "approved"
  PROVE  Consistent(log, h)
  BY DEF Consistent, Verdicts

(* The verdict that is written next is the first on this version. *)
LEMMA FirstVerdict ==
  ASSUME NEW log \in SUBSET Verdicts, NEW g \in Gates, NEW s \in Stages,
         NEW d \in {"approved", "rejected"},
         Consistent(log, g), NoTwo(log), g[s].status \in Open, Ordered(g), s # Input
  PROVE  LET v == [stage |-> s, version |-> g[s].version, decision |-> d]
         IN  /\ NoTwo(log \union {v})
             /\ Consistent(log \union {v}, Decided(g, s, d))
<1> DEFINE v == [stage |-> s, version |-> g[s].version, decision |-> d]
           h == Decided(g, s, d)
<1>0. \A t \in Stages : g[t].version \in Nat
  BY DEF Gates, Versions
<1>1. ASSUME NEW e \in log, e.stage = s
      PROVE  e.version # g[s].version /\ e.version <= g[s].version
  <2>1. e.version \in Nat /\ e.decision \in {"approved", "rejected"}
    BY DEF Verdicts, Versions
  <2>2. /\ e.version <= g[s].version
        /\ e.decision = "approved" /\ e.version = g[s].version => g[s].status = "approved"
        /\ e.decision = "rejected" => e.version < g[s].version
    BY <1>1 DEF Consistent
  <2> QED  BY <1>0, <2>1, <2>2 DEF Open
<1>2. NoTwo(log \union {v})
  BY <1>1 DEF NoTwo
<1>3. CASE d = "approved"
  <2>1. /\ h[s].status = "approved" /\ \A t \in Stages : h[t].version = g[t].version
        /\ \A t \in Stages \ {s} : h[t] = g[t]
    BY <1>3, SetStatusIs DEF Decided
  <2>2. h \in Gates
    BY DecidedType
  <2> HIDE DEF h
  <2>3. Consistent(log, h)
    BY <2>1, <2>2, ConsistentStill
  <2>4. v.stage = s /\ v.version = h[s].version /\ v.decision = "approved"
    BY <1>3, <2>1
  <2> HIDE DEF v
  <2>5. Consistent(log \union {v}, h)
    BY <1>0, <2>1, <2>3, <2>4 DEF Consistent
  <2> QED  BY <1>2, <2>5 DEF v, h
<1>4. CASE d = "rejected"
  <2>1. ASSUME NEW t \in Stages
        PROVE  /\ t < s => h[t] = g[t]
               /\ ~(t < s) => h[t].version = g[t].version + 1
    BY <1>4 DEF Decided, SendBack
  <2> HIDE DEF h
  <2>2. ASSUME NEW e \in log
        PROVE  /\ e.stage # Input /\ e.version <= h[e.stage].version
               /\ e.decision = "approved" /\ e.version = h[e.stage].version
                    => h[e.stage].status = "approved"
               /\ e.decision = "rejected" => e.version < h[e.stage].version
    <3>1. /\ e.stage \in Stages /\ e.version \in Nat
          /\ g[e.stage].version \in Nat
      BY <1>0 DEF Verdicts, Versions
    <3>2. /\ e.stage # Input /\ e.version <= g[e.stage].version
          /\ e.decision = "approved" /\ e.version = g[e.stage].version
               => g[e.stage].status = "approved"
          /\ e.decision = "rejected" => e.version < g[e.stage].version
      BY DEF Consistent
    <3>3. CASE e.stage < s
      BY <2>1, <3>1, <3>2, <3>3
    <3>4. CASE ~(e.stage < s)
      <4>1. h[e.stage].version = g[e.stage].version + 1
        BY <2>1, <3>1, <3>4
      <4> QED  BY <3>1, <3>2, <4>1
    <3> QED  BY <3>3, <3>4
  <2>3. v.stage = s /\ v.version = g[s].version /\ v.decision = "rejected"
    BY <1>4
  <2>4. h[s].version = g[s].version + 1
    BY <2>1, StageFacts
  <2> HIDE DEF v
  <2>5. v.version <= h[v.stage].version /\ v.version < h[v.stage].version
    BY <1>0, <2>3, <2>4
  <2>6. v.stage # Input /\ v.decision # "approved"
    BY <2>3
  <2>7. Consistent(log \union {v}, h)
    BY <2>2, <2>5, <2>6 DEF Consistent
  <2> QED  BY <1>2, <2>7 DEF v, h
<1> QED  BY <1>3, <1>4

(* No version gets a second verdict.                                        *)
LEMMA VerdictServe ==
  ASSUME SyncInv, overlaps = 0, NewestInv, LogInv, PublishInv, VerdictInv,
         NEW w \in Workers, Serve(w), NothingCutShort'
  PROVE  VerdictInv'
<1> DEFINE r == req[w]
<1> USE DEF At
<1>0. /\ Alone(w) /\ InStep(w) /\ TypeInv /\ gates \in Gates /\ Ordered(gates)
      /\ gates' \in Gates
      /\ r.stage \in Stages /\ r.gates \in Gates
      /\ r.decision \in {"approved", "rejected"}
      /\ gateLog \in SUBSET Verdicts /\ r.log \in SUBSET Verdicts
      /\ published \in Nat
  BY ServesAlone, RequestFields DEF TypeInv, TypeOK, FilesTypeOK
<1>1. NothingCutShort
  BY Frames DEF NothingCutShort
<1>2. /\ NoTwo(gateLog) /\ Judging(w)
      /\ r.pc \notin Ahead => Consistent(gateLog, gates)
  BY <1>0, <1>1 DEF VerdictInv, Alone, Ahead, AfterApproval
<1>3. published # 0 /\ ~(r.pc = "unlock" /\ r.stage = PublishReview)
        => gates[PublishReview].status = "approved"
  BY <1>0, <1>1 DEF VerdictInv, Alone
<1>4. published = published' /\ ~Unlock(w) =>
        (published' # 0 => \/ gates'[PublishReview].status = "approved"
                           \/ \E v \in Workers : req'[v].pc = "unlock" /\ req'[v].stage = PublishReview)
  <2> SUFFICES ASSUME ~Unlock(w), published # 0
               PROVE  gates'[PublishReview].status = "approved"
    OBVIOUS
  <2>1. r.pc # "unlock"
    BY DEF Serve, Review, Execute, CreateGates, ReadLog, TruncateLog, WriteLog,
           SaveRejection, LoadPayload, DecidePayload, CheckPublication,
           RecordPublication, OpenPublishReview, LoadFinalRecord, SaveFinalRecord, SaveFinalGates,
           LoadGates, SaveRunning, LoadRecord, SaveRecord, PayloadSucceeds, PayloadFails,
           SaveOutcomeGates, SaveOutcomeRecord
  <2> QED  BY <1>3, <2>1, ApprovedStays, StageFacts
<1>5. ASSUME NoTwo(gateLog'), Judging(w)',
             req'[w].pc \notin Ahead => Consistent(gateLog', gates'),
             published' # 0 => \/ gates'[PublishReview].status = "approved"
                               \/ \E v \in Workers : req'[v].pc = "unlock"
                                                       /\ req'[v].stage = PublishReview
      PROVE  VerdictInv'
  BY <1>0, <1>5 DEF Alone, VerdictInv, Judging, Ahead, AfterApproval
<1>6. CASE TruncateLog(w)
  <2>1. /\ gates' = gates /\ gateLog' = {} /\ r.pc = "truncate_log" /\ published' = published
    BY <1>6 DEF TruncateLog, fileVars
  <2>2. r.log = gateLog
    BY <2>1 DEF LogInv, Filing
  <2>3. req'[w].pc = "write_log" /\ req'[w].log = r.log
    BY <1>0, <1>6, GotoFields DEF TruncateLog, GoesOn
  <2>4. ~Unlock(w) /\ NoTwo(gateLog')
    BY <2>1 DEF Unlock, NoTwo
  <2> QED
    BY <1>2, <1>4, <1>5, <2>1, <2>2, <2>3, <2>4 DEF Judging, Ahead, AfterApproval
<1>7. CASE WriteLog(w)
  <2> DEFINE v == [stage |-> r.stage, version |-> r.gates[r.stage].version,
                   decision |-> r.decision]
             h == Decided(r.gates, r.stage, r.decision)
  <2>1. /\ r.pc = "write_log" /\ r.gates = gates /\ gates' = gates /\ published' = published
        /\ gates[r.stage].status \in Open /\ r.stage # Input
        /\ Consistent(r.log, gates) /\ NoTwo(r.log) /\ logTorn
    BY <1>0, <1>2, <1>7
    DEF WriteLog, InStep, Judging, BeforeVerdict, Reviewable, Open, fileVars, LogInv, Filing
  <2>2. gateLog' = r.log \union {v}
    BY <1>7, <2>1 DEF WriteLog
  <2>3. NoTwo(gateLog') /\ Consistent(gateLog', h)
    BY <1>0, <2>1, <2>2, FirstVerdict
  <2>4. req'[w].pc = AfterVerdict(r.stage, r.decision) /\ req'[w].gates = h
    BY <1>0, <1>7, WriteLogFields DEF GoesOn
  <2>5. AfterVerdict(r.stage, r.decision) \in Ahead \ {"write_log"}
    BY DEF AfterVerdict, Ahead, AfterApproval
  <2>6. ~Unlock(w)
    BY <2>1 DEF Unlock
  <2> HIDE DEF v, h
  <2> QED  BY <1>4, <1>5, <2>1, <2>3, <2>4, <2>5, <2>6 DEF Judging
<1>8. CASE SaveRejection(w) \/ SaveFinalGates(w)
  <2>1. /\ gates' = r.gates /\ gateLog' = gateLog /\ published' = published
        /\ r.pc \in Ahead \ {"write_log"} /\ r.pc # "unlock"
    BY <1>8 DEF SaveRejection, SaveFinalGates, Ahead, AfterApproval, fileVars
  <2>2. req'[w].pc = "idle"
    BY <1>0, <1>8, StepsOn
  <2>3. ~Unlock(w)  BY <2>1 DEF Unlock
  <2> QED
    BY <1>2, <1>4, <1>5, <2>1, <2>2, <2>3 DEF Judging, Ahead, AfterApproval
<1>9. CASE Unlock(w)
  <2>1. /\ gates' = SetStatus(r.gates, r.stage + 1, "ready") /\ gateLog' = gateLog
        /\ r.pc = "unlock" /\ r.pc \in Ahead \ {"write_log"} /\ published' = published
        /\ r.gates = SetStatus(gates, r.stage, "approved")
    BY <1>0, <1>9 DEF Unlock, fileVars, InStep, Ahead, AfterApproval
  <2>2. PassedOn(r.stage) /\ r.stage + 1 \in Stages /\ gates[r.stage + 1].status = "locked"
    BY <1>0, <1>9, GateMoves, PassedOnGate DEF PassedOn
  <2>3. r.stage # r.stage + 1
    BY <1>0, StageFacts
  <2>4. r.gates[r.stage + 1].status = "locked"
    BY <1>0, <2>1, <2>2, <2>3, SetStatusIs
  <2>5. Consistent(gateLog, r.gates)
    BY <1>2, <2>1 DEF Judging
  <2>6. /\ \A s \in Stages : gates'[s].version = r.gates[s].version
        /\ \A s \in Stages : r.gates[s].status = "approved" => gates'[s].status = "approved"
    BY <1>0, <2>1, <2>2, <2>4, SetStatusIs
  <2>7. Consistent(gateLog, gates')
    BY <1>0, <2>5, <2>6, ConsistentStill
  <2>8. req'[w].pc \in {"open_publish_review", "load_gates"}
    BY <1>0, <1>9, StepsOn
  <2>9. published # 0 => gates'[PublishReview].status = "approved"
    <3>1. CASE r.stage = PublishReview
      BY <1>0, <2>2, <3>1, PassedOnGate
    <3>2. CASE r.stage # PublishReview
      BY <1>3, <3>2, ApprovedStays, StageFacts
    <3> QED  BY <3>1, <3>2
  <2> QED
    BY <1>2, <1>5, <2>1, <2>7, <2>8, <2>9 DEF Judging, Ahead, AfterApproval
<1>10. CASE \/ LoadPayload(w) \/ DecidePayload(w) \/ CheckPublication(w)
            \/ RecordPublication(w) \/ LoadFinalRecord(w) \/ SaveFinalRecord(w)
  <2>1. UNCHANGED <<gates, gateLog>> /\ r.pc \in Ahead \ {"write_log"} /\ r.pc # "unlock"
    BY <1>10
    DEF LoadPayload, DecidePayload, CheckPublication, RecordPublication,
        LoadFinalRecord, SaveFinalRecord, gateVars, Ahead, AfterApproval
  <2>2. CASE LoadPayload(w)
    <3>1. latest[Advertisement] # 0
      BY <2>2, DeskFacts DEF LoadPayload, Versions
    <3>2. req'[w].pc = "decide" /\ req'[w].gates = r.gates /\ published' = published
      BY <1>0, <2>2, <3>1, LoadPayloadFields DEF LoadPayload, GoesOn, fileVars
    <3>3. ~Unlock(w)  BY <2>1 DEF Unlock
    <3> QED
      BY <1>2, <1>4, <1>5, <2>1, <3>2, <3>3 DEF Judging, Ahead, AfterApproval
  <2>3. CASE CheckPublication(w)
    <3>1. gates[PublishReview].status = "pending_review" /\ r.pc = "publish"
      BY <2>3, DeskFacts DEF CheckPublication
    <3>2. CanPublish /\ published' = published
      BY <1>3, <2>3, <3>1 DEF CheckPublication, CanPublish, fileVars
    <3>3. req'[w].pc = "record_publication" /\ req'[w].gates = r.gates
      BY <1>0, <2>3, <3>2, GotoFields DEF CheckPublication, GoesOn
    <3>4. ~Unlock(w)  BY <2>1 DEF Unlock
    <3> QED
      BY <1>2, <1>4, <1>5, <2>1, <3>2, <3>3, <3>4 DEF Judging, Ahead, AfterApproval
  <2>4. CASE RecordPublication(w)
    <3>1. r.stage = PublishReview
      BY <2>4, DeskFacts DEF RecordPublication
    <3>2. req'[w].pc = "unlock" /\ req'[w].gates = r.gates /\ req'[w].stage = r.stage
      BY <1>0, <2>4, GotoFields DEF RecordPublication, GoesOn
    <3> QED
      BY <1>2, <1>5, <2>1, <3>1, <3>2 DEF Judging, Ahead, AfterApproval
  <2>5. CASE LoadFinalRecord(w) \/ SaveFinalRecord(w)
    <3>1. published' = published
      BY <2>5 DEF LoadFinalRecord, SaveFinalRecord, fileVars
    <3>2. /\ req'[w].pc \in {"save_final_record", "save_final_gates"}
          /\ req'[w].gates = r.gates
      BY <1>0, <2>5, GotoFields, LoadFinalRecordFields DEF SaveFinalRecord, GoesOn
    <3>3. ~Unlock(w)  BY <2>1 DEF Unlock
    <3> QED
      BY <1>2, <1>4, <1>5, <2>1, <3>1, <3>2, <3>3 DEF Judging, Ahead, AfterApproval
  <2>6. CASE DecidePayload(w)
    <3>1. req'[w].pc = "publish" /\ req'[w].gates = r.gates /\ published' = published
      BY <1>0, <2>6, GotoFields DEF DecidePayload, GoesOn
    <3>2. ~Unlock(w)  BY <2>1 DEF Unlock
    <3> QED
      BY <1>2, <1>4, <1>5, <2>1, <3>1, <3>2 DEF Judging, Ahead, AfterApproval
  <2> QED  BY <1>10, <2>2, <2>3, <2>4, <2>5, <2>6
<1>11. CASE CreateGates(w) \/ ReadLog(w) \/ OpenPublishReview(w) \/ Execute(w)
  <2>1. gateLog' = gateLog /\ published' = published /\ r.pc \notin Ahead /\ ~Unlock(w)
    BY <1>11
    DEF CreateGates, ReadLog, OpenPublishReview, Execute, LoadGates, SaveRunning,
        LoadRecord, SaveRecord, PayloadSucceeds, PayloadFails, SaveOutcomeGates,
        SaveOutcomeRecord, gateVars, fileVars, Ahead, AfterApproval, Unlock
  <2>2. req'[w].pc \notin Ahead
    BY <1>0, <1>11, StepsOn DEF Execute, Ahead, AfterApproval
  <2>3. \A s \in Stages : gates[s].status = "approved" => gates'[s].status = "approved"
    BY ApprovedStays
  <2>4. ASSUME NEW s \in Stages
        PROVE  gates'[s].version = gates[s].version
    <3>1. CASE CreateGates(w)
      BY <3>1, CreatedGate, GateMoves
    <3>2. CASE OpenPublishReview(w)
      BY <1>0, <3>2, MovedGate, GateMoves, StageFacts
    <3>3. CASE SaveRunning(w)
      BY <1>0, <3>3, MovedGate, GateMoves
    <3>4. CASE SaveOutcomeGates(w)
      BY <1>0, <3>4, MovedGate, GateMoves
    <3>5. CASE ReadLog(w) \/ LoadGates(w) \/ LoadRecord(w) \/ SaveRecord(w)
               \/ PayloadSucceeds(w) \/ PayloadFails(w) \/ SaveOutcomeRecord(w)
      BY <3>5
      DEF ReadLog, LoadGates, LoadRecord, SaveRecord, PayloadSucceeds, PayloadFails,
          SaveOutcomeRecord, gateVars
    <3> QED  BY <1>11, <3>1, <3>2, <3>3, <3>4, <3>5 DEF Execute
  <2>5. Consistent(gateLog, gates')
    BY <1>0, <1>2, <2>1, <2>3, <2>4, ConsistentStill
  <2> QED
    BY <1>2, <1>4, <1>5, <2>1, <2>2, <2>5 DEF Judging, Ahead, AfterApproval
<1> QED
  BY <1>6, <1>7, <1>8, <1>9, <1>10, <1>11 DEF Serve, Review

-----------------------------------------------------------------------------
(* RecordAgreesWithGates.  While requests are served one by one and none is  *)
(* cut off, the record waits for review during every review and is written   *)
(* with the outcome of the work that the gates have just been given.         *)

Waiting == BeforeVerdict \union {"save_rejection", "open_publish_review"}
             \union (AfterApproval \ {"save_final_gates"})

Recorded(w) ==
  LET r == req[w] IN
  /\ r.pc \in Waiting => record.status = "waiting_review"
  /\ r.pc = "save_final_gates" => record.status = "optimized"

Agreed ==
  \/ record.status = "absent" /\ gates = NoGates
  \/ record.status = "waiting_review" /\ \E s \in Stages : gates[s].status \in Open
  \/ record.status = "failed" /\ \E s \in Stages : gates[s].status = "failed"
  \/ record.status = "optimized" /\ \A s \in Stages : gates[s].status = "approved"

RecordInv ==
  NothingCutShort =>
    /\ AllIdle => Agreed
    /\ \A w \in Workers : Recorded(w)

(* Only one gate at a time is neither locked nor approved. *)
LEMMA OneGateOpen ==
  ASSUME Ordered(gates), NEW s \in Stages, NEW t \in Stages,
         gates[s].status \notin {"locked", "approved"},
         gates[t].status \notin {"locked", "approved"}
  PROVE  s = t
  BY StageFacts DEF Ordered

(* What the status of the record says of the gates.                         *)
LEMMA AgreedSays ==
  ASSUME Ordered(gates), Agreed
  PROVE  /\ record.status = "optimized" <=> \A s \in Stages : gates[s].status = "approved"
         /\ record.status = "failed" <=> \E s \in Stages : gates[s].status = "failed"
         /\ record.status = "waiting_review" <=>
              \E s \in Stages : gates[s].status \in {"pending_review", "revision_required"}
         /\ record.status # "running"
<1>1. CASE record.status = "absent" /\ gates = NoGates
  BY <1>1, StageFacts DEF NoGates
<1>2. CASE record.status = "waiting_review" /\ \E s \in Stages : gates[s].status \in Open
  BY <1>2, OneGateOpen DEF Open
<1>3. CASE record.status = "failed" /\ \E s \in Stages : gates[s].status = "failed"
  BY <1>3, OneGateOpen
<1>4. CASE record.status = "optimized" /\ \A s \in Stages : gates[s].status = "approved"
  BY <1>4, StageFacts
<1> QED  BY <1>1, <1>2, <1>3, <1>4 DEF Agreed

(* The record follows the gates.                                            *)
LEMMA RecordServe ==
  ASSUME SyncInv, overlaps = 0, RecordInv, NEW w \in Workers, Serve(w), NothingCutShort'
  PROVE  RecordInv'
<1> DEFINE r == req[w]
<1> USE DEF At
<1>0. /\ Alone(w) /\ InStep(w) /\ RecordShown(w) /\ TypeInv /\ gates \in Gates
      /\ Ordered(gates) /\ NothingCutShort /\ Recorded(w)
      /\ r.stage \in Stages /\ r.gates \in Gates
      /\ r.decision \in {"approved", "rejected"}
      /\ r.record \in [status : RunStatuses, version : Versions]
  BY ServesAlone, RequestFields, Frames DEF RecordInv, NothingCutShort
<1> USE DEF BeforeVerdict, AfterApproval
<1>1. ASSUME req'[w].pc # "idle", Recorded(w)'
      PROVE  RecordInv'
  BY <1>0, <1>1 DEF Alone, AllIdle, RecordInv, Recorded, Waiting
<1>2. ASSUME req'[w].pc = "idle", Agreed'
      PROVE  RecordInv'
  BY <1>0, <1>2 DEF Alone, RecordInv, Recorded, Waiting
<1>3. ASSUME gates' = gates, record' = record, r.pc \in Waiting,
             NEW s \in Stages, gates[s].status \in Open,
             req'[w].pc = "idle" \/ req'[w].pc \in Waiting
      PROVE  RecordInv'
  <2>1. record.status = "waiting_review"
    BY <1>0, <1>3 DEF Recorded
  <2>2. CASE req'[w].pc = "idle"
    BY <1>2, <1>3, <2>1, <2>2 DEF Agreed
  <2>3. CASE req'[w].pc \in Waiting
    BY <1>1, <1>3, <2>1, <2>3 DEF Recorded, Waiting
  <2> QED  BY <1>3, <2>2, <2>3
<1>4. CASE CreateGates(w)
  <2>1. req'[w].pc = "load_gates"
    BY <1>0, <1>4, StepsOn
  <2> QED  BY <1>1, <2>1 DEF Recorded, Waiting
<1>5. CASE ReadLog(w) \/ TruncateLog(w) \/ WriteLog(w)
  <2>1. /\ gates' = gates /\ record' = record /\ r.pc \in Waiting
        /\ gates[r.stage].status \in Open
    BY <1>0, <1>5
    DEF ReadLog, TruncateLog, WriteLog, gateVars, fileVars, InStep, Reviewable, Open, Waiting
  <2>2. req'[w].pc = "idle" \/ req'[w].pc \in Waiting
    BY <1>0, <1>5, StepsOn DEF Waiting
  <2> QED  BY <1>0, <1>3, <2>1, <2>2
<1>6. CASE \/ LoadPayload(w) \/ DecidePayload(w) \/ CheckPublication(w)
           \/ RecordPublication(w) \/ LoadFinalRecord(w)
  <2>1. /\ gates' = gates /\ record' = record /\ r.pc \in Waiting
        /\ gates[r.stage].status \in Open
    BY <1>0, <1>6
    DEF LoadPayload, DecidePayload, CheckPublication, RecordPublication, LoadFinalRecord,
        gateVars, fileVars, InStep, Open, Waiting
  <2>2. req'[w].pc = "idle" \/ req'[w].pc \in Waiting
    BY <1>0, <1>6, StepsOn DEF Waiting
  <2> QED  BY <1>0, <1>3, <2>1, <2>2
<1>7. CASE SaveRejection(w)
  <2>1. /\ record' = record /\ record.status = "waiting_review"
    BY <1>0, <1>7 DEF SaveRejection, fileVars, Recorded, Waiting
  <2>2. gates'[r.stage].status \in Open
    BY <1>0, <1>7, GateMoves, SentBackGate, StageFacts DEF Open
  <2>3. req'[w].pc = "idle"
    BY <1>0, <1>7, StepsOn
  <2> QED  BY <1>0, <1>2, <2>1, <2>2, <2>3 DEF Agreed
<1>8. CASE Unlock(w)
  <2>1. record' = record /\ record.status = "waiting_review"
    BY <1>0, <1>8 DEF Unlock, fileVars, Recorded, Waiting
  <2>2. req'[w].pc \in {"open_publish_review", "load_gates"}
    BY <1>0, <1>8, StepsOn
  <2> QED  BY <1>1, <2>1, <2>2 DEF Recorded
<1>9. CASE OpenPublishReview(w)
  <2>1. record' = record /\ record.status = "waiting_review"
    BY <1>0, <1>9 DEF OpenPublishReview, fileVars, Recorded, Waiting
  <2>2. gates'[PublishReview].status \in Open
    BY <1>0, <1>9, GateMoves, MovedGate, StageFacts DEF Open
  <2>3. req'[w].pc = "idle"
    BY <1>0, <1>9, StepsOn
  <2> QED  BY <1>2, <2>1, <2>2, <2>3, StageFacts DEF Agreed
<1>10. CASE SaveFinalRecord(w)
  <2>1. record'.status = "optimized"
    BY <1>0, <1>10 DEF SaveFinalRecord, SaveRun
  <2>2. req'[w].pc = "save_final_gates"
    BY <1>0, <1>10, StepsOn
  <2> QED  BY <1>1, <2>1, <2>2 DEF Recorded, Waiting
<1>11. CASE SaveFinalGates(w)
  <2>1. record' = record /\ record.status = "optimized"
    BY <1>0, <1>11 DEF SaveFinalGates, fileVars, Recorded
  <2>2. Moved(Optimization, "pending_review", "approved")
    BY <1>11, GateMoves
  <2>3. ASSUME NEW s \in Stages
        PROVE  gates'[s].status = "approved"
    <3>1. CASE s = Optimization
      BY <1>0, <2>2, <3>1, MovedGate
    <3>2. CASE s # Optimization
      <4>1. gates[s].status = "approved"
        BY <1>0, <2>2, <3>2, StageFacts DEF Ordered, Moved
      <4> QED  BY <1>11, <4>1, ApprovedStays
    <3> QED  BY <3>1, <3>2
  <2>4. req'[w].pc = "idle"
    BY <1>0, <1>11, StepsOn
  <2> QED  BY <1>2, <2>1, <2>3, <2>4 DEF Agreed
<1>12. CASE LoadGates(w)
  <2>1. gates[r.stage].status \in Executable
    BY <1>0, <1>12 DEF LoadGates, InStep, Executable
  <2>2. req'[w].pc = "save_running"
    BY <1>0, <1>12, <2>1, LoadGatesFields DEF GoesOn
  <2> QED  BY <1>1, <2>2 DEF Recorded, Waiting
<1>13. CASE \/ SaveRunning(w) \/ LoadRecord(w) \/ SaveRecord(w)
            \/ PayloadSucceeds(w) \/ PayloadFails(w) \/ SaveOutcomeGates(w)
  <2>1. req'[w].pc \in {"load_record", "save_record", "payload", "save_outcome_gates",
                        "save_outcome_record"}
    BY <1>0, <1>13, StepsOn
  <2> QED  BY <1>1, <2>1 DEF Recorded, Waiting
<1>14. CASE SaveOutcomeRecord(w)
  <2>1. /\ gates' = gates /\ record' = r.record
        /\ gates[r.stage].status \in {"pending_review", "failed"}
        /\ record'.status = IF gates[r.stage].status = "failed" THEN "failed" ELSE "waiting_review"
    BY <1>0, <1>14 DEF SaveOutcomeRecord, SaveRun, gateVars, InStep, RecordShown
  <2>2. req'[w].pc = "idle"
    BY <1>0, <1>14, StepsOn
  <2> QED  BY <1>0, <1>2, <2>1, <2>2 DEF Agreed, Open
<1> QED
  BY <1>4, <1>5, <1>6, <1>7, <1>8, <1>9, <1>10, <1>11, <1>12, <1>13, <1>14
  DEF Serve, Review, Execute

-----------------------------------------------------------------------------
(* All of it together. *)

SerialInv ==
  /\ SyncInv
  /\ overlaps = 0 => NewestInv /\ PublishInv /\ LogInv /\ VerdictInv /\ RecordInv

(* A request that begins disturbs none of this.                             *)
LEMMA SerialAdmit ==
  ASSUME SerialInv, NEW w \in Workers, Admit(w), overlaps' = 0
  PROVE  NewestInv' /\ PublishInv' /\ LogInv' /\ VerdictInv' /\ RecordInv'
<1>0. /\ TypeInv /\ AllIdle /\ overlaps = 0 /\ Ordered(gates)
      /\ NewestInv /\ PublishInv /\ LogInv /\ VerdictInv /\ RecordInv
  BY ArrivesAlone DEF SerialInv, SyncInv, OrderInv, GateOrder
<1>1. /\ UNCHANGED <<gates, gateLog, logTorn, latest, published, released, crashes,
                  failures>>
      /\ req'[w].pc \in {"create_gates", "read_log"}
      /\ \A v \in Workers \ {w} : req'[v].pc = "idle"
  BY <1>0, StartFields, BeginReviewFields
  DEF Admit, StartRun, BeginReview, gateVars, fileVars, AllIdle, At
<1>2. NewestInv'
  BY <1>0, <1>1 DEF NewestInv, NewestReviewed, Newest
<1>3. PublishInv'
  BY <1>0, <1>1 DEF PublishInv, Delivered, Publishing
<1>4. LogInv'
  BY <1>0, <1>1 DEF LogInv, Filing, AfterApproval
<1>5. VerdictInv'
  BY <1>0, <1>1 DEF VerdictInv, NothingCutShort, Judging, Ahead, AfterApproval, AllIdle, At
<1>6. RecordInv'
  <2>1. CASE StartRun(w)
    <3>1. req'[w].pc = "create_gates"
      BY <1>0, <2>1, StartFields
    <3> QED
      BY <1>1, <3>1
      DEF RecordInv, NothingCutShort, Recorded, AllIdle, At, Waiting, BeforeVerdict, AfterApproval
  <2>2. ASSUME NEW s \in Stages, NEW d \in {"approved", "rejected"}, BeginReview(w, s, d)
        PROVE  RecordInv'
    <3>1. /\ gates[s].status \in {"pending_review", "revision_required"}
          /\ record' = record
      BY <2>2 DEF BeginReview, Reviewable, fileVars
    <3>2. NothingCutShort => record.status = "waiting_review"
      BY <1>0, <3>1, AgreedSays DEF RecordInv
    <3> QED
      BY <1>1, <3>1, <3>2
      DEF RecordInv, NothingCutShort, Recorded, AllIdle, At, Waiting, BeforeVerdict, AfterApproval
  <2> QED  BY <2>1, <2>2 DEF Admit
<1> QED  BY <1>2, <1>3, <1>4, <1>5, <1>6

(* Every step keeps the invariant.                                          *)
LEMMA SerialStep == SerialInv /\ [Next]_vars => SerialInv'
<1> SUFFICES ASSUME SerialInv, [Next]_vars PROVE SerialInv'
  OBVIOUS
<1>0. SyncInv' /\ SyncInv /\ TypeInv
  BY SyncStep DEF SerialInv, SyncInv, OrderInv
<1>1. ASSUME NEW w \in Workers, Admit(w)
      PROVE  SerialInv'
  BY <1>0, <1>1, SerialAdmit DEF SerialInv
<1>2. ASSUME NEW w \in Workers, Serve(w)
      PROVE  SerialInv'
  <2>1. overlaps' = overlaps
    BY <1>2, Frames
  <2>2. overlaps = 0 => VerdictInv' /\ RecordInv'
    <3>1. CASE NothingCutShort'
      BY <1>2, <3>1, VerdictServe, RecordServe DEF SerialInv
    <3>2. CASE ~NothingCutShort'
      BY <3>2 DEF VerdictInv, RecordInv
    <3> QED  BY <3>1, <3>2
  <2> QED
    BY <1>0, <1>2, <2>1, <2>2, NewestServe, PublishServe, LogServe DEF SerialInv
<1>3. CASE Crash
  <2>1. /\ \A w \in Workers : req'[w].pc = "idle"
        /\ crashes' = crashes + 1 /\ overlaps' = overlaps /\ published' = 0
        /\ UNCHANGED <<latest, released, gates, gateLog, logTorn>>
    BY <1>3 DEF Crash, IdleRequest, ForgetPublished, gateVars
  <2>2. crashes \in Nat /\ Len(released) \in Nat /\ crashes' # 0
    BY <1>0, <2>1 DEF TypeInv, TypeOK, FilesTypeOK
  <2> SUFFICES ASSUME overlaps = 0
               PROVE  NewestInv' /\ PublishInv' /\ LogInv' /\ VerdictInv' /\ RecordInv'
    BY <1>0, <2>1 DEF SerialInv
  <2>3. NewestInv'
    BY <2>1 DEF SerialInv, NewestInv, NewestReviewed, Newest
  <2>4. Len(released') <= crashes' + (IF published' = 0 THEN 0 ELSE 1)
    BY <2>1, <2>2 DEF SerialInv, PublishInv
  <2>5. PublishInv'
    BY <2>1, <2>4 DEF SerialInv, PublishInv, Delivered, Publishing
  <2>6. LogInv'
    BY <2>1 DEF SerialInv, LogInv, Filing, AfterApproval
  <2>7. VerdictInv' /\ RecordInv'
    BY <2>2 DEF VerdictInv, RecordInv, NothingCutShort
  <2> QED  BY <2>3, <2>5, <2>6, <2>7
<1>4. CASE UNCHANGED vars
  <2>1. UNCHANGED <<record, latest, published, released, gates, gateLog, logTorn, req,
                    overlaps, crashes, failures>>
    BY <1>4 DEF vars, fileVars, gateVars, counters
  <2>2. NewestInv => NewestInv'
    BY <2>1 DEF NewestInv, NewestReviewed, Newest
  <2>3. PublishInv => PublishInv'
    BY <2>1 DEF PublishInv, Delivered, Publishing
  <2>4. LogInv => LogInv'
    BY <2>1 DEF LogInv, Filing
  <2>5. VerdictInv => VerdictInv'
    BY <2>1 DEF VerdictInv, NothingCutShort, Judging, At
  <2>6. RecordInv => RecordInv'
    BY <2>1 DEF RecordInv, NothingCutShort, AllIdle, At, Agreed, Recorded
  <2> QED  BY <1>0, <2>1, <2>2, <2>3, <2>4, <2>5, <2>6 DEF SerialInv
<1>5. ASSUME NEW w \in Workers, AccessRaises(w)
      PROVE  SerialInv'
  <2>1. /\ Return(w) /\ failures' = failures + 1
        /\ UNCHANGED <<latest, published, released, gates, gateLog, logTorn, overlaps, crashes>>
    BY <1>5 DEF AccessRaises, CountFailure, fileVars, gateVars
  <2>2. req'[w].pc = "idle" /\ \A v \in Workers \ {w} : req'[v] = req[v]
    BY <1>0, <2>1, ReturnFields
  <2>3. failures' # 0
    BY <1>0, <2>1 DEF TypeInv, TypeOK
  <2> SUFFICES ASSUME overlaps = 0
               PROVE  NewestInv' /\ PublishInv' /\ LogInv' /\ VerdictInv' /\ RecordInv'
    BY <1>0, <2>1 DEF SerialInv
  <2>4. NewestInv'
    BY <2>1, <2>2 DEF SerialInv, NewestInv, NewestReviewed, Newest
  <2>5. PublishInv'
    BY <2>1, <2>2 DEF SerialInv, PublishInv, Delivered, Publishing
  <2>6. LogInv'
    BY <2>1, <2>2 DEF SerialInv, LogInv, Filing, AfterApproval
  <2>7. VerdictInv' /\ RecordInv'
    BY <2>3 DEF VerdictInv, RecordInv, NothingCutShort
  <2> QED  BY <2>4, <2>5, <2>6, <2>7
<1> QED  BY <1>1, <1>2, <1>3, <1>4, <1>5 DEF Next

(* The invariant holds in every reachable state.                            *)
LEMMA SerialInvariant == Spec => []SerialInv
<1>1. Init => SerialInv
  <2> SUFFICES ASSUME Init PROVE SerialInv
    OBVIOUS
  <2>1. /\ released = <<>> /\ crashes = 0 /\ published = 0 /\ gateLog = {}
        /\ record.status = "absent" /\ gates = NoGates
        /\ \A s \in Stages : gates[s].status = "locked"
        /\ \A w \in Workers : req[w].pc = "idle"
    BY DEF Init, FilesInit, IdleRequest, NoRecord, NoGates
  <2>2. NewestInv
    BY <2>1, StageFacts DEF NewestInv, NewestReviewed, Newest
  <2>3. PublishInv
    BY <2>1 DEF PublishInv, Delivered, Publishing
  <2>4. LogInv
    BY <2>1 DEF LogInv, Filed, Filing, AfterApproval
  <2>5. VerdictInv
    BY <2>1 DEF VerdictInv, NoTwo, Consistent, Judging, Ahead, AfterApproval
  <2>6. RecordInv
    BY <2>1 DEF RecordInv, Agreed, Recorded, Waiting, BeforeVerdict, AfterApproval
  <2> QED  BY SyncInit, <2>2, <2>3, <2>4, <2>5, <2>6 DEF SerialInv
<1> QED  BY <1>1, SerialStep, PTL DEF Spec

-----------------------------------------------------------------------------
(* The stage file implements StageGates, step by step.                       *)

(* The phase of each status.                                                *)
LEMMA Phases ==
  /\ PhaseOf("locked") = "closed" /\ PhaseOf("ready") = "open" /\ PhaseOf("running") = "open"
  /\ PhaseOf("pending_review") = "review" /\ PhaseOf("approved") = "passed"
  /\ PhaseOf("revision_required") = "returned" /\ PhaseOf("failed") = "failed"
  BY DEF PhaseOf

(* Only approved stages count as passed.                                    *)
LEMMA PassedMeansApproved ==
  ASSUME NEW status \in Statuses
  PROVE  PhaseOf(status) = "passed" <=> status = "approved"
  BY Phases DEF Statuses

(* The picture of the run that StageGates has. *)
Phase == [s \in 1 .. Optimization |-> PhaseOf(gates[s].status)]
Edition == [s \in 1 .. Optimization |-> gates[s].version]

(* A change of one status is one of the phase of its stage.                 *)
LEMMA StageMoves ==
  ASSUME gates \in Gates, NEW s \in 1 .. Optimization, NEW from, NEW to, Moved(s, from, to)
  PROVE  /\ Phase[s] = PhaseOf(from)
         /\ Phase' = [Phase EXCEPT ![s] = PhaseOf(to)]
         /\ Edition' = Edition
<1>0. \A t \in 1 .. Optimization : t \in Stages
  BY StageFacts
<1>1. ASSUME NEW t \in 1 .. Optimization
      PROVE  /\ gates'[t].version = gates[t].version
             /\ PhaseOf(gates'[t].status) = IF t = s THEN PhaseOf(to) ELSE Phase[t]
  BY <1>0, MovedGate DEF Phase
<1>2. Phase[s] = PhaseOf(from)
  BY DEF Phase, Moved
<1>3. Phase' = [t \in 1 .. Optimization |-> PhaseOf(gates'[t].status)]
  BY DEF Phase
<1>4. Phase' = [Phase EXCEPT ![s] = PhaseOf(to)]
  BY <1>1, <1>3 DEF Phase
<1>5. Edition' = Edition
  BY <1>1 DEF Edition
<1> QED  BY <1>2, <1>4, <1>5

(* Passing on is what the abstract gates call passing.                      *)
LEMMA StageIsPassed ==
  ASSUME gates \in Gates, Ordered(gates), NEW s \in Stages, PassedOn(s),
         released' = released, s = PublishReview => released # <<>>
  PROVE  Promise!Pass(s) /\ s \in Promise!Steps
<1>0. s \in 1 .. Optimization /\ \A t \in 1 .. Optimization : t \in Stages
  BY StageFacts DEF PassedOn
<1>1. ASSUME NEW t \in 1 .. Optimization
      PROVE  /\ gates'[t].version = gates[t].version
             /\ PhaseOf(gates'[t].status)
                  = IF t = s THEN "passed" ELSE IF t = s + 1 THEN "open" ELSE Phase[t]
  BY <1>0, PassedOnGate, Phases DEF Phase
<1>2. Phase' = [t \in 1 .. Optimization |-> PhaseOf(gates'[t].status)]
  BY DEF Phase
<1>3. /\ Phase[s] = "review"
      /\ Phase' = [t \in 1 .. Optimization |->
                     IF t = s THEN "passed" ELSE IF t = s + 1 THEN "open" ELSE Phase[t]]
  BY <1>0, <1>1, <1>2, Phases DEF Phase, PassedOn
<1>4. Edition' = Edition
  BY <1>1 DEF Edition
<1> QED
  BY <1>0, <1>3, <1>4 DEF Promise!Pass, Promise!Steps, Phase, Edition

(* Sending back is what they call returning.                                *)
LEMMA StageIsReturned ==
  ASSUME gates \in Gates, Ordered(gates), NEW s \in Stages, SentBack(s), released' = released
  PROVE  Promise!Return(s) /\ s \in Promise!Steps
<1>0. s \in 1 .. Optimization /\ \A t \in 1 .. Optimization : t \in Stages
  BY StageFacts DEF SentBack
<1>1. ASSUME NEW t \in 1 .. Optimization
      PROVE  /\ gates'[t].version = IF t < s THEN Edition[t] ELSE Edition[t] + 1
             /\ PhaseOf(gates'[t].status) = IF t = s THEN "returned" ELSE Phase[t]
  <2>1. CASE t < s
    BY <1>0, <2>1, SentBackGate DEF Phase, Edition
  <2>2. CASE t = s
    BY <1>0, <2>2, SentBackGate, Phases DEF Phase, Edition
  <2>3. CASE s < t
    <3>1. gates[t].status = "locked"
      BY <1>0, <2>3 DEF SentBack, Ordered, Open
    <3> QED  BY <1>0, <2>3, <3>1, SentBackGate, Phases DEF Phase, Edition
  <2> QED  BY <1>0, <2>1, <2>2, <2>3
<1>2. /\ Phase' = [t \in 1 .. Optimization |-> PhaseOf(gates'[t].status)]
      /\ Edition' = [t \in 1 .. Optimization |-> gates'[t].version]
  BY DEF Phase, Edition
<1>3. Phase[s] \in {"review", "returned"}
  BY <1>0, Phases DEF Phase, SentBack, Open
<1>4. Phase' = [Phase EXCEPT ![s] = "returned"]
  BY <1>1, <1>2 DEF Phase
<1>5. Edition' = [t \in 1 .. Optimization |-> IF t < s THEN Edition[t] ELSE Edition[t] + 1]
  BY <1>1, <1>2
<1> QED
  BY <1>0, <1>3, <1>4, <1>5 DEF Promise!Return, Promise!Steps, Phase, Edition

(* Creating the gates starts them.                                          *)
LEMMA StagesAreCreated ==
  ASSUME Created, released' = released
  PROVE  Promise!Start
<1>0. 1 \in 1 .. Optimization /\ \A t \in 1 .. Optimization : t \in Stages /\ t # Input
  BY StageFacts
<1>1. ASSUME NEW t \in 1 .. Optimization
      PROVE  /\ gates'[t].version = gates[t].version
             /\ Phase[t] = "closed"
             /\ PhaseOf(gates'[t].status) = IF t = 1 THEN "open" ELSE Phase[t]
  BY <1>0, CreatedGate, Phases, StageFacts DEF Phase
<1>2. Phase' = [t \in 1 .. Optimization |-> PhaseOf(gates'[t].status)]
  BY DEF Phase
<1>3. Phase' = [Phase EXCEPT ![1] = "open"]
  BY <1>1, <1>2 DEF Phase
<1>4. Edition' = Edition
  BY <1>1 DEF Edition
<1> QED
  BY <1>0, <1>1, <1>3, <1>4 DEF Promise!Start, Promise!Move, Phase, Edition

(* Every step of a request is one of the abstract gates, or none.           *)
LEMMA ServeIsPromised ==
  ASSUME SerialInv, overlaps = 0, NEW w \in Workers, Serve(w)
  PROVE  [Promise!Next]_(Promise!gateVars)
<1> DEFINE r == req[w]
           s == req[w].stage
<1> USE DEF At
<1>0. /\ SyncInv /\ NewestInv /\ PublishInv /\ TypeInv
      /\ gates \in Gates /\ Ordered(gates) /\ s \in Stages
  BY ServesAlone DEF SerialInv
<1>1. \A t \in Stages : t # Input => t \in 1 .. Optimization
  BY StageFacts
<1>2. CASE RecordPublication(w)
  <2>1. /\ gates' = gates /\ r.payload = gates[Advertisement].version
        /\ released' = Append(released, r.payload)
    BY <1>0, <1>2 DEF RecordPublication, Publish, gateVars, PublishInv, Publishing
  <2>2. gates[PublishReview].status = "pending_review"
    BY <1>0, <1>2, DeskFacts DEF RecordPublication
  <2>3. Phase[PublishReview] = "review" /\ Edition[Advertisement] = r.payload
    BY <2>1, <2>2, Phases, StageFacts DEF Phase, Edition
  <2>4. Phase' = Phase /\ Edition' = Edition
    BY <2>1 DEF Phase, Edition
  <2>5. Promise!Release
    BY <2>1, <2>3, <2>4 DEF Promise!Release, Phase, Edition
  <2> QED  BY <2>5 DEF Promise!Next
<1> SUFFICES ASSUME ~RecordPublication(w) PROVE [Promise!Next]_(Promise!gateVars)
  BY <1>2
<1>3. released' = released
  BY Frames
<1>4. ASSUME Phase' = Phase, Edition' = Edition
      PROVE  [Promise!Next]_(Promise!gateVars)
  BY <1>3, <1>4 DEF Promise!gateVars, Phase, Edition
<1>5. ASSUME NEW t \in Stages, NEW from \in {"ready", "running"}, NEW to, Moved(t, from, to),
             to = "pending_review" \/ to = "failed"
      PROVE  [Promise!Next]_(Promise!gateVars)
  <2>1. t \in 1 .. Optimization /\ PhaseOf(from) = "open"
    BY <1>1, <1>5, Phases DEF Moved
  <2>2. Promise!Finish(t) \/ Promise!Fail(t)
    BY <1>0, <1>3, <1>5, <2>1, StageMoves, Phases
    DEF Promise!Finish, Promise!Fail, Promise!Move, Phase, Edition
  <2>3. t \in Promise!Steps
    BY <2>1 DEF Promise!Steps
  <2> QED  BY <2>2, <2>3 DEF Promise!Next
<1>6. CASE gates' = gates
  BY <1>4, <1>6 DEF Phase, Edition
<1>7. CASE CreateGates(w)
  BY <1>0, <1>3, <1>7, GateMoves, StagesAreCreated DEF Promise!Next
<1>8. CASE SaveRejection(w)
  BY <1>0, <1>3, <1>8, GateMoves, StageIsReturned DEF Promise!Next
<1>9. CASE Unlock(w)
  <2>1. s = PublishReview => released # <<>>
    BY <1>0, <1>9 DEF Unlock, PublishInv, Publishing
  <2> QED
    BY <1>0, <1>3, <1>9, <2>1, GateMoves, StageIsPassed DEF Promise!Next
<1>10. CASE OpenPublishReview(w)
  BY <1>0, <1>5, <1>10, GateMoves, StageFacts
<1>11. CASE SaveFinalGates(w)
  <2>1. Moved(Optimization, "pending_review", "approved")
    BY <1>0, <1>11, GateMoves
  <2>2. Optimization \in 1 .. Optimization /\ Optimization # PublishReview
        /\ \A t \in 1 .. Optimization : t # Optimization + 1
    BY StageFacts
  <2>3. /\ Phase[Optimization] = "review"
        /\ Phase' = [Phase EXCEPT ![Optimization] = "passed"]
        /\ Edition' = Edition
    BY <1>0, <2>1, <2>2, StageMoves, Phases
  <2>4. Phase' = [t \in 1 .. Optimization |->
                    IF t = Optimization THEN "passed"
                    ELSE IF t = Optimization + 1 THEN "open" ELSE Phase[t]]
    BY <2>2, <2>3 DEF Phase
  <2>5. Promise!Pass(Optimization) /\ Optimization \in Promise!Steps
    BY <1>3, <2>2, <2>3, <2>4 DEF Promise!Pass, Promise!Steps, Phase, Edition
  <2> QED  BY <2>5 DEF Promise!Next
<1>12. CASE SaveRunning(w)
  <2>1. Moved(s, "ready", "running") /\ s \in 1 .. Optimization
    BY <1>0, <1>1, <1>12, GateMoves DEF Moved
  <2>2. /\ Phase[s] = "open" /\ Phase' = [Phase EXCEPT ![s] = "open"] /\ Edition' = Edition
    BY <1>0, <2>1, StageMoves, Phases
  <2>3. Phase' = Phase
    BY <2>1, <2>2 DEF Phase
  <2> QED  BY <1>4, <2>2, <2>3
<1>13. CASE SaveOutcomeGates(w)
  <2>1. /\ Moved(s, "running", r.gates[s].status)
        /\ r.gates[s].status \in {"pending_review", "failed"}
    BY <1>0, <1>13, GateMoves
  <2> QED  BY <1>0, <1>5, <2>1
<1> QED
  BY <1>6, <1>7, <1>8, <1>9, <1>10, <1>11, <1>12, <1>13, Frames

(* As long as clients wait, every step of a thread, every access that raises *)
(* and every crash is a step of StageGates or leaves its picture of the run  *)
(* alone: work is done behind *)
(* one gate at a time, a gate opens when the one before it is passed, and a  *)
(* release carries the edition of the advertisement that was passed.         *)
THEOREM GatesArePromised == Spec => ImplementsStageGates
<1>1. Init => Promise!Init
  <2> SUFFICES ASSUME Init PROVE Promise!Init
    OBVIOUS
  <2>1. \A s \in 1 .. Optimization : gates[s].version = 1 /\ PhaseOf(gates[s].status) = "closed"
    BY Phases, StageFacts DEF Init, NoGates
  <2>2. released = <<>>
    BY DEF Init, FilesInit
  <2> QED  BY <2>1, <2>2 DEF Promise!Init, Promise!Steps
<1>2. SerialInv /\ [Next]_vars => [ClientsWait' => [Promise!Next]_(Promise!gateVars)]_vars
  <2> SUFFICES ASSUME SerialInv, [Next]_vars, overlaps' = 0
               PROVE  [Promise!Next]_(Promise!gateVars)
    BY DEF ClientsWait
  <2>1. ASSUME UNCHANGED <<gates, released>>
        PROVE  [Promise!Next]_(Promise!gateVars)
    BY <2>1 DEF Promise!gateVars
  <2>2. ASSUME NEW w \in Workers, Admit(w)
        PROVE  [Promise!Next]_(Promise!gateVars)
    BY <2>1, <2>2 DEF Admit, StartRun, BeginReview, gateVars, fileVars
  <2>3. ASSUME NEW w \in Workers, Serve(w)
        PROVE  [Promise!Next]_(Promise!gateVars)
    BY <2>3, Frames, ServeIsPromised
  <2>4. CASE Crash
    BY <2>1, <2>4 DEF Crash, gateVars
  <2>5. CASE UNCHANGED vars
    BY <2>1, <2>5 DEF vars, fileVars, gateVars
  <2>6. ASSUME NEW w \in Workers, AccessRaises(w)
        PROVE  [Promise!Next]_(Promise!gateVars)
    BY <2>1, <2>6 DEF AccessRaises, gateVars, fileVars
  <2> QED  BY <2>2, <2>3, <2>4, <2>5, <2>6 DEF Next
<1>3. Spec => Promise!Init /\ [][ClientsWait' => [Promise!Next]_(Promise!gateVars)]_vars
  BY <1>1, <1>2, SerialInvariant, PTL DEF Spec
<1> QED  BY <1>3 DEF ImplementsStageGates

(* As long as clients wait, a process publishes the run at most once; every  *)
(* further release costs a restart.                                          *)
THEOREM ReleasesBounded == Spec => [](ClientsWait => OneReleasePerProcess)
<1>1. SerialInv => (ClientsWait => OneReleasePerProcess)
  <2> SUFFICES ASSUME SerialInv, ClientsWait PROVE OneReleasePerProcess
    OBVIOUS
  <2>1. Len(released) \in Nat /\ crashes \in Nat
    BY DEF SerialInv, SyncInv, OrderInv, TypeInv, TypeOK, FilesTypeOK
  <2> QED  BY <2>1 DEF SerialInv, ClientsWait, PublishInv, OneReleasePerProcess
<1> QED  BY <1>1, SerialInvariant, PTL

(* As long as clients wait, an approved gate has the approval of its version *)
(* in the log, wherever the process died, unless the log itself is torn.     *)
THEOREM ApprovalsAreFiled == Spec => []ApprovalOnFile
<1>1. SerialInv => ApprovalOnFile
  BY DEF SerialInv, ClientsWait, LogInv, Filed, ApprovalOnFile, Verdict
<1> QED  BY <1>1, SerialInvariant, PTL

(* While clients wait and no request is cut short, no version of a stage     *)
(* gets two different verdicts.                                              *)
THEOREM VerdictsStayFinal == Spec => []VerdictsAreFinal
<1>1. SerialInv => VerdictsAreFinal
  BY DEF SerialInv, ClientsWait, VerdictInv, NoTwo, VerdictsAreFinal
<1> QED  BY <1>1, SerialInvariant, PTL

(* While clients wait and no request is cut short, the status of the run     *)
(* record says between requests where the gates are.                         *)
THEOREM RecordsAgree == Spec => []RecordAgreesWithGates
<1>1. SerialInv => RecordAgreesWithGates
  BY AgreedSays
  DEF SerialInv, SyncInv, OrderInv, GateOrder, ClientsWait, RecordInv, RecordAgreesWithGates
<1> QED  BY <1>1, SerialInvariant, PTL

(* As long as clients wait, a release happens only behind the approved gates *)
(* before publish_review, with its approval already in the log.              *)
THEOREM PublishedInOrder == Spec => PublishedBehindGates
<1>1. SerialInv /\ [Next]_vars =>
        [ClientsWait /\ released' # released =>
           /\ \A s \in Stages : s < PublishReview => gates[s].status = "approved"
           /\ gates[Advertisement].version = released'[Len(released')]
           /\ Verdict(PublishReview, "approved") \in gateLog]_vars
  <2> SUFFICES ASSUME SerialInv, [Next]_vars, overlaps = 0, released' # released
               PROVE  /\ \A s \in Stages : s < PublishReview => gates[s].status = "approved"
                      /\ gates[Advertisement].version = released'[Len(released')]
                      /\ Verdict(PublishReview, "approved") \in gateLog
    BY DEF ClientsWait
  <2>1. PICK w \in Workers : Serve(w) /\ RecordPublication(w)
    <3>1. ~(\E w \in Workers : Admit(w) \/ AccessRaises(w)) /\ ~Crash /\ ~(UNCHANGED vars)
      BY DEF Admit, StartRun, BeginReview, AccessRaises, Crash, vars, fileVars
    <3> QED  BY <3>1, Frames DEF Next
  <2> DEFINE r == req[w]
  <2>2. /\ SyncInv /\ NewestInv /\ PublishInv /\ LogInv /\ InStep(w) /\ gates \in Gates
        /\ r.pc = "record_publication" /\ r.stage = PublishReview
    BY <2>1, ServesAlone, DeskFacts DEF SerialInv, RecordPublication, At
  <2>3. /\ \A s \in Stages : s < PublishReview => gates[s].status = "approved"
        /\ r.payload = gates[Advertisement].version
    BY <2>1, <2>2, DeskFacts DEF PublishInv, Publishing
  <2>4. released \in Seq(Nat) /\ r.payload \in Nat
    BY <2>2, RequestFields DEF SyncInv, OrderInv, TypeInv, TypeOK, FilesTypeOK
  <2>5. released'[Len(released')] = r.payload
    BY <2>1, <2>4 DEF RecordPublication, Publish
  <2>6. /\ Filed(gateLog, r.gates)
        /\ r.gates = SetStatus(gates, PublishReview, "approved")
    BY <2>2 DEF LogInv, Filing, InStep, AfterApproval
  <2>7. /\ r.gates[PublishReview].status = "approved"
        /\ r.gates[PublishReview].version = gates[PublishReview].version
    BY <2>2, <2>6, SetStatusIs, StageFacts
  <2>8. Verdict(PublishReview, "approved") \in gateLog
    BY <2>6, <2>7, StageFacts DEF Filed, Verdict
  <2> QED  BY <2>3, <2>5, <2>8
<1> QED  BY <1>1, SerialInvariant, PTL DEF Spec, PublishedBehindGates

-----------------------------------------------------------------------------
(* One overlap.  A request that begins while another one is served finds a   *)
(* gate under review, so that the other one has not written the gates yet,   *)
(* or has only the record left to write: both start from the same gates and  *)
(* review the same stage b.  Whatever they write over each other from there  *)
(* on, all gates that count, in the files and in the copies, are at the      *)
(* versions E of that moment, and artifacts are made for these only.         *)

Counted == {"ready", "running", "pending_review", "approved", "failed"}

Behind == {"pending_review", "approved"}

(* Gates that go no further than one stage beyond the review of b.           *)
UpTo(g, b, E, made) ==
  \A t \in Stages :
    /\ t < b => g[t].status = "approved"
    /\ t = b + 1 => g[t].status # "revision_required"
    /\ b + 1 < t => g[t].status = "locked"
    /\ g[t].status \in Counted => g[t].version = E[t]
    /\ t \in Producing /\ g[t].status \in Behind => made[t] = E[t]

Reviewing == BeforeVerdict \union AfterApproval \union {"save_rejection", "open_publish_review"}
Executing == AtWork \union {"load_gates", "save_outcome_gates"}

(* A request reviews b, or executes what comes after it.                     *)
Shares(r, b, E, made) ==
  /\ r.pc \in Reviewing => r.stage = b
  /\ r.pc \in Executing => r.stage = b + 1
  /\ r.pc \in Reviewing \union (Executing \ {"load_gates"}) => UpTo(r.gates, b, E, made)
  /\ r.pc \in BeforeVerdict /\ r.decision = "approved" => r.gates[b].status = "pending_review"
  /\ (r.pc \in AfterApproval \/ (r.pc \in BeforeVerdict /\ r.decision = "approved"))
       /\ b # Optimization => r.gates[b + 1].version = E[b + 1]
  /\ r.pc \in {"decide", "publish", "record_publication"} => r.payload = E[Advertisement]

Together(b, E) ==
  /\ UpTo(gates, b, E, latest)
  /\ \A w \in Workers : Shares(req[w], b, E, latest)
  /\ released # <<>> =>
       /\ PublishReview <= b
       /\ \A i \in DOMAIN released : released[i] = E[Advertisement]

(* A run that is not there has no gates, and whoever creates them is alone.  *)
Beginning(w) ==
  /\ At(w, "create_gates") => gates = NoGates /\ \A v \in Workers \ {w} : At(v, "idle")
  /\ req[w].pc \in {"save_record", "save_outcome_gates", "save_outcome_record"} =>
       req[w].record.status # "absent"

BeginningInv == NothingBefore /\ \A w \in Workers : Beginning(w)

OverlapInv ==
  /\ SyncInv
  /\ BeginningInv
  /\ OneOverlap => \E b \in Stages, E \in [Stages -> Versions] : Together(b, E)

(* A gate at b or after it moves, at the version that was agreed on.         *)
LEMMA UpToMoves ==
  ASSUME NEW g \in Gates, NEW b \in Stages, NEW E, NEW made, NEW s \in Stages, NEW status,
         UpTo(g, b, E, made), s = b \/ s = b + 1, g[s].version = E[s],
         status \notin {"revision_required", "locked"},
         s \in Producing /\ status \in Behind => made[s] = E[s]
  PROVE  UpTo(SetStatus(g, s, status), b, E, made)
<1> DEFINE h == SetStatus(g, s, status)
<1>1. /\ h[s].status = status /\ h[s].version = g[s].version
      /\ \A t \in Stages \ {s} : h[t] = g[t]
  BY SetStatusIs
<1> HIDE DEF h
<1>2. UpTo(h, b, E, made)
  BY <1>1, StageFacts DEF UpTo
<1> QED  BY <1>2 DEF h

(* A rejection closes what comes after b.                                    *)
LEMMA UpToSentBack ==
  ASSUME NEW g \in Gates, NEW b \in Stages, NEW E, NEW made, UpTo(g, b, E, made)
  PROVE  UpTo(Decided(g, b, "rejected"), b, E, made)
<1> DEFINE h == Decided(g, b, "rejected")
<1>1. \A t \in Stages :
        /\ t < b => h[t] = g[t]
        /\ t = b => h[t].status = "revision_required"
        /\ b < t => h[t].status = "locked"
  BY StageFacts DEF Decided, SendBack
<1> HIDE DEF h
<1>2. UpTo(h, b, E, made)
  BY <1>1, StageFacts DEF UpTo, Counted, Behind
<1> QED  BY <1>2 DEF h

(* Artifacts made for what was agreed on disturb nobody.                     *)
LEMMA SharesStays ==
  ASSUME NEW b \in Stages, NEW E, NEW old, NEW made,
         \A t \in Producing : made[t] \in {old[t], E[t]}
  PROVE  /\ \A g : UpTo(g, b, E, old) => UpTo(g, b, E, made)
         /\ \A r : Shares(r, b, E, old) => Shares(r, b, E, made)
<1>1. \A g : UpTo(g, b, E, old) => UpTo(g, b, E, made)
  BY DEF UpTo
<1> QED  BY <1>1 DEF Shares

(* Whoever keeps to what was agreed on leaves everybody in agreement.        *)
LEMMA TogetherKept ==
  ASSUME NEW b \in Stages, NEW E, Together(b, E), NEW w \in Workers,
         \A v \in Workers \ {w} : req'[v] = req[v],
         \A t \in Producing : latest'[t] \in {latest[t], E[t]},
         gates' = gates \/ UpTo(gates', b, E, latest'),
         Shares(req'[w], b, E, latest'), released' = released
  PROVE  Together(b, E)'
<1>1. \A v \in Workers : Shares(req'[v], b, E, latest')
  BY SharesStays DEF Together
<1>2. UpTo(gates', b, E, latest')
  BY SharesStays DEF Together
<1> QED  BY <1>1, <1>2 DEF Together

(* Nothing is asked of these.                                                *)
LEMMA AtEase ==
  ASSUME NEW r, r.pc \in {"idle", "create_gates", "save_outcome_record"}
  PROVE  \A b, E, made : Shares(r, b, E, made)
  BY DEF Shares, Reviewing, Executing, BeforeVerdict, AfterApproval, AtWork

(* The steps of a review, up to its verdict and beyond.                      *)
LEMMA TogetherReview ==
  ASSUME OrderInv, NEW b \in Stages, NEW E, Together(b, E), NEW w \in Workers, Review(w)
  PROVE  Together(b, E)'
<1> DEFINE r == req[w]
<1> USE DEF BeforeVerdict, AfterApproval, AtWork, Reviewing, Executing
<1>0. /\ TypeInv /\ r.stage \in Stages /\ r.gates \in Gates /\ PlanOrdered(r) /\ Underway(r)
      /\ r.decision \in {"approved", "rejected"}
      /\ Shares(r, b, E, latest) /\ latest \in [Producing -> Nat]
  BY RequestFields DEF OrderInv, Together, TypeInv, TypeOK, FilesTypeOK
<1>1. ASSUME UNCHANGED <<gates, latest, released>>, Return(w)
      PROVE  Together(b, E)'
  BY <1>0, <1>1, ReturnFields, AtEase, TogetherKept
<1>2. ASSUME UNCHANGED <<latest, released>>, gates' = r.gates, Return(w),
             r.pc \in {"save_rejection", "save_final_gates"}
      PROVE  Together(b, E)'
  <2>1. UpTo(gates', b, E, latest')
    BY <1>0, <1>2 DEF Shares
  <2> QED  BY <1>0, <1>2, <2>1, ReturnFields, AtEase, TogetherKept
<1>3. ASSUME UNCHANGED <<gates, latest, released>>, NEW pc \in PCs, Goto(w, pc),
             \/ r.pc = "truncate_log" /\ pc = "write_log"
             \/ r.pc = "decide" /\ pc = "publish"
             \/ r.pc = "publish" /\ pc = "record_publication"
             \/ r.pc = "load_final_record" /\ pc = "save_final_record"
             \/ r.pc = "save_final_record" /\ pc = "save_final_gates"
      PROVE  Together(b, E)'
  <2>1. GoesOn(w, pc, r.gates, r.log, r.payload, r.record)
    BY <1>0, <1>3, GotoFields
  <2>2. Shares(req'[w], b, E, latest')
    BY <1>0, <1>3, <2>1 DEF Shares, GoesOn
  <2> QED  BY <1>0, <1>3, <2>1, <2>2, TogetherKept DEF GoesOn
<1>4. CASE ReadLog(w)
  <2>1. UNCHANGED <<gates, latest, released>> /\ r.pc = "read_log"
    BY <1>4 DEF ReadLog, At, fileVars, gateVars
  <2>2. CASE ~logTorn
    <3>1. GoesOn(w, "truncate_log", r.gates, gateLog, r.payload, r.record)
      BY <1>0, <1>4, <2>2, ReadLogFields
    <3>2. Shares(req'[w], b, E, latest')
      BY <1>0, <2>1, <3>1 DEF Shares, GoesOn
    <3> QED  BY <2>1, <3>1, <3>2, TogetherKept DEF GoesOn
  <2> QED  BY <1>1, <1>4, <2>1, <2>2 DEF ReadLog
<1>5. CASE WriteLog(w)
  <2> DEFINE g == Decided(r.gates, r.stage, r.decision)
  <2>1. UNCHANGED <<gates, latest, released>> /\ r.pc = "write_log"
    BY <1>5 DEF WriteLog, At, fileVars
  <2>2. r.stage = b /\ UpTo(r.gates, b, E, latest)
    BY <1>0, <2>1 DEF Shares
  <2>3. GoesOn(w, AfterVerdict(b, r.decision), g, {}, r.payload, r.record)
    BY <1>0, <1>5, <2>2, WriteLogFields
  <2>4. CASE r.decision = "rejected"
    <3>1. UpTo(g, b, E, latest)
      BY <1>0, <2>2, <2>4, UpToSentBack
    <3>2. req'[w].pc = "save_rejection" /\ req'[w].stage = b /\ req'[w].gates = g
      BY <2>2, <2>3, <2>4 DEF GoesOn, AfterVerdict
    <3> HIDE DEF g
    <3>3. Shares(req'[w], b, E, latest')
      BY <2>1, <3>1, <3>2 DEF Shares
    <3> QED  BY <2>1, <2>3, <3>3, TogetherKept DEF GoesOn
  <2>5. CASE r.decision = "approved"
    <3>1. r.gates[b].status = "pending_review"
      BY <1>0, <2>1, <2>5 DEF Shares
    <3>2. g = SetStatus(r.gates, b, "approved")
      BY <2>2, <2>5 DEF Decided
    <3>3. UpTo(g, b, E, latest)
      BY <1>0, <2>2, <3>1, <3>2, UpToMoves DEF UpTo, Counted, Behind
    <3>4. b # Optimization => g[b + 1].version = E[b + 1]
      BY <1>0, <2>1, <2>5, <3>2, SetStatusIs, StageFacts DEF Shares
    <3>5. /\ req'[w].pc \in {"load_payload", "load_final_record", "unlock"}
          /\ req'[w].stage = b /\ req'[w].gates = g
      BY <2>2, <2>3, <2>5 DEF GoesOn, AfterVerdict
    <3> HIDE DEF g
    <3>6. Shares(req'[w], b, E, latest')
      BY <2>1, <3>3, <3>4, <3>5 DEF Shares
    <3> QED  BY <2>1, <2>3, <3>6, TogetherKept DEF GoesOn
  <2> QED  BY <1>0, <2>4, <2>5
<1>6. CASE LoadPayload(w)
  <2>1. UNCHANGED <<gates, latest, released>> /\ r.pc = "load_payload"
    BY <1>6 DEF LoadPayload, At, fileVars, gateVars
  <2>2. CASE latest[Advertisement] # 0
    <3>1. GoesOn(w, "decide", r.gates, r.log, latest[Advertisement], r.record)
      BY <1>0, <1>6, <2>2, LoadPayloadFields
    <3>2. UpTo(r.gates, b, E, latest) /\ b = PublishReview
      BY <1>0, <2>1 DEF Shares, Underway
    <3>3. latest[Advertisement] = E[Advertisement]
      BY <3>2, StageFacts DEF UpTo, Behind
    <3>4. Shares(req'[w], b, E, latest')
      BY <1>0, <2>1, <3>1, <3>3 DEF Shares, GoesOn
    <3> QED  BY <2>1, <3>1, <3>4, TogetherKept DEF GoesOn
  <2> QED  BY <1>1, <1>6, <2>1, <2>2 DEF LoadPayload
<1>7. CASE RecordPublication(w)
  <2>1. /\ UNCHANGED <<gates, latest>> /\ r.pc = "record_publication"
        /\ released' = Append(released, r.payload)
    BY <1>7 DEF RecordPublication, Publish, At, gateVars
  <2>2. GoesOn(w, "unlock", r.gates, r.log, r.payload, r.record)
    BY <1>0, <1>7, GotoFields DEF RecordPublication
  <2>3. Shares(req'[w], b, E, latest')
    BY <1>0, <2>1, <2>2 DEF Shares, GoesOn
  <2>4. \A v \in Workers : Shares(req'[v], b, E, latest')
    BY <2>1, <2>2, <2>3 DEF Together, GoesOn
  <2>5. b = PublishReview /\ r.payload = E[Advertisement]
    BY <1>0, <2>1 DEF Shares, Underway
  <2>6. released \in Seq(Nat) /\ r.payload \in Nat
    BY <1>0, RequestFields DEF TypeInv, TypeOK, FilesTypeOK
  <2>7. ASSUME NEW i \in DOMAIN released'
        PROVE  released'[i] = r.payload \/ (i \in DOMAIN released /\ released'[i] = released[i])
    BY <2>1, <2>6
  <2>8. \A i \in DOMAIN released' : released'[i] = E[Advertisement]
    BY <2>5, <2>6, <2>7 DEF Together
  <2>9. PublishReview <= b
    BY <2>5, StageFacts
  <2> QED  BY <2>1, <2>4, <2>8, <2>9 DEF Together
<1>8. CASE Unlock(w)
  <2> DEFINE g == SetStatus(r.gates, b + 1, "ready")
  <2>1. UNCHANGED <<latest, released>> /\ r.pc = "unlock"
    BY <1>8 DEF Unlock, At, fileVars
  <2>2. r.stage = b /\ b # Optimization /\ b + 1 \in Stages
    BY <1>0, <2>1, StageFacts DEF Shares, Underway
  <2>3. gates' = g
    BY <1>8, <2>2 DEF Unlock
  <2>4. UpTo(r.gates, b, E, latest) /\ r.gates[b + 1].version = E[b + 1]
    BY <1>0, <2>1, <2>2 DEF Shares
  <2>5. UpTo(g, b, E, latest)
    BY <1>0, <2>2, <2>4, UpToMoves DEF Behind
  <2>6. /\ b + 1 = PublishReview => GoesOn(w, "open_publish_review", g, r.log, r.payload, r.record)
        /\ b + 1 # PublishReview => req'[w].pc = "load_gates" /\ req'[w].stage = b + 1
        /\ \A v \in Workers \ {w} : req'[v] = req[v]
    BY <1>0, <1>8, <2>2, UnlockFields DEF GoesOn
  <2> HIDE DEF g
  <2>7. Shares(req'[w], b, E, latest')
    BY <2>1, <2>2, <2>5, <2>6 DEF Shares, GoesOn
  <2> QED  BY <2>1, <2>3, <2>5, <2>6, <2>7, TogetherKept
<1>9. CASE OpenPublishReview(w)
  <2>1. /\ UNCHANGED <<latest, released>> /\ r.pc = "open_publish_review" /\ Return(w)
        /\ gates' = SetStatus(r.gates, PublishReview, "pending_review")
    BY <1>9 DEF OpenPublishReview, At, fileVars
  <2>2. UpTo(r.gates, b, E, latest) /\ r.gates[PublishReview].status = "ready"
    BY <1>0, <2>1 DEF Shares, PlanOrdered
  <2>3. /\ PublishReview = b \/ PublishReview = b + 1
        /\ r.gates[PublishReview].version = E[PublishReview]
    BY <2>2, StageFacts DEF UpTo, Counted
  <2>4. UpTo(gates', b, E, latest')
    BY <1>0, <2>1, <2>2, <2>3, UpToMoves, StageFacts
  <2> QED  BY <1>0, <2>1, <2>4, ReturnFields, AtEase, TogetherKept
<1>10. CASE LoadFinalRecord(w)
  <2>1. UNCHANGED <<gates, latest, released>> /\ r.pc = "load_final_record"
    BY <1>10 DEF LoadFinalRecord, At, fileVars, gateVars
  <2>2. GoesOn(w, "save_final_record", r.gates, r.log, r.payload, record)
    BY <1>0, <1>10, LoadFinalRecordFields
  <2>3. Shares(req'[w], b, E, latest')
    BY <1>0, <2>1, <2>2 DEF Shares, GoesOn
  <2> QED  BY <2>1, <2>2, <2>3, TogetherKept DEF GoesOn
<1>11. CASE TruncateLog(w) \/ DecidePayload(w) \/ SaveFinalRecord(w)
  BY <1>3, <1>11 DEF TruncateLog, DecidePayload, SaveFinalRecord, At, fileVars, gateVars, PCs
<1>12. CASE CheckPublication(w)
  BY <1>1, <1>3, <1>12 DEF CheckPublication, At, fileVars, gateVars, PCs
<1>13. CASE SaveRejection(w) \/ SaveFinalGates(w)
  BY <1>2, <1>13 DEF SaveRejection, SaveFinalGates, At, fileVars
<1> QED
  BY <1>4, <1>5, <1>6, <1>7, <1>8, <1>9, <1>10, <1>11, <1>12, <1>13 DEF Review

(* The steps of an execution.                                                *)
LEMMA TogetherExecute ==
  ASSUME OrderInv, NEW b \in Stages, NEW E, Together(b, E), NEW w \in Workers, Execute(w)
  PROVE  Together(b, E)'
<1> DEFINE r == req[w]
<1> USE DEF BeforeVerdict, AfterApproval, AtWork, Reviewing, Executing
<1>0. /\ TypeInv /\ r.stage \in Stages /\ r.gates \in Gates /\ PlanOrdered(r)
      /\ gates \in Gates /\ UpTo(gates, b, E, latest)
      /\ Shares(r, b, E, latest) /\ latest \in [Producing -> Nat]
  BY RequestFields DEF OrderInv, Together, TypeInv, TypeOK, FilesTypeOK
<1>1. CASE LoadGates(w)
  <2> DEFINE g == SetStatus(gates, r.stage, "running")
  <2>1. UNCHANGED <<gates, latest, released>> /\ r.pc = "load_gates" /\ r.stage = b + 1
    BY <1>0, <1>1 DEF LoadGates, At, fileVars, gateVars, Shares
  <2>2. CASE gates[r.stage].status \in Executable
    <3>1. gates[r.stage].status \in Counted
      BY <1>0, <2>1, <2>2 DEF UpTo, Executable, Counted
    <3>2. gates[r.stage].version = E[r.stage]
      BY <1>0, <3>1 DEF UpTo
    <3>3. UpTo(g, b, E, latest)
      BY <1>0, <2>1, <3>2, UpToMoves DEF Behind
    <3>4. GoesOn(w, "save_running", g, r.log, r.payload, r.record)
      BY <1>0, <1>1, <2>2, LoadGatesFields
    <3> HIDE DEF g
    <3>5. Shares(req'[w], b, E, latest')
      BY <2>1, <3>3, <3>4 DEF Shares, GoesOn
    <3> QED  BY <2>1, <3>4, <3>5, TogetherKept DEF GoesOn
  <2>3. CASE Return(w)
    BY <1>0, <2>1, <2>3, ReturnFields, AtEase, TogetherKept
  <2> QED  BY <1>1, <2>2, <2>3 DEF LoadGates
<1>2. CASE SaveRunning(w) \/ SaveRecord(w)
  <2>1. /\ UNCHANGED <<latest, released>> /\ r.pc \in {"save_running", "save_record"}
        /\ gates' = gates \/ gates' = r.gates
    BY <1>2 DEF SaveRunning, SaveRecord, At, fileVars, gateVars
  <2>2. PICK pc \in {"load_record", "payload"} : GoesOn(w, pc, r.gates, r.log, r.payload, r.record)
    BY <1>0, <1>2, GotoFields DEF SaveRunning, SaveRecord
  <2>3. Shares(req'[w], b, E, latest') /\ UpTo(r.gates, b, E, latest')
    BY <1>0, <2>1, <2>2 DEF Shares, GoesOn
  <2> QED  BY <2>1, <2>2, <2>3, TogetherKept DEF GoesOn
<1>3. CASE LoadRecord(w)
  <2>1. UNCHANGED <<gates, latest, released>> /\ r.pc = "load_record"
    BY <1>3 DEF LoadRecord, At, fileVars, gateVars
  <2>2. GoesOn(w, "save_record", r.gates, r.log, r.payload, [record EXCEPT !.status = "running"])
    BY <1>0, <1>3, LoadRecordFields
  <2>3. Shares(req'[w], b, E, latest')
    BY <1>0, <2>1, <2>2 DEF Shares, GoesOn
  <2> QED  BY <2>1, <2>2, <2>3, TogetherKept DEF GoesOn
<1>4. CASE PayloadSucceeds(w) \/ PayloadFails(w)
  <2> DEFINE made == AppendArtifact(r.stage, r.gates[r.stage].version)
  <2>1. UNCHANGED <<gates, released>> /\ r.pc = "payload"
    BY <1>4 DEF PayloadSucceeds, PayloadFails, At, gateVars
  <2>2. /\ r.stage = b + 1 /\ UpTo(r.gates, b, E, latest)
        /\ r.gates[r.stage].status = "running"
    BY <1>0, <2>1 DEF Shares, PlanOrdered
  <2>3. r.gates[r.stage].version = E[r.stage]
    BY <1>0, <2>2 DEF UpTo, Counted
  <2>4. PICK g \in {"pending_review", "failed"}, n \in RunStatuses :
          /\ Become(w, Outcome(r, g, n))
          /\ g = "pending_review" => made
    BY <1>4 DEF PayloadSucceeds, PayloadFails, RunStatuses
  <2>5. latest' = latest \/ made
    BY <1>4 DEF PayloadSucceeds, PayloadFails
  <2>6. /\ \A t \in Producing : latest'[t] \in {latest[t], E[t]}
        /\ made /\ r.stage \in Producing => latest'[r.stage] = E[r.stage]
    BY <1>0, <2>3, <2>5 DEF AppendArtifact
  <2>7. UpTo(r.gates, b, E, latest')
    BY <2>2, <2>6, SharesStays
  <2>8. UpTo(SetStatus(r.gates, r.stage, g), b, E, latest')
    BY <1>0, <2>2, <2>3, <2>4, <2>6, <2>7, UpToMoves DEF Behind
  <2>9. GoesOn(w, "save_outcome_gates", SetStatus(r.gates, r.stage, g),
               r.log, r.payload, [r.record EXCEPT !.status = n])
    BY <1>0, <2>4, OutcomeFields DEF Statuses
  <2>10. Shares(req'[w], b, E, latest')
    BY <2>2, <2>8, <2>9 DEF Shares, GoesOn
  <2> QED  BY <2>1, <2>6, <2>9, <2>10, TogetherKept DEF GoesOn
<1>5. CASE SaveOutcomeGates(w)
  <2>1. /\ UNCHANGED <<latest, released>> /\ r.pc = "save_outcome_gates" /\ gates' = r.gates
    BY <1>5 DEF SaveOutcomeGates, At, fileVars
  <2>2. GoesOn(w, "save_outcome_record", r.gates, r.log, r.payload, r.record)
    BY <1>0, <1>5, GotoFields DEF SaveOutcomeGates
  <2>3. Shares(req'[w], b, E, latest')
    BY <2>2, AtEase DEF GoesOn
  <2>4. UpTo(gates', b, E, latest')
    BY <1>0, <2>1 DEF Shares
  <2> QED  BY <2>1, <2>2, <2>3, <2>4, TogetherKept DEF GoesOn
<1>6. CASE SaveOutcomeRecord(w)
  <2>1. UNCHANGED <<gates, latest, released>> /\ Return(w)
    BY <1>6 DEF SaveOutcomeRecord, gateVars
  <2> QED  BY <1>0, <2>1, ReturnFields, AtEase, TogetherKept
<1> QED  BY <1>1, <1>2, <1>3, <1>4, <1>5, <1>6 DEF Execute

(* The gates are made: nothing was agreed on before.                         *)
LEMMA TogetherCreate ==
  ASSUME OrderInv, NEW b \in Stages, NEW E, Together(b, E), NEW w \in Workers,
         CreateGates(w), Beginning(w)
  PROVE  Together(Input, [t \in Stages |-> 1])'
<1> DEFINE F == [t \in Stages |-> 1]
<1>1. /\ gates = NoGates /\ \A v \in Workers \ {w} : req[v].pc = "idle"
      /\ gates' = InitialGates /\ UNCHANGED <<latest, released>>
  BY DEF CreateGates, Beginning, At, fileVars
<1>2. /\ req'[w].pc = "load_gates" /\ req'[w].stage = Research
      /\ \A v \in Workers \ {w} : req'[v] = req[v]
  BY StartFields DEF OrderInv
<1>3. UpTo(InitialGates, Input, F, latest)
  BY StageFacts DEF UpTo, InitialGates, Counted, Behind, Producing
<1>4. ~(PublishReview <= b)
  BY <1>1, StageFacts DEF Together, UpTo, NoGates
<1>5. released' = <<>>
  BY <1>1, <1>4 DEF Together
<1> HIDE DEF F
<1>6. Shares(req'[w], Input, F, latest)
  BY <1>2, StageFacts
  DEF Shares, Reviewing, Executing, BeforeVerdict, AfterApproval, AtWork
<1>7. \A v \in Workers : Shares(req'[v], Input, F, latest')
  BY <1>1, <1>2, <1>6, AtEase
<1>8. Together(Input, F)'
  BY <1>1, <1>3, <1>5, <1>7 DEF Together
<1> QED  BY <1>8 DEF F

(* A gate is under review: the files are what can be agreed on.              *)
LEMMA FilesAgree ==
  ASSUME OrderInv, NEW b \in Stages, NEW E, Together(b, E),
         NEW s \in Stages, gates[s].status \in Open
  PROVE  LET F == [t \in Stages |-> gates[t].version] IN
         /\ UpTo(gates, s, F, latest) /\ F \in [Stages -> Versions]
         /\ released # <<>> =>
              PublishReview <= s /\ \A i \in DOMAIN released : released[i] = F[Advertisement]
<1> DEFINE F == [t \in Stages |-> gates[t].version]
<1>1. gates \in Gates /\ Ordered(gates)
  BY DEF OrderInv, GateOrder, TypeInv, TypeOK
<1>2. \A t \in Stages : F[t] = gates[t].version
  OBVIOUS
<1>3. F \in [Stages -> Versions]
  BY <1>1 DEF Gates
<1> HIDE DEF F
<1>4. UpTo(gates, b, E, latest)
  BY DEF Together
<1>5. \A t \in Producing : gates[t].status \in Behind => latest[t] = F[t]
  BY <1>2, <1>4, StageFacts DEF UpTo, Counted, Behind
<1>6. /\ \A t \in Stages : t < s => gates[t].status = "approved"
      /\ \A t \in Stages : s < t => gates[t].status = "locked"
  BY <1>1 DEF Ordered, Open
<1>7. UpTo(gates, s, F, latest)
  BY <1>2, <1>5, <1>6, StageFacts DEF UpTo
<1>8. ASSUME released # <<>>
      PROVE  PublishReview <= s /\ \A i \in DOMAIN released : released[i] = F[Advertisement]
  <2>1. PublishReview <= b /\ \A i \in DOMAIN released : released[i] = E[Advertisement]
    BY <1>8 DEF Together
  <2>2. gates[Advertisement].status = "approved" /\ gates[Advertisement].version = E[Advertisement]
    BY <1>4, <2>1, StageFacts DEF UpTo, Counted
  <2>3. s # Advertisement /\ ~(s < Advertisement)
    BY <1>6, <2>2, StageFacts DEF Open
  <2> QED  BY <1>2, <2>1, <2>2, <2>3, StageFacts
<1> QED  BY <1>3, <1>7, <1>8 DEF F

(* So does what the one request at hand holds, if it is in step with them.   *)
LEMMA CopiesAgree ==
  ASSUME OrderInv, NEW b \in Stages, NEW E, Together(b, E),
         NEW s \in Stages, gates[s].status \in Open, NEW v \in Workers, InStep(v),
         NEW F, \A t \in Stages : F[t] = gates[t].version, UpTo(gates, s, F, latest)
  PROVE  Shares(req[v], s, F, latest)
<1> DEFINE r == req[v]
<1> USE DEF BeforeVerdict, AfterApproval, AtWork, Reviewing, Executing
<1>0. /\ gates \in Gates /\ Ordered(gates) /\ r.stage \in Stages /\ PlanOrdered(r)
      /\ r.pc \in PCs /\ r.decision \in {"approved", "rejected"} /\ Underway(r)
  BY RequestFields DEF OrderInv, GateOrder, TypeInv, TypeOK, Requests
<1>1. gates[s].status \in Behind /\ s \in Producing => latest[s] = F[s]
  BY DEF UpTo
<1>2. ASSUME r.pc \in {"decide", "publish", "record_publication"}, s = r.stage
      PROVE  r.payload = F[Advertisement]
  <2>1. r.payload = E[Advertisement] /\ UpTo(gates, b, E, latest)
    BY <1>2 DEF Together, Shares
  <2>2. gates[Advertisement].status = "approved"
    BY <1>0, <1>2, StageFacts DEF UpTo, Underway
  <2> QED  BY <2>1, <2>2, StageFacts DEF UpTo, Counted
<1>3. s = r.stage \/ gates[r.stage].status \in {"locked", "approved"}
  BY <1>0, OneGateOpen DEF Open
<1>4. CASE r.pc \in BeforeVerdict
  <2>1. r.gates = gates /\ gates[r.stage].status \in Reviewable(r.decision)
    BY <1>4 DEF InStep
  <2>2. s = r.stage
    BY <1>3, <2>1 DEF Reviewable
  <2> QED  BY <1>4, <2>1, <2>2, StageFacts DEF Shares, Reviewable
<1>5. CASE r.pc = "save_rejection"
  <2>1. gates[r.stage].status \in Open /\ r.gates = Decided(gates, r.stage, "rejected")
    BY <1>5 DEF InStep
  <2>2. s = r.stage
    BY <1>3, <2>1 DEF Open
  <2>3. UpTo(r.gates, s, F, latest)
    BY <1>0, <2>1, <2>2, UpToSentBack
  <2> QED  BY <1>5, <2>2, <2>3 DEF Shares
<1>6. CASE r.pc \in AfterApproval
  <2>1. /\ gates[r.stage].status = "pending_review"
        /\ r.gates = SetStatus(gates, r.stage, "approved")
    BY <1>6 DEF InStep
  <2>2. s = r.stage
    BY <1>3, <2>1
  <2>3. UpTo(r.gates, s, F, latest)
    BY <1>0, <1>1, <2>1, <2>2, UpToMoves DEF Behind
  <2>4. s # Optimization => r.gates[s + 1].version = F[s + 1]
    BY <1>0, <2>1, <2>2, SetStatusIs, StageFacts
  <2> QED  BY <1>2, <1>6, <2>2, <2>3, <2>4 DEF Shares
<1>7. r.pc \notin {"open_publish_review", "load_gates", "save_running", "load_record",
                   "save_record", "payload", "save_outcome_gates"}
  BY <1>3, OneGateOpen, <1>0, StageFacts DEF InStep, Open
<1>8. CASE r.pc \in {"idle", "create_gates", "save_outcome_record"}
  BY <1>8, AtEase
<1> QED  BY <1>0, <1>4, <1>5, <1>6, <1>7, <1>8 DEF PCs

(* Nobody touches the request or the task of another thread. *)
LEMMA OthersKeep ==
  ASSUME TypeInv, NEW w \in Workers, Admit(w) \/ Serve(w) \/ AccessRaises(w)
  PROVE  \A v \in Workers \ {w} : req'[v] = req[v]
<1>1. \E r : Become(w, r)
  BY DEF Admit, StartRun, BeginReview, Serve, CreateGates,
         Review, ReadLog, TruncateLog, WriteLog, SaveRejection, LoadPayload,
         DecidePayload, CheckPublication, RecordPublication, Unlock, OpenPublishReview, LoadFinalRecord,
         SaveFinalRecord, SaveFinalGates, Execute, LoadGates, SaveRunning, LoadRecord,
         SaveRecord, PayloadSucceeds, PayloadFails, SaveOutcomeGates, SaveOutcomeRecord,
         AccessRaises, Goto, Return
<1> QED  BY <1>1 DEF Become, TypeInv, TypeOK

(* A request that begins finds either no run, or one that has its gates.     *)
LEMMA BeginningAdmit ==
  ASSUME TypeInv, BeginningInv, NEW w \in Workers, Admit(w)
  PROVE  BeginningInv'
<1> USE DEF At
<1>1. CASE StartRun(w)
  <2>1. /\ gates = NoGates /\ AllIdle /\ gates' = gates /\ record' = NewRecord
    BY <1>1 DEF StartRun, SaveRun, BeginningInv, NothingBefore, NoRecord, gateVars
  <2>2. /\ req'[w].pc = "create_gates"
        /\ \A v \in Workers \ {w} : req'[v] = req[v]
    BY <1>1, StartFields
  <2> QED  BY <2>1, <2>2 DEF BeginningInv, NothingBefore, Beginning, AllIdle, NewRecord
<1>2. ASSUME NEW s \in Stages, NEW d \in {"approved", "rejected"}, BeginReview(w, s, d)
      PROVE  BeginningInv'
  <2>1. /\ gates # NoGates /\ gates' = gates /\ record' = record
    BY <1>2 DEF BeginReview, Reviewable, NoGates, gateVars, fileVars
  <2>2. /\ req'[w].pc = "read_log"
        /\ \A v \in Workers \ {w} : req'[v] = req[v]
    BY <1>2, BeginReviewFields
  <2> QED  BY <2>1, <2>2 DEF BeginningInv, NothingBefore, Beginning
<1> QED  BY <1>1, <1>2 DEF Admit

(* No request writes a record that is not there.                             *)
LEMMA BeginningServe ==
  ASSUME TypeInv, BeginningInv, NEW w \in Workers, Serve(w)
  PROVE  BeginningInv'
<1> DEFINE r == req[w]
<1> USE DEF At
<1>1. r.pc # "idle"
  BY ReviewSteps, ExecuteSteps DEF Serve, CreateGates
<1>2. record.status # "absent" /\ Beginning(w)
  BY <1>1 DEF BeginningInv, NothingBefore, AllIdle
<1>3. CASE CreateGates(w)
  <2>1. /\ req'[w].pc = "load_gates" /\ record' = record
        /\ \A v \in Workers \ {w} : req'[v] = req[v] /\ req[v].pc = "idle"
    BY <1>2, <1>3, StartFields DEF CreateGates, fileVars, Beginning
  <2> QED  BY <1>2, <2>1 DEF BeginningInv, NothingBefore, Beginning
<1>4. CASE Review(w) \/ Execute(w)
  <2>1. /\ \A v \in Workers : req[v].pc # "create_gates"
        /\ req'[w].pc # "create_gates"
        /\ \A v \in Workers \ {w} : req'[v] = req[v]
    <3>1. r.pc # "create_gates"
      BY <1>4
      DEF Review, ReadLog, TruncateLog, WriteLog, SaveRejection, LoadPayload,
          DecidePayload, CheckPublication, RecordPublication, Unlock, OpenPublishReview, LoadFinalRecord,
          SaveFinalRecord, SaveFinalGates, Execute, LoadGates, SaveRunning, LoadRecord,
          SaveRecord, PayloadSucceeds, PayloadFails, SaveOutcomeGates, SaveOutcomeRecord
    <3>2. \A v \in Workers \ {w} : req[v].pc # "create_gates"
      BY <1>1 DEF BeginningInv, Beginning
    <3>3. req'[w].pc # "create_gates"
      BY <1>4, StepsOn DEF Review, Execute
    <3>4. \A v \in Workers \ {w} : req'[v] = req[v]
      BY OthersKeep
    <3> QED  BY <3>1, <3>2, <3>3, <3>4
  <2>2. record'.status # "absent"
    <3>1. [r.record EXCEPT !.status = "optimized"].status = "optimized"
      BY RequestFields
    <3> QED
      BY <1>2, <1>4, <3>1, Frames
      DEF SaveRecord, SaveOutcomeRecord, SaveFinalRecord, SaveRun, Beginning, Serve
  <2>3. req'[w].pc \in {"save_record", "save_outcome_gates", "save_outcome_record"} =>
          req'[w].record.status # "absent"
    <3>1. CASE LoadRecord(w)
      <4>1. [record EXCEPT !.status = "running"].status = "running"
        BY DEF TypeInv, TypeOK, FilesTypeOK
      <4> QED  BY <3>1, <4>1, LoadRecordFields DEF GoesOn
    <3>2. CASE PayloadSucceeds(w) \/ PayloadFails(w)
      <4>1. PICK g \in Statuses, n \in {"waiting_review", "failed"} : Become(w, Outcome(r, g, n))
        BY <3>2 DEF PayloadSucceeds, PayloadFails, Statuses
      <4>2. [r.record EXCEPT !.status = n].status = n
        BY RequestFields
      <4>3. GoesOn(w, "save_outcome_gates", SetStatus(r.gates, r.stage, g),
                   r.log, r.payload, [r.record EXCEPT !.status = n])
        BY <4>1, OutcomeFields DEF RunStatuses
      <4> QED  BY <4>2, <4>3 DEF GoesOn
    <3>3. CASE SaveOutcomeGates(w)
      BY <1>2, <3>3, GotoFields DEF SaveOutcomeGates, GoesOn, Beginning
    <3>4. CASE ~(LoadRecord(w) \/ PayloadSucceeds(w) \/ PayloadFails(w) \/ SaveOutcomeGates(w))
      BY <1>4, <3>4, StepsOn DEF Review, Execute
    <3> QED  BY <3>1, <3>2, <3>3, <3>4
  <2> QED  BY <2>1, <2>2, <2>3 DEF BeginningInv, NothingBefore, Beginning
<1> QED  BY <1>3, <1>4 DEF Serve

(* A run begins before anything of it is there, whatever overlaps.           *)
LEMMA BeginningStep == TypeInv /\ BeginningInv /\ [Next]_vars => BeginningInv'
<1> SUFFICES ASSUME TypeInv, BeginningInv, [Next]_vars PROVE BeginningInv'
  OBVIOUS
<1>1. CASE Crash
  <2>1. /\ \A w \in Workers : req'[w].pc = "idle"
        /\ record' = record /\ gates' = gates
    BY <1>1 DEF Crash, IdleRequest, gateVars
  <2> QED  BY <2>1 DEF BeginningInv, NothingBefore, Beginning, AllIdle, At
<1>2. CASE UNCHANGED vars
  BY <1>2
  DEF vars, fileVars, gateVars, BeginningInv, NothingBefore, Beginning, AllIdle, At
<1>3. ASSUME NEW w \in Workers, AccessRaises(w)
      PROVE  BeginningInv'
  <2>1. /\ req'[w].pc = "idle" /\ \A v \in Workers \ {w} : req'[v] = req[v]
        /\ record' = record /\ gates' = gates /\ ~AllIdle
    BY <1>3, ReturnFields DEF AccessRaises, fileVars, gateVars, AllIdle
  <2> QED  BY <2>1 DEF BeginningInv, NothingBefore, Beginning, At
<1> QED  BY <1>1, <1>2, <1>3, BeginningAdmit, BeginningServe DEF Next

(* A review that begins agrees with whoever is still being served.           *)
LEMMA TogetherBegin ==
  ASSUME SyncInv, BeginningInv, NEW b \in Stages, NEW E \in [Stages -> Versions],
         Together(b, E), NEW w \in Workers, Admit(w), overlaps' <= 1
  PROVE  \E c \in Stages, F \in [Stages -> Versions] : Together(c, F)'
<1>0. /\ OrderInv /\ TypeInv /\ overlaps \in Nat
      /\ UNCHANGED <<gates, latest, released>>
  BY DEF SyncInv, OrderInv, TypeInv, TypeOK, Admit, StartRun, BeginReview, gateVars, fileVars
<1>1. CASE StartRun(w)
  <2>1. req'[w].pc = "create_gates" /\ \A v \in Workers \ {w} : req'[v] = req[v]
    BY <1>0, <1>1, StartFields
  <2>2. Together(b, E)'
    BY <1>0, <2>1, AtEase, TogetherKept
  <2> QED  BY <2>2
<1>2. ASSUME NEW s \in Stages, NEW d \in {"approved", "rejected"}, BeginReview(w, s, d)
      PROVE  \E c \in Stages, F \in [Stages -> Versions] : Together(c, F)'
  <2>1. gates[s].status \in Reviewable(d) /\ gates[s].status \in Open
    BY <1>2 DEF BeginReview, Reviewable, Open
  <2>2. PICK F \in [Stages -> Versions] :
          /\ F = [t \in Stages |-> gates[t].version]
          /\ UpTo(gates, s, F, latest)
          /\ released # <<>> =>
               PublishReview <= s /\ \A i \in DOMAIN released : released[i] = F[Advertisement]
    BY <1>0, <2>1, FilesAgree
  <2>3. \A t \in Stages : F[t] = gates[t].version
    BY <2>2
  <2>4. /\ req'[w].pc = "read_log" /\ req'[w].stage = s /\ req'[w].decision = d
        /\ req'[w].gates = gates
        /\ \A v \in Workers \ {w} : req'[v] = req[v]
    BY <1>0, <1>2, BeginReviewFields
  <2>5. Shares(req'[w], s, F, latest)
    BY <2>1, <2>2, <2>3, <2>4, StageFacts
    DEF Shares, Reviewing, Executing, BeforeVerdict, AfterApproval, AtWork,
        Reviewable
  <2>6. \A v \in Workers \ {w} : Shares(req[v], s, F, latest)
    <3>1. CASE AllIdle
      BY <3>1, AtEase DEF AllIdle, At
    <3>2. CASE ~AllIdle
      <4>1. overlaps = 0
        BY <1>0, <1>2, <3>2 DEF BeginReview, Arrive
      <4>2. \A v \in Workers : InStep(v)
        BY <4>1 DEF SyncInv, CopiesInStep
      <4> QED  BY <1>0, <2>1, <2>2, <2>3, <4>2, CopiesAgree
    <3> QED  BY <3>1, <3>2
  <2>7. Together(s, F)'
    BY <1>0, <2>2, <2>4, <2>5, <2>6 DEF Together
  <2> QED  BY <2>2, <2>7
<1> QED  BY <1>1, <1>2 DEF Admit

(* Every step keeps the agreement until requests overlap a second time.      *)
LEMMA OverlapStep == OverlapInv /\ [Next]_vars => OverlapInv'
<1> SUFFICES ASSUME OverlapInv, [Next]_vars PROVE OverlapInv'
  OBVIOUS
<1>0. /\ SyncInv /\ OrderInv /\ TypeInv /\ BeginningInv /\ SyncInv' /\ BeginningInv'
      /\ overlaps \in Nat
  BY SyncStep, BeginningStep DEF OverlapInv, SyncInv, OrderInv, TypeInv, TypeOK
<1> SUFFICES ASSUME overlaps' <= 1
             PROVE  \E c \in Stages, F \in [Stages -> Versions] : Together(c, F)'
  BY <1>0 DEF OverlapInv, OneOverlap
<1>1. overlaps <= 1
  <2>1. ASSUME NEW w \in Workers, Admit(w)
        PROVE  overlaps' \in {overlaps, overlaps + 1}
    <3>1. Arrive(w)
      BY <2>1 DEF Admit, StartRun, BeginReview
    <3>2. overlaps' = overlaps \/ overlaps' = overlaps + 1
      BY <3>1 DEF Arrive
    <3> QED  BY <3>2
  <2>2. ASSUME NEW w \in Workers, Serve(w)
        PROVE  overlaps' = overlaps
    BY <2>2, Frames
  <2>3. overlaps' \in {overlaps, overlaps + 1}
    BY <2>1, <2>2 DEF Next, Crash, AccessRaises, vars, counters
  <2> QED  BY <1>0, <2>3
<1>2. PICK b \in Stages, E \in [Stages -> Versions] : Together(b, E)
  BY <1>1 DEF OverlapInv, OneOverlap
<1>3. ASSUME NEW w \in Workers, Admit(w)
      PROVE  \E c \in Stages, F \in [Stages -> Versions] : Together(c, F)'
  BY <1>0, <1>2, <1>3, TogetherBegin
<1>4. ASSUME NEW w \in Workers, CreateGates(w)
      PROVE  \E c \in Stages, F \in [Stages -> Versions] : Together(c, F)'
  <2> DEFINE F == [t \in Stages |-> 1]
  <2>1. Input \in Stages /\ F \in [Stages -> Versions]
    BY StageFacts DEF Versions
  <2>2. Together(Input, F)'
    BY <1>0, <1>2, <1>4, TogetherCreate DEF BeginningInv
  <2> QED  BY <2>1, <2>2
<1>5. ASSUME NEW w \in Workers, Review(w) \/ Execute(w)
      PROVE  \E c \in Stages, F \in [Stages -> Versions] : Together(c, F)'
  BY <1>0, <1>2, <1>5, TogetherReview, TogetherExecute
<1>6. CASE Crash
  <2>1. /\ \A w \in Workers : req'[w].pc = "idle"
        /\ UNCHANGED <<gates, latest, released>>
    BY <1>6 DEF Crash, IdleRequest, gateVars
  <2>2. Together(b, E)'
    BY <1>2, <2>1, AtEase DEF Together
  <2> QED  BY <2>2
<1>7. CASE UNCHANGED vars
  <2>1. Together(b, E)'
    BY <1>2, <1>7 DEF Together, vars, fileVars, gateVars
  <2> QED  BY <2>1
<1>8. ASSUME NEW w \in Workers, AccessRaises(w)
      PROVE  \E c \in Stages, F \in [Stages -> Versions] : Together(c, F)'
  <2>1. /\ req'[w].pc = "idle" /\ \A v \in Workers \ {w} : req'[v] = req[v]
        /\ UNCHANGED <<gates, latest, released>>
    BY <1>0, <1>8, ReturnFields DEF AccessRaises, fileVars, gateVars
  <2>2. Together(b, E)'
    BY <1>2, <2>1, AtEase DEF Together
  <2> QED  BY <2>2
<1> QED  BY <1>3, <1>4, <1>5, <1>6, <1>7, <1>8 DEF Next, Serve

(* There is agreement from the start on, as long as requests overlap once.   *)
LEMMA OverlapInvariant == Spec => []OverlapInv
<1>1. Init => OverlapInv
  <2> SUFFICES ASSUME Init PROVE OverlapInv
    OBVIOUS
  <2> DEFINE E == [t \in Stages |-> 1]
  <2>1. /\ \A w \in Workers : req[w].pc = "idle"
        /\ released = <<>> /\ gates = NoGates
    BY DEF Init, FilesInit, IdleRequest
  <2>2. UpTo(NoGates, Input, E, latest)
    BY StageFacts DEF UpTo, NoGates, Counted, Behind
  <2>3. Input \in Stages /\ E \in [Stages -> Versions]
    BY StageFacts DEF Versions
  <2> HIDE DEF E
  <2>4. Together(Input, E)
    BY <2>1, <2>2, AtEase DEF Together
  <2>5. BeginningInv
    BY <2>1 DEF BeginningInv, NothingBefore, Beginning, AllIdle, At
  <2> QED  BY SyncInit, <2>3, <2>4, <2>5 DEF OverlapInv
<1> QED  BY <1>1, OverlapStep, PTL DEF Spec

(* What a reviewer sees is what was made at the version under review: the    *)
(* newest artifact of a gate that is up for review or approved carries the   *)
(* version of the gate, also with the list of one request that overlapped.   *)
THEOREM ReviewedIsNewest == Spec => []ReviewedVersionIsNewest
<1>1. OverlapInv => ReviewedVersionIsNewest
  <2> SUFFICES ASSUME OverlapInv, OneOverlap, NEW s \in Producing,
                      gates[s].status \in {"pending_review", "approved"}
               PROVE  latest[s] = gates[s].version
    BY DEF ReviewedVersionIsNewest
  <2>1. PICK b \in Stages, E \in [Stages -> Versions] : UpTo(gates, b, E, latest)
    BY DEF OverlapInv, Together
  <2> QED  BY <2>1, StageFacts DEF UpTo, Counted, Behind
<1> QED  BY <1>1, OverlapInvariant, PTL

(* What was published stays the version of the advertisement that was        *)
(* approved, whatever is rejected or restarted afterwards, also with the     *)
(* list of one request that overlapped.                                      *)
THEOREM ReleasedIsFinal == Spec => []ReleasesAreFinal
<1>1. OverlapInv => ReleasesAreFinal
  <2> SUFFICES ASSUME OverlapInv, OneOverlap, NEW i \in DOMAIN released
               PROVE  /\ Phase[Advertisement] = "passed"
                      /\ released[i] = Edition[Advertisement]
    BY DEF ReleasesAreFinal, Promise!ReleasesAreFinal, Phase, Edition
  <2>1. PICK b \in Stages, E \in [Stages -> Versions] : Together(b, E)
    BY DEF OverlapInv
  <2>2. released # <<>>
    OBVIOUS
  <2>3. PublishReview <= b /\ released[i] = E[Advertisement]
    BY <2>1, <2>2 DEF Together
  <2>4. gates[Advertisement].status = "approved" /\ gates[Advertisement].version = E[Advertisement]
    BY <2>1, <2>3, StageFacts DEF Together, UpTo, Counted
  <2> QED  BY <2>3, <2>4, Phases, StageFacts DEF Phase, Edition
<1> QED  BY <1>1, OverlapInvariant, PTL

-----------------------------------------------------------------------------
(* What a request without stages carries: what it publishes exists, what it  *)
(* saves is a status, and a run has an artifact left to make.                *)
Deciding(t) ==
  \/ t.pc \in {"decide", "check_approval", "check_key", "record_publication", "revise"}
  \/ t.pc = "save" /\ t.after = "check_approval"

Running(t) == \/ t.pc = "produce"
              \/ t.pc = "save" /\ t.after = "produce"

AfterSave == {"idle", "produce", "check_approval", "analytics", "optimization"}

TaskOK(t) ==
  /\ Deciding(t) => t.payload # 0
  /\ Running(t) => t.made < Len(Campaign!RunPlan)
  /\ t.pc = "save" => t.record.status # "absent" /\ t.after \in AfterSave

ServiceTypeInv ==
  /\ TypeInv /\ Campaign!TasksTypeOK /\ page \in Pages
  /\ mixed \in Nat /\ outages \in Nat /\ runtime \in BOOLEAN
  /\ \A c \in Clerks : TaskOK(task[c])

(* A process without runtime serves pages only. *)
RuntimeInv ==
  /\ ~runtime => AllIdle /\ Campaign!AllIdle
  /\ page # NoPage => ~runtime

-----------------------------------------------------------------------------
(* A status that says the run got so far is backed by what it published and *)
(* made.                                                                   *)
Completed(rec) ==
  /\ rec.status \in {"published", "analyzed", "optimized"} => released # <<>>
  /\ rec.status = "optimized" => latest[Analytics] # 0 /\ latest[Optimization] # 0

(* So are the gates behind the publication.                                *)
GatesBacked(g) ==
  /\ \A s \in {Analytics, Optimization} :
       g[s].status \notin {"locked", "approved"} => released # <<>>
  /\ g[Optimization].status \in Open => latest[Analytics] # 0 /\ latest[Optimization] # 0

(* A stage request carries copies of both, which no later write makes wrong, *)
(* because publications and artifacts are never taken back.                  *)
ReqBacked(r) ==
  /\ GatesBacked(r.gates) /\ Completed(r.record)
  /\ r.stage \in {Analytics, Optimization} => released # <<>>
  /\ r.pc = "unlock" /\ r.stage = PublishReview => released # <<>>
  /\ r.pc \in {"load_final_record", "save_final_record"} => r.stage = Optimization
  /\ r.stage = Optimization /\ r.pc \in BeforeVerdict \union AfterApproval =>
       latest[Analytics] # 0 /\ latest[Optimization] # 0

(* A campaign request goes past the publication only with one.               *)
TaskBacked(t) ==
  /\ Completed(t.record)
  /\ {t.pc, t.after} \cap {"analytics", "optimization"} # {} => released # <<>>
  /\ "optimization" \in {t.pc, t.after} => latest[Analytics] # 0

(* All copies there are of status and gates.                                 *)
CompletedInv ==
  /\ Completed(record) /\ GatesBacked(gates) /\ GatesBacked(page.gates)
  /\ \A w \in Workers : ReqBacked(req[w])
  /\ \A c \in Clerks : TaskBacked(task[c])

-----------------------------------------------------------------------------
(* While clients wait, one request is under way, of either workflow.         *)
ServedAlone ==
  /\ OneAtATime
  /\ \A c, d \in Clerks : c # d => Campaign!At(c, "idle") \/ Campaign!At(d, "idle")
  /\ \A w \in Workers, c \in Clerks : At(w, "idle") \/ Campaign!At(c, "idle")

IsNewest(payload) == payload = latest[Advertisement] /\ payload # 0
Approved(payload) == lastDecision = [decision |-> "approved", version |-> payload]

(* From its approval to its publication, a request holds the newest payload, *)
(* and reaches the record only while nothing was published.                  *)
ReqPublishes(r) ==
  /\ r.pc \in {"decide", "publish", "record_publication"} => IsNewest(r.payload)
  /\ r.pc \in {"publish", "record_publication"} => Approved(r.payload)
  /\ r.pc = "record_publication" => published = 0

(* The same of a campaign request, which picks the payload up first.         *)
TaskPublishes(t) ==
  /\ Deciding(t) => IsNewest(t.payload)
  /\ t.pc \in {"check_key", "record_publication"} => Approved(t.payload)
  /\ t.pc = "record_publication" => published = 0

(* Each life of the process that ended may have published once.              *)
Lives == crashes + outages

ReleaseInv ==
  OneByOne =>
    /\ ServedAlone
    /\ \A w \in Workers : ReqPublishes(req[w])
    /\ \A c \in Clerks : TaskPublishes(task[c])
    /\ Len(released) <= IF published = 0 THEN Lives ELSE Lives + 1

-----------------------------------------------------------------------------
(* Clients wait and no request was cut short.                                *)
Calm == OneByOne /\ NothingCutShort

(* The version of the newest payload, or the first one before there is any.  *)
Named(v) == v = IF latest[Advertisement] = 0 THEN 1 ELSE latest[Advertisement]

Live == {"ready", "running", "pending_review"}

(* One gate at a time is at work; up to advertisement it is so for the first *)
(* version only, as no payload was made yet.                                 *)
GatesNamed(g) ==
  /\ g[Input].status \in {"locked", "approved"}
  /\ \A s, t \in Stages :
       g[s].status \in Live \union Open /\ g[t].status \in Live \union Open => s = t
  /\ \A s \in Stages :
       s <= Advertisement /\ g[s].status \in Live =>
         g[Advertisement].version = 1 /\ (s # Advertisement => latest[Advertisement] = 0)

(* The steps of a stage request before its work is stored, and those that    *)
(* hold a copy of the record.                                                *)
BeforeWork == {"load_gates", "save_running", "load_record", "save_record", "payload"}

HoldsRecord == {"save_record", "payload", "save_outcome_gates", "save_outcome_record",
                "save_final_record"}

(* A stage request that will make a payload makes the first one, and its     *)
(* copy of the record names what the file names.                             *)
ReqNamed(r) ==
  /\ r.pc = "create_gates" => latest[Advertisement] = 0
  /\ r.pc \in BeforeWork /\ r.stage = Advertisement => latest[Advertisement] = 0
  /\ r.pc \in HoldsRecord => r.record.version = record.version

(* A campaign request saves the version of the payload it works on, and a    *)
(* run that is made without stages has no gates.                             *)
TaskNamed(t) ==
  /\ t.pc # "idle" => Named(t.record.version) /\ record.status # "absent"
  /\ Running(t) => gates = NoGates /\ record.version = 1 /\ t.record.version = 1

(* Between requests, and while none is to save, the record is up to date.    *)
NamesInv ==
  Calm =>
    /\ CopiesInStep
    /\ GatesNamed(gates) /\ GatesNamed(page.gates)
    /\ record.status = "absent" => latest[Advertisement] = 0
    /\ page # NoPage => record.status # "absent"
    /\ \A w \in Workers : ReqNamed(req[w])
    /\ \A c \in Clerks : TaskNamed(task[c])
    /\ (\A c \in Clerks : ~ Campaign!At(c, "save")) => Named(record.version)

(* The workflow without stages works on the same files. *)
LEMMA SameFiles ==
  /\ Campaign!Stages = Stages /\ Campaign!Producing = Producing
  /\ Campaign!Advertisement = Advertisement /\ Campaign!Compliance = Compliance
  /\ Campaign!Analytics = Analytics /\ Campaign!Optimization = Optimization
  /\ Campaign!RunStatuses = RunStatuses /\ Campaign!Versions = Versions
  /\ Campaign!NoRecord = NoRecord /\ Campaign!NewRecord = NewRecord
  BY DEF Campaign!Stages, Campaign!Producing, Campaign!Input, Campaign!PublishReview,
         Campaign!Advertisement, Campaign!Compliance, Campaign!Analytics,
         Campaign!Optimization, Campaign!RunStatuses, Campaign!Versions,
         Campaign!NoRecord, Campaign!NewRecord,
         Stages, Producing, Input, PublishReview, Advertisement, Compliance, Analytics,
         Optimization, RunStatuses, Versions, NoRecord, NewRecord

(* The plan of a run makes five artifacts, the compliance report last. *)
LEMMA PlanFacts ==
  /\ Len(Campaign!RunPlan) = 5
  /\ \A i \in 1 .. 5 : Campaign!RunPlan[i] \in Producing \ {Analytics, Optimization}
  /\ Campaign!RunPlan[5] = Compliance
  /\ Analytics \in Producing /\ Optimization \in Producing /\ Compliance \in Producing
  /\ Advertisement # Analytics /\ Advertisement # Optimization /\ Analytics # Optimization
  /\ Advertisement # Compliance /\ Compliance # Analytics /\ Compliance # Optimization
  BY DEF Campaign!RunPlan, Campaign!Research, Campaign!Strategy, Campaign!Creative,
         Campaign!Advertisement, Campaign!Compliance, Stages, Producing, Input,
         PublishReview, Advertisement, Compliance, Analytics, Optimization

-----------------------------------------------------------------------------
(* What a step of a clerk leaves in its hands: its task names this step to  *)
(* come, this payload and this record; the other clerks keep theirs.        *)
Carries(c, pc, after, payload, status, version) ==
  LET t == task'[c] IN
  /\ t \in Campaign!Tasks /\ TaskOK(t)
  /\ t.pc = pc /\ t.after = after /\ t.payload = payload
  /\ t.record.status = status /\ t.record.version = version
  /\ \A d \in Clerks \ {c} : task'[d] = task[d]

(* A clerk that goes on with a well-formed task carries what is in it.      *)
LEMMA Carrying ==
  ASSUME ServiceTypeInv, NEW c \in Clerks, NEW q \in Campaign!Tasks, TaskOK(q),
         Campaign!Become(c, q)
  PROVE  Carries(c, q.pc, q.after, q.payload, q.record.status, q.record.version)
<1>1. task \in [Clerks -> Campaign!Tasks]
  BY DEF ServiceTypeInv, Campaign!TasksTypeOK
<1>2. task' = [task EXCEPT ![c] = q]
  BY DEF Campaign!Become
<1>3. task'[c] = q /\ \A d \in Clerks \ {c} : task'[d] = task[d]
  BY <1>1, <1>2
<1> QED  BY <1>3 DEF Carries

(* The fields of a task.                                                    *)
LEMMA TaskFields ==
  ASSUME ServiceTypeInv, NEW c \in Clerks
  PROVE  /\ task[c] \in Campaign!Tasks /\ TaskOK(task[c])
         /\ task[c].pc \in Campaign!TaskPCs /\ task[c].after \in Campaign!TaskPCs
         /\ task[c].made \in 0 .. 5 /\ task[c].payload \in Nat
         /\ task[c].record \in [status : RunStatuses, version : Versions]
         /\ task[c].decision \in {"approved", "rejected"}
<1>1. task[c] \in Campaign!Tasks /\ TaskOK(task[c])
  BY DEF ServiceTypeInv, Campaign!TasksTypeOK
<1> QED  BY <1>1, SameFiles, PlanFacts DEF Campaign!Tasks

(* A clerk about to save its record with a new status.                      *)
LEMMA SavingTask ==
  ASSUME NEW t \in Campaign!Tasks, NEW status \in RunStatuses \ {"absent"},
         NEW after \in AfterSave,
         after = "check_approval" => t.payload # 0,
         after = "produce" => t.made < 5
  PROVE  LET q == Campaign!Saving(t, status, after) IN
         /\ q \in Campaign!Tasks /\ TaskOK(q)
         /\ q.pc = "save" /\ q.after = after /\ q.payload = t.payload
         /\ q.record.status = status /\ q.record.version = t.record.version
<1> DEFINE q == Campaign!Saving(t, status, after)
<1>1. q = [t EXCEPT !.pc = "save", !.after = after, !.record.status = status]
  BY DEF Campaign!Saving
<1> HIDE DEF q
<1>2. /\ q \in Campaign!Tasks /\ q.pc = "save" /\ q.after = after
      /\ q.payload = t.payload /\ q.made = t.made
      /\ q.record.status = status /\ q.record.version = t.record.version
  BY <1>1, SameFiles DEF Campaign!Tasks, Campaign!TaskPCs, AfterSave
<1>3. TaskOK(q)
  BY <1>2, PlanFacts DEF TaskOK, Deciding, Running
<1> QED  BY <1>2, <1>3 DEF q

(* A clerk that goes on with its task at another step.                      *)
LEMMA GoingTask ==
  ASSUME NEW t \in Campaign!Tasks, NEW pc \in Campaign!TaskPCs, pc # "save",
         pc \in {"decide", "check_approval", "check_key", "record_publication", "revise"}
           => t.payload # 0,
         pc = "produce" => t.made < 5
  PROVE  LET q == [t EXCEPT !.pc = pc] IN
         /\ q \in Campaign!Tasks /\ TaskOK(q)
         /\ q.pc = pc /\ q.after = t.after /\ q.payload = t.payload
         /\ q.record = t.record
<1> DEFINE q == [t EXCEPT !.pc = pc]
<1>1. /\ q \in Campaign!Tasks /\ q.pc = pc /\ q.after = t.after
      /\ q.payload = t.payload /\ q.made = t.made /\ q.record = t.record
  BY DEF Campaign!Tasks
<1> HIDE DEF q
<1>2. TaskOK(q)
  BY <1>1, PlanFacts DEF TaskOK, Deciding, Running
<1> QED  BY <1>1, <1>2 DEF q

(* A clerk with nothing to do.                                              *)
LEMMA NoTask ==
  /\ Campaign!IdleTask \in Campaign!Tasks /\ TaskOK(Campaign!IdleTask)
  /\ Campaign!IdleTask.pc = "idle" /\ Campaign!IdleTask.after = "idle"
  /\ Campaign!IdleTask.payload = 0 /\ Campaign!IdleTask.made = 0
  /\ Campaign!IdleTask.record = NoRecord
  /\ NoRecord.status = "absent" /\ NoRecord.version = 1
  /\ NewRecord.status = "running" /\ NewRecord.version = 1
<1>1. Campaign!IdleTask \in Campaign!Tasks
  BY SameFiles, PlanFacts, InitialTypes
  DEF Campaign!IdleTask, Campaign!Tasks, Campaign!TaskPCs
<1> QED
  BY <1>1, SameFiles
  DEF Campaign!IdleTask, TaskOK, Deciding, Running, NoRecord, NewRecord

(* A clerk that answers its request has nothing to do.                      *)
LEMMA Answered ==
  ASSUME ServiceTypeInv, NEW c \in Clerks, Campaign!Return(c)
  PROVE  Carries(c, "idle", "idle", 0, "absent", 1)
  BY Carrying, NoTask DEF Campaign!Return

(* A clerk that goes on to save its record carries the new status.          *)
LEMMA GoesToSave ==
  ASSUME ServiceTypeInv, NEW c \in Clerks, NEW status \in RunStatuses \ {"absent"},
         NEW after \in AfterSave,
         after = "check_approval" => task[c].payload # 0,
         after # "produce",
         Campaign!Become(c, Campaign!Saving(task[c], status, after))
  PROVE  Carries(c, "save", after, task[c].payload, status, task[c].record.version)
<1> DEFINE q == Campaign!Saving(task[c], status, after)
<1>1. task[c] \in Campaign!Tasks  BY TaskFields
<1>2. /\ q \in Campaign!Tasks /\ TaskOK(q)
      /\ q.pc = "save" /\ q.after = after /\ q.payload = task[c].payload
      /\ q.record.status = status /\ q.record.version = task[c].record.version
  BY <1>1, SavingTask
<1>3. Campaign!Become(c, q)  OBVIOUS
<1> HIDE DEF q
<1> QED  BY <1>2, <1>3, Carrying

(* A clerk that goes on to another step carries what it had.                *)
LEMMA GoesTo ==
  ASSUME ServiceTypeInv, NEW c \in Clerks, NEW pc \in Campaign!TaskPCs, pc # "save",
         pc \in {"decide", "check_approval", "check_key", "record_publication", "revise"}
           => task[c].payload # 0,
         pc = "produce" => task[c].made < 5,
         Campaign!Become(c, [task[c] EXCEPT !.pc = pc])
  PROVE  Carries(c, pc, task[c].after, task[c].payload, task[c].record.status,
                 task[c].record.version)
<1> DEFINE q == [task[c] EXCEPT !.pc = pc]
<1>1. task[c] \in Campaign!Tasks  BY TaskFields
<1>2. /\ q \in Campaign!Tasks /\ TaskOK(q)
      /\ q.pc = pc /\ q.after = task[c].after /\ q.payload = task[c].payload
      /\ q.record = task[c].record
  BY <1>1, GoingTask
<1>3. Campaign!Become(c, q)  OBVIOUS
<1> HIDE DEF q
<1> QED  BY <1>2, <1>3, Carrying

(* These are steps of a clerk.                                              *)
LEMMA ClerkSteps ==
  /\ \A pc \in {"idle", "save", "produce", "load_payload", "decide", "check_approval",
                 "check_key", "record_publication", "analytics", "optimization", "revise"} :
       pc \in Campaign!TaskPCs
  /\ \A after \in {"idle", "produce", "check_approval", "analytics", "optimization"} :
       after \in AfterSave
  /\ \A status \in {"pending", "running", "waiting_review", "revision_required", "failed",
                     "human_handoff", "approved", "published", "analyzed", "optimized"} :
       status \in RunStatuses \ {"absent"}
  BY DEF Campaign!TaskPCs, RunStatuses, AfterSave

-----------------------------------------------------------------------------
(* The steps of run, in the terms of what a clerk carries. *)
LEMMA RunSteps ==
  ASSUME ServiceTypeInv, NEW c \in Clerks
  PROVE  LET t == task[c] IN
         /\ Campaign!NewRun(c) =>
              /\ t.pc = "idle" /\ record = NoRecord
              /\ record' = [status |-> "pending", version |-> 1]
              /\ Carries(c, "save", "produce", 0, "running", 1)
              /\ UNCHANGED <<latest, lastDecision, published, released>>
         /\ Campaign!SaveStatus(c) =>
              /\ t.pc = "save" /\ record' = t.record
              /\ \/ Carries(c, "idle", "idle", 0, "absent", 1)
                 \/ /\ t.after # "idle" /\ t.after # "save"
                    /\ Carries(c, t.after, t.after, t.payload, t.record.status,
                               t.record.version)
              /\ UNCHANGED <<latest, lastDecision, published, released>>
         /\ Campaign!ArtifactMade(c) =>
              /\ t.pc = "produce"
              /\ \E kind \in Producing \ {Analytics, Optimization} :
                   latest' = [latest EXCEPT ![kind] = 1]
              /\ Carries(c, "produce", t.after, t.payload, t.record.status, t.record.version)
              /\ UNCHANGED <<record, lastDecision, published, released>>
         /\ \A passed \in BOOLEAN : Campaign!ComplianceReported(c, passed) =>
              /\ t.pc = "produce"
              /\ latest' = [latest EXCEPT ![Compliance] = 1]
              /\ \E status \in {"waiting_review", "revision_required"} :
                   Carries(c, "save", "idle", t.payload, status, t.record.version)
              /\ UNCHANGED <<record, lastDecision, published, released>>
         /\ \A retryable \in BOOLEAN : Campaign!RunFails(c, retryable) =>
              /\ t.pc = "produce"
              /\ \E status \in {"human_handoff", "failed"} :
                   Carries(c, "save", "idle", t.payload, status, t.record.version)
              /\ UNCHANGED <<record, latest, lastDecision, published, released>>
<1> DEFINE t == task[c]
<1>0. /\ t \in Campaign!Tasks /\ TaskOK(t) /\ t.made \in 0 .. 5
      /\ t.record \in [status : RunStatuses, version : Versions]
      /\ t.after \in Campaign!TaskPCs /\ t.payload \in Nat
  BY TaskFields
<1> USE SameFiles, PlanFacts, NoTask DEF Campaign!At
<1>1. ASSUME Campaign!NewRun(c)
      PROVE  /\ t.pc = "idle" /\ record = NoRecord
             /\ record' = [status |-> "pending", version |-> 1]
             /\ Carries(c, "save", "produce", 0, "running", 1)
             /\ UNCHANGED <<latest, lastDecision, published, released>>
  <2> DEFINE u == [Campaign!IdleTask EXCEPT !.record = NewRecord]
             q == Campaign!Saving(u, "running", "produce")
  <2>1. /\ u \in Campaign!Tasks /\ u.made = 0 /\ u.payload = 0 /\ u.record = NewRecord
    BY InitialTypes DEF Campaign!Tasks
  <2> HIDE DEF u
  <2>2. /\ q \in Campaign!Tasks /\ TaskOK(q) /\ q.pc = "save" /\ q.after = "produce"
        /\ q.payload = 0 /\ q.record.status = "running" /\ q.record.version = 1
    <3>1. "running" \in RunStatuses \ {"absent"} /\ "produce" \in AfterSave
      BY ClerkSteps
    <3> QED  BY <2>1, <3>1, SavingTask
  <2>3. Campaign!Become(c, q)
    BY <1>1 DEF Campaign!NewRun, u
  <2> HIDE DEF q
  <2>4. Carries(c, "save", "produce", 0, "running", 1)
    BY <2>2, <2>3, Carrying
  <2>5. record' = [NewRecord EXCEPT !.status = "pending"]
    BY <1>1 DEF Campaign!NewRun, Campaign!SaveRun
  <2>6. record' = [status |-> "pending", version |-> 1]
    BY <2>5 DEF NewRecord
  <2> QED  BY <1>1, <2>4, <2>6 DEF Campaign!NewRun
<1>2. ASSUME Campaign!SaveStatus(c)
      PROVE  /\ t.pc = "save" /\ record' = t.record
             /\ \/ Carries(c, "idle", "idle", 0, "absent", 1)
                \/ /\ t.after # "idle" /\ t.after # "save"
                   /\ Carries(c, t.after, t.after, t.payload, t.record.status,
                              t.record.version)
             /\ UNCHANGED <<latest, lastDecision, published, released>>
  <2>1. /\ t.pc = "save" /\ record' = t.record
        /\ UNCHANGED <<latest, lastDecision, published, released>>
    BY <1>2 DEF Campaign!SaveStatus, Campaign!SaveRun
  <2>2. CASE t.after = "idle"
    BY <1>2, <2>1, <2>2, Answered DEF Campaign!SaveStatus
  <2>3. CASE t.after # "idle"
    <3>1. Campaign!Become(c, [t EXCEPT !.pc = t.after])
      BY <1>2, <2>3 DEF Campaign!SaveStatus, Campaign!Goto
    <3>2. /\ t.after # "save"
          /\ t.after \in {"decide", "check_approval", "check_key", "record_publication",
                          "revise"} => t.payload # 0
          /\ t.after = "produce" => t.made < 5
      BY <1>0, <2>1, <2>3 DEF TaskOK, Deciding, Running, AfterSave
    <3>3. Carries(c, t.after, t.after, t.payload, t.record.status, t.record.version)
      <4> HIDE DEF t
      <4>1. t.after \in Campaign!TaskPCs  BY <1>0
      <4> QED  BY <4>1, <3>1, <3>2, GoesTo DEF t
    <3> QED  BY <2>1, <2>3, <3>2, <3>3
  <2> QED  BY <2>2, <2>3
<1>3. ASSUME Campaign!ArtifactMade(c)
      PROVE  /\ t.pc = "produce"
             /\ \E kind \in Producing \ {Analytics, Optimization} :
                  latest' = [latest EXCEPT ![kind] = 1]
             /\ Carries(c, "produce", t.after, t.payload, t.record.status, t.record.version)
             /\ UNCHANGED <<record, lastDecision, published, released>>
  <2> DEFINE q == [t EXCEPT !.made = t.made + 1]
             kind == Campaign!RunPlan[t.made + 1]
  <2>1. /\ t.pc = "produce" /\ kind # Compliance
        /\ latest' = [latest EXCEPT ![kind] = 1]
        /\ Campaign!Become(c, q)
        /\ UNCHANGED <<record, lastDecision, published, released>>
    BY <1>3 DEF Campaign!ArtifactMade, Campaign!Making, Campaign!AppendArtifact
  <2>2. t.made < 5
    BY <1>0, <2>1 DEF TaskOK, Running
  <2>3. kind \in Producing \ {Analytics, Optimization} /\ t.made + 1 < 5
    <3>1. t.made + 1 \in 1 .. 5  BY <1>0, <2>2
    <3> QED  BY <1>0, <2>1, <2>2, <3>1
  <2> HIDE DEF kind
  <2>4. /\ q \in Campaign!Tasks /\ q.pc = "produce" /\ q.after = t.after
        /\ q.payload = t.payload /\ q.record = t.record /\ q.made < 5
    BY <1>0, <2>1, <2>3 DEF Campaign!Tasks
  <2> HIDE DEF q
  <2>5. TaskOK(q)
    BY <2>4 DEF TaskOK, Deciding, Running
  <2> QED  BY <2>1, <2>3, <2>4, <2>5, Carrying
<1>4. ASSUME NEW passed \in BOOLEAN, Campaign!ComplianceReported(c, passed)
      PROVE  /\ t.pc = "produce"
             /\ latest' = [latest EXCEPT ![Compliance] = 1]
             /\ \E status \in {"waiting_review", "revision_required"} :
                  Carries(c, "save", "idle", t.payload, status, t.record.version)
             /\ UNCHANGED <<record, lastDecision, published, released>>
  <2>1. PICK status \in {"waiting_review", "revision_required"} :
          Campaign!Become(c, Campaign!Saving(t, status, "idle"))
    BY <1>4 DEF Campaign!ComplianceReported
  <2>2. Carries(c, "save", "idle", t.payload, status, t.record.version)
    BY <1>0, <2>1, GoesToSave, ClerkSteps
  <2> QED  BY <1>4, <2>2 DEF Campaign!ComplianceReported, Campaign!AppendArtifact
<1>5. ASSUME NEW retryable \in BOOLEAN, Campaign!RunFails(c, retryable)
      PROVE  /\ t.pc = "produce"
             /\ \E status \in {"human_handoff", "failed"} :
                  Carries(c, "save", "idle", t.payload, status, t.record.version)
             /\ UNCHANGED <<record, latest, lastDecision, published, released>>
  <2>1. PICK status \in {"human_handoff", "failed"} :
          Campaign!Become(c, Campaign!Saving(t, status, "idle"))
    BY <1>5 DEF Campaign!RunFails
  <2>2. Carries(c, "save", "idle", t.payload, status, t.record.version)
    BY <1>0, <2>1, GoesToSave, ClerkSteps
  <2> QED  BY <1>5, <2>2 DEF Campaign!RunFails, Campaign!fileVars
<1> QED  BY <1>1, <1>2, <1>3, <1>4, <1>5

(* The steps up to a decision, and of the rejection. *)
LEMMA DecisionSteps ==
  ASSUME ServiceTypeInv, NEW c \in Clerks
  PROVE  LET t == task[c] IN
         /\ \A d \in {"approved", "rejected"} : Campaign!BeginDecision(c, d) =>
              /\ t.pc = "idle" /\ record # NoRecord
              /\ Carries(c, "load_payload", "idle", 0, record.status, record.version)
              /\ UNCHANGED <<record, latest, lastDecision, published, released>>
         /\ Campaign!LoadPayload(c) =>
              /\ t.pc = "load_payload"
              /\ \/ Carries(c, "idle", "idle", 0, "absent", 1)
                 \/ /\ latest[Advertisement] # 0
                    /\ Carries(c, "decide", t.after, latest[Advertisement],
                               t.record.status, t.record.version)
              /\ UNCHANGED <<record, latest, lastDecision, published, released>>
         /\ Campaign!DecideTask(c) =>
              /\ t.pc = "decide"
              /\ \E d \in {"approved", "rejected"} :
                   /\ lastDecision' = [decision |-> d, version |-> t.payload]
                   /\ d = "approved" =>
                        Carries(c, "save", "check_approval", t.payload, "approved",
                                t.record.version)
                   /\ d = "rejected" =>
                        Carries(c, "revise", t.after, t.payload, t.record.status,
                                t.record.version)
              /\ UNCHANGED <<record, latest, published, released>>
         /\ Campaign!Revise(c) =>
              /\ t.pc = "revise"
              /\ latest' = [latest EXCEPT ![Advertisement] = t.payload + 1]
              /\ Carries(c, "save", "idle", t.payload, "revision_required", t.payload + 1)
              /\ UNCHANGED <<record, lastDecision, published, released>>
<1> DEFINE t == task[c]
<1>0. /\ t \in Campaign!Tasks /\ TaskOK(t)
      /\ t.record \in [status : RunStatuses, version : Versions]
      /\ t.after \in Campaign!TaskPCs /\ t.payload \in Nat
      /\ t.decision \in {"approved", "rejected"}
      /\ record \in [status : RunStatuses, version : Versions]
      /\ latest \in [Producing -> Nat] /\ Advertisement \in Producing
  BY TaskFields, StageFacts DEF ServiceTypeInv, TypeInv, TypeOK, FilesTypeOK
<1> USE SameFiles, NoTask DEF Campaign!At
<1>1. ASSUME NEW d \in {"approved", "rejected"}, Campaign!BeginDecision(c, d)
      PROVE  /\ t.pc = "idle" /\ record # NoRecord
             /\ Carries(c, "load_payload", "idle", 0, record.status, record.version)
             /\ UNCHANGED <<record, latest, lastDecision, published, released>>
  <2> DEFINE q == [Campaign!IdleTask EXCEPT !.pc = "load_payload", !.decision = d,
                                            !.record = record]
  <2>1. /\ q \in Campaign!Tasks /\ q.pc = "load_payload" /\ q.after = "idle"
        /\ q.payload = 0 /\ q.record = record
    BY <1>0 DEF Campaign!Tasks, Campaign!TaskPCs
  <2>2. Campaign!Become(c, q)
    BY <1>1 DEF Campaign!BeginDecision
  <2> HIDE DEF q
  <2>3. TaskOK(q)
    BY <2>1 DEF TaskOK, Deciding, Running
  <2>4. Carries(c, "load_payload", "idle", 0, record.status, record.version)
    BY <2>1, <2>2, <2>3, Carrying
  <2> QED  BY <1>1, <2>4 DEF Campaign!BeginDecision, Campaign!fileVars
<1>2. ASSUME Campaign!LoadPayload(c)
      PROVE  /\ t.pc = "load_payload"
             /\ \/ Carries(c, "idle", "idle", 0, "absent", 1)
                \/ /\ latest[Advertisement] # 0
                   /\ Carries(c, "decide", t.after, latest[Advertisement],
                              t.record.status, t.record.version)
             /\ UNCHANGED <<record, latest, lastDecision, published, released>>
  <2> DEFINE q == [t EXCEPT !.pc = "decide", !.payload = latest[Advertisement]]
  <2>1. /\ t.pc = "load_payload"
        /\ UNCHANGED <<record, latest, lastDecision, published, released>>
        /\ \/ Campaign!Return(c)
           \/ latest[Advertisement] # 0 /\ Campaign!Become(c, q)
    BY <1>2 DEF Campaign!LoadPayload, Campaign!fileVars
  <2>2. CASE Campaign!Return(c)
    BY <2>1, <2>2, Answered
  <2>3. CASE latest[Advertisement] # 0 /\ Campaign!Become(c, q)
    <3>1. /\ q \in Campaign!Tasks /\ q.pc = "decide" /\ q.after = t.after
          /\ q.payload = latest[Advertisement] /\ q.record = t.record
      BY <1>0 DEF Campaign!Tasks, Campaign!TaskPCs
    <3>2. Campaign!Become(c, q)  BY <2>3
    <3> HIDE DEF q
    <3>3. TaskOK(q)
      BY <2>3, <3>1 DEF TaskOK, Deciding, Running
    <3> QED  BY <2>1, <2>3, <3>1, <3>2, <3>3, Carrying
  <2> QED  BY <2>1, <2>2, <2>3
<1>3. ASSUME Campaign!DecideTask(c)
      PROVE  /\ t.pc = "decide"
             /\ \E d \in {"approved", "rejected"} :
                  /\ lastDecision' = [decision |-> d, version |-> t.payload]
                  /\ d = "approved" =>
                       Carries(c, "save", "check_approval", t.payload, "approved",
                               t.record.version)
                  /\ d = "rejected" =>
                       Carries(c, "revise", t.after, t.payload, t.record.status,
                               t.record.version)
             /\ UNCHANGED <<record, latest, published, released>>
  <2>1. /\ t.pc = "decide"
        /\ UNCHANGED <<record, latest, published, released>>
        /\ lastDecision' = [decision |-> t.decision, version |-> t.payload]
        /\ t.decision = "approved" =>
             Campaign!Become(c, Campaign!Saving(t, "approved", "check_approval"))
        /\ t.decision = "rejected" => Campaign!Become(c, [t EXCEPT !.pc = "revise"])
    BY <1>0, <1>3 DEF Campaign!DecideTask, Campaign!Decide, Campaign!Goto
  <2>2. t.payload # 0
    BY <1>0, <2>1 DEF TaskOK, Deciding
  <2>3. t.decision = "approved" =>
          Carries(c, "save", "check_approval", t.payload, "approved", t.record.version)
    BY <1>0, <2>1, <2>2, GoesToSave, ClerkSteps
  <2>4. t.decision = "rejected" =>
          Carries(c, "revise", t.after, t.payload, t.record.status, t.record.version)
    BY <1>0, <2>1, <2>2, GoesTo, ClerkSteps
  <2> QED  BY <1>0, <2>1, <2>3, <2>4
<1>4. ASSUME Campaign!Revise(c)
      PROVE  /\ t.pc = "revise"
             /\ latest' = [latest EXCEPT ![Advertisement] = t.payload + 1]
             /\ Carries(c, "save", "idle", t.payload, "revision_required", t.payload + 1)
             /\ UNCHANGED <<record, lastDecision, published, released>>
  <2> DEFINE u == Campaign!Saving(t, "revision_required", "idle")
             q == [u EXCEPT !.record.version = t.payload + 1]
  <2>1. Campaign!Become(c, q)
    BY <1>4 DEF Campaign!Revise, Campaign!Revised
  <2>2. /\ u \in Campaign!Tasks /\ u.pc = "save" /\ u.after = "idle"
        /\ u.payload = t.payload /\ u.record.status = "revision_required"
    <3>1. "revision_required" \in RunStatuses \ {"absent"} /\ "idle" \in AfterSave
      BY ClerkSteps
    <3> QED  BY <1>0, <3>1, SavingTask
  <2> HIDE DEF u
  <2>3. /\ q \in Campaign!Tasks /\ q.pc = "save" /\ q.after = "idle"
        /\ q.payload = t.payload /\ q.record.status = "revision_required"
        /\ q.record.version = t.payload + 1
    BY <1>0, <2>2 DEF Campaign!Tasks, Versions
  <2> HIDE DEF q
  <2>4. TaskOK(q)
    BY <2>3 DEF TaskOK, Deciding, Running, AfterSave
  <2> QED  BY <1>4, <2>1, <2>3, <2>4, Carrying DEF Campaign!Revise, Campaign!AppendArtifact
<1> QED  BY <1>1, <1>2, <1>3, <1>4

(* The steps of a publication and of what follows it. *)
LEMMA PublicationSteps ==
  ASSUME ServiceTypeInv, NEW c \in Clerks
  PROVE  LET t == task[c] IN
         /\ Campaign!CheckApproval(c) =>
              /\ t.pc = "check_approval"
              /\ \/ Carries(c, "idle", "idle", 0, "absent", 1)
                 \/ /\ lastDecision = [decision |-> "approved", version |-> t.payload]
                    /\ Carries(c, "check_key", t.after, t.payload, t.record.status,
                               t.record.version)
                 \/ Carries(c, "save", "idle", t.payload, "human_handoff", t.record.version)
              /\ UNCHANGED <<record, latest, lastDecision, published, released>>
         /\ Campaign!CheckKey(c) =>
              /\ t.pc = "check_key"
              /\ \/ Carries(c, "idle", "idle", 0, "absent", 1)
                 \/ /\ published = 0
                    /\ Carries(c, "record_publication", t.after, t.payload, t.record.status,
                               t.record.version)
              /\ UNCHANGED <<record, latest, lastDecision, published, released>>
         /\ Campaign!RecordPublication(c) =>
              /\ t.pc = "record_publication"
              /\ published' = t.payload /\ released' = Append(released, t.payload)
              /\ Carries(c, "save", "analytics", t.payload, "published", t.record.version)
              /\ UNCHANGED <<record, latest, lastDecision>>
         /\ Campaign!Analyze(c) =>
              /\ t.pc = "analytics"
              /\ \/ /\ latest' = [latest EXCEPT ![Analytics] = 1]
                    /\ Carries(c, "save", "optimization", t.payload, "analyzed",
                               t.record.version)
                 \/ Carries(c, "idle", "idle", 0, "absent", 1) /\ latest' = latest
                 \/ /\ Carries(c, "save", "idle", t.payload, "human_handoff",
                               t.record.version)
                    /\ latest' = latest
              /\ UNCHANGED <<record, lastDecision, published, released>>
         /\ Campaign!Optimize(c) =>
              /\ t.pc = "optimization"
              /\ \/ /\ latest' = [latest EXCEPT ![Optimization] = 1]
                    /\ Carries(c, "save", "idle", t.payload, "optimized", t.record.version)
                 \/ Carries(c, "idle", "idle", 0, "absent", 1) /\ latest' = latest
              /\ UNCHANGED <<record, lastDecision, published, released>>
<1> DEFINE t == task[c]
<1>0. /\ t \in Campaign!Tasks /\ TaskOK(t) /\ t.payload \in Nat
  BY TaskFields
<1> USE DEF Campaign!At
<1>1. ASSUME NEW status \in {"human_handoff", "published", "analyzed", "optimized"},
             NEW after \in {"idle", "analytics", "optimization"},
             Campaign!Become(c, Campaign!Saving(t, status, after))
      PROVE  Carries(c, "save", after, t.payload, status, t.record.version)
  BY <1>1, GoesToSave, ClerkSteps
<1>2. ASSUME NEW pc \in {"check_key", "record_publication"}, t.payload # 0,
             Campaign!Goto(c, pc)
      PROVE  Carries(c, pc, t.after, t.payload, t.record.status, t.record.version)
  <2>1. Campaign!Become(c, [task[c] EXCEPT !.pc = pc])
    BY <1>2 DEF Campaign!Goto
  <2>2. pc \in Campaign!TaskPCs /\ pc # "save"  BY <1>2, ClerkSteps
  <2> QED  BY <1>2, <2>1, <2>2, GoesTo
<1>3. ASSUME Campaign!CheckApproval(c)
      PROVE  /\ t.pc = "check_approval"
             /\ \/ Carries(c, "idle", "idle", 0, "absent", 1)
                \/ /\ lastDecision = [decision |-> "approved", version |-> t.payload]
                   /\ Carries(c, "check_key", t.after, t.payload, t.record.status,
                              t.record.version)
                \/ Carries(c, "save", "idle", t.payload, "human_handoff", t.record.version)
             /\ UNCHANGED <<record, latest, lastDecision, published, released>>
  <2>1. /\ t.pc = "check_approval"
        /\ \/ /\ lastDecision = [decision |-> "approved", version |-> t.payload]
              /\ Campaign!Goto(c, "check_key")
           \/ Campaign!Return(c)
           \/ Campaign!Become(c, Campaign!Saving(t, "human_handoff", "idle"))
        /\ UNCHANGED <<record, latest, lastDecision, published, released>>
    BY <1>3 DEF Campaign!CheckApproval, Campaign!fileVars
  <2>2. t.payload # 0  BY <1>0, <2>1 DEF TaskOK, Deciding
  <2> QED  BY <1>1, <1>2, <2>1, <2>2, Answered
<1>4. ASSUME Campaign!CheckKey(c)
      PROVE  /\ t.pc = "check_key"
             /\ \/ Carries(c, "idle", "idle", 0, "absent", 1)
                \/ /\ published = 0
                   /\ Carries(c, "record_publication", t.after, t.payload, t.record.status,
                              t.record.version)
             /\ UNCHANGED <<record, latest, lastDecision, published, released>>
  <2>1. /\ t.pc = "check_key"
        /\ \/ published = 0 /\ Campaign!Goto(c, "record_publication")
           \/ Campaign!Return(c)
        /\ UNCHANGED <<record, latest, lastDecision, published, released>>
    BY <1>4 DEF Campaign!CheckKey, Campaign!CanPublish, Campaign!fileVars
  <2>2. t.payload # 0  BY <1>0, <2>1 DEF TaskOK, Deciding
  <2> QED  BY <1>2, <2>1, <2>2, Answered
<1>5. ASSUME Campaign!RecordPublication(c)
      PROVE  /\ t.pc = "record_publication"
             /\ published' = t.payload /\ released' = Append(released, t.payload)
             /\ Carries(c, "save", "analytics", t.payload, "published", t.record.version)
             /\ UNCHANGED <<record, latest, lastDecision>>
  BY <1>1, <1>5 DEF Campaign!RecordPublication, Campaign!Publish
<1>6. ASSUME Campaign!Analyze(c)
      PROVE  /\ t.pc = "analytics"
             /\ \/ /\ latest' = [latest EXCEPT ![Analytics] = 1]
                   /\ Carries(c, "save", "optimization", t.payload, "analyzed",
                              t.record.version)
                \/ Carries(c, "idle", "idle", 0, "absent", 1) /\ latest' = latest
                \/ /\ Carries(c, "save", "idle", t.payload, "human_handoff",
                              t.record.version)
                   /\ latest' = latest
             /\ UNCHANGED <<record, lastDecision, published, released>>
  BY <1>1, <1>6, Answered, SameFiles DEF Campaign!Analyze, Campaign!AppendArtifact
<1>7. ASSUME Campaign!Optimize(c)
      PROVE  /\ t.pc = "optimization"
             /\ \/ /\ latest' = [latest EXCEPT ![Optimization] = 1]
                   /\ Carries(c, "save", "idle", t.payload, "optimized", t.record.version)
                \/ Carries(c, "idle", "idle", 0, "absent", 1) /\ latest' = latest
             /\ UNCHANGED <<record, lastDecision, published, released>>
  BY <1>1, <1>7, Answered, SameFiles DEF Campaign!Optimize, Campaign!AppendArtifact
<1> QED  BY <1>3, <1>4, <1>5, <1>6, <1>7

(* A clerk whose access to a file raises answers, or goes on to save that   *)
(* its run failed.                                                          *)
LEMMA ClerkRaises ==
  ASSUME ServiceTypeInv, NEW c \in Clerks, Campaign!AccessRaises(c)
  PROVE  LET t == task[c] IN
         /\ t.pc # "idle" /\ t.pc # "produce"
         /\ \/ Carries(c, "idle", "idle", 0, "absent", 1)
            \/ /\ t.pc = "save" /\ t.payload = 0
               /\ Carries(c, "save", "idle", 0, "failed", t.record.version)
         /\ UNCHANGED <<record, latest, lastDecision, published, released>>
<1> DEFINE t == task[c]
<1>1. /\ t.pc # "idle" /\ t.pc # "produce"
      /\ \/ Campaign!Return(c)
         \/ /\ t.pc = "save" /\ t.payload = 0
            /\ Campaign!Become(c, Campaign!Saving(t, "failed", "idle"))
      /\ UNCHANGED <<record, latest, lastDecision, published, released>>
  BY DEF Campaign!AccessRaises, Campaign!OfRun, Campaign!At, Campaign!fileVars
<1>2. CASE Campaign!Return(c)
  BY <1>1, <1>2, Answered
<1>3. CASE /\ t.pc = "save" /\ t.payload = 0
           /\ Campaign!Become(c, Campaign!Saving(t, "failed", "idle"))
  <2>1. Carries(c, "save", "idle", t.payload, "failed", t.record.version)
    BY <1>3, GoesToSave, ClerkSteps
  <2> QED  BY <1>1, <1>3, <2>1
<1> QED  BY <1>1, <1>2, <1>3

-----------------------------------------------------------------------------
(* Types, for any number of workers, clerks, overlaps, outages and crashes. *)

(* Every step of a clerk names its artifacts, decisions and releases by     *)
(* versions, and leaves its task well formed.                               *)
LEMMA ClerkTyped ==
  ASSUME ServiceTypeInv, NEW c \in Clerks,
         Campaign!Admit(c) \/ Campaign!Serve(c) \/ Campaign!AccessRaises(c)
  PROVE  /\ FilesTypeOK'
         /\ \A d \in Clerks : task'[d] \in Campaign!Tasks /\ TaskOK(task'[d])
<1> DEFINE t == task[c]
<1>0. /\ TaskOK(t) /\ t.payload \in Nat
      /\ t.record \in [status : RunStatuses, version : Versions]
      /\ FilesTypeOK
      /\ \A d \in Clerks : task[d] \in Campaign!Tasks /\ TaskOK(task[d])
  BY TaskFields DEF ServiceTypeInv, TypeInv, TypeOK
<1>k. Advertisement \in Producing /\ Compliance \in Producing
      /\ Analytics \in Producing /\ Optimization \in Producing
  BY PlanFacts, StageFacts
<1>v. \A n \in Nat : n # 0 => n \in Versions
  BY DEF Versions
<1>r. [status |-> "pending", version |-> 1] \in [status : RunStatuses, version : Versions]
  BY DEF RunStatuses, Versions
<1>1. ASSUME NEW pc, NEW after, NEW payload, NEW status, NEW version,
             Carries(c, pc, after, payload, status, version)
      PROVE  \A d \in Clerks : task'[d] \in Campaign!Tasks /\ TaskOK(task'[d])
  BY <1>0, <1>1 DEF Carries
<1>2. \A d \in Clerks : task'[d] \in Campaign!Tasks /\ TaskOK(task'[d])
  BY <1>1, RunSteps, DecisionSteps, PublicationSteps, ClerkRaises
  DEF Campaign!Admit, Campaign!Serve
<1>3. record' \in [status : RunStatuses, version : Versions]
  BY <1>0, <1>r, RunSteps, DecisionSteps, PublicationSteps, ClerkRaises
  DEF Campaign!Admit, Campaign!Serve, FilesTypeOK
<1>4. latest' \in [Producing -> Nat]
  <2>1. \/ UNCHANGED latest
        \/ \E kind \in Producing, version \in Nat :
             latest' = [latest EXCEPT ![kind] = version]
    BY <1>0, <1>k, RunSteps, DecisionSteps, PublicationSteps, ClerkRaises
    DEF Campaign!Admit, Campaign!Serve
  <2>2. latest \in [Producing -> Nat]
    BY <1>0 DEF FilesTypeOK
  <2> QED  BY <2>1, <2>2
<1>5. lastDecision' \in [decision : {"none", "approved", "rejected"}, version : Versions]
  <2>1. t.pc = "decide" => t.payload \in Versions
    BY <1>0, <1>v DEF TaskOK, Deciding
  <2> QED
    BY <1>0, <2>1, RunSteps, DecisionSteps, PublicationSteps, ClerkRaises
    DEF Campaign!Admit, Campaign!Serve, FilesTypeOK
<1>6. published' \in Nat /\ released' \in Seq(Nat)
  <2>1. /\ Append(released, t.payload) \in Seq(Nat) /\ released \in Seq(Nat)
        /\ published \in Nat
    BY <1>0 DEF FilesTypeOK
  <2>2. \/ UNCHANGED <<published, released>>
        \/ published' = t.payload /\ released' = Append(released, t.payload)
    BY RunSteps, DecisionSteps, PublicationSteps, ClerkRaises
    DEF Campaign!Admit, Campaign!Serve
  <2> QED  BY <1>0, <2>1, <2>2
<1> QED  BY <1>2, <1>3, <1>4, <1>5, <1>6 DEF FilesTypeOK

(* What is not on file stays put in a step of a clerk. *)
LEMMA ClerkFrame ==
  ASSUME NEW c \in Clerks, CampaignRequest(c)
  PROVE  /\ UNCHANGED <<gates, gateLog, logTorn, req, overlaps, crashes>>
         /\ UNCHANGED <<runtime, page, outages>>
         /\ \/ (Campaign!Admit(c) \/ Campaign!Serve(c)) /\ failures' = failures
            \/ Campaign!AccessRaises(c) /\ failures' = failures + 1
  BY DEF CampaignRequest, CountFailure, gateVars, processVars

(* The gates a page makes up are gates. *)
LEMMA PageGates ==
  ASSUME NEW g \in Gates, NEW status \in RunStatuses
  PROVE  FreshGates \in Gates /\ SyncedGates(g, status) \in Gates
<1>1. FreshGates \in Gates
  BY InitialTypes, SetStatusType, StageFacts DEF FreshGates, Statuses
<1>2. \A s \in Stages : g[s] \in [status : Statuses, version : Versions]
  BY DEF Gates
<1>3. CASE status \in {"waiting_review", "revision_required"}
  <2> DEFINE h == [s \in Stages |-> [g[s] EXCEPT !.status =
                     IF s < PublishReview THEN "approved"
                     ELSE IF s = PublishReview THEN "pending_review" ELSE "locked"]]
  <2>1. h \in Gates  BY <1>2 DEF Gates, Statuses
  <2>2. SyncedGates(g, status) = h  BY <1>3 DEF SyncedGates
  <2> QED  BY <1>1, <2>1, <2>2
<1>4. CASE status \in {"optimized", "analyzed", "published", "approved"}
  <2> DEFINE h == [s \in Stages |-> [g[s] EXCEPT !.status = "approved"]]
  <2>1. h \in Gates  BY <1>2 DEF Gates, Statuses
  <2>2. SyncedGates(g, status) = h  BY <1>4 DEF SyncedGates
  <2> QED  BY <1>1, <2>1, <2>2
<1>5. CASE status \in {"failed", "human_handoff"}
  <2>1. SyncedGates(g, status) = SetStatus(g, Research, "failed")
    BY <1>5 DEF SyncedGates
  <2> QED  BY <1>1, <2>1, SetStatusType, StageFacts DEF Statuses
<1>6. CASE status \in {"absent", "pending", "running"}
  <2>1. SyncedGates(g, status) = g
    BY <1>6 DEF SyncedGates
  <2> QED  BY <1>1, <2>1
<1> QED  BY <1>3, <1>4, <1>5, <1>6 DEF RunStatuses

(* The steps of a page, and what they leave alone. *)
LEMMA PageSteps ==
  ASSUME page \in Pages, gates \in Gates
  PROVE  /\ OpenPage => /\ ~runtime /\ page = NoPage /\ record # NoRecord
                        /\ page'.pc = "ensure" /\ page'.gates = NoGates
                        /\ page'.status = record.status /\ gates' = gates
         /\ EnsureGates => /\ page # NoPage
                           /\ gates' = IF gates = NoGates THEN FreshGates ELSE gates
                           /\ page' = NoPage \/ page'.gates = gates'
         /\ SyncGates => /\ page # NoPage /\ gates' = gates
                         /\ \/ page' = NoPage
                            \/ page'.gates = SyncedGates(page.gates, page.status)
         /\ SaveSynced => page # NoPage /\ gates' = page.gates /\ page' = NoPage
         /\ PageRaises => page # NoPage /\ gates' = gates /\ page' = NoPage
         /\ OpenPage \/ ServePage =>
              UNCHANGED <<record, latest, lastDecision, published, released, gateLog,
                          logTorn, req, overlaps, crashes, failures, task, mixed,
                          runtime, outages>>
<1> USE DEF Turn, fileVars, counters
<1>0. /\ page.pc = "ensure" \/ page.pc = "sync" \/ page.pc = "save" => page # NoPage
      /\ NoPage.gates = NoGates
  BY DEF NoPage
<1>1. OpenPage => /\ ~runtime /\ page = NoPage /\ record # NoRecord
                  /\ page'.pc = "ensure" /\ page'.gates = NoGates
                  /\ page'.status = record.status /\ gates' = gates
  BY DEF OpenPage, NoPage
<1>2. EnsureGates => /\ page # NoPage
                     /\ gates' = IF gates = NoGates THEN FreshGates ELSE gates
                     /\ page' = NoPage \/ page'.gates = gates'
  BY <1>0 DEF EnsureGates, Pages
<1>3. SyncGates => /\ page # NoPage /\ gates' = gates
                   /\ \/ page' = NoPage
                      \/ page'.gates = SyncedGates(page.gates, page.status)
  BY <1>0 DEF SyncGates, Pages
<1>4. SaveSynced => page # NoPage /\ gates' = page.gates /\ page' = NoPage
  BY <1>0 DEF SaveSynced
<1>5. PageRaises => page # NoPage /\ gates' = gates /\ page' = NoPage
  BY DEF PageRaises
<1>6. OpenPage \/ ServePage =>
        UNCHANGED <<record, latest, lastDecision, published, released, gateLog,
                    logTorn, req, overlaps, crashes, failures, task, mixed,
                    runtime, outages>>
  BY DEF OpenPage, ServePage, EnsureGates, SyncGates, SaveSynced, PageRaises
<1> QED  BY <1>1, <1>2, <1>3, <1>4, <1>5, <1>6

(* Opening and serving a page without a runtime keeps page and gates well    *)
(* typed.                                                                    *)
LEMMA PageTyped ==
  ASSUME page \in Pages, gates \in Gates, record.status \in RunStatuses,
         OpenPage \/ ServePage
  PROVE  page' \in Pages /\ gates' \in Gates
<1>0. NoPage \in Pages
  BY InitialTypes DEF NoPage, Pages, RunStatuses
<1>1. /\ page.status \in RunStatuses /\ page.gates \in Gates
      /\ FreshGates \in Gates /\ SyncedGates(page.gates, page.status) \in Gates
  <2>1. page.status \in RunStatuses /\ page.gates \in Gates  BY DEF Pages
  <2> QED  BY <2>1, PageGates
<1>2. ASSUME OpenPage PROVE page' \in Pages /\ gates' \in Gates
  BY <1>0, <1>2 DEF OpenPage, Turn, Pages
<1>3. ASSUME EnsureGates PROVE page' \in Pages /\ gates' \in Gates
  <2>1. gates' \in Gates  BY <1>1, <1>3 DEF EnsureGates
  <2>2. page' = NoPage \/ page' = [page EXCEPT !.pc = "sync", !.gates = gates']
    BY <1>3 DEF EnsureGates, Turn
  <2> QED  BY <1>0, <2>1, <2>2 DEF Pages
<1>4. ASSUME SyncGates PROVE page' \in Pages /\ gates' \in Gates
  <2>1. \/ page' = NoPage
        \/ page' = [page EXCEPT !.pc = "save", !.gates = SyncedGates(page.gates, page.status)]
    BY <1>4 DEF SyncGates, Turn, Pages
  <2>2. gates' = gates  BY <1>4 DEF SyncGates
  <2> QED  BY <1>0, <1>1, <2>1, <2>2 DEF Pages
<1>5. ASSUME SaveSynced PROVE page' \in Pages /\ gates' \in Gates
  BY <1>0, <1>1, <1>5 DEF SaveSynced, Turn
<1>6. ASSUME PageRaises PROVE page' \in Pages /\ gates' \in Gates
  BY <1>0, <1>6 DEF PageRaises, Turn
<1> QED  BY <1>2, <1>3, <1>4, <1>5, <1>6 DEF ServePage

(* The ends of a process, and its return. *)
LEMMA ProcessSteps ==
  /\ Outage => /\ runtime /\ AllIdle /\ Campaign!AllIdle
               /\ runtime' = FALSE /\ outages' = outages + 1 /\ published' = 0
               /\ UNCHANGED <<record, latest, lastDecision, released, gates, gateLog, logTorn,
                             req, overlaps, crashes, failures, task, mixed, page>>
  /\ Restart => /\ crashes' = crashes + 1 /\ published' = 0
                /\ req' = [w \in Workers |-> IdleRequest]
                /\ task' = [c \in Clerks |-> Campaign!IdleTask]
                /\ UNCHANGED <<record, latest, lastDecision, released, gates, gateLog, logTorn,
                              overlaps, failures, mixed, runtime, page, outages>>
  /\ Recovery => /\ ~runtime /\ page = NoPage /\ runtime' = TRUE
                 /\ UNCHANGED <<record, latest, lastDecision, published, released, gates,
                               gateLog, logTorn, req, overlaps, crashes, failures, task, mixed, page,
                               outages>>
<1>1. Outage => /\ runtime /\ AllIdle /\ Campaign!AllIdle
                /\ runtime' = FALSE /\ outages' = outages + 1 /\ published' = 0
                /\ UNCHANGED <<record, latest, lastDecision, released, gates, gateLog, logTorn,
                              req, overlaps, crashes, failures, task, mixed, page>>
  BY DEF Outage, ForgetPublished, gateVars, counters
<1>2. Restart => /\ crashes' = crashes + 1 /\ published' = 0
                 /\ req' = [w \in Workers |-> IdleRequest]
                 /\ task' = [c \in Clerks |-> Campaign!IdleTask]
                 /\ UNCHANGED <<record, latest, lastDecision, released, gates, gateLog,
                               logTorn, overlaps, failures, mixed, runtime, page, outages>>
  BY DEF Restart, Crash, Campaign!ForgetTasks, ForgetPublished, gateVars, processVars
<1>3. Recovery => /\ ~runtime /\ page = NoPage /\ runtime' = TRUE
                  /\ UNCHANGED <<record, latest, lastDecision, published, released, gates,
                                gateLog, logTorn, req, overlaps, crashes, failures, task, mixed, page,
                                outages>>
  BY DEF Recovery, vars, fileVars, gateVars, counters
<1> QED  BY <1>1, <1>2, <1>3

(* The service starts well typed. *)
LEMMA ServiceTypeInit == ServiceInit => ServiceTypeInv
<1> SUFFICES ASSUME ServiceInit PROVE ServiceTypeInv
  OBVIOUS
<1>1. TypeInv  BY TypeInit DEF ServiceInit
<1>2. task \in [Clerks -> Campaign!Tasks] /\ \A c \in Clerks : TaskOK(task[c])
  BY NoTask DEF ServiceInit, Campaign!Init
<1>3. page \in Pages
  BY InitialTypes DEF ServiceInit, NoPage, Pages, RunStatuses
<1> QED
  BY <1>1, <1>2, <1>3 DEF ServiceInit, ServiceTypeInv, Campaign!TasksTypeOK

(* Every step of the service keeps the types of files, requests and tasks.  *)
LEMMA ServiceTypeStep == ServiceTypeInv /\ [ServiceNext]_serviceVars => ServiceTypeInv'
<1> SUFFICES ASSUME ServiceTypeInv, [ServiceNext]_serviceVars PROVE ServiceTypeInv'
  OBVIOUS
<1>0. /\ TypeInv /\ mixed \in Nat /\ outages \in Nat /\ runtime \in BOOLEAN
      /\ page \in Pages /\ gates \in Gates /\ record.status \in RunStatuses
      /\ task \in [Clerks -> Campaign!Tasks] /\ \A c \in Clerks : TaskOK(task[c])
  BY DEF ServiceTypeInv, TypeInv, TypeOK, FilesTypeOK, Campaign!TasksTypeOK
<1>m. ASSUME NEW alone, Mixes(alone) PROVE mixed' \in Nat
  BY <1>0, <1>m DEF Mixes
<1> USE DEF ServiceTypeInv, Campaign!TasksTypeOK
<1>1. ASSUME NEW w \in Workers, StageRequest(w) PROVE ServiceTypeInv'
  <2>1. TypeInv'
    BY <1>0, <1>1, TypeStep DEF StageRequest, Next
  <2>2. UNCHANGED <<task, runtime, page, outages>> /\ mixed' \in Nat
    BY <1>0, <1>1, <1>m DEF StageRequest, processVars
  <2> QED  BY <1>0, <2>1, <2>2
<1>2. ASSUME NEW c \in Clerks, CampaignRequest(c) PROVE ServiceTypeInv'
  <2>1. /\ UNCHANGED <<gates, gateLog, logTorn, req, overlaps, crashes>>
        /\ UNCHANGED <<runtime, page, outages>>
        /\ Campaign!Admit(c) \/ Campaign!Serve(c) \/ Campaign!AccessRaises(c)
        /\ failures' \in Nat
    <3>1. failures \in Nat  BY <1>0 DEF TypeInv, TypeOK
    <3> QED  BY <1>2, <3>1, ClerkFrame
  <2>2. FilesTypeOK' /\ \A d \in Clerks : task'[d] \in Campaign!Tasks /\ TaskOK(task'[d])
    BY <2>1, ClerkTyped
  <2>3. TypeInv'
    BY <1>0, <2>1, <2>2 DEF TypeInv, TypeOK, Underway
  <2>4. task' \in [Clerks -> Campaign!Tasks]
    <3>1. \E q : task' = [task EXCEPT ![c] = q]
      BY <2>1
      DEF Campaign!Admit, Campaign!Serve, Campaign!NewRun, Campaign!BeginDecision,
          Campaign!SaveStatus, Campaign!ArtifactMade, Campaign!ComplianceReported,
          Campaign!RunFails, Campaign!LoadPayload, Campaign!DecideTask,
          Campaign!CheckApproval, Campaign!CheckKey, Campaign!RecordPublication,
          Campaign!Analyze, Campaign!Optimize, Campaign!Revise,
          Campaign!AccessRaises, Campaign!Goto, Campaign!Return, Campaign!Become
    <3> QED  BY <1>0, <2>2, <3>1
  <2>5. mixed' \in Nat
    BY <1>0, <1>2, <1>m DEF CampaignRequest
  <2> QED  BY <1>0, <2>1, <2>2, <2>3, <2>4, <2>5
<1>3. CASE Restart
  <2>1. TypeInv'
    BY <1>0, <1>3, TypeStep DEF Restart, Next
  <2>2. task' \in [Clerks -> Campaign!Tasks] /\ \A c \in Clerks : TaskOK(task'[c])
    BY <1>3, NoTask DEF Restart, Campaign!ForgetTasks
  <2> QED  BY <1>0, <1>3, <2>1, <2>2 DEF Restart, processVars
<1>4. CASE Outage
  <2>1. TypeInv'
    BY <1>0, <1>4, ProcessSteps DEF TypeInv, TypeOK, FilesTypeOK, Underway
  <2>2. /\ outages' = outages + 1 /\ UNCHANGED <<mixed, page, task>>
    BY <1>4, ProcessSteps
  <2>3. runtime' = FALSE  BY <1>4, ProcessSteps
  <2>4. runtime' \in BOOLEAN  BY <2>3
  <2> QED  BY <1>0, <2>1, <2>2, <2>4
<1>5. CASE Recovery
  <2>1. TypeInv'
    BY <1>0, <1>5, TypeStep DEF Recovery, Next
  <2> QED  BY <1>0, <1>5, <2>1 DEF Recovery
<1>6. CASE OpenPage \/ ServePage
  <2>1. UNCHANGED <<record, latest, lastDecision, published, released, gateLog,
                    logTorn, req, overlaps, crashes, failures, task, mixed, runtime,
                    outages>>
    BY <1>0, <1>6, PageSteps
  <2>2. page' \in Pages /\ gates' \in Gates
    BY <1>0, <1>6, PageTyped
  <2>3. TypeInv'
    BY <1>0, <2>1, <2>2 DEF TypeInv, TypeOK, FilesTypeOK, Underway
  <2> QED  BY <1>0, <2>1, <2>2, <2>3
<1>7. CASE UNCHANGED serviceVars
  <2>1. TypeInv'
    BY <1>0, <1>7, TypeStep DEF serviceVars
  <2> QED  BY <1>0, <1>7, <2>1 DEF serviceVars
<1> QED  BY <1>1, <1>2, <1>3, <1>4, <1>5, <1>6, <1>7 DEF ServiceNext

-----------------------------------------------------------------------------
(* Whoever serves a request has one. *)
LEMMA Serving ==
  /\ \A w \in Workers :
       Serve(w) \/ AccessRaises(w) => req[w].pc # "idle" /\ ~AllIdle
  /\ \A c \in Clerks :
       Campaign!Serve(c) \/ Campaign!AccessRaises(c)
         => task[c].pc # "idle" /\ ~Campaign!AllIdle
<1>1. ASSUME NEW w \in Workers, Serve(w) \/ AccessRaises(w)
      PROVE  req[w].pc # "idle" /\ ~AllIdle
  BY <1>1, ReviewSteps, ExecuteSteps DEF Serve, CreateGates, AccessRaises, At, AllIdle
<1>2. ASSUME NEW c \in Clerks, Campaign!Serve(c) \/ Campaign!AccessRaises(c)
      PROVE  task[c].pc # "idle" /\ ~Campaign!AllIdle
  BY <1>2
  DEF Campaign!Serve, Campaign!SaveStatus, Campaign!ArtifactMade,
      Campaign!ComplianceReported, Campaign!RunFails, Campaign!LoadPayload,
      Campaign!DecideTask, Campaign!CheckApproval, Campaign!CheckKey,
      Campaign!RecordPublication, Campaign!Analyze, Campaign!Optimize, Campaign!Revise,
      Campaign!AccessRaises, Campaign!At, Campaign!AllIdle
<1> QED  BY <1>1, <1>2

(* A campaign request changes the locals of its own thread only. *)
LEMMA OtherClerksKeep ==
  ASSUME ServiceTypeInv, NEW c \in Clerks,
         Campaign!Admit(c) \/ Campaign!Serve(c) \/ Campaign!AccessRaises(c)
  PROVE  \A d \in Clerks \ {c} : task'[d] = task[d]
<1>1. task \in [Clerks -> Campaign!Tasks]
  BY DEF ServiceTypeInv, Campaign!TasksTypeOK
<1>2. \E q : task' = [task EXCEPT ![c] = q]
  BY DEF Campaign!Admit, Campaign!Serve, Campaign!NewRun, Campaign!BeginDecision,
         Campaign!SaveStatus, Campaign!ArtifactMade, Campaign!ComplianceReported,
         Campaign!RunFails, Campaign!LoadPayload, Campaign!DecideTask,
         Campaign!CheckApproval, Campaign!CheckKey, Campaign!RecordPublication,
         Campaign!Analyze, Campaign!Optimize, Campaign!Revise,
         Campaign!AccessRaises, Campaign!Goto, Campaign!Return, Campaign!Become
<1> QED  BY <1>1, <1>2

(* A process without runtime never has a request under way. *)
LEMMA RuntimeStep ==
  ServiceTypeInv /\ RuntimeInv /\ [ServiceNext]_serviceVars => RuntimeInv'
<1> SUFFICES ASSUME ServiceTypeInv, RuntimeInv, [ServiceNext]_serviceVars
             PROVE  RuntimeInv'
  OBVIOUS
<1>0. page \in Pages /\ gates \in Gates
  BY DEF ServiceTypeInv, TypeInv, TypeOK
<1> USE DEF RuntimeInv
<1>1. ASSUME NEW w \in Workers, StageRequest(w) PROVE RuntimeInv'
  <2>1. UNCHANGED <<runtime, page>>
    BY <1>1 DEF StageRequest, processVars
  <2>2. runtime
    BY <1>1, Serving DEF StageRequest
  <2> QED  BY <2>1, <2>2
<1>2. ASSUME NEW c \in Clerks, CampaignRequest(c) PROVE RuntimeInv'
  <2>1. UNCHANGED <<runtime, page>>
    BY <1>2, ClerkFrame
  <2>2. runtime
    BY <1>2, Serving DEF CampaignRequest
  <2> QED  BY <2>1, <2>2
<1>3. CASE Restart
  <2>1. UNCHANGED <<runtime, page>>
    BY <1>3, ProcessSteps
  <2>2. AllIdle' /\ Campaign!AllIdle'
    BY <1>3, ProcessSteps, NoTask DEF AllIdle, At, IdleRequest, Campaign!AllIdle, Campaign!At
  <2> QED  BY <2>1, <2>2
<1>4. CASE Outage
  <2>1. /\ runtime /\ AllIdle /\ Campaign!AllIdle
        /\ UNCHANGED <<req, task, page>>
    BY <1>4, ProcessSteps
  <2>2. ~runtime'
    <3>1. runtime' = FALSE  BY <1>4, ProcessSteps
    <3> QED  BY <3>1
  <2>3. AllIdle' /\ Campaign!AllIdle'
    BY <2>1 DEF AllIdle, At, Campaign!AllIdle, Campaign!At
  <2> QED  BY <2>1, <2>2, <2>3
<1>5. CASE Recovery
  <2>1. page' = NoPage
    BY <1>5, ProcessSteps
  <2>2. runtime'
    <3>1. runtime' = TRUE  BY <1>5, ProcessSteps
    <3> QED  BY <3>1
  <2> QED  BY <2>1, <2>2 DEF NoPage
<1>6. CASE OpenPage \/ ServePage
  <2>1. UNCHANGED <<req, task, runtime>>
    BY <1>0, <1>6, PageSteps
  <2>2. ~runtime
    BY <1>0, <1>6, PageSteps DEF ServePage
  <2>3. AllIdle' /\ Campaign!AllIdle'
    BY <2>1, <2>2 DEF AllIdle, At, Campaign!AllIdle, Campaign!At
  <2> QED  BY <2>1, <2>2, <2>3
<1>7. CASE UNCHANGED serviceVars
  BY <1>7
  DEF serviceVars, vars, AllIdle, At, Campaign!AllIdle, Campaign!At
<1> QED  BY <1>1, <1>2, <1>3, <1>4, <1>5, <1>6, <1>7 DEF ServiceNext

-----------------------------------------------------------------------------
(* CompletedRunPublished.  What was released and what was made stays, so a   *)
(* copy of the record or of the gates that was covered when it was taken is  *)
(* covered when it is written back.                                          *)
Grows ==
  /\ released # <<>> => released' # <<>>
  /\ \A s \in {Analytics, Optimization} : latest[s] # 0 => latest'[s] # 0

(* A stage request never takes back a publication or a payload. *)
LEMMA ServeGrows ==
  ASSUME TypeInv, NEW w \in Workers, Serve(w)
  PROVE  Grows
<1>0. /\ released \in Seq(Nat) /\ req[w].payload \in Nat /\ req[w].stage \in Stages
      /\ req[w].gates[req[w].stage].version \in Versions
      /\ latest \in [Producing -> Nat]
      /\ Analytics \in Producing /\ Optimization \in Producing
  BY RequestFields, PlanFacts DEF TypeInv, TypeOK, FilesTypeOK
<1>1. released' = released \/ released' = Append(released, req[w].payload)
  BY Frames DEF RecordPublication, Publish
<1>2. released # <<>> => released' # <<>>
  BY <1>0, <1>1
<1>3. \/ latest' = latest
      \/ latest' = [latest EXCEPT ![req[w].stage] = req[w].gates[req[w].stage].version]
  BY Frames DEF PayloadSucceeds, PayloadFails, AppendArtifact
<1>4. \A s \in {Analytics, Optimization} : latest[s] # 0 => latest'[s] # 0
  BY <1>0, <1>3 DEF Versions
<1> QED  BY <1>2, <1>4 DEF Grows

(* Nor does a campaign request. *)
LEMMA ClerkGrows ==
  ASSUME ServiceTypeInv, NEW c \in Clerks,
         Campaign!Admit(c) \/ Campaign!Serve(c) \/ Campaign!AccessRaises(c)
  PROVE  Grows
<1>0. /\ released \in Seq(Nat) /\ task[c].payload \in Nat
      /\ latest \in [Producing -> Nat]
      /\ Analytics \in Producing /\ Optimization \in Producing
  BY TaskFields, PlanFacts DEF ServiceTypeInv, TypeInv, TypeOK, FilesTypeOK
<1>1. released' = released \/ released' = Append(released, task[c].payload)
  BY RunSteps, DecisionSteps, PublicationSteps, ClerkRaises
  DEF Campaign!Admit, Campaign!Serve
<1>2. released # <<>> => released' # <<>>
  BY <1>0, <1>1
<1>3. \/ latest' = latest
      \/ \E kind \in Producing : latest' = [latest EXCEPT ![kind] = 1]
      \/ latest' = [latest EXCEPT ![Advertisement] = task[c].payload + 1]
  BY RunSteps, DecisionSteps, PublicationSteps, ClerkRaises, PlanFacts
  DEF Campaign!Admit, Campaign!Serve
<1>4. \A s \in {Analytics, Optimization} : latest[s] # 0 => latest'[s] # 0
  BY <1>0, <1>3
<1> QED  BY <1>2, <1>4 DEF Grows

(* A change of status, as the last two stages see it. *)
LEMMA LateStatus ==
  ASSUME NEW g \in Gates, NEW s \in Stages, NEW status, NEW t \in {Analytics, Optimization}
  PROVE  SetStatus(g, s, status)[t].status = IF t = s THEN status ELSE g[t].status
<1>1. t \in Stages  BY StageFacts DEF Analytics, Optimization
<1>2. t # s => SetStatus(g, s, status)[t] = g[t]  BY <1>1, SetStatusIs
<1> QED  BY <1>1, <1>2, SetStatusIs

(* What a stage request writes back or keeps is covered. *)
LEMMA CompletedReview ==
  ASSUME TypeInv, CompletedInv, NEW w \in Workers, Review(w), Grows
  PROVE  Completed(record)' /\ GatesBacked(gates)' /\ ReqBacked(req[w])'
<1> DEFINE r == req[w]
<1>0. /\ Completed(record) /\ GatesBacked(gates) /\ ReqBacked(r)
      /\ gates \in Gates /\ r.gates \in Gates /\ r.stage \in Stages
      /\ r.decision \in {"approved", "rejected"} /\ Underway(r)
      /\ r.record \in [status : RunStatuses, version : Versions]
      /\ record \in [status : RunStatuses, version : Versions]
      /\ released \in Seq(Nat) /\ r.payload \in Nat
  BY RequestFields DEF CompletedInv, TypeInv, TypeOK, FilesTypeOK
<1>n. /\ Stages = 0 .. 8 /\ Analytics = 7 /\ Optimization = 8 /\ PublishReview = 6
      /\ Research = 1
  BY StageFacts DEF Analytics
<1>i. GatesBacked(IdleRequest.gates)' /\ Completed(IdleRequest.record)'
  BY <1>n DEF IdleRequest, GatesBacked, NoGates, Completed, NoRecord, Open
<1>r. Return(w) => ReqBacked(req[w])'
  <2> SUFFICES ASSUME Return(w) PROVE ReqBacked(req[w])'
    OBVIOUS
  <2>1. req'[w] = IdleRequest  BY BecomeFields DEF Return
  <2> QED
    BY <1>i, <1>n, <2>1
    DEF ReqBacked, GatesBacked, Completed, IdleRequest, BeforeVerdict, AfterApproval
<1>s. \A s \in Stages : \A g \in Gates : \A status : \A t \in Stages :
        SetStatus(g, s, status)[t].status = IF t = s THEN status ELSE g[t].status
  BY SetStatusIs
<1> USE DEF Grows, At
<1>1. CASE ReadLog(w)
  <2>1. UNCHANGED <<record, gates, latest, released>>
    BY <1>1 DEF ReadLog, fileVars, gateVars
  <2>2. CASE logTorn
    BY <1>0, <1>1, <1>r, <2>1, <2>2 DEF ReadLog, Completed, GatesBacked
  <2>3. CASE ~logTorn
    BY <1>0, <1>1, <2>1, <2>3, ReadLogFields
    DEF ReadLog, GoesOn, ReqBacked, Completed, GatesBacked, BeforeVerdict, AfterApproval
  <2> QED  BY <2>2, <2>3
<1>2. CASE TruncateLog(w)
  BY <1>0, <1>2, GotoFields
  DEF TruncateLog, GoesOn, ReqBacked, Completed, GatesBacked, fileVars, BeforeVerdict,
      AfterApproval
<1>3. CASE WriteLog(w)
  <2>1. UNCHANGED <<record, gates, latest, released>> /\ r.pc = "write_log"
    BY <1>3 DEF WriteLog, fileVars
  <2>2. GoesOn(w, AfterVerdict(r.stage, r.decision), Decided(r.gates, r.stage, r.decision),
               {}, r.payload, r.record)
    BY <1>3, WriteLogFields
  <2>3. /\ AfterVerdict(r.stage, r.decision) \in {"save_rejection", "load_payload",
                                                  "load_final_record", "unlock"}
        /\ AfterVerdict(r.stage, r.decision) = "load_final_record" => r.stage = Optimization
        /\ AfterVerdict(r.stage, r.decision) = "unlock" => r.stage # PublishReview
    BY DEF AfterVerdict
  <2> DEFINE h == Decided(r.gates, r.stage, r.decision)
  <2>4. ASSUME NEW s \in {Analytics, Optimization}
        PROVE  \/ h[s].status = r.gates[s].status
               \/ h[s].status \in {"locked", "approved"}
               \/ h[s].status = "revision_required" /\ s = r.stage
    <3>1. CASE r.decision = "approved"
      <4>1. h = SetStatus(r.gates, r.stage, "approved")  BY <3>1 DEF Decided
      <4>2. SetStatus(r.gates, r.stage, "approved")[s].status
              = IF s = r.stage THEN "approved" ELSE r.gates[s].status
        BY <1>0, LateStatus
      <4> QED  BY <4>1, <4>2
    <3>2. CASE r.decision = "rejected"
      <4>1. h = SendBack(r.gates, r.stage, "revision_required")  BY <3>2 DEF Decided
      <4>2. s \in Stages  BY <1>n
      <4>3. h[s] = IF s < r.stage THEN r.gates[s]
                   ELSE [status |-> IF s = r.stage THEN "revision_required" ELSE "locked",
                         version |-> r.gates[s].version + 1]
        BY <4>1, <4>2 DEF SendBack
      <4> HIDE DEF h
      <4> QED  BY <4>3
    <3> QED  BY <1>0, <3>1, <3>2
  <2> HIDE DEF h
  <2>e. GatesBacked(h)
    <3>1. \A s \in {Analytics, Optimization} :
            h[s].status \notin {"locked", "approved"} => released # <<>>
      BY <1>0, <2>4 DEF ReqBacked, GatesBacked
    <3>2. h[Optimization].status \in Open => latest[Analytics] # 0 /\ latest[Optimization] # 0
      BY <1>0, <2>1, <2>4 DEF ReqBacked, GatesBacked, BeforeVerdict, Open
    <3> QED  BY <3>1, <3>2 DEF GatesBacked
  <2>5. GatesBacked(Decided(r.gates, r.stage, r.decision))
    BY <2>e DEF h
  <2>6. ReqBacked(req[w])'
    BY <1>0, <2>1, <2>2, <2>3, <2>5
    DEF GoesOn, ReqBacked, GatesBacked, Completed, BeforeVerdict, AfterApproval
  <2> QED  BY <1>0, <2>1, <2>6 DEF Completed, GatesBacked
<1>4. CASE SaveRejection(w)
  BY <1>0, <1>4, <1>r DEF SaveRejection, ReqBacked, Completed, GatesBacked, fileVars
<1>5. CASE LoadPayload(w)
  <2>1. UNCHANGED <<record, gates, latest, released>>
    BY <1>5 DEF LoadPayload, fileVars, gateVars
  <2>2. CASE latest[Advertisement] = 0
    BY <1>0, <1>5, <1>r, <2>1, <2>2 DEF LoadPayload, Completed, GatesBacked
  <2>3. CASE latest[Advertisement] # 0
    BY <1>0, <1>5, <2>1, <2>3, LoadPayloadFields
    DEF LoadPayload, GoesOn, ReqBacked, Completed, GatesBacked, BeforeVerdict, AfterApproval
  <2> QED  BY <2>2, <2>3
<1>13. CASE DecidePayload(w)
  <2>1. UNCHANGED <<record, gates, latest, released>>
    BY <1>13 DEF DecidePayload, gateVars
  <2> QED
    BY <1>0, <1>13, <2>1, GotoFields
    DEF DecidePayload, GoesOn, ReqBacked, Completed, GatesBacked, BeforeVerdict, AfterApproval
<1>6. CASE CheckPublication(w)
  <2>1. UNCHANGED <<record, gates, latest, released>> /\ r.pc = "publish"
    BY <1>6 DEF CheckPublication, fileVars, gateVars
  <2>2. CASE Return(w)
    BY <1>0, <1>r, <2>1, <2>2 DEF Completed, GatesBacked
  <2>3. CASE Goto(w, "record_publication")
    BY <1>0, <2>1, <2>3, GotoFields
    DEF GoesOn, ReqBacked, Completed, GatesBacked, BeforeVerdict, AfterApproval
  <2> QED  BY <1>6, <2>2, <2>3 DEF CheckPublication
<1>7. CASE RecordPublication(w)
  <2>1. /\ UNCHANGED <<record, gates, latest>> /\ r.pc = "record_publication"
        /\ released' = Append(released, r.payload)
    BY <1>7 DEF RecordPublication, Publish, gateVars
  <2>2. released' # <<>>  BY <1>0, <2>1
  <2>3. GoesOn(w, "unlock", r.gates, r.log, r.payload, r.record)
    BY <1>7, GotoFields DEF RecordPublication
  <2> QED
    BY <1>0, <2>1, <2>2, <2>3
    DEF GoesOn, ReqBacked, Completed, GatesBacked, BeforeVerdict, AfterApproval
<1>8. CASE Unlock(w)
  <2> DEFINE next == r.stage + 1
             opened == SetStatus(r.gates, next, "ready")
  <2>1. UNCHANGED <<record, latest, released>> /\ gates' = opened /\ r.pc = "unlock"
    BY <1>8 DEF Unlock, fileVars
  <2>2. next \in Stages /\ r.stage # Optimization
    BY <1>0, <1>n, <2>1 DEF Underway
  <2>3. next \in {Analytics, Optimization} => released # <<>>
    BY <1>0, <1>n, <2>1, <2>2 DEF ReqBacked
  <2>4. \A s \in Stages : opened[s].status = IF s = next THEN "ready" ELSE r.gates[s].status
    BY <1>0, <1>s, <2>2
  <2> HIDE DEF opened
  <2>5. GatesBacked(opened)
    BY <1>0, <1>n, <2>3, <2>4 DEF ReqBacked, GatesBacked, Open
  <2>6. CASE next = PublishReview
    <3>1. GoesOn(w, "open_publish_review", opened, r.log, r.payload, r.record)
      BY <1>8, <2>6, UnlockFields DEF opened
    <3> QED
      BY <1>0, <1>n, <2>1, <2>5, <3>1
      DEF GoesOn, ReqBacked, Completed, GatesBacked, BeforeVerdict, AfterApproval
  <2>7. CASE next # PublishReview
    <3>1. req'[w] = [IdleRequest EXCEPT !.pc = "load_gates", !.stage = next]
      BY <1>8, <2>7, BecomeFields DEF Unlock
    <3>2. /\ req'[w].pc = "load_gates" /\ req'[w].stage = next
          /\ req'[w].gates = IdleRequest.gates /\ req'[w].record = IdleRequest.record
      BY <3>1 DEF IdleRequest
    <3> QED
      BY <1>0, <1>i, <1>n, <2>1, <2>3, <2>5, <3>2
      DEF ReqBacked, Completed, GatesBacked, BeforeVerdict, AfterApproval, IdleRequest
  <2> QED  BY <2>6, <2>7
<1>9. CASE OpenPublishReview(w)
  <2>1. /\ UNCHANGED <<record, latest, released>> /\ Return(w)
        /\ gates' = SetStatus(r.gates, PublishReview, "pending_review")
    BY <1>9 DEF OpenPublishReview, fileVars
  <2>2. \A s \in {Analytics, Optimization} : gates'[s].status = r.gates[s].status
    BY <1>0, <1>n, <1>s, <2>1
  <2> QED  BY <1>0, <1>r, <2>1, <2>2 DEF ReqBacked, Completed, GatesBacked
<1>10. CASE LoadFinalRecord(w)
  BY <1>0, <1>10, LoadFinalRecordFields
  DEF LoadFinalRecord, GoesOn, ReqBacked, Completed, GatesBacked, gateVars, fileVars,
      BeforeVerdict, AfterApproval
<1>11. CASE SaveFinalRecord(w)
  <2>1. /\ record'.status = "optimized" /\ UNCHANGED <<gates, latest, released>>
        /\ r.pc = "save_final_record"
    BY <1>0, <1>11 DEF SaveFinalRecord, SaveRun, gateVars
  <2>2. released # <<>> /\ latest[Analytics] # 0 /\ latest[Optimization] # 0
    BY <1>0, <2>1 DEF ReqBacked, AfterApproval
  <2>3. GoesOn(w, "save_final_gates", r.gates, r.log, r.payload, r.record)
    BY <1>11, GotoFields DEF SaveFinalRecord
  <2> QED
    BY <1>0, <2>1, <2>2, <2>3
    DEF GoesOn, ReqBacked, Completed, GatesBacked, BeforeVerdict, AfterApproval
<1>12. CASE SaveFinalGates(w)
  BY <1>0, <1>12, <1>r DEF SaveFinalGates, ReqBacked, Completed, GatesBacked, fileVars
<1> QED
  BY <1>1, <1>2, <1>3, <1>4, <1>5, <1>6, <1>7, <1>8, <1>9, <1>10, <1>11, <1>12,
     <1>13
  DEF Review

(* The same for an execution. *)
LEMMA CompletedExecute ==
  ASSUME TypeInv, CompletedInv, NEW w \in Workers, Execute(w), Grows
  PROVE  Completed(record)' /\ GatesBacked(gates)' /\ ReqBacked(req[w])'
<1> DEFINE r == req[w]
<1>0. /\ Completed(record) /\ GatesBacked(gates) /\ ReqBacked(r)
      /\ gates \in Gates /\ r.gates \in Gates /\ r.stage \in Stages
      /\ r.gates[r.stage].version \in Versions
      /\ r.record \in [status : RunStatuses, version : Versions]
      /\ record \in [status : RunStatuses, version : Versions]
      /\ latest \in [Producing -> Nat]
  BY RequestFields DEF CompletedInv, TypeInv, TypeOK, FilesTypeOK
<1>n. /\ Stages = 0 .. 8 /\ Analytics = 7 /\ Optimization = 8 /\ PublishReview = 6
      /\ Research = 1 /\ Compliance = 4 /\ Advertisement = 5
      /\ Optimization \in Producing /\ Analytics \in Producing
  BY StageFacts, PlanFacts DEF Analytics, Compliance
<1>r. Return(w) => ReqBacked(req[w])'
  <2> SUFFICES ASSUME Return(w) PROVE ReqBacked(req[w])'
    OBVIOUS
  <2>1. req'[w] = IdleRequest  BY BecomeFields DEF Return
  <2> QED
    BY <1>n, <2>1
    DEF ReqBacked, GatesBacked, Completed, IdleRequest, NoGates, NoRecord, Open,
        BeforeVerdict, AfterApproval
<1>s. \A s \in Stages : \A g \in Gates : \A status : \A t \in Stages :
        SetStatus(g, s, status)[t].status = IF t = s THEN status ELSE g[t].status
  BY SetStatusIs
<1> USE DEF Grows, At
<1>1. CASE LoadGates(w)
  <2>1. UNCHANGED <<record, gates, latest, released>>
    BY <1>1 DEF LoadGates, fileVars, gateVars
  <2>2. CASE gates[r.stage].status \notin Executable
    BY <1>0, <1>1, <1>r, <2>1, <2>2 DEF LoadGates, Completed, GatesBacked
  <2>3. CASE gates[r.stage].status \in Executable
    <3> DEFINE h == SetStatus(gates, r.stage, "running")
    <3>1. GoesOn(w, "save_running", h, r.log, r.payload, r.record)
      BY <1>1, <2>3, LoadGatesFields
    <3>2. \A s \in {Analytics, Optimization} :
            h[s].status = IF s = r.stage THEN "running" ELSE gates[s].status
      BY <1>0, LateStatus
    <3> HIDE DEF h
    <3>3. GatesBacked(h)
      BY <1>0, <3>2 DEF ReqBacked, GatesBacked, Open
    <3> QED
      BY <1>0, <2>1, <3>1, <3>3
      DEF GoesOn, ReqBacked, GatesBacked, Completed, BeforeVerdict, AfterApproval
  <2> QED  BY <2>2, <2>3
<1>2. CASE SaveRunning(w)
  BY <1>0, <1>2, GotoFields
  DEF SaveRunning, GoesOn, ReqBacked, Completed, GatesBacked, fileVars, BeforeVerdict,
      AfterApproval
<1>3. CASE LoadRecord(w)
  <2>1. UNCHANGED <<record, gates, latest, released>>
    BY <1>3 DEF LoadRecord, fileVars, gateVars
  <2>2. [record EXCEPT !.status = "running"].status = "running"
    BY <1>0
  <2> QED
    BY <1>0, <1>3, <2>1, <2>2, LoadRecordFields
    DEF GoesOn, ReqBacked, Completed, GatesBacked, BeforeVerdict, AfterApproval
<1>4. CASE SaveRecord(w)
  <2>1. UNCHANGED <<gates, latest, released>> /\ record' = r.record
    BY <1>4 DEF SaveRecord, SaveRun, gateVars
  <2> QED
    BY <1>0, <1>4, <2>1, GotoFields
    DEF SaveRecord, GoesOn, ReqBacked, Completed, GatesBacked, BeforeVerdict, AfterApproval
<1>5. CASE PayloadSucceeds(w)
  <2> DEFINE h == SetStatus(r.gates, r.stage, "pending_review")
             rec == [r.record EXCEPT !.status = "waiting_review"]
  <2>1. /\ UNCHANGED <<record, gates, released>> /\ r.pc = "payload"
        /\ latest' = [latest EXCEPT ![r.stage] = r.gates[r.stage].version]
        /\ UpstreamExists(r.stage)
    BY <1>5 DEF PayloadSucceeds, AppendArtifact, gateVars
  <2>2. GoesOn(w, "save_outcome_gates", h, r.log, r.payload, rec)
    BY <1>5, OutcomeFields DEF PayloadSucceeds, Statuses, RunStatuses
  <2>3. r.stage = Optimization => latest'[Analytics] # 0 /\ latest'[Optimization] # 0
    <3> SUFFICES ASSUME r.stage = Optimization
                 PROVE  latest'[Analytics] # 0 /\ latest'[Optimization] # 0
      OBVIOUS
    <3>1. latest[Analytics] # 0
      BY <2>1 DEF UpstreamExists, Upstream
    <3> QED  BY <1>0, <1>n, <2>1, <3>1 DEF Versions
  <2>4. \A s \in {Analytics, Optimization} :
          h[s].status = IF s = r.stage THEN "pending_review" ELSE r.gates[s].status
    BY <1>0, LateStatus
  <2>5. rec.status = "waiting_review"  BY <1>0
  <2> HIDE DEF h, rec
  <2> QED
    BY <1>0, <1>n, <2>1, <2>2, <2>3, <2>4, <2>5
    DEF GoesOn, ReqBacked, GatesBacked, Completed, BeforeVerdict, AfterApproval, Open
<1>6. CASE PayloadFails(w)
  <2> DEFINE h == SetStatus(r.gates, r.stage, "failed")
             rec == [r.record EXCEPT !.status = "failed"]
  <2>1. UNCHANGED <<record, gates, released>> /\ r.pc = "payload"
    BY <1>6 DEF PayloadFails, gateVars
  <2>2. GoesOn(w, "save_outcome_gates", h, r.log, r.payload, rec)
    BY <1>6, OutcomeFields DEF PayloadFails, Statuses, RunStatuses
  <2>3. \A s \in {Analytics, Optimization} :
          h[s].status = IF s = r.stage THEN "failed" ELSE r.gates[s].status
    BY <1>0, LateStatus
  <2>4. rec.status = "failed"  BY <1>0
  <2> HIDE DEF h, rec
  <2> QED
    BY <1>0, <1>n, <2>1, <2>2, <2>3, <2>4
    DEF GoesOn, ReqBacked, GatesBacked, Completed, BeforeVerdict, AfterApproval, Open
<1>7. CASE SaveOutcomeGates(w)
  BY <1>0, <1>7, GotoFields
  DEF SaveOutcomeGates, GoesOn, ReqBacked, Completed, GatesBacked, fileVars, BeforeVerdict,
      AfterApproval
<1>8. CASE SaveOutcomeRecord(w)
  <2>1. UNCHANGED <<gates, latest, released>> /\ record' = r.record /\ Return(w)
    BY <1>8 DEF SaveOutcomeRecord, SaveRun, gateVars
  <2> QED
    BY <1>0, <1>r, <2>1 DEF ReqBacked, Completed, GatesBacked
<1> QED
  BY <1>1, <1>2, <1>3, <1>4, <1>5, <1>6, <1>7, <1>8 DEF Execute

(* The same for the beginning of a request. *)
LEMMA CompletedBegin ==
  ASSUME TypeInv, CompletedInv, NEW w \in Workers, Admit(w) \/ CreateGates(w)
  PROVE  /\ Grows
         /\ Completed(record)' /\ GatesBacked(gates)' /\ ReqBacked(req[w])'
         /\ \A v \in Workers \ {w} : req'[v] = req[v]
<1>0. Completed(record) /\ GatesBacked(gates)
  BY DEF CompletedInv
<1>n. Stages = 0 .. 8 /\ Analytics = 7 /\ Optimization = 8 /\ PublishReview = 6 /\ Research = 1
      /\ Input = 0
  BY StageFacts DEF Analytics
<1>i. \A s \in {Analytics, Optimization} :
        IdleRequest.gates[s].status = "locked" /\ InitialGates[s].status = "locked"
  BY <1>n DEF IdleRequest, NoGates, InitialGates
<1> USE DEF Grows, Completed, GatesBacked, ReqBacked
<1>1. CASE StartRun(w)
  <2> DEFINE q == [IdleRequest EXCEPT !.pc = "create_gates"]
  <2>1. /\ q.pc = "create_gates" /\ q.stage = Research /\ q.gates = IdleRequest.gates
        /\ q.record.status = "absent"
    BY DEF IdleRequest, NoRecord
  <2>2. Become(w, q) /\ record' = NewRecord /\ UNCHANGED <<gates, latest, released>>
    BY <1>1 DEF StartRun, SaveRun, gateVars
  <2> HIDE DEF q
  <2>3. req'[w] = q /\ \A v \in Workers \ {w} : req'[v] = req[v]
    BY <2>2, BecomeFields
  <2> QED
    BY <1>0, <1>n, <1>i, <2>1, <2>2, <2>3, NoTask DEF Open, BeforeVerdict, AfterApproval
<1>2. CASE CreateGates(w)
  <2> DEFINE q == [IdleRequest EXCEPT !.pc = "load_gates", !.stage = Research]
  <2>1. /\ q.pc = "load_gates" /\ q.stage = Research /\ q.gates = IdleRequest.gates
        /\ q.record.status = "absent"
    BY DEF IdleRequest, NoRecord
  <2>2. Become(w, q) /\ gates' = InitialGates /\ UNCHANGED <<record, latest, released>>
    BY <1>2 DEF CreateGates, fileVars
  <2> HIDE DEF q
  <2>3. req'[w] = q /\ \A v \in Workers \ {w} : req'[v] = req[v]
    BY <2>2, BecomeFields
  <2> QED
    BY <1>0, <1>n, <1>i, <2>1, <2>2, <2>3 DEF Open, BeforeVerdict, AfterApproval
<1>3. ASSUME NEW s \in Stages, NEW d \in {"approved", "rejected"}, BeginReview(w, s, d)
      PROVE  /\ Grows
             /\ Completed(record)' /\ GatesBacked(gates)' /\ ReqBacked(req[w])'
             /\ \A v \in Workers \ {w} : req'[v] = req[v]
  <2> DEFINE q == [IdleRequest EXCEPT !.pc = "read_log", !.stage = s,
                                      !.decision = d, !.gates = gates]
  <2>1. /\ q.pc = "read_log" /\ q.stage = s /\ q.gates = gates
        /\ q.record.status = "absent"
    BY DEF IdleRequest, NoRecord
  <2>2. Become(w, q) /\ UNCHANGED <<record, gates, latest, released>>
    BY <1>3 DEF BeginReview, gateVars, fileVars
  <2>3. gates[s].status \in Open
    BY <1>3 DEF BeginReview, Reviewable, Open
  <2> HIDE DEF q
  <2>4. req'[w] = q /\ \A v \in Workers \ {w} : req'[v] = req[v]
    BY <2>2, BecomeFields
  <2> QED
    BY <1>0, <1>n, <2>1, <2>2, <2>3, <2>4 DEF Open, BeforeVerdict, AfterApproval
<1> QED  BY <1>1, <1>2, <1>3 DEF Admit

(* What a clerk writes back or keeps is covered. *)
LEMMA CompletedClerk ==
  ASSUME ServiceTypeInv, CompletedInv, NEW c \in Clerks,
         Campaign!Admit(c) \/ Campaign!Serve(c) \/ Campaign!AccessRaises(c), Grows
  PROVE  /\ Completed(record)'
         /\ \A d \in Clerks : TaskBacked(task[d])'
<1> DEFINE t == task[c]
<1>0. /\ Completed(record) /\ \A d \in Clerks : TaskBacked(task[d])
      /\ released \in Seq(Nat) /\ t.payload \in Nat
      /\ latest \in [Producing -> Nat]
      /\ Analytics \in Producing /\ Optimization \in Producing /\ Analytics # Optimization
  BY TaskFields, PlanFacts
  DEF CompletedInv, ServiceTypeInv, TypeInv, TypeOK, FilesTypeOK
<1>1. ASSUME NEW pc, NEW after, NEW payload, NEW status, NEW version,
             Carries(c, pc, after, payload, status, version),
             status \in {"published", "analyzed", "optimized"} => released' # <<>>,
             status = "optimized" => latest'[Analytics] # 0 /\ latest'[Optimization] # 0,
             {pc, after} \cap {"analytics", "optimization"} # {} => released' # <<>>,
             "optimization" \in {pc, after} => latest'[Analytics] # 0
      PROVE  \A d \in Clerks : TaskBacked(task[d])'
  <2>1. task'[c].pc = pc /\ task'[c].after = after /\ task'[c].record.status = status
    BY <1>1 DEF Carries
  <2>2. TaskBacked(task[c])'
    BY <1>1, <2>1 DEF TaskBacked, Completed
  <2>3. \A d \in Clerks \ {c} : task'[d] = task[d]
    BY <1>1 DEF Carries
  <2>4. ASSUME NEW d \in Clerks \ {c} PROVE TaskBacked(task[d])'
    BY <1>0, <2>3 DEF TaskBacked, Completed, Grows
  <2> QED  BY <2>2, <2>4
<1>2. ASSUME NEW pc, NEW after, NEW payload, NEW status, NEW version,
             Carries(c, pc, after, payload, status, version),
             status \notin {"published", "analyzed", "optimized"},
             pc \notin {"analytics", "optimization"},
             after \notin {"analytics", "optimization"}
      PROVE  \A d \in Clerks : TaskBacked(task[d])'
  BY <1>1, <1>2
<1>3. ASSUME NEW pc, NEW payload, NEW version,
             pc \notin {"analytics", "optimization"},
             Carries(c, pc, t.after, payload, t.record.status, version)
      PROVE  \A d \in Clerks : TaskBacked(task[d])'
  <2>1. /\ t.record.status \in {"published", "analyzed", "optimized"} => released' # <<>>
        /\ t.record.status = "optimized" => latest'[Analytics] # 0 /\ latest'[Optimization] # 0
        /\ {pc, t.after} \cap {"analytics", "optimization"} # {} => released' # <<>>
        /\ "optimization" \in {pc, t.after} => latest'[Analytics] # 0
    BY <1>0, <1>3 DEF TaskBacked, Completed, Grows
  <2> QED  BY <1>1, <1>3, <2>1
<1>i. Carries(c, "idle", "idle", 0, "absent", 1) => \A d \in Clerks : TaskBacked(task[d])'
  BY <1>2
<1>f. UNCHANGED record => Completed(record)'
  BY <1>0 DEF Completed, Grows
<1> DEFINE Goal == Completed(record)' /\ \A d \in Clerks : TaskBacked(task[d])'
<1>4. Campaign!NewRun(c) => Goal
  BY <1>2, RunSteps DEF Completed
<1>5. ASSUME NEW d \in {"approved", "rejected"}, Campaign!BeginDecision(c, d) PROVE Goal
  <2>1. /\ Carries(c, "load_payload", "idle", 0, record.status, record.version)
        /\ UNCHANGED <<record, latest, released>>
    BY <1>5, DecisionSteps
  <2> QED  BY <1>0, <1>1, <1>f, <2>1 DEF Completed
<1>6. ASSUME Campaign!SaveStatus(c) PROVE Goal
  <2>1. record' = t.record  BY <1>6, RunSteps
  <2>2. Completed(record)'  BY <1>0, <2>1 DEF TaskBacked, Completed, Grows
  <2>3. \A d \in Clerks : TaskBacked(task[d])'
    <3>1. CASE Carries(c, t.after, t.after, t.payload, t.record.status, t.record.version)
      <4>1. /\ t.record.status \in {"published", "analyzed", "optimized"} => released' # <<>>
            /\ t.record.status = "optimized" =>
                 latest'[Analytics] # 0 /\ latest'[Optimization] # 0
            /\ {t.after, t.after} \cap {"analytics", "optimization"} # {} => released' # <<>>
            /\ "optimization" \in {t.after, t.after} => latest'[Analytics] # 0
        BY <1>0 DEF TaskBacked, Completed, Grows
      <4> QED  BY <1>1, <3>1, <4>1
    <3> QED  BY <1>6, <1>i, <3>1, RunSteps
  <2> QED  BY <2>2, <2>3
<1>7. Campaign!ArtifactMade(c) => Goal
  BY <1>3, <1>f, RunSteps
<1>8. ASSUME NEW passed \in BOOLEAN, Campaign!ComplianceReported(c, passed) PROVE Goal
  BY <1>2, <1>8, <1>f, RunSteps
<1>9. ASSUME NEW retryable \in BOOLEAN, Campaign!RunFails(c, retryable) PROVE Goal
  BY <1>2, <1>9, <1>f, RunSteps
<1>10. Campaign!LoadPayload(c) => Goal
  BY <1>3, <1>i, <1>f, DecisionSteps
<1>11. ASSUME Campaign!DecideTask(c) PROVE Goal
  <2>1. /\ UNCHANGED record
        /\ \/ Carries(c, "save", "check_approval", t.payload, "approved", t.record.version)
           \/ Carries(c, "revise", t.after, t.payload, t.record.status, t.record.version)
    BY <1>11, DecisionSteps
  <2>2. CASE Carries(c, "save", "check_approval", t.payload, "approved", t.record.version)
    BY <1>2, <1>f, <2>1, <2>2
  <2>3. CASE Carries(c, "revise", t.after, t.payload, t.record.status, t.record.version)
    BY <1>3, <1>f, <2>1, <2>3
  <2> QED  BY <2>1, <2>2, <2>3
<1>12. Campaign!CheckApproval(c) => Goal
  BY <1>2, <1>3, <1>i, <1>f, PublicationSteps
<1>13. Campaign!CheckKey(c) => Goal
  BY <1>3, <1>i, <1>f, PublicationSteps
<1>14. ASSUME Campaign!RecordPublication(c) PROVE Goal
  <2>1. /\ Carries(c, "save", "analytics", t.payload, "published", t.record.version)
        /\ UNCHANGED record /\ released' # <<>>
    BY <1>0, <1>14, PublicationSteps
  <2> QED  BY <1>1, <1>f, <2>1
<1>15. ASSUME Campaign!Analyze(c) PROVE Goal
  <2>1. UNCHANGED <<record, released>> /\ released # <<>>
    BY <1>0, <1>15, PublicationSteps DEF TaskBacked
  <2>2. CASE /\ latest' = [latest EXCEPT ![Analytics] = 1]
             /\ Carries(c, "save", "optimization", t.payload, "analyzed", t.record.version)
    <3>1. latest'[Analytics] # 0  BY <1>0, <2>2
    <3> QED  BY <1>1, <1>f, <2>1, <2>2, <3>1
  <2> QED  BY <1>2, <1>15, <1>i, <1>f, <2>1, <2>2, PublicationSteps
<1>16. ASSUME Campaign!Optimize(c) PROVE Goal
  <2>1. UNCHANGED <<record, released>> /\ released # <<>> /\ latest[Analytics] # 0
    BY <1>0, <1>16, PublicationSteps DEF TaskBacked
  <2>2. CASE /\ latest' = [latest EXCEPT ![Optimization] = 1]
             /\ Carries(c, "save", "idle", t.payload, "optimized", t.record.version)
    <3>1. latest'[Analytics] # 0 /\ latest'[Optimization] # 0  BY <1>0, <2>1, <2>2
    <3> QED  BY <1>1, <1>f, <2>1, <2>2, <3>1
  <2> QED  BY <1>16, <1>i, <1>f, <2>1, <2>2, PublicationSteps
<1>17. Campaign!Revise(c) => Goal
  BY <1>2, <1>f, DecisionSteps
<1>18. Campaign!AccessRaises(c) => Goal
  BY <1>2, <1>i, <1>f, ClerkRaises
<1> QED
  BY <1>4, <1>5, <1>6, <1>7, <1>8, <1>9, <1>10, <1>11, <1>12, <1>13, <1>14, <1>15, <1>16,
     <1>17, <1>18
  DEF Campaign!Admit, Campaign!Serve

(* The gates that a page makes up leave the last two stages locked or       *)
(* approved, or as they are.                                                *)
LEMMA PageBacked ==
  ASSUME NEW g \in Gates, NEW status \in RunStatuses, NEW s \in {Analytics, Optimization}
  PROVE  /\ FreshGates[s].status = "locked"
         /\ \/ SyncedGates(g, status)[s].status \in {"locked", "approved"}
            \/ SyncedGates(g, status)[s].status = g[s].status
<1>0. /\ s \in Stages /\ s # Research /\ s # Input /\ ~(s < PublishReview)
      /\ s # PublishReview /\ Research \in Stages /\ Input \in Stages
  BY StageFacts DEF Analytics, Optimization
<1>1. FreshGates[s].status = "locked"
  BY <1>0, SetStatusIs, InitialTypes DEF FreshGates, NoGates
<1>2. CASE status \in {"waiting_review", "revision_required"}
  <2> DEFINE h == [u \in Stages |-> [g[u] EXCEPT !.status =
                     IF u < PublishReview THEN "approved"
                     ELSE IF u = PublishReview THEN "pending_review" ELSE "locked"]]
  <2>1. SyncedGates(g, status) = h  BY <1>2 DEF SyncedGates
  <2>2. g[s] \in [status : Statuses, version : Versions]  BY <1>0 DEF Gates
  <2>3. h[s].status = "locked"  BY <1>0, <2>2
  <2> QED  BY <1>1, <2>1, <2>3
<1>3. CASE status \in {"optimized", "analyzed", "published", "approved"}
  <2> DEFINE h == [u \in Stages |-> [g[u] EXCEPT !.status = "approved"]]
  <2>1. SyncedGates(g, status) = h  BY <1>3 DEF SyncedGates
  <2>2. g[s] \in [status : Statuses, version : Versions]  BY <1>0 DEF Gates
  <2>3. h[s].status = "approved"  BY <1>0, <2>2
  <2> QED  BY <1>1, <2>1, <2>3
<1>4. CASE status \in {"failed", "human_handoff"}
  <2>1. SyncedGates(g, status) = SetStatus(g, Research, "failed")
    BY <1>4 DEF SyncedGates
  <2>2. SetStatus(g, Research, "failed")[s] = g[s]
    BY <1>0, SetStatusIs
  <2> QED  BY <1>1, <2>1, <2>2
<1>5. CASE status \in {"absent", "pending", "running"}
  <2>1. SyncedGates(g, status) = g
    BY <1>5 DEF SyncedGates
  <2> QED  BY <1>1, <2>1
<1> QED  BY <1>2, <1>3, <1>4, <1>5 DEF RunStatuses

(* Every step of the service leaves what is on file, and every copy of it,  *)
(* covered by what was released and made.                                   *)
LEMMA CompletedStep ==
  ServiceTypeInv /\ CompletedInv /\ [ServiceNext]_serviceVars => CompletedInv'
<1> SUFFICES ASSUME ServiceTypeInv, CompletedInv, [ServiceNext]_serviceVars
             PROVE  CompletedInv'
  OBVIOUS
<1>0. /\ TypeInv /\ page \in Pages /\ gates \in Gates
      /\ page.gates \in Gates /\ page.status \in RunStatuses
      /\ Completed(record) /\ GatesBacked(gates) /\ GatesBacked(page.gates)
      /\ \A w \in Workers : ReqBacked(req[w])
      /\ \A c \in Clerks : TaskBacked(task[c])
  BY DEF ServiceTypeInv, TypeInv, TypeOK, CompletedInv, Pages
<1>k. /\ Grows => \A g : GatesBacked(g) => GatesBacked(g)'
      /\ Grows => \A rec : Completed(rec) => Completed(rec)'
  BY DEF Grows, GatesBacked, Completed
<1>l. GatesBacked(NoGates) /\ Completed(NoRecord)
  BY StageFacts
  DEF GatesBacked, NoGates, Analytics, Optimization, Open, Completed, NoRecord
<1>r. ASSUME Grows, NEW w \in Workers, req'[w] = req[w] PROVE ReqBacked(req[w])'
  BY <1>0, <1>r DEF ReqBacked, GatesBacked, Completed, Grows
<1>t. ASSUME Grows, NEW c \in Clerks, task'[c] = task[c] PROVE TaskBacked(task[c])'
  BY <1>0, <1>t DEF TaskBacked, Completed, Grows
<1>g. ASSUME Grows, gates' = gates PROVE GatesBacked(gates)'
  BY <1>0, <1>g DEF GatesBacked, Grows
<1>p. ASSUME Grows, page' = page PROVE GatesBacked(page.gates)'
  BY <1>0, <1>p DEF GatesBacked, Grows
<1>f. ASSUME Grows, record' = record PROVE Completed(record)'
  BY <1>0, <1>f DEF Completed, Grows
<1>1. ASSUME NEW w \in Workers, StageRequest(w) PROVE CompletedInv'
  <2>1. UNCHANGED <<task, page>>
    BY <1>1 DEF StageRequest, processVars
  <2>2. /\ Grows /\ Completed(record)' /\ GatesBacked(gates)' /\ ReqBacked(req[w])'
        /\ \A v \in Workers \ {w} : req'[v] = req[v]
    <3>1. CASE Admit(w) \/ CreateGates(w)
      BY <1>0, <3>1, CompletedBegin
    <3>2. CASE Serve(w) /\ ~CreateGates(w)
      <4>1. Review(w) \/ Execute(w)  BY <3>2 DEF Serve
      <4>2. Grows  BY <1>0, <3>2, ServeGrows
      <4>4. \A v \in Workers \ {w} : req'[v] = req[v]
        BY <1>0, <3>2, OthersKeep
      <4> QED  BY <1>0, <4>1, <4>2, <4>4, CompletedReview, CompletedExecute
    <3>3. CASE AccessRaises(w)
      <4>1. UNCHANGED <<record, latest, released, gates>> /\ req'[w] = IdleRequest
        BY <1>0, <3>3, BecomeFields DEF AccessRaises, Return, fileVars, gateVars
      <4>2. Grows  BY <4>1 DEF Grows
      <4>3. ReqBacked(req[w])'
        BY <1>l, <4>1, StageFacts
        DEF ReqBacked, IdleRequest, GatesBacked, Completed, BeforeVerdict, AfterApproval,
            Analytics, Optimization
      <4> QED  BY <1>0, <1>f, <1>g, <3>3, <4>1, <4>2, <4>3, OthersKeep
    <3> QED  BY <1>1, <3>1, <3>2, <3>3 DEF StageRequest
  <2>3. \A v \in Workers : ReqBacked(req[v])'
    BY <1>r, <2>2
  <2>4. \A c \in Clerks : TaskBacked(task[c])'
    BY <1>t, <2>1, <2>2
  <2> QED  BY <1>p, <2>1, <2>2, <2>3, <2>4 DEF CompletedInv
<1>2. ASSUME NEW c \in Clerks, CampaignRequest(c) PROVE CompletedInv'
  <2>1. /\ UNCHANGED <<gates, req, page>>
        /\ Campaign!Admit(c) \/ Campaign!Serve(c) \/ Campaign!AccessRaises(c)
    BY <1>2, ClerkFrame
  <2>2. Grows  BY <2>1, ClerkGrows
  <2>3. Completed(record)' /\ \A d \in Clerks : TaskBacked(task[d])'
    BY <2>1, <2>2, CompletedClerk
  <2>4. \A w \in Workers : ReqBacked(req[w])'
    BY <1>r, <2>1, <2>2
  <2> QED  BY <1>g, <1>p, <2>1, <2>2, <2>3, <2>4 DEF CompletedInv
<1>3. CASE Restart
  <2>1. /\ UNCHANGED <<record, latest, released, gates, page>>
        /\ req' = [w \in Workers |-> IdleRequest]
        /\ task' = [c \in Clerks |-> Campaign!IdleTask]
    BY <1>3, ProcessSteps
  <2>2. Grows  BY <2>1 DEF Grows
  <2>3. ASSUME NEW w \in Workers PROVE ReqBacked(req[w])'
    <3>1. req'[w] = IdleRequest  BY <2>1
    <3> QED
      BY <3>1, <2>1, StageFacts, <1>l
      DEF ReqBacked, IdleRequest, GatesBacked, Completed, BeforeVerdict, AfterApproval,
          Analytics, Optimization
  <2>4. ASSUME NEW c \in Clerks PROVE TaskBacked(task[c])'
    <3>1. task'[c] = Campaign!IdleTask  BY <2>1
    <3> QED  BY <3>1, NoTask DEF TaskBacked, Completed
  <2> QED  BY <1>f, <1>g, <1>p, <2>1, <2>2, <2>3, <2>4 DEF CompletedInv
<1>4. CASE Outage \/ Recovery
  <2>1. UNCHANGED <<record, latest, released, gates, req, task, page>>
    BY <1>4, ProcessSteps
  <2> QED
    BY <1>0, <2>1
    DEF CompletedInv, Completed, GatesBacked, ReqBacked, TaskBacked
<1>5. CASE OpenPage \/ ServePage
  <2>1. UNCHANGED <<record, latest, released, req, task>>
    BY <1>0, <1>5, PageSteps
  <2>2. Grows  BY <2>1 DEF Grows
  <2>3. GatesBacked(FreshGates) /\ GatesBacked(SyncedGates(page.gates, page.status))
    <3>1. \A s \in {Analytics, Optimization} :
            /\ FreshGates[s].status = "locked"
            /\ \/ SyncedGates(page.gates, page.status)[s].status \in {"locked", "approved"}
               \/ SyncedGates(page.gates, page.status)[s].status = page.gates[s].status
      BY <1>0, PageBacked
    <3> QED  BY <1>0, <3>1 DEF GatesBacked, Open
  <2>4. GatesBacked(gates')
    BY <1>0, <1>5, <2>3, PageSteps DEF ServePage
  <2>5. GatesBacked(page'.gates)
    <3>1. NoPage.gates = NoGates  BY DEF NoPage
    <3> QED  BY <1>0, <1>5, <1>l, <2>3, <2>4, <3>1, PageSteps DEF ServePage
  <2>6. GatesBacked(gates)' /\ GatesBacked(page.gates)'
    BY <2>1, <2>4, <2>5 DEF GatesBacked
  <2> QED
    BY <1>f, <1>r, <1>t, <2>1, <2>2, <2>6 DEF CompletedInv
<1>6. CASE UNCHANGED serviceVars
  <2>1. UNCHANGED <<record, latest, released, gates, req, task, page>>
    BY <1>6 DEF serviceVars, vars, fileVars, gateVars
  <2> QED
    BY <1>0, <2>1
    DEF CompletedInv, Completed, GatesBacked, ReqBacked, TaskBacked
<1> QED  BY <1>1, <1>2, <1>3, <1>4, <1>5, <1>6 DEF ServiceNext

(* A service that starts has completed nothing. *)
LEMMA CompletedInit == ServiceInit => CompletedInv
<1> SUFFICES ASSUME ServiceInit PROVE CompletedInv
  OBVIOUS
<1>1. /\ record = NoRecord /\ gates = NoGates /\ page.gates = NoGates
      /\ \A w \in Workers : req[w] = IdleRequest
      /\ \A c \in Clerks : task[c] = Campaign!IdleTask
  BY DEF ServiceInit, Init, FilesInit, NoPage, Campaign!Init
<1>2. GatesBacked(NoGates) /\ Completed(NoRecord)
  BY StageFacts
  DEF GatesBacked, NoGates, Analytics, Optimization, Open, Completed, NoRecord
<1>3. ReqBacked(IdleRequest)
  BY <1>2, StageFacts
  DEF ReqBacked, IdleRequest, BeforeVerdict, AfterApproval, Analytics, Optimization
<1>4. TaskBacked(Campaign!IdleTask)
  BY <1>2, NoTask DEF TaskBacked
<1> QED  BY <1>1, <1>2, <1>3, <1>4 DEF CompletedInv

-----------------------------------------------------------------------------
(* OneReleaseBothWays and PublicationCovered.  While clients wait, workers   *)
(* and clerks are served one at a time, so nothing comes between the look-up *)
(* of the idempotency key and the entry under it, nor between the decision   *)
(* on the newest payload and its release.                                    *)

(* What was counted before stays counted. *)
LEMMA WaitedBefore ==
  ASSUME ServiceTypeInv, NEW alone, alone \in BOOLEAN, Mixes(alone), mixed' = 0
  PROVE  alone /\ mixed = 0
<1>1. mixed \in Nat  BY DEF ServiceTypeInv
<1>2. CASE alone  BY <1>2 DEF Mixes
<1>3. CASE ~alone  BY <1>1, <1>3 DEF Mixes
<1> QED  BY <1>2, <1>3

(* Whoever has the step is alone with it. *)
LEMMA StageAlone ==
  ASSUME ServiceTypeInv, OneByOne => ServedAlone, NEW w \in Workers, StageRequest(w),
         OneByOne'
  PROVE  /\ OneByOne /\ ServedAlone'
         /\ \A v \in Workers \ {w} : At(v, "idle") /\ req'[v] = req[v]
         /\ \A c \in Clerks : Campaign!At(c, "idle") /\ task'[c] = task[c]
         /\ Admit(w) => AllIdle
<1>0. TypeInv /\ overlaps \in Nat /\ mixed \in Nat
  BY DEF ServiceTypeInv, TypeInv, TypeOK
<1>1. Admit(w) \/ Serve(w) \/ AccessRaises(w)
  BY DEF StageRequest
<1>2. \A v \in Workers \ {w} : req'[v] = req[v]
  BY <1>0, <1>1, OthersKeep
<1>3. task' = task
  BY DEF StageRequest
<1>4. CASE Admit(w)
  <2>1. AllIdle /\ overlaps = 0
    BY <1>0, <1>4, ArrivesAlone DEF OneByOne
  <2>2. ~Serve(w) /\ ~AccessRaises(w)
    BY <2>1, Serving DEF AllIdle
  <2>3. Campaign!AllIdle /\ mixed = 0
    <3>1. Mixes(Campaign!AllIdle)  BY <2>2 DEF StageRequest
    <3>2. mixed' = 0  BY DEF OneByOne
    <3>3. Campaign!AllIdle \in BOOLEAN  BY DEF Campaign!AllIdle
    <3> QED  BY <3>1, <3>2, <3>3, WaitedBefore
  <2>4. ServedAlone'
    BY <1>2, <1>3, <2>1, <2>3
    DEF ServedAlone, OneAtATime, AllIdle, At, Campaign!AllIdle, Campaign!At
  <2> QED
    BY <1>2, <1>3, <2>1, <2>3, <2>4 DEF OneByOne, AllIdle, Campaign!AllIdle
<1>5. CASE Serve(w) \/ AccessRaises(w)
  <2>1. req[w].pc # "idle" /\ overlaps' = overlaps
    BY <1>5, Serving, Frames DEF AccessRaises
  <2>2. ~Admit(w)
    BY <2>1 DEF Admit, StartRun, BeginReview, Arrive, At
  <2>3. OneByOne
    BY <2>1, <2>2 DEF StageRequest, OneByOne
  <2>4. /\ \A v \in Workers \ {w} : At(v, "idle")
        /\ \A c \in Clerks : Campaign!At(c, "idle")
    BY <2>1, <2>3 DEF ServedAlone, OneAtATime, At
  <2>5. ServedAlone'
    BY <1>2, <1>3, <2>4 DEF ServedAlone, OneAtATime, At, Campaign!At
  <2> QED  BY <1>2, <1>3, <2>2, <2>3, <2>4, <2>5
<1> QED  BY <1>1, <1>4, <1>5

(* While clients wait, a campaign request is the only one under way. *)
LEMMA ClerkAlone ==
  ASSUME ServiceTypeInv, OneByOne => ServedAlone, NEW c \in Clerks, CampaignRequest(c),
         OneByOne'
  PROVE  /\ OneByOne /\ ServedAlone'
         /\ \A w \in Workers : At(w, "idle") /\ req'[w] = req[w]
         /\ \A d \in Clerks \ {c} : Campaign!At(d, "idle") /\ task'[d] = task[d]
         /\ Campaign!Admit(c) => Campaign!AllIdle
<1>0. overlaps \in Nat /\ mixed \in Nat
  BY DEF ServiceTypeInv, TypeInv, TypeOK
<1>1. /\ Campaign!Admit(c) \/ Campaign!Serve(c) \/ Campaign!AccessRaises(c)
      /\ req' = req /\ overlaps' = overlaps
  BY ClerkFrame
<1>2. \A d \in Clerks \ {c} : task'[d] = task[d]
  BY <1>1, OtherClerksKeep
<1>4. CASE Campaign!Admit(c)
  <2>1. task[c].pc = "idle"
    BY <1>4 DEF Campaign!Admit, Campaign!NewRun, Campaign!BeginDecision, Campaign!At
  <2>2. ~Campaign!Serve(c) /\ ~Campaign!AccessRaises(c)
    BY <2>1, Serving
  <2>3. AllIdle /\ Campaign!AllIdle /\ mixed = 0
    <3>1. Mixes(AllIdle /\ Campaign!AllIdle)  BY <2>2 DEF CampaignRequest
    <3>2. mixed' = 0  BY DEF OneByOne
    <3>3. (AllIdle /\ Campaign!AllIdle) \in BOOLEAN  OBVIOUS
    <3> QED  BY <3>1, <3>2, <3>3, WaitedBefore
  <2>4. ServedAlone'
    BY <1>1, <1>2, <2>3
    DEF ServedAlone, OneAtATime, AllIdle, At, Campaign!AllIdle, Campaign!At
  <2> QED
    BY <1>1, <1>2, <2>3, <2>4 DEF OneByOne, AllIdle, Campaign!AllIdle
<1>5. CASE Campaign!Serve(c) \/ Campaign!AccessRaises(c)
  <2>1. task[c].pc # "idle"
    BY <1>5, Serving
  <2>2. ~Campaign!Admit(c)
    BY <2>1 DEF Campaign!Admit, Campaign!NewRun, Campaign!BeginDecision, Campaign!At
  <2>3. OneByOne
    BY <1>1, <2>2 DEF CampaignRequest, OneByOne
  <2>4. /\ \A w \in Workers : At(w, "idle")
        /\ \A d \in Clerks \ {c} : Campaign!At(d, "idle")
    BY <2>1, <2>3 DEF ServedAlone, Campaign!At
  <2>5. ServedAlone'
    BY <1>1, <1>2, <2>4 DEF ServedAlone, OneAtATime, At, Campaign!At
  <2> QED  BY <1>1, <1>2, <2>2, <2>3, <2>4, <2>5
<1> QED  BY <1>1, <1>4, <1>5

(* A stage request that gets to publish does so under the decision on the   *)
(* newest payload.                                                          *)
LEMMA StagePublishes ==
  ASSUME TypeInv, NEW w \in Workers, Admit(w) \/ Serve(w) \/ AccessRaises(w),
         ReqPublishes(req[w]),
         Len(released) <= IF published = 0 THEN Lives ELSE Lives + 1,
         outages \in Nat, outages' = outages
  PROVE  /\ ReqPublishes(req[w])'
         /\ Len(released)' <= IF published' = 0 THEN Lives' ELSE Lives' + 1
         /\ released' # released =>
              /\ released' = Append(released, req[w].payload)
              /\ IsNewest(req[w].payload) /\ Approved(req[w].payload)
<1> DEFINE r == req[w]
<1>0. /\ r.payload \in Nat /\ released \in Seq(Nat) /\ crashes \in Nat
      /\ latest \in [Producing -> Nat] /\ Advertisement \in Producing
  BY RequestFields, StageFacts DEF TypeInv, TypeOK, FilesTypeOK
<1>c. crashes' = crashes
  BY Frames DEF Admit, StartRun, BeginReview, AccessRaises
<1>1. CASE UNCHANGED <<published, released>> /\ req'[w].pc \notin {"decide", "publish", "record_publication"}
  BY <1>1, <1>c DEF ReqPublishes, Lives
<1>2. CASE Admit(w)
  <2>1. req'[w].pc \in {"create_gates", "read_log"}
    BY <1>2, StartFields, BeginReviewFields DEF Admit
  <2>2. UNCHANGED <<published, released>>
    BY <1>2 DEF Admit, StartRun, BeginReview, fileVars
  <2> QED  BY <1>1, <2>1, <2>2
<1>3. CASE LoadPayload(w)
  <2>1. UNCHANGED <<latest, lastDecision, published, released>>
    BY <1>3 DEF LoadPayload, fileVars
  <2>2. CASE latest[Advertisement] = 0
    <3>1. req'[w].pc = "idle"  BY <1>3, <2>2, ReturnFields DEF LoadPayload
    <3> QED  BY <1>1, <2>1, <3>1
  <2>3. CASE latest[Advertisement] # 0
    <3>1. GoesOn(w, "decide", r.gates, r.log, latest[Advertisement], r.record)
      BY <1>3, <2>3, LoadPayloadFields
    <3> QED
      BY <1>c, <2>1, <2>3, <3>1 DEF GoesOn, ReqPublishes, IsNewest, Lives
  <2> QED  BY <2>2, <2>3
<1>7. CASE DecidePayload(w)
  <2>1. /\ UNCHANGED <<latest, published, released>> /\ r.pc = "decide"
        /\ lastDecision' = [decision |-> "approved", version |-> r.payload]
    BY <1>7 DEF DecidePayload, Decide, At
  <2>2. GoesOn(w, "publish", r.gates, r.log, r.payload, r.record)
    BY <1>7, GotoFields DEF DecidePayload
  <2> QED
    BY <1>c, <2>1, <2>2 DEF GoesOn, ReqPublishes, IsNewest, Approved, Lives
<1>4. CASE CheckPublication(w)
  <2>1. UNCHANGED <<latest, lastDecision, published, released>> /\ r.pc = "publish"
    BY <1>4 DEF CheckPublication, fileVars, At
  <2>2. CASE published # 0
    <3>1. req'[w].pc = "idle"
      BY <1>4, <2>2, ReturnFields DEF CheckPublication, CanPublish
    <3> QED  BY <1>1, <2>1, <3>1
  <2>3. CASE published = 0
    <3>1. GoesOn(w, "record_publication", r.gates, r.log, r.payload, r.record)
      BY <1>4, <2>3, GotoFields DEF CheckPublication, CanPublish
    <3> QED
      BY <1>c, <2>1, <2>3, <3>1 DEF GoesOn, ReqPublishes, IsNewest, Approved, Lives
  <2> QED  BY <2>2, <2>3
<1>5. CASE RecordPublication(w)
  <2>1. /\ published' = r.payload /\ released' = Append(released, r.payload)
        /\ r.pc = "record_publication"
    BY <1>5 DEF RecordPublication, Publish, At
  <2>2. req'[w].pc = "unlock"
    BY <1>5, StepsOn
  <2>3. IsNewest(r.payload) /\ Approved(r.payload) /\ published = 0
    BY <2>1 DEF ReqPublishes
  <2>4. Len(released') = Len(released) + 1 /\ Len(released) \in Nat
    BY <1>0, <2>1
  <2> QED
    BY <1>0, <1>c, <2>1, <2>2, <2>3, <2>4 DEF ReqPublishes, IsNewest, Lives
<1>6. CASE /\ Serve(w) /\ ~LoadPayload(w) /\ ~DecidePayload(w)
           /\ ~CheckPublication(w) /\ ~RecordPublication(w)
  <2>1. UNCHANGED <<published, released>>
    BY <1>6, Frames
  <2>2. req'[w].pc \notin {"decide", "publish", "record_publication"}
    BY <1>6, StepsOn DEF Serve, Review, Execute
  <2> QED  BY <1>1, <2>1, <2>2
<1>8. CASE AccessRaises(w)
  BY <1>1, <1>8, ReturnFields DEF AccessRaises, fileVars
<1> QED  BY <1>2, <1>3, <1>4, <1>5, <1>6, <1>7, <1>8

(* So does a request without stages. *)
LEMMA ClerkPublishes ==
  ASSUME ServiceTypeInv, NEW c \in Clerks,
         Campaign!Admit(c) \/ Campaign!Serve(c) \/ Campaign!AccessRaises(c),
         TaskPublishes(task[c]),
         Len(released) <= IF published = 0 THEN Lives ELSE Lives + 1,
         UNCHANGED <<crashes, outages>>
  PROVE  /\ TaskPublishes(task[c])'
         /\ Len(released)' <= IF published' = 0 THEN Lives' ELSE Lives' + 1
         /\ released' # released =>
              /\ released' = Append(released, task[c].payload)
              /\ IsNewest(task[c].payload) /\ Approved(task[c].payload)
<1> DEFINE t == task[c]
           Goal == /\ TaskPublishes(task[c])'
                   /\ Len(released)' <= IF published' = 0 THEN Lives' ELSE Lives' + 1
                   /\ released' # released =>
                        /\ released' = Append(released, task[c].payload)
                        /\ IsNewest(task[c].payload) /\ Approved(task[c].payload)
<1>0. /\ t.payload \in Nat /\ released \in Seq(Nat) /\ crashes \in Nat /\ outages \in Nat
      /\ t.pc = "save" => t.after \in AfterSave
  BY TaskFields DEF ServiceTypeInv, TypeInv, TypeOK, FilesTypeOK, TaskOK
<1>1. ASSUME UNCHANGED <<published, released>>,
             NEW pc, NEW after, NEW payload, NEW status, NEW version,
             Carries(c, pc, after, payload, status, version),
             pc \in {"decide", "check_approval", "check_key", "record_publication", "revise"}
               \/ (pc = "save" /\ after = "check_approval")
               => payload = latest'[Advertisement] /\ payload # 0,
             pc \in {"check_key", "record_publication"} =>
               lastDecision' = [decision |-> "approved", version |-> payload],
             pc = "record_publication" => published = 0
      PROVE  Goal
  <2>1. task'[c].pc = pc /\ task'[c].after = after /\ task'[c].payload = payload
    BY <1>1 DEF Carries
  <2>2. TaskPublishes(task[c])'
    BY <1>1, <2>1 DEF TaskPublishes, Deciding, IsNewest, Approved
  <2> QED  BY <1>1, <2>2 DEF Lives
<1>2. ASSUME UNCHANGED <<published, released>>,
             NEW pc \in {"idle", "save", "load_payload", "produce"},
             NEW after, NEW payload, NEW status, NEW version,
             Carries(c, pc, after, payload, status, version),
             pc = "save" => after # "check_approval"
      PROVE  Goal
  BY <1>1, <1>2
<1>n. Deciding(t) => t.payload = latest[Advertisement] /\ t.payload # 0
  BY DEF TaskPublishes, IsNewest
<1> HIDE DEF Goal
<1>4. Campaign!NewRun(c) => Goal
  BY <1>2, RunSteps
<1>5. ASSUME NEW d \in {"approved", "rejected"}, Campaign!BeginDecision(c, d) PROVE Goal
  BY <1>2, <1>5, DecisionSteps
<1>6. ASSUME Campaign!SaveStatus(c) PROVE Goal
  <2>1. /\ t.pc = "save" /\ UNCHANGED <<latest, lastDecision, published, released>>
        /\ \/ Carries(c, "idle", "idle", 0, "absent", 1)
           \/ Carries(c, t.after, t.after, t.payload, t.record.status, t.record.version)
    BY <1>6, RunSteps
  <2>2. CASE Carries(c, t.after, t.after, t.payload, t.record.status, t.record.version)
    <3>1. t.after \in AfterSave  BY <1>0, <2>1
    <3>2. /\ t.after \in {"decide", "check_approval", "check_key", "record_publication",
                          "revise"}
               \/ (t.after = "save" /\ t.after = "check_approval")
               => t.payload = latest'[Advertisement] /\ t.payload # 0
          /\ t.after \notin {"check_key", "record_publication"}
      BY <1>n, <2>1, <3>1 DEF Deciding, AfterSave
    <3> QED  BY <1>1, <2>1, <2>2, <3>2
  <2> QED  BY <1>2, <2>1, <2>2
<1>7. Campaign!ArtifactMade(c) => Goal
  BY <1>2, RunSteps
<1>8. ASSUME NEW passed \in BOOLEAN, Campaign!ComplianceReported(c, passed) PROVE Goal
  BY <1>2, <1>8, RunSteps
<1>9. ASSUME NEW retryable \in BOOLEAN, Campaign!RunFails(c, retryable) PROVE Goal
  BY <1>2, <1>9, RunSteps
<1>10. ASSUME Campaign!LoadPayload(c) PROVE Goal
  <2>1. /\ UNCHANGED <<latest, published, released>>
        /\ \/ Carries(c, "idle", "idle", 0, "absent", 1)
           \/ /\ latest[Advertisement] # 0
              /\ Carries(c, "decide", t.after, latest[Advertisement],
                         t.record.status, t.record.version)
    BY <1>10, DecisionSteps
  <2>2. CASE /\ latest[Advertisement] # 0
             /\ Carries(c, "decide", t.after, latest[Advertisement],
                        t.record.status, t.record.version)
    BY <1>1, <2>1, <2>2
  <2> QED  BY <1>2, <2>1, <2>2
<1>11. ASSUME Campaign!DecideTask(c) PROVE Goal
  <2>1. /\ UNCHANGED <<latest, published, released>> /\ t.pc = "decide"
        /\ \/ Carries(c, "save", "check_approval", t.payload, "approved", t.record.version)
           \/ Carries(c, "revise", t.after, t.payload, t.record.status, t.record.version)
    BY <1>11, DecisionSteps
  <2>2. t.payload = latest'[Advertisement] /\ t.payload # 0
    BY <1>n, <2>1 DEF Deciding
  <2> QED  BY <1>1, <2>1, <2>2
<1>12. ASSUME Campaign!CheckApproval(c) PROVE Goal
  <2>1. /\ UNCHANGED <<latest, lastDecision, published, released>> /\ t.pc = "check_approval"
        /\ \/ Carries(c, "idle", "idle", 0, "absent", 1)
           \/ /\ lastDecision = [decision |-> "approved", version |-> t.payload]
              /\ Carries(c, "check_key", t.after, t.payload, t.record.status,
                         t.record.version)
           \/ Carries(c, "save", "idle", t.payload, "human_handoff", t.record.version)
    BY <1>12, PublicationSteps
  <2>2. t.payload = latest'[Advertisement] /\ t.payload # 0
    BY <1>n, <2>1 DEF Deciding
  <2>3. CASE /\ lastDecision = [decision |-> "approved", version |-> t.payload]
             /\ Carries(c, "check_key", t.after, t.payload, t.record.status,
                        t.record.version)
    BY <1>1, <2>1, <2>2, <2>3
  <2> QED  BY <1>2, <2>1, <2>3
<1>13. ASSUME Campaign!CheckKey(c) PROVE Goal
  <2>1. /\ UNCHANGED <<latest, lastDecision, published, released>> /\ t.pc = "check_key"
        /\ \/ Carries(c, "idle", "idle", 0, "absent", 1)
           \/ /\ published = 0
              /\ Carries(c, "record_publication", t.after, t.payload, t.record.status,
                         t.record.version)
    BY <1>13, PublicationSteps
  <2>2. /\ t.payload = latest'[Advertisement] /\ t.payload # 0
        /\ lastDecision' = [decision |-> "approved", version |-> t.payload]
    BY <1>n, <2>1 DEF Deciding, TaskPublishes, Approved
  <2>3. CASE /\ published = 0
             /\ Carries(c, "record_publication", t.after, t.payload, t.record.status,
                        t.record.version)
    BY <1>1, <2>1, <2>2, <2>3
  <2> QED  BY <1>2, <2>1, <2>3
<1>14. ASSUME Campaign!RecordPublication(c) PROVE Goal
  <2>1. /\ t.pc = "record_publication"
        /\ published' = t.payload /\ released' = Append(released, t.payload)
        /\ Carries(c, "save", "analytics", t.payload, "published", t.record.version)
    BY <1>14, PublicationSteps
  <2>2. IsNewest(t.payload) /\ Approved(t.payload) /\ published = 0
    BY <2>1 DEF TaskPublishes, Deciding
  <2>3. Len(released') = Len(released) + 1 /\ Len(released) \in Nat
    BY <1>0, <2>1
  <2>4. TaskPublishes(task[c])'
    BY <2>1 DEF Carries, TaskPublishes, Deciding
  <2>5. t.payload # 0  BY <2>2 DEF IsNewest
  <2> QED  BY <1>0, <2>1, <2>2, <2>3, <2>4, <2>5 DEF Goal, Lives
<1>15. Campaign!Analyze(c) => Goal
  BY <1>2, PublicationSteps
<1>16. Campaign!Optimize(c) => Goal
  BY <1>2, PublicationSteps
<1>17. Campaign!Revise(c) => Goal
  BY <1>2, DecisionSteps
<1>18. Campaign!AccessRaises(c) => Goal
  BY <1>2, ClerkRaises
<1> QED
  BY <1>4, <1>5, <1>6, <1>7, <1>8, <1>9, <1>10, <1>11, <1>12, <1>13, <1>14, <1>15, <1>16,
     <1>17, <1>18
  DEF Campaign!Admit, Campaign!Serve, Goal

(* Every step of the service keeps releases within the lives of a process.  *)
LEMMA ReleaseStep ==
  ServiceTypeInv /\ RuntimeInv /\ ReleaseInv /\ [ServiceNext]_serviceVars => ReleaseInv'
<1> SUFFICES ASSUME ServiceTypeInv, RuntimeInv, ReleaseInv, [ServiceNext]_serviceVars,
                    OneByOne'
             PROVE  /\ ServedAlone'
                    /\ \A w \in Workers : ReqPublishes(req[w])'
                    /\ \A c \in Clerks : TaskPublishes(task[c])'
                    /\ Len(released)' <= IF published' = 0 THEN Lives' ELSE Lives' + 1
  BY DEF ReleaseInv
<1>0. /\ TypeInv /\ released \in Seq(Nat) /\ crashes \in Nat /\ outages \in Nat
      /\ page \in Pages /\ gates \in Gates /\ overlaps \in Nat /\ mixed \in Nat
  BY DEF ServiceTypeInv, TypeInv, TypeOK, FilesTypeOK
<1>a. OneByOne => ServedAlone
  BY DEF ReleaseInv
<1>1. ASSUME NEW w \in Workers, StageRequest(w)
      PROVE  /\ ServedAlone'
             /\ \A v \in Workers : ReqPublishes(req[v])'
             /\ \A c \in Clerks : TaskPublishes(task[c])'
             /\ Len(released)' <= IF published' = 0 THEN Lives' ELSE Lives' + 1
  <2>1. /\ OneByOne /\ ServedAlone'
        /\ \A v \in Workers \ {w} : At(v, "idle") /\ req'[v] = req[v]
        /\ \A c \in Clerks : Campaign!At(c, "idle") /\ task'[c] = task[c]
    BY <1>1, <1>a, StageAlone
  <2>2. /\ ReqPublishes(req[w])'
        /\ Len(released)' <= IF published' = 0 THEN Lives' ELSE Lives' + 1
    <3>1. ReqPublishes(req[w]) /\ Len(released) <= IF published = 0 THEN Lives ELSE Lives + 1
      BY <2>1 DEF ReleaseInv
    <3>2. (Admit(w) \/ Serve(w) \/ AccessRaises(w)) /\ outages' = outages
      BY <1>1 DEF StageRequest, processVars
    <3> QED  BY <1>0, <3>1, <3>2, StagePublishes
  <2>3. \A v \in Workers \ {w} : ReqPublishes(req[v])'
    BY <2>1 DEF ReqPublishes, At
  <2>4. \A c \in Clerks : TaskPublishes(task[c])'
    BY <2>1 DEF TaskPublishes, Deciding, Campaign!At
  <2> QED  BY <2>1, <2>2, <2>3, <2>4
<1>2. ASSUME NEW c \in Clerks, CampaignRequest(c)
      PROVE  /\ ServedAlone'
             /\ \A w \in Workers : ReqPublishes(req[w])'
             /\ \A d \in Clerks : TaskPublishes(task[d])'
             /\ Len(released)' <= IF published' = 0 THEN Lives' ELSE Lives' + 1
  <2>1. /\ OneByOne /\ ServedAlone'
        /\ \A w \in Workers : At(w, "idle") /\ req'[w] = req[w]
        /\ \A d \in Clerks \ {c} : Campaign!At(d, "idle") /\ task'[d] = task[d]
    BY <1>2, <1>a, ClerkAlone
  <2>2. /\ TaskPublishes(task[c])'
        /\ Len(released)' <= IF published' = 0 THEN Lives' ELSE Lives' + 1
    <3>1. TaskPublishes(task[c]) /\ Len(released) <= IF published = 0 THEN Lives ELSE Lives + 1
      BY <2>1 DEF ReleaseInv
    <3>2. /\ Campaign!Admit(c) \/ Campaign!Serve(c) \/ Campaign!AccessRaises(c)
          /\ UNCHANGED <<crashes, outages>>
      BY <1>2, ClerkFrame
    <3> QED  BY <3>1, <3>2, ClerkPublishes
  <2>3. \A w \in Workers : ReqPublishes(req[w])'
    BY <2>1 DEF ReqPublishes, At
  <2>4. \A d \in Clerks \ {c} : TaskPublishes(task[d])'
    BY <2>1 DEF TaskPublishes, Deciding, Campaign!At
  <2> QED  BY <2>1, <2>2, <2>3, <2>4
<1> DEFINE Before == /\ ServedAlone
                     /\ \A w \in Workers : ReqPublishes(req[w])
                     /\ \A c \in Clerks : TaskPublishes(task[c])
                     /\ Len(released) <= IF published = 0 THEN Lives ELSE Lives + 1
<1>b. overlaps' = overlaps /\ mixed' = mixed => Before
  BY DEF ReleaseInv, OneByOne
<1>n. Len(released) \in Nat /\ Lives \in Nat
  BY <1>0 DEF Lives
<1>3. CASE Restart
  <2>1. /\ crashes' = crashes + 1 /\ published' = 0
        /\ req' = [w \in Workers |-> IdleRequest]
        /\ task' = [c \in Clerks |-> Campaign!IdleTask]
        /\ UNCHANGED <<released, overlaps, mixed, outages>>
    BY <1>3, ProcessSteps
  <2>2. Before  BY <1>b, <2>1
  <2>3. Len(released') <= Lives'
    BY <1>0, <1>n, <2>1, <2>2 DEF Lives
  <2>4. \A w \in Workers : req'[w] = IdleRequest
    BY <2>1
  <2>5. \A c \in Clerks : task'[c] = Campaign!IdleTask
    BY <2>1
  <2>6. IdleRequest.pc = "idle"  BY DEF IdleRequest
  <2>7. /\ \A w \in Workers : ReqPublishes(req[w])'
        /\ \A c \in Clerks : TaskPublishes(task[c])'
    BY <2>4, <2>5, <2>6, NoTask DEF ReqPublishes, TaskPublishes, Deciding
  <2>8. ServedAlone'
    BY <2>4, <2>5, <2>6, NoTask DEF ServedAlone, OneAtATime, At, Campaign!At
  <2> QED  BY <2>1, <2>3, <2>7, <2>8
<1>4. CASE Outage
  <2>1. /\ AllIdle /\ Campaign!AllIdle /\ outages' = outages + 1 /\ published' = 0
        /\ UNCHANGED <<released, req, crashes, task, overlaps, mixed>>
    BY <1>4, ProcessSteps
  <2>2. Before  BY <1>b, <2>1
  <2>3. Len(released') <= Lives'
    BY <1>0, <1>n, <2>1, <2>2 DEF Lives
  <2>4. /\ \A w \in Workers : ReqPublishes(req[w])'
        /\ \A c \in Clerks : TaskPublishes(task[c])'
    BY <2>1
    DEF ReqPublishes, TaskPublishes, Deciding, AllIdle, At, Campaign!AllIdle, Campaign!At
  <2>5. ServedAlone'
    BY <2>1, <2>2 DEF ServedAlone, OneAtATime, At, Campaign!At
  <2> QED  BY <2>1, <2>3, <2>4, <2>5
<1>5. ASSUME UNCHANGED <<latest, lastDecision, published, released, req, task, overlaps,
                         crashes, mixed, outages>>
      PROVE  Before'
  <2>1. Before  BY <1>b, <1>5
  <2>2. ServedAlone'
    BY <1>5, <2>1 DEF ServedAlone, OneAtATime, At, Campaign!At
  <2>3. /\ \A w \in Workers : ReqPublishes(req[w])'
        /\ \A c \in Clerks : TaskPublishes(task[c])'
    BY <1>5, <2>1 DEF ReqPublishes, TaskPublishes, Deciding, IsNewest, Approved
  <2> QED  BY <1>5, <2>1, <2>2, <2>3 DEF Lives
<1>6. CASE Recovery \/ OpenPage \/ ServePage \/ UNCHANGED serviceVars
  <2>1. UNCHANGED <<latest, lastDecision, published, released, req, task, overlaps,
                    crashes, mixed, outages>>
    BY <1>0, <1>6, ProcessSteps, PageSteps DEF serviceVars, vars, fileVars, counters
  <2> QED  BY <1>5, <2>1
<1> QED  BY <1>1, <1>2, <1>3, <1>4, <1>6 DEF ServiceNext

(* A step that publishes is one of somebody who decided on the newest       *)
(* payload.                                                                 *)
LEMMA ReleasesCovered ==
  ASSUME ServiceTypeInv, ReleaseInv, [ServiceNext]_serviceVars,
         OneByOne, released' # released
  PROVE  LET version == released'[Len(released')] IN
         IsNewest(version) /\ Approved(version)
<1>0. /\ TypeInv /\ released \in Seq(Nat) /\ outages \in Nat
      /\ page \in Pages /\ gates \in Gates
  BY DEF ServiceTypeInv, TypeInv, TypeOK, FilesTypeOK
<1>1. PICK payload \in Nat :
        released' = Append(released, payload) /\ IsNewest(payload) /\ Approved(payload)
  <2>1. ASSUME NEW w \in Workers, StageRequest(w)
        PROVE  \E payload \in Nat : /\ released' = Append(released, payload)
                                    /\ IsNewest(payload) /\ Approved(payload)
    <3>1. ReqPublishes(req[w]) /\ Len(released) <= IF published = 0 THEN Lives ELSE Lives + 1
      BY DEF ReleaseInv
    <3>2. (Admit(w) \/ Serve(w) \/ AccessRaises(w)) /\ outages' = outages
      BY <2>1 DEF StageRequest, processVars
    <3>3. req[w].payload \in Nat  BY <1>0, RequestFields
    <3> QED  BY <1>0, <3>1, <3>2, <3>3, StagePublishes
  <2>2. ASSUME NEW c \in Clerks, CampaignRequest(c)
        PROVE  \E payload \in Nat : /\ released' = Append(released, payload)
                                    /\ IsNewest(payload) /\ Approved(payload)
    <3>1. TaskPublishes(task[c]) /\ Len(released) <= IF published = 0 THEN Lives ELSE Lives + 1
      BY DEF ReleaseInv
    <3>2. /\ Campaign!Admit(c) \/ Campaign!Serve(c) \/ Campaign!AccessRaises(c)
          /\ UNCHANGED <<crashes, outages>>
      BY <2>2, ClerkFrame
    <3>3. task[c].payload \in Nat  BY TaskFields
    <3> QED  BY <3>1, <3>2, <3>3, ClerkPublishes
  <2>3. ~(Restart \/ Outage \/ Recovery \/ OpenPage \/ ServePage \/ UNCHANGED serviceVars)
    BY <1>0, ProcessSteps, PageSteps DEF serviceVars, vars, fileVars
  <2> QED  BY <2>1, <2>2, <2>3 DEF ServiceNext
<1>2. released'[Len(released')] = payload
  BY <1>0, <1>1
<1> QED  BY <1>1, <1>2

(* A service that starts has published nothing. *)
LEMMA ReleaseInit == ServiceInit => ReleaseInv
<1> SUFFICES ASSUME ServiceInit PROVE ReleaseInv
  OBVIOUS
<1>1. /\ published = 0 /\ released = <<>> /\ crashes = 0 /\ outages = 0
      /\ \A w \in Workers : req[w].pc = "idle"
      /\ \A c \in Clerks : task[c].pc = "idle"
  BY NoTask DEF ServiceInit, Init, FilesInit, IdleRequest, Campaign!Init
<1>2. Len(released) = 0  BY <1>1
<1> QED
  BY <1>1, <1>2
  DEF ReleaseInv, ServedAlone, OneAtATime, At, Campaign!At, ReqPublishes, TaskPublishes,
      Deciding, Lives

-----------------------------------------------------------------------------
(* RecordNamesPayload.  While clients wait and nothing is cut short, at most *)
(* one gate is at work or under review.  One at or before advertisement is   *)
(* there because no payload was made yet, so the payload made at its gate is *)
(* the first one, and the record names the first version; only the workflow  *)
(* without stages makes others, and it renames the record.                   *)

(* The gates of a run, after each way in which a stage request changes them. *)
LEMMA GatesStayNamed ==
  ASSUME gates \in Gates, GatesNamed(gates), latest' = latest
  PROVE  /\ latest[Advertisement] = 0 /\ Created => GatesNamed(gates)'
         /\ \A s \in Stages : SentBack(s) => GatesNamed(gates)'
         /\ \A s \in Stages : PassedOn(s) => GatesNamed(gates)'
         /\ \A s \in Stages, from \in Live, to \in Statuses :
              Moved(s, from, to) => GatesNamed(gates)'
<1> USE StageFacts
<1>1. ASSUME latest[Advertisement] = 0, Created PROVE GatesNamed(gates)'
  <2>1. \A s \in Stages : /\ gates'[s].status = IF s = Input THEN "approved"
                                                ELSE IF s = Research THEN "ready" ELSE "locked"
                          /\ gates'[s].version = 1
    BY <1>1, CreatedGate
  <2> QED  BY <1>1, <2>1 DEF GatesNamed, Live, Open
<1>2. ASSUME NEW s \in Stages, SentBack(s) PROVE GatesNamed(gates)'
  <2>1. \A t \in Stages :
          gates'[t] = IF t < s THEN gates[t]
                      ELSE [status |-> IF t = s THEN "revision_required" ELSE "locked",
                            version |-> gates[t].version + 1]
    BY <1>2 DEF SentBack, Decided, SendBack
  <2>2. \A t \in Stages : t # s => gates'[t].status \notin Live \union Open
    <3>1. \A t \in Stages : t # s => gates[t].status \notin Live \union Open
      BY <1>2 DEF SentBack, GatesNamed
    <3> QED  BY <2>1, <3>1 DEF Live, Open
  <2>3. gates'[s].status = "revision_required"
    BY <2>1
  <2>4. gates'[Input] = gates[Input]
    BY <1>2, <2>1 DEF SentBack
  <2> QED  BY <2>2, <2>3, <2>4 DEF GatesNamed, Live
<1>3. ASSUME NEW s \in Stages, PassedOn(s) PROVE GatesNamed(gates)'
  <2> DEFINE h == SetStatus(gates, s, "approved")
  <2>1. h \in Gates
    BY SetStatusType DEF Statuses
  <2>2. s + 1 \in Stages /\ s # Input /\ gates[s].status = "pending_review"
    BY <1>3 DEF PassedOn
  <2>3. /\ h[s].status = "approved" /\ h[s].version = gates[s].version
        /\ \A u \in Stages \ {s} : h[u] = gates[u]
    BY SetStatusIs
  <2>4. /\ gates'[s + 1].status = "ready" /\ gates'[s + 1].version = h[s + 1].version
        /\ \A u \in Stages \ {s + 1} : gates'[u] = h[u]
    BY <1>3, <2>1, <2>2, SetStatusIs DEF PassedOn
  <2> HIDE DEF h
  <2>5. \A t \in Stages : t # s + 1 => gates'[t].status \notin Live \union Open
    <3>1. \A t \in Stages : t # s => gates[t].status \notin Live \union Open
      BY <2>2 DEF GatesNamed, Live
    <3> QED  BY <2>2, <2>3, <2>4, <3>1 DEF Live, Open
  <2>6. gates'[Input] = gates[Input]
    BY <2>2, <2>3, <2>4
  <2>7. s + 1 <= Advertisement => /\ gates'[Advertisement].version = 1
                                  /\ latest'[Advertisement] = 0
    <3>1. s + 1 <= Advertisement =>
            gates[Advertisement].version = 1 /\ latest[Advertisement] = 0
      BY <2>2 DEF GatesNamed, Live
    <3>2. gates'[Advertisement].version = gates[Advertisement].version
      BY <2>2, <2>3, <2>4
    <3> QED  BY <3>1, <3>2
  <2> QED  BY <2>2, <2>5, <2>6, <2>7 DEF GatesNamed
<1>4. ASSUME NEW s \in Stages, NEW from \in Live, NEW to \in Statuses, Moved(s, from, to)
      PROVE  GatesNamed(gates)'
  <2>1. \A t \in Stages : /\ gates'[t].version = gates[t].version
                          /\ t # s => gates'[t] = gates[t]
    BY <1>4, MovedGate
  <2>2. s # Input /\ gates[s].status \in Live
    BY <1>4 DEF Moved
  <2>3. \A t \in Stages : t # s => gates'[t].status \notin Live \union Open
    BY <2>1, <2>2 DEF GatesNamed
  <2>4. s <= Advertisement => /\ gates'[Advertisement].version = 1
                              /\ s # Advertisement => latest'[Advertisement] = 0
    BY <2>1, <2>2 DEF GatesNamed
  <2> QED  BY <2>1, <2>2, <2>3, <2>4 DEF GatesNamed
<1> QED  BY <1>1, <1>2, <1>3, <1>4

(* A stage request leaves the version that the record names alone, and the  *)
(* first payload it makes has it.                                           *)
LEMMA NamesServe ==
  ASSUME TypeInv, CopiesInStep, GatesNamed(gates), NEW w \in Workers, ReqNamed(req[w]),
         Named(record.version), Serve(w)
  PROVE  /\ GatesNamed(gates)' /\ ReqNamed(req[w])'
         /\ record'.version = record.version /\ Named(record.version)'
<1> DEFINE r == req[w]
           Still == latest' = latest /\ record' = record
           Kept == record'.version = record.version /\ Named(record.version)'
           Before(pc) == pc \in {"read_log", "truncate_log", "write_log", "save_rejection",
                                 "load_payload", "decide", "publish", "record_publication",
                                 "unlock", "open_publish_review", "load_final_record",
                                 "save_final_gates", "idle"}
<1> USE DEF At
<1>0. /\ InStep(w) /\ gates \in Gates /\ latest \in [Producing -> Nat]
      /\ r.stage \in Stages /\ r.gates \in Gates /\ Underway(r)
      /\ r.record \in [status : RunStatuses, version : Versions]
      /\ record \in [status : RunStatuses, version : Versions]
  BY RequestFields DEF CopiesInStep, TypeInv, TypeOK, FilesTypeOK
<1>n. /\ Stages = 0 .. 8 /\ Advertisement = 5 /\ Research = 1
      /\ Advertisement \in Producing
  BY StageFacts
<1>s. Still => Kept
  BY DEF Named
<1>b. Before(req'[w].pc) => ReqNamed(req[w])'
  BY DEF ReqNamed, BeforeWork, HoldsRecord
<1>g. ASSUME gates' = gates, latest' = latest PROVE GatesNamed(gates)'
  BY <1>g DEF GatesNamed
<1> HIDE DEF Before
<1> USE DEF BeforeVerdict, AfterApproval
<1>1. CASE CreateGates(w)
  <2>1. Created /\ Still /\ latest[Advertisement] = 0
    BY <1>0, <1>1, StepMovesGates DEF CreateGates, fileVars, ReqNamed
  <2>2. req'[w].pc = "load_gates" /\ req'[w].stage = Research
    BY <1>1, StartFields
  <2>3. ReqNamed(req[w])'
    BY <1>n, <2>2 DEF ReqNamed, HoldsRecord
  <2>4. GatesNamed(gates)'
    BY <1>0, <2>1, GatesStayNamed
  <2> QED  BY <1>s, <2>1, <2>3, <2>4
<1>2. CASE \/ ReadLog(w) \/ TruncateLog(w) \/ WriteLog(w) \/ LoadPayload(w)
           \/ DecidePayload(w) \/ CheckPublication(w) \/ RecordPublication(w)
  <2>1. Still /\ gates' = gates
    BY <1>2
    DEF ReadLog, TruncateLog, WriteLog, LoadPayload, DecidePayload, CheckPublication,
        RecordPublication, fileVars, gateVars
  <2>2. Before(req'[w].pc)
    BY <1>2, StepsOn DEF Before
  <2> QED  BY <1>b, <1>g, <1>s, <2>1, <2>2
<1>3. CASE SaveRejection(w) \/ OpenPublishReview(w) \/ SaveFinalGates(w)
  <2>1. Still
    BY <1>3 DEF SaveRejection, OpenPublishReview, SaveFinalGates, fileVars
  <2>2. Before(req'[w].pc)
    BY <1>3, StepsOn DEF Before
  <2>3. \/ SentBack(r.stage)
        \/ Moved(PublishReview, "ready", "pending_review")
        \/ Moved(Optimization, "pending_review", "approved")
    BY <1>0, <1>3, StepMovesGates
  <2>4. GatesNamed(gates)'
    BY <1>0, <2>1, <2>3, GatesStayNamed, StageFacts DEF Live, Statuses
  <2> QED  BY <1>b, <1>s, <2>1, <2>2, <2>4
<1>4. CASE Unlock(w)
  <2>1. Still /\ PassedOn(r.stage)
    BY <1>0, <1>4, StepMovesGates DEF Unlock, fileVars
  <2>2. GatesNamed(gates)'
    BY <1>0, <2>1, GatesStayNamed
  <2>3. r.stage + 1 = Advertisement => latest[Advertisement] = 0
    BY <1>0, <1>n, <2>1 DEF PassedOn, GatesNamed, Live
  <2>4. \/ req'[w].pc = "open_publish_review"
        \/ req'[w].pc = "load_gates" /\ req'[w].stage = r.stage + 1
    BY <1>4, UnlockFields DEF GoesOn
  <2>5. ReqNamed(req[w])'
    BY <2>1, <2>3, <2>4 DEF ReqNamed, BeforeWork, HoldsRecord
  <2> QED  BY <1>s, <2>1, <2>2, <2>5
<1>5. CASE LoadFinalRecord(w)
  <2>1. Still /\ gates' = gates
    BY <1>5 DEF LoadFinalRecord, fileVars, gateVars
  <2>2. req'[w].pc = "save_final_record" /\ req'[w].record = record
    BY <1>5, LoadFinalRecordFields DEF GoesOn
  <2>3. ReqNamed(req[w])'
    BY <2>1, <2>2 DEF ReqNamed, BeforeWork
  <2> QED  BY <1>g, <1>s, <2>1, <2>3
<1>6. CASE SaveFinalRecord(w)
  <2>1. /\ latest' = latest /\ gates' = gates /\ r.pc = "save_final_record"
        /\ record' = [r.record EXCEPT !.status = "optimized"]
    BY <1>6 DEF SaveFinalRecord, SaveRun, gateVars
  <2>2. record'.version = record.version
    BY <1>0, <2>1 DEF ReqNamed, HoldsRecord
  <2>3. Before(req'[w].pc)
    BY <1>6, StepsOn DEF Before
  <2> QED  BY <1>b, <1>g, <2>1, <2>2, <2>3 DEF Named
<1>7. CASE LoadGates(w)
  <2>1. /\ Still /\ gates' = gates /\ r.pc = "load_gates"
        /\ gates[r.stage].status \in Executable
    BY <1>0, <1>7 DEF LoadGates, fileVars, gateVars, InStep, Executable
  <2>2. req'[w].pc = "save_running" /\ req'[w].stage = r.stage
    BY <1>7, <2>1, LoadGatesFields DEF GoesOn
  <2>3. ReqNamed(req[w])'
    BY <2>1, <2>2 DEF ReqNamed, BeforeWork, HoldsRecord
  <2> QED  BY <1>g, <1>s, <2>1, <2>3
<1>8. CASE SaveRunning(w)
  <2>1. Still /\ r.pc = "save_running" /\ Moved(r.stage, "ready", "running")
    BY <1>0, <1>8, StepMovesGates DEF SaveRunning, fileVars
  <2>2. req'[w].pc = "load_record" /\ req'[w].stage = r.stage
    BY <1>8, GotoFields DEF SaveRunning, GoesOn
  <2>3. ReqNamed(req[w])'
    BY <2>1, <2>2 DEF ReqNamed, BeforeWork, HoldsRecord
  <2>4. GatesNamed(gates)'
    BY <1>0, <2>1, GatesStayNamed DEF Live, Statuses
  <2> QED  BY <1>s, <2>1, <2>3, <2>4
<1>9. CASE LoadRecord(w)
  <2>1. Still /\ gates' = gates /\ r.pc = "load_record"
    BY <1>9 DEF LoadRecord, fileVars, gateVars
  <2>2. /\ req'[w].pc = "save_record" /\ req'[w].stage = r.stage
        /\ req'[w].record = [record EXCEPT !.status = "running"]
    BY <1>9, LoadRecordFields DEF GoesOn
  <2>3. req'[w].record.version = record'.version
    BY <1>0, <2>1, <2>2
  <2>4. ReqNamed(req[w])'
    BY <2>1, <2>2, <2>3 DEF ReqNamed, BeforeWork
  <2> QED  BY <1>g, <1>s, <2>1, <2>4
<1>10. CASE SaveRecord(w)
  <2>1. latest' = latest /\ gates' = gates /\ r.pc = "save_record" /\ record' = r.record
    BY <1>10 DEF SaveRecord, SaveRun, gateVars
  <2>2. req'[w].pc = "payload" /\ req'[w].stage = r.stage /\ req'[w].record = r.record
    BY <1>10, GotoFields DEF SaveRecord, GoesOn
  <2>3. record'.version = record.version
    BY <2>1 DEF ReqNamed, HoldsRecord
  <2>4. ReqNamed(req[w])'
    BY <2>1, <2>2 DEF ReqNamed, BeforeWork
  <2> QED  BY <1>g, <2>1, <2>3, <2>4 DEF Named
<1>11. CASE PayloadSucceeds(w) \/ PayloadFails(w)
  <2>1. /\ record' = record /\ gates' = gates /\ r.pc = "payload"
        /\ r.gates = gates /\ gates[r.stage].status = "running"
        /\ \/ latest' = latest
           \/ latest' = [latest EXCEPT ![r.stage] = r.gates[r.stage].version]
    BY <1>0, <1>11
    DEF PayloadSucceeds, PayloadFails, AppendArtifact, gateVars, InStep
  <2>2. PICK g \in Statuses, n \in RunStatuses : Become(w, Outcome(r, g, n))
    BY <1>11 DEF PayloadSucceeds, PayloadFails, RunStatuses, Statuses
  <2>3. /\ req'[w].pc = "save_outcome_gates"
        /\ req'[w].record = [r.record EXCEPT !.status = n]
    BY <2>2, OutcomeFields DEF GoesOn
  <2>4. req'[w].record.version = record'.version
    BY <1>0, <2>1, <2>3 DEF ReqNamed, HoldsRecord
  <2>5. ReqNamed(req[w])'
    BY <2>3, <2>4 DEF ReqNamed, BeforeWork
  <2>6. CASE r.stage = Advertisement
    <3>1. latest[Advertisement] = 0 /\ gates[Advertisement].version = 1
      BY <1>n, <2>1, <2>6 DEF ReqNamed, BeforeWork, GatesNamed, Live
    <3>2. latest'[Advertisement] \in {0, 1}
      BY <1>0, <1>n, <2>1, <2>6, <3>1
    <3>3. Named(record.version)'
      BY <2>1, <3>1, <3>2 DEF Named
    <3>4. \A t \in Stages : t # Advertisement => gates[t].status \notin Live \union Open
      BY <1>n, <2>1, <2>6 DEF GatesNamed, Live
    <3>5. GatesNamed(gates)'
      BY <1>n, <2>1, <3>1, <3>4 DEF GatesNamed
    <3> QED  BY <2>1, <2>5, <3>3, <3>5
  <2>7. CASE r.stage # Advertisement
    <3>1. latest'[Advertisement] = latest[Advertisement]
      BY <1>0, <1>n, <2>1, <2>7
    <3> QED  BY <2>1, <2>5, <3>1 DEF GatesNamed, Named
  <2> QED  BY <2>6, <2>7
<1>12. CASE SaveOutcomeGates(w)
  <2>1. /\ Still /\ r.pc = "save_outcome_gates"
        /\ r.gates[r.stage].status \in {"pending_review", "failed"}
        /\ Moved(r.stage, "running", r.gates[r.stage].status)
    BY <1>0, <1>12, StepMovesGates DEF SaveOutcomeGates, fileVars
  <2>2. req'[w].pc = "save_outcome_record" /\ req'[w].record = r.record
    BY <1>12, GotoFields DEF SaveOutcomeGates, GoesOn
  <2>3. ReqNamed(req[w])'
    BY <2>1, <2>2 DEF ReqNamed, BeforeWork, HoldsRecord
  <2>4. GatesNamed(gates)'
    BY <1>0, <2>1, GatesStayNamed DEF Live, Statuses
  <2> QED  BY <1>s, <2>1, <2>3, <2>4
<1>13. CASE SaveOutcomeRecord(w)
  <2>1. /\ latest' = latest /\ gates' = gates /\ r.pc = "save_outcome_record"
        /\ record' = r.record
    BY <1>13 DEF SaveOutcomeRecord, SaveRun, gateVars
  <2>2. record'.version = record.version
    BY <2>1 DEF ReqNamed, HoldsRecord
  <2>3. Before(req'[w].pc)
    BY <1>13, StepsOn DEF Before
  <2> QED  BY <1>b, <1>g, <2>1, <2>2, <2>3 DEF Named
<1> QED
  BY <1>1, <1>2, <1>3, <1>4, <1>5, <1>6, <1>7, <1>8, <1>9, <1>10, <1>11, <1>12, <1>13
  DEF Serve, Review, Execute

(* While nobody saves a record, a record that says absent is none.          *)
LEMMA RecordIsThere ==
  ASSUME NamesInv, Calm, record \in [status : RunStatuses, version : Versions],
         record # NoRecord, \A c \in Clerks : ~ Campaign!At(c, "save")
  PROVE  record.status # "absent"
<1> SUFFICES ASSUME record.status = "absent" PROVE FALSE
  OBVIOUS
<1>1. record.version = 1
  BY DEF NamesInv, Named
<1> QED  BY <1>1 DEF NoRecord

(* The gates that a page makes up are named like those it starts from.      *)
LEMMA PageNamed ==
  ASSUME NEW g \in Gates, NEW status \in RunStatuses, GatesNamed(g)
  PROVE  /\ GatesNamed(FreshGates) /\ GatesNamed(NoGates)
         /\ GatesNamed(SyncedGates(g, status))
<1> USE StageFacts
<1>0. \A s \in Stages : g[s] \in [status : Statuses, version : Versions]
  BY DEF Gates
<1>1. GatesNamed(NoGates)
  BY DEF GatesNamed, NoGates, Live, Open
<1>2. GatesNamed(FreshGates)
  <2>1. \A s \in Stages : FreshGates[s].status \in {"locked", "approved"}
    BY SetStatusIs, InitialTypes DEF FreshGates, NoGates
  <2> QED  BY <2>1 DEF GatesNamed, Live, Open
<1>3. CASE status \in {"waiting_review", "revision_required"}
  <2> DEFINE h == [s \in Stages |-> [g[s] EXCEPT !.status =
                     IF s < PublishReview THEN "approved"
                     ELSE IF s = PublishReview THEN "pending_review" ELSE "locked"]]
  <2>1. SyncedGates(g, status) = h  BY <1>3 DEF SyncedGates
  <2>2. \A s \in Stages : h[s].status = IF s < PublishReview THEN "approved"
                                        ELSE IF s = PublishReview THEN "pending_review"
                                        ELSE "locked"
    BY <1>0
  <2> HIDE DEF h
  <2>3. GatesNamed(h)  BY <2>2 DEF GatesNamed, Live, Open
  <2> QED  BY <1>1, <1>2, <2>1, <2>3
<1>4. CASE status \in {"optimized", "analyzed", "published", "approved"}
  <2> DEFINE h == [s \in Stages |-> [g[s] EXCEPT !.status = "approved"]]
  <2>1. SyncedGates(g, status) = h  BY <1>4 DEF SyncedGates
  <2>2. \A s \in Stages : h[s].status = "approved"
    BY <1>0
  <2> HIDE DEF h
  <2>3. GatesNamed(h)  BY <2>2 DEF GatesNamed, Live, Open
  <2> QED  BY <1>1, <1>2, <2>1, <2>3
<1>5. CASE status \in {"failed", "human_handoff"}
  <2> DEFINE h == SetStatus(g, Research, "failed")
  <2>1. SyncedGates(g, status) = h  BY <1>5 DEF SyncedGates
  <2>2. h[Research].status = "failed" /\ \A s \in Stages \ {Research} : h[s] = g[s]
    BY SetStatusIs
  <2> HIDE DEF h
  <2>3. GatesNamed(h)  BY <2>2 DEF GatesNamed, Live, Open
  <2> QED  BY <1>1, <1>2, <2>1, <2>3
<1>6. CASE status \in {"absent", "pending", "running"}
  <2>1. SyncedGates(g, status) = g  BY <1>6 DEF SyncedGates
  <2> QED  BY <1>1, <1>2, <2>1
<1> QED  BY <1>3, <1>4, <1>5, <1>6 DEF RunStatuses

(* What a request without stages writes back or carries names the newest    *)
(* payload.                                                                 *)
LEMMA NamesClerk ==
  ASSUME ServiceTypeInv, RuntimeInv, ReleaseInv, NamesInv, [ServiceNext]_serviceVars,
         NEW c \in Clerks, CampaignRequest(c), Calm'
  PROVE  NamesInv'
<1> DEFINE t == task[c]
           First == gates = NoGates /\ record'.version = 1
<1>0. /\ OneByOne /\ Calm /\ page = NoPage /\ page' = page /\ gates' = gates
      /\ \A w \in Workers : req[w].pc = "idle" /\ req'[w].pc = "idle"
      /\ \A d \in Clerks \ {c} : task[d].pc = "idle" /\ task'[d] = task[d]
      /\ Campaign!Admit(c) => Campaign!AllIdle
      /\ Campaign!Admit(c) \/ Campaign!Serve(c)
  <2>1. OneByOne => ServedAlone  BY DEF ReleaseInv
  <2>2. /\ OneByOne
        /\ \A w \in Workers : At(w, "idle") /\ req'[w] = req[w]
        /\ \A d \in Clerks \ {c} : Campaign!At(d, "idle") /\ task'[d] = task[d]
        /\ Campaign!Admit(c) => Campaign!AllIdle
    BY <2>1, ClerkAlone DEF Calm
  <2>3. /\ page' = page /\ gates' = gates /\ crashes' = crashes /\ failures' = failures
        /\ Campaign!Admit(c) \/ Campaign!Serve(c)
    <3>1. failures' = 0 /\ failures \in Nat
      BY DEF Calm, NothingCutShort, ServiceTypeInv, TypeInv, TypeOK
    <3> QED  BY <3>1, ClerkFrame
  <2>4. page = NoPage
    <3>1. runtime  BY Serving DEF CampaignRequest, RuntimeInv
    <3> QED  BY <3>1 DEF RuntimeInv
  <2> QED  BY <2>2, <2>3, <2>4 DEF At, Campaign!At, Calm, NothingCutShort
<1>1. /\ CopiesInStep /\ GatesNamed(gates) /\ TaskNamed(t) /\ TaskPublishes(t)
      /\ (t.pc # "save" => Named(record.version))
      /\ record \in [status : RunStatuses, version : Versions]
      /\ t.record \in [status : RunStatuses, version : Versions] /\ TaskOK(t)
      /\ latest \in [Producing -> Nat] /\ Advertisement \in Producing
      /\ t.payload \in Nat
  <2>1. (\A d \in Clerks : ~ Campaign!At(d, "save")) => Named(record.version)
    BY <1>0 DEF NamesInv
  <2>2. t.pc # "save" => Named(record.version)
    BY <1>0, <2>1 DEF Campaign!At
  <2> QED
    BY <1>0, <2>2, TaskFields, StageFacts
    DEF NamesInv, ReleaseInv, ServiceTypeInv, TypeInv, TypeOK, FilesTypeOK
<1>2. ASSUME NEW pc, NEW after, NEW payload, NEW status, NEW version,
             Carries(c, pc, after, payload, status, version),
             pc # "idle" => version = IF latest'[Advertisement] = 0 THEN 1
                                      ELSE latest'[Advertisement],
             pc = "produce" \/ (pc = "save" /\ after = "produce") => First /\ version = 1,
             pc # "save" => Named(record.version)',
             record'.status # "absent",
             \/ latest'[Advertisement] = latest[Advertisement]
             \/ gates = NoGates \/ latest[Advertisement] # 0
      PROVE  NamesInv'
  <2>1. /\ task'[c].pc = pc /\ task'[c].after = after
        /\ task'[c].record.version = version
    BY <1>2 DEF Carries
  <2>2. TaskNamed(task[c])'
    BY <1>0, <1>2, <2>1 DEF TaskNamed, Running, Named
  <2>3. \A d \in Clerks \ {c} : TaskNamed(task[d])'
    BY <1>0 DEF TaskNamed, Running
  <2>4. GatesNamed(gates)'
    <3>1. CASE latest'[Advertisement] = latest[Advertisement]
      BY <1>0, <1>1, <3>1 DEF GatesNamed
    <3>2. CASE gates = NoGates
      BY <1>0, <3>2, StageFacts DEF GatesNamed, NoGates, Live, Open
    <3>3. CASE latest[Advertisement] # 0
      BY <1>0, <1>1, <3>3 DEF GatesNamed
    <3> QED  BY <1>2, <3>1, <3>2, <3>3
  <2>5. GatesNamed(page.gates)'
    <3>1. page'.gates = NoGates  BY <1>0 DEF NoPage
    <3> QED  BY <3>1, StageFacts DEF GatesNamed, NoGates, Live, Open
  <2>6. CopiesInStep'
    <3>1. gates'[Input].status \in {"locked", "approved"}
      BY <1>0, <1>1 DEF CopiesInStep
    <3> QED  BY <1>0, <1>2, <3>1, CopiesIdle
  <2>7. \A w \in Workers : ReqNamed(req[w])'
    BY <1>0 DEF ReqNamed, BeforeWork, HoldsRecord
  <2>8. (\A d \in Clerks : ~ Campaign!At(d, "save"))' => Named(record.version)'
    BY <1>2, <2>1 DEF Campaign!At
  <2>9. page' = NoPage  BY <1>0
  <2>10. (page # NoPage => record.status # "absent")'
    BY <1>2
  <2> QED
    BY <1>2, <2>2, <2>3, <2>4, <2>5, <2>6, <2>7, <2>8, <2>10 DEF NamesInv
<1>3. ASSUME NEW pc, NEW after, NEW payload, NEW status, NEW version,
             Carries(c, pc, after, payload, status, version),
             pc # "produce", pc = "save" => after # "produce",
             latest'[Advertisement] = latest[Advertisement],
             record' = record, record.status # "absent",
             pc # "idle" => Named(version), t.pc # "save"
      PROVE  NamesInv'
  <2>1. Named(record.version)'
    BY <1>1, <1>3 DEF Named
  <2> QED  BY <1>2, <1>3, <2>1 DEF Named
<1>r. t.pc # "idle" => Named(t.record.version) /\ record.status # "absent"
  BY <1>1 DEF TaskNamed
<1>i. NoRecord.version = 1 /\ NoRecord.status = "absent"
  BY NoTask
<1> HIDE DEF First
<1>4. ASSUME Campaign!NewRun(c) PROVE NamesInv'
  <2>1. /\ record = NoRecord /\ record' = [status |-> "pending", version |-> 1]
        /\ Carries(c, "save", "produce", 0, "running", 1)
        /\ latest' = latest
    BY <1>4, RunSteps
  <2>2. record.status = "absent" => latest[Advertisement] = 0 /\ gates = NoGates
    BY <1>0, <1>1 DEF NamesInv, CopiesInStep, NothingBefore
  <2>3. record'.version = 1 /\ record'.status = "pending"
    BY <2>1
  <2> QED  BY <1>2, <1>i, <2>1, <2>2, <2>3 DEF First
<1>5. ASSUME NEW d \in {"approved", "rejected"}, Campaign!BeginDecision(c, d)
      PROVE  NamesInv'
  <2>1. /\ t.pc = "idle" /\ record # NoRecord
        /\ Carries(c, "load_payload", "idle", 0, record.status, record.version)
        /\ UNCHANGED <<record, latest>>
    BY <1>5, DecisionSteps
  <2>2. \A e \in Clerks : ~ Campaign!At(e, "save")
    BY <1>0, <2>1 DEF Campaign!At
  <2>3. record.status # "absent"
    BY <1>0, <1>1, <2>1, <2>2, RecordIsThere
  <2>4. Named(record.version)
    BY <1>1, <2>1
  <2> QED  BY <1>3, <2>1, <2>3, <2>4
<1>6. ASSUME Campaign!SaveStatus(c) PROVE NamesInv'
  <2>1. /\ t.pc = "save" /\ record' = t.record /\ latest' = latest
        /\ \/ Carries(c, "idle", "idle", 0, "absent", 1)
           \/ /\ t.after # "idle" /\ t.after # "save"
              /\ Carries(c, t.after, t.after, t.payload, t.record.status,
                         t.record.version)
    BY <1>6, RunSteps
  <2>2. record'.status # "absent"
    BY <1>1, <2>1 DEF TaskOK
  <2>3. /\ Named(record.version)'
        /\ t.record.version = IF latest'[Advertisement] = 0 THEN 1
                              ELSE latest'[Advertisement]
    BY <1>r, <2>1 DEF Named
  <2>4. t.after = "produce" => First /\ t.record.version = 1
    BY <1>1, <2>1 DEF TaskNamed, Running, First
  <2>5. CASE Carries(c, "idle", "idle", 0, "absent", 1)
    BY <1>2, <2>1, <2>2, <2>3, <2>5
  <2>6. CASE /\ t.after # "idle" /\ t.after # "save"
             /\ Carries(c, t.after, t.after, t.payload, t.record.status, t.record.version)
    BY <1>2, <2>1, <2>2, <2>3, <2>4, <2>6
  <2> QED  BY <2>1, <2>5, <2>6
<1>7. ASSUME Campaign!ArtifactMade(c) PROVE NamesInv'
  <2>1. /\ t.pc = "produce" /\ record' = record
        /\ \E kind \in Producing : latest' = [latest EXCEPT ![kind] = 1]
        /\ Carries(c, "produce", t.after, t.payload, t.record.status, t.record.version)
    BY <1>7, RunSteps
  <2>2. /\ gates = NoGates /\ record.version = 1 /\ t.record.version = 1
        /\ record.status # "absent" /\ Named(1)
    BY <1>1, <2>1 DEF TaskNamed, Running
  <2>3. latest'[Advertisement] = 1 \/ latest'[Advertisement] = latest[Advertisement]
    BY <1>1, <2>1
  <2>4. 1 = (IF latest'[Advertisement] = 0 THEN 1 ELSE latest'[Advertisement])
    BY <2>2, <2>3 DEF Named
  <2>5. Named(record.version)'
    BY <2>1, <2>2, <2>4 DEF Named
  <2> QED  BY <1>2, <2>1, <2>2, <2>4, <2>5 DEF First
<1>8. ASSUME NEW passed \in BOOLEAN, Campaign!ComplianceReported(c, passed)
      PROVE  NamesInv'
  <2>1. PICK status \in {"waiting_review", "revision_required"} :
          /\ t.pc = "produce" /\ record' = record
          /\ latest' = [latest EXCEPT ![Compliance] = 1]
          /\ Carries(c, "save", "idle", t.payload, status, t.record.version)
    BY <1>8, RunSteps
  <2>2. latest'[Advertisement] = latest[Advertisement]
    BY <1>1, <2>1, PlanFacts
  <2> QED  BY <1>3, <1>r, <2>1, <2>2
<1>9. ASSUME NEW retryable \in BOOLEAN, Campaign!RunFails(c, retryable)
      PROVE  NamesInv'
  <2>1. PICK status \in {"human_handoff", "failed"} :
          /\ t.pc = "produce" /\ UNCHANGED <<record, latest>>
          /\ Carries(c, "save", "idle", t.payload, status, t.record.version)
    BY <1>9, RunSteps
  <2> QED  BY <1>3, <1>r, <2>1
<1>10. ASSUME Campaign!LoadPayload(c) PROVE NamesInv'
  <2>1. /\ t.pc = "load_payload" /\ UNCHANGED <<record, latest>>
        /\ \/ Carries(c, "idle", "idle", 0, "absent", 1)
           \/ Carries(c, "decide", t.after, latest[Advertisement],
                      t.record.status, t.record.version)
    BY <1>10, DecisionSteps
  <2> QED  BY <1>3, <1>r, <2>1
<1>11. ASSUME Campaign!DecideTask(c) PROVE NamesInv'
  <2>1. /\ t.pc = "decide" /\ UNCHANGED <<record, latest>>
        /\ \/ Carries(c, "save", "check_approval", t.payload, "approved", t.record.version)
           \/ Carries(c, "revise", t.after, t.payload, t.record.status, t.record.version)
    BY <1>11, DecisionSteps
  <2> QED  BY <1>3, <1>r, <2>1
<1>12. ASSUME Campaign!CheckApproval(c) PROVE NamesInv'
  <2>1. /\ t.pc = "check_approval" /\ UNCHANGED <<record, latest>>
        /\ \/ Carries(c, "idle", "idle", 0, "absent", 1)
           \/ Carries(c, "check_key", t.after, t.payload, t.record.status,
                      t.record.version)
           \/ Carries(c, "save", "idle", t.payload, "human_handoff", t.record.version)
    BY <1>12, PublicationSteps
  <2> QED  BY <1>3, <1>r, <2>1
<1>13. ASSUME Campaign!CheckKey(c) PROVE NamesInv'
  <2>1. /\ t.pc = "check_key" /\ UNCHANGED <<record, latest>>
        /\ \/ Carries(c, "idle", "idle", 0, "absent", 1)
           \/ Carries(c, "record_publication", t.after, t.payload, t.record.status,
                      t.record.version)
    BY <1>13, PublicationSteps
  <2> QED  BY <1>3, <1>r, <2>1
<1>14. ASSUME Campaign!RecordPublication(c) PROVE NamesInv'
  <2>1. /\ t.pc = "record_publication" /\ UNCHANGED <<record, latest>>
        /\ Carries(c, "save", "analytics", t.payload, "published", t.record.version)
    BY <1>14, PublicationSteps
  <2> QED  BY <1>3, <1>r, <2>1
<1>15. ASSUME Campaign!Analyze(c) PROVE NamesInv'
  <2>1. /\ t.pc = "analytics" /\ record' = record
        /\ latest' = latest \/ latest' = [latest EXCEPT ![Analytics] = 1]
        /\ \/ Carries(c, "save", "optimization", t.payload, "analyzed", t.record.version)
           \/ Carries(c, "idle", "idle", 0, "absent", 1)
           \/ Carries(c, "save", "idle", t.payload, "human_handoff", t.record.version)
    BY <1>15, PublicationSteps
  <2>2. latest'[Advertisement] = latest[Advertisement]
    BY <1>1, <2>1, PlanFacts
  <2> QED  BY <1>3, <1>r, <2>1, <2>2
<1>16. ASSUME Campaign!Optimize(c) PROVE NamesInv'
  <2>1. /\ t.pc = "optimization" /\ record' = record
        /\ latest' = latest \/ latest' = [latest EXCEPT ![Optimization] = 1]
        /\ \/ Carries(c, "save", "idle", t.payload, "optimized", t.record.version)
           \/ Carries(c, "idle", "idle", 0, "absent", 1)
    BY <1>16, PublicationSteps
  <2>2. latest'[Advertisement] = latest[Advertisement]
    BY <1>1, <2>1, PlanFacts
  <2> QED  BY <1>3, <1>r, <2>1, <2>2
<1>17. ASSUME Campaign!Revise(c) PROVE NamesInv'
  <2>1. /\ t.pc = "revise" /\ record' = record
        /\ latest' = [latest EXCEPT ![Advertisement] = t.payload + 1]
        /\ Carries(c, "save", "idle", t.payload, "revision_required", t.payload + 1)
    BY <1>17, DecisionSteps
  <2>2. latest[Advertisement] # 0
    BY <1>1, <2>1 DEF TaskPublishes, Deciding, IsNewest
  <2>3. latest'[Advertisement] = t.payload + 1 /\ t.payload + 1 # 0
    BY <1>1, <2>1
  <2>4. record'.status # "absent"
    BY <1>r, <2>1
  <2> QED  BY <1>2, <2>1, <2>2, <2>3, <2>4
<1> QED
  BY <1>0, <1>4, <1>5, <1>6, <1>7, <1>8, <1>9, <1>10, <1>11, <1>12, <1>13, <1>14, <1>15,
     <1>16, <1>17
  DEF Campaign!Admit, Campaign!Serve

(* A stage request leaves all of it as it should be.                        *)
LEMMA NamesStage ==
  ASSUME ServiceTypeInv, RuntimeInv, ReleaseInv, NamesInv, NEW w \in Workers,
         StageRequest(w), Calm'
  PROVE  NamesInv'
<1>0. /\ OneByOne /\ Calm /\ page = NoPage /\ page' = page
      /\ \A v \in Workers \ {w} : req[v].pc = "idle" /\ req'[v] = req[v]
      /\ \A c \in Clerks : task[c].pc = "idle" /\ task'[c].pc = "idle"
      /\ Admit(w) => AllIdle
      /\ Admit(w) \/ Serve(w)
  <2>1. OneByOne => ServedAlone  BY DEF ReleaseInv
  <2>2. /\ OneByOne
        /\ \A v \in Workers \ {w} : At(v, "idle") /\ req'[v] = req[v]
        /\ \A c \in Clerks : Campaign!At(c, "idle") /\ task'[c] = task[c]
        /\ Admit(w) => AllIdle
    BY <2>1, StageAlone DEF Calm
  <2>3. /\ page' = page /\ crashes' = crashes /\ failures' = failures
        /\ Admit(w) \/ Serve(w)
    <3>1. ~AccessRaises(w)
      BY DEF AccessRaises, CountFailure, Calm, NothingCutShort, ServiceTypeInv, TypeInv, TypeOK
    <3> QED  BY <3>1, Frames DEF StageRequest, processVars, Admit, StartRun, BeginReview
  <2>4. page = NoPage
    <3>1. runtime  BY Serving DEF StageRequest, RuntimeInv
    <3> QED  BY <3>1 DEF RuntimeInv
  <2> QED  BY <2>2, <2>3, <2>4 DEF At, Campaign!At, Calm, NothingCutShort
<1>1. /\ TypeInv /\ CopiesInStep /\ GatesNamed(gates) /\ ReqNamed(req[w])
      /\ Named(record.version)
      /\ record.status = "absent" => latest[Advertisement] = 0
  BY <1>0 DEF NamesInv, ServiceTypeInv, Campaign!At
<1>2. CopiesInStep' /\ record'.status # "absent"
  BY <1>0, <1>1, CopiesAdmit, CopiesServe
<1>3. GatesNamed(gates)' /\ ReqNamed(req[w])' /\ Named(record.version)'
  <2>1. CASE Serve(w)
    BY <1>1, <2>1, NamesServe
  <2>2. CASE StartRun(w)
    <3>1. record = NoRecord /\ record' = NewRecord /\ UNCHANGED <<latest, gates>>
      BY <2>2 DEF StartRun, SaveRun, gateVars
    <3>2. latest[Advertisement] = 0 /\ record'.version = record.version
      BY <1>1, <3>1, NoTask
    <3>3. req'[w].pc = "create_gates"
      BY <1>1, <2>2, StartFields
    <3> QED
      BY <1>1, <3>1, <3>2, <3>3 DEF GatesNamed, ReqNamed, BeforeWork, HoldsRecord, Named
  <2>3. ASSUME NEW s \in Stages, NEW d \in {"approved", "rejected"}, BeginReview(w, s, d)
        PROVE  GatesNamed(gates)' /\ ReqNamed(req[w])' /\ Named(record.version)'
    <3>1. UNCHANGED <<record, latest, gates>>
      BY <2>3 DEF BeginReview, fileVars, gateVars
    <3>2. req'[w].pc = "read_log"
      BY <1>1, <2>3, BeginReviewFields
    <3> QED  BY <1>1, <3>1, <3>2 DEF GatesNamed, ReqNamed, BeforeWork, HoldsRecord, Named
  <2> QED  BY <1>0, <2>1, <2>2, <2>3 DEF Admit
<1>4. \A v \in Workers : ReqNamed(req[v])'
  BY <1>0, <1>3 DEF ReqNamed, BeforeWork, HoldsRecord
<1>5. \A c \in Clerks : TaskNamed(task[c])'
  BY <1>0 DEF TaskNamed, Running
<1>6. GatesNamed(page.gates)'
  <2>1. page'.gates = NoGates  BY <1>0 DEF NoPage
  <2> QED  BY <2>1, StageFacts DEF GatesNamed, NoGates, Live, Open
<1>7. (page # NoPage => record.status # "absent")'
  BY <1>2
<1> QED  BY <1>2, <1>3, <1>4, <1>5, <1>6, <1>7 DEF NamesInv

(* So does a page.                                                          *)
LEMMA NamesPage ==
  ASSUME ServiceTypeInv, RuntimeInv, NamesInv, OpenPage \/ ServePage, Calm'
  PROVE  NamesInv'
<1>0. /\ page \in Pages /\ gates \in Gates /\ page.gates \in Gates
      /\ page.status \in RunStatuses
      /\ record \in [status : RunStatuses, version : Versions]
      /\ UNCHANGED <<record, latest, req, overlaps, crashes, failures, task, mixed>>
      /\ ~runtime
  <2>1. page \in Pages /\ gates \in Gates
    BY DEF ServiceTypeInv, TypeInv, TypeOK
  <2>2. page.gates \in Gates /\ page.status \in RunStatuses
    BY <2>1 DEF Pages
  <2>3. ~runtime
    BY <2>1, PageSteps DEF ServePage, RuntimeInv
  <2>4. UNCHANGED <<record, latest, req, overlaps, crashes, failures, task, mixed>>
    BY <2>1, PageSteps
  <2> QED
    BY <2>1, <2>2, <2>3, <2>4 DEF ServiceTypeInv, TypeInv, TypeOK, FilesTypeOK
<1>1. /\ Calm
      /\ \A w \in Workers : req[w].pc = "idle"
      /\ \A c \in Clerks : task[c].pc = "idle"
  BY <1>0 DEF Calm, NothingCutShort, OneByOne, RuntimeInv, AllIdle, At, Campaign!AllIdle, Campaign!At
<1>2. GatesNamed(gates) /\ GatesNamed(page.gates) /\ Named(record.version)
  BY <1>1 DEF NamesInv, Campaign!At
<1>3. record.status # "absent"
  <2>1. OpenPage => record # NoRecord
    BY <1>0, PageSteps
  <2>2. ServePage => page # NoPage
    BY <1>0, PageSteps DEF ServePage
  <2>3. \A c \in Clerks : ~ Campaign!At(c, "save")
    BY <1>1 DEF Campaign!At
  <2> QED  BY <1>0, <1>1, <2>1, <2>2, <2>3, RecordIsThere DEF NamesInv
<1>4. /\ GatesNamed(FreshGates) /\ GatesNamed(NoGates)
      /\ GatesNamed(SyncedGates(page.gates, page.status))
  BY <1>0, <1>2, PageNamed
<1>5. GatesNamed(gates')
  BY <1>0, <1>2, <1>4, PageSteps DEF ServePage
<1>6. GatesNamed(page'.gates)
  <2>1. NoPage.gates = NoGates  BY DEF NoPage
  <2> QED  BY <1>0, <1>4, <1>5, <2>1, PageSteps DEF ServePage
<1>7. GatesNamed(gates)' /\ GatesNamed(page.gates)'
  BY <1>0, <1>5, <1>6 DEF GatesNamed
<1>8. CopiesInStep'
  <2>1. gates'[Input].status \in {"locked", "approved"}
    BY <1>5 DEF GatesNamed
  <2> QED  BY <1>0, <1>1, <1>3, <2>1, CopiesIdle
<1>9. \A w \in Workers : ReqNamed(req[w])'
  BY <1>0, <1>1 DEF ReqNamed, BeforeWork, HoldsRecord
<1>10. \A c \in Clerks : TaskNamed(task[c])'
  BY <1>0, <1>1 DEF TaskNamed, Running
<1>11. Named(record.version)' /\ record'.status # "absent"
  BY <1>0, <1>2, <1>3 DEF Named
<1> QED  BY <1>7, <1>8, <1>9, <1>10, <1>11 DEF NamesInv

(* Every step of the service does.                                          *)
LEMMA NamesStep ==
  ASSUME ServiceTypeInv, RuntimeInv, ReleaseInv, NamesInv, [ServiceNext]_serviceVars
  PROVE  NamesInv'
<1> SUFFICES ASSUME Calm' PROVE NamesInv'
  BY DEF NamesInv
<1>0. crashes \in Nat
  BY DEF ServiceTypeInv, TypeInv, TypeOK
<1>1. CASE Restart
  <2>1. crashes' = crashes + 1  BY <1>1, ProcessSteps
  <2>2. crashes' = 0  BY DEF Calm, NothingCutShort
  <2> QED  BY <1>0, <2>1, <2>2
<1>2. CASE Outage \/ Recovery \/ UNCHANGED serviceVars
  <2>1. UNCHANGED <<record, latest, gates, req, overlaps, crashes, failures, task, mixed,
                    page>>
    BY <1>2, ProcessSteps DEF serviceVars, vars, fileVars, gateVars, counters
  <2>2. Calm  BY <2>1 DEF Calm, NothingCutShort, OneByOne
  <2>3. CopiesInStep'
    BY <2>1, <2>2
    DEF NamesInv, CopiesInStep, OneAtATime, NothingBefore, AllIdle, At, InStep, RecordShown
  <2>4. /\ GatesNamed(gates)' /\ GatesNamed(page.gates)'
        /\ \A w \in Workers : ReqNamed(req[w])'
        /\ \A c \in Clerks : TaskNamed(task[c])'
    BY <2>1, <2>2 DEF NamesInv, GatesNamed, ReqNamed, TaskNamed, Named
  <2>5. (\A c \in Clerks : ~ Campaign!At(c, "save"))' => Named(record.version)'
    BY <2>1, <2>2 DEF NamesInv, Named, Campaign!At
  <2>6. /\ record'.status = "absent" => latest'[Advertisement] = 0
        /\ page' # NoPage => record'.status # "absent"
    BY <2>1, <2>2 DEF NamesInv
  <2>7. (page # NoPage)' => page' # NoPage
    BY DEF NoPage
  <2> QED  BY <2>3, <2>4, <2>5, <2>6, <2>7 DEF NamesInv
<1> QED  BY <1>1, <1>2, NamesStage, NamesClerk, NamesPage DEF ServiceNext

(* In a service that starts, the record and the payloads agree. *)
LEMMA NamesInit == ServiceInit => NamesInv
<1> SUFFICES ASSUME ServiceInit PROVE NamesInv
  OBVIOUS
<1>1. /\ record = NoRecord /\ latest[Advertisement] = 0 /\ overlaps = 0
      /\ gates = NoGates /\ page = NoPage /\ page.gates = NoGates
      /\ \A w \in Workers : req[w].pc = "idle"
      /\ \A c \in Clerks : task[c].pc = "idle"
  BY NoTask, StageFacts
  DEF ServiceInit, Init, FilesInit, IdleRequest, Campaign!Init, NoPage
<1>2. CopiesInStep
  BY <1>1, SyncInit DEF SyncInv, ServiceInit
<1>3. GatesNamed(NoGates)
  BY StageFacts DEF GatesNamed, NoGates, Live, Open
<1>4. Named(record.version)
  BY <1>1, NoTask DEF Named
<1> QED
  BY <1>1, <1>2, <1>3, <1>4
  DEF NamesInv, ReqNamed, BeforeWork, HoldsRecord, TaskNamed, Running

-----------------------------------------------------------------------------
(* All of it together.                                                       *)
ServiceInv == ServiceTypeInv /\ RuntimeInv /\ CompletedInv /\ ReleaseInv /\ NamesInv

(* The invariant holds in every state of the service. *)
LEMMA ServiceInvariant == ServiceSpec => []ServiceInv
<1>1. ServiceInit => ServiceInv
  <2>1. ServiceInit => RuntimeInv
    BY DEF ServiceInit, RuntimeInv
  <2> QED
    BY <2>1, ServiceTypeInit, CompletedInit, ReleaseInit, NamesInit DEF ServiceInv
<1>2. ServiceInv /\ [ServiceNext]_serviceVars => ServiceInv'
  BY ServiceTypeStep, RuntimeStep, CompletedStep, ReleaseStep, NamesStep DEF ServiceInv
<1> QED  BY <1>1, <1>2, PTL DEF ServiceSpec

(* The files, requests and tasks of the whole service have their types, for *)
(* any number of threads, overlapping requests, crashes and outages.        *)
THEOREM ServiceTypeCorrect == ServiceSpec => []ServiceTypeOK
<1>1. ServiceInv => ServiceTypeOK
  BY DEF ServiceInv, ServiceTypeInv, TypeInv, ServiceTypeOK
<1> QED  BY <1>1, ServiceInvariant, PTL

(* A run that says it is published, analysed or optimized was published,    *)
(* and an optimized one has its report and its brief, in every interleaving *)
(* of requests of both workflows, crashes and outages.                      *)
THEOREM CompletedWasPublished == ServiceSpec => []CompletedRunPublished
<1>1. ServiceInv => CompletedRunPublished
  BY DEF ServiceInv, CompletedInv, Completed, CompletedRunPublished
<1> QED  BY <1>1, ServiceInvariant, PTL

(* While clients wait, a process publishes the run once, whichever of the   *)
(* two workflows it is asked through.                                       *)
THEOREM ReleasedOnceBothWays == ServiceSpec => []OneReleaseBothWays
<1>1. ServiceInv => OneReleaseBothWays
  <2> SUFFICES ASSUME ServiceInv, OneByOne
               PROVE  Len(released) <= crashes + outages + 1
    BY DEF OneReleaseBothWays
  <2>1. /\ Len(released) <= IF published = 0 THEN Lives ELSE Lives + 1
        /\ crashes \in Nat /\ outages \in Nat /\ released \in Seq(Nat)
    BY DEF ServiceInv, ReleaseInv, ServiceTypeInv, TypeInv, TypeOK, FilesTypeOK
  <2>2. Len(released) \in Nat  BY <2>1
  <2> QED  BY <2>1, <2>2 DEF Lives
<1> QED  BY <1>1, ServiceInvariant, PTL

(* While clients wait and no request was cut short, the record names the    *)
(* newest payload between requests.                                         *)
THEOREM RecordsNamePayloads == ServiceSpec => []RecordNamesPayload
<1>1. ServiceInv => RecordNamesPayload
  <2> SUFFICES ASSUME ServiceInv, OneByOne, NothingCutShort, Campaign!AllIdle,
                      latest[Advertisement] # 0
               PROVE  record.version = latest[Advertisement]
    BY DEF RecordNamesPayload
  <2>1. \A c \in Clerks : ~ Campaign!At(c, "save")
    BY DEF Campaign!AllIdle, Campaign!At
  <2> QED  BY <2>1 DEF ServiceInv, NamesInv, Calm, Named
<1> QED  BY <1>1, ServiceInvariant, PTL

(* While clients wait, every step that publishes publishes the newest       *)
(* payload, under an approval that is the last decision on file.            *)
THEOREM PublicationsCovered == ServiceSpec => PublicationCovered
<1>1. ServiceInv /\ [ServiceNext]_serviceVars =>
        [OneByOne /\ released' # released =>
           LET version == released'[Len(released')] IN
           /\ version = latest[Advertisement]
           /\ lastDecision = [decision |-> "approved", version |-> version]]_serviceVars
  BY ReleasesCovered DEF ServiceInv, IsNewest, Approved
<1> QED  BY <1>1, ServiceInvariant, PTL DEF ServiceSpec, PublicationCovered
=============================================================================
