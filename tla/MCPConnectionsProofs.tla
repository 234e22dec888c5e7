------------------------ MODULE MCPConnectionsProofs ------------------------
(***************************************************************************)
(* What the circuit and the status of an MCP server mean while calls do    *)
(* not overlap, whatever the retry budget, the threshold and the number of *)
(* tasks and calls.                                                        *)
(***************************************************************************)
EXTENDS MCPConnections, TLAPS

(* A task enters a toolkit that was built, and waits for a retry only while *)
(* its budget allows one.                                                   *)
TaskOK(t) ==
  /\ Waiting(t, "enter") => task[t].toolkit # None
  /\ Waiting(t, "delay") => MayRetry(task[t].attempt)

TypeInv ==
  /\ TypeOK /\ overlaps \in Nat /\ interruptions \in Nat
  /\ \A t \in Tasks : TaskOK(t)

Connecting == {"enter", "close_failed", "delay"}

(* Calls that do not overlap: all tasks but one are at rest. *)
SerialInv ==
  overlaps = 0 =>
    \A t, u \in Tasks : t = u \/ Waiting(t, "nothing") \/ Waiting(u, "nothing")

(* An open circuit was opened by failures, and no attempt is under way. *)
CircuitInv ==
  circuitOpen /\ overlaps = 0 =>
    failures >= Threshold /\ \A t \in Tasks : task[t].waits \notin Connecting

(* The toolkit a task waits for is that of the state, which is the only one *)
(* that can be connected; a retry that is delayed has dropped it.           *)
Holds(t) ==
  /\ task[t].waits \in {"enter", "close_failed", "close"} => task[t].toolkit = toolkit
  /\ Waiting(t, "delay") => toolkit = None
  /\ Waiting(t, "close_failed") => status = "unhealthy"

ToolkitInv ==
  Undisturbed => entered \subseteq {toolkit} /\ \A t \in Tasks : Holds(t)

(* What the status of a server at rest tells. *)
RestInv ==
  Undisturbed /\ Idle =>
    /\ status = "healthy" => toolkit \in entered
    /\ status = "unhealthy" => failures < Threshold

ConnectionInv == TypeInv /\ SerialInv /\ CircuitInv /\ ToolkitInv /\ RestInv

-----------------------------------------------------------------------------
(* What a step leaves of the tasks.                                          *)

(* An attempt builds a toolkit if the state refers to none.                 *)
LEMMA AttemptTypes ==
  ASSUME TypeInv, NEW t \in Tasks, NEW n \in 0 .. RetryBudget,
         NEW current \in Toolkits \union {None}, BeginAttempt(t, n, current)
  PROVE  /\ built' \in Nat /\ Toolkits \subseteq Toolkits'
         /\ toolkit' \in Toolkits'
         /\ task' \in [Tasks -> [waits : Waits, attempt : 0 .. RetryBudget,
                                 toolkit : Toolkits' \union {None}]]
<1>1. built' \in Nat /\ built' >= built /\ toolkit' \in Toolkits'
  BY DEF TypeInv, TypeOK, BeginAttempt, Toolkits, None
<1>2. Toolkits \subseteq Toolkits'
  BY <1>1 DEF TypeInv, TypeOK, Toolkits
<1>3. [waits |-> "enter", attempt |-> n, toolkit |-> toolkit'] \in
        [waits : Waits, attempt : 0 .. RetryBudget, toolkit : Toolkits' \union {None}]
  BY <1>1 DEF Waits
<1> QED
  BY <1>1, <1>2, <1>3 DEF TypeInv, TypeOK, BeginAttempt

(* The task of an attempt waits for the toolkit the state now refers to.    *)
LEMMA AttemptTask ==
  ASSUME TypeInv, NEW t \in Tasks, NEW n, NEW current, BeginAttempt(t, n, current)
  PROVE  /\ task'[t].waits = "enter" /\ task'[t].toolkit = toolkit'
         /\ toolkit' = IF current = None THEN built + 1 ELSE current
         /\ \A u \in Tasks \ {t} : task'[u] = task[u]
  BY DEF TypeInv, TypeOK, BeginAttempt

(* A call that returns leaves its task at rest.                             *)
LEMMA ReturnTask ==
  ASSUME TypeInv, NEW t \in Tasks, Return(t)
  PROVE  /\ task'[t] = NoCall
         /\ \A u \in Tasks \ {t} : task'[u] = task[u]
  BY DEF TypeInv, TypeOK, Return

(* A task that is at rest waits for nothing and refers to no toolkit.       *)
LEMMA ReturnTypes ==
  ASSUME TypeInv, NEW t \in Tasks, Return(t)
  PROVE  task' \in [Tasks -> [waits : Waits, attempt : 0 .. RetryBudget,
                              toolkit : Toolkits \union {None}]]
  <1>1. NoCall \in [waits : Waits, attempt : 0 .. RetryBudget,
                    toolkit : Toolkits \union {None}]
    BY ServerAssumption DEF NoCall, Waits
  <1> QED  BY <1>1 DEF TypeInv, TypeOK, Return

(* The type invariant holds at first. *)
LEMMA TypeInit == Init => TypeInv
<1> SUFFICES ASSUME Init PROVE TypeInv
  OBVIOUS
<1>1. NoCall \in [waits : Waits, attempt : 0 .. RetryBudget,
                  toolkit : Toolkits \union {None}]
  BY ServerAssumption DEF NoCall, Waits
<1>2. \A t \in Tasks : TaskOK(t)
  BY DEF Init, TaskOK, Waiting, NoCall
<1> QED  BY <1>1, <1>2 DEF Init, TypeInv, TypeOK, Statuses

(* The type invariant holds after every step. *)
LEMMA TypeStep == TypeInv /\ [Next]_vars => TypeInv'
<1> SUFFICES ASSUME TypeInv, [Next]_vars PROVE TypeInv'
  OBVIOUS
<1> DEFINE Records == [waits : Waits, attempt : 0 .. RetryBudget,
                       toolkit : Toolkits \union {None}]
<1>0. /\ \A t \in Tasks : task[t] \in Records
      /\ toolkit \in Toolkits \union {None} /\ 0 \in 0 .. RetryBudget
  BY ServerAssumption DEF TypeInv, TypeOK
<1>a. ASSUME NEW t \in Tasks, NEW n \in 0 .. RetryBudget,
             NEW current \in Toolkits \union {None}, BeginAttempt(t, n, current),
             status' \in Statuses, failures' \in Nat, circuitOpen' \in BOOLEAN,
             entered' \subseteq Toolkits, overlaps' \in Nat, interruptions' \in Nat
      PROVE  TypeInv'
  <2>1. None \notin Toolkits'
    BY <1>a, AttemptTypes DEF Toolkits, None
  <2>2. \A u \in Tasks : TaskOK(u)'
    BY <2>1, <1>a, AttemptTask, AttemptTypes DEF TypeInv, TaskOK, Waiting
  <2> QED  BY <2>2, <1>a, AttemptTypes DEF TypeInv, TypeOK
<1>b. ASSUME NEW t \in Tasks, Return(t), toolkit' \in {toolkit, None},
             status' \in Statuses, failures' \in Nat, circuitOpen' \in BOOLEAN,
             built' = built, entered' \subseteq Toolkits,
             overlaps' \in Nat, interruptions' \in Nat
      PROVE  TypeInv'
  <2>1. \A u \in Tasks : TaskOK(u)'
    BY <1>b, ReturnTask DEF TypeInv, TaskOK, Waiting, NoCall
  <2> QED  BY <2>1, <1>0, <1>b, ReturnTypes DEF TypeInv, TypeOK, Toolkits
<1>c. ASSUME NEW t \in Tasks, NEW r \in Records,
             r.waits # "enter", r.waits = "delay" => MayRetry(r.attempt),
             task' = [task EXCEPT ![t] = r], toolkit' \in {toolkit, None},
             status' \in Statuses, failures' \in Nat, circuitOpen' = circuitOpen,
             built' = built, entered' \subseteq Toolkits,
             overlaps' \in Nat, interruptions' \in Nat
      PROVE  TypeInv'
  <2>1. task'[t] = r /\ \A u \in Tasks \ {t} : task'[u] = task[u]
    BY <1>c DEF TypeInv, TypeOK
  <2>2. \A u \in Tasks : TaskOK(u)'
    BY <2>1, <1>c DEF TypeInv, TaskOK, Waiting
  <2>3. task' \in [Tasks -> Records]
    BY <1>c DEF TypeInv, TypeOK
  <2> QED  BY <2>2, <2>3, <1>0, <1>c DEF TypeInv, TypeOK, Toolkits
<1>1. ASSUME NEW t \in Tasks, Connect(t) PROVE TypeInv'
  BY <1>1, <1>0, <1>a DEF Connect, Call, Statuses, TypeInv, TypeOK
<1>2. ASSUME NEW t \in Tasks, ConnectRefused(t) PROVE TypeInv'
  BY <1>2 DEF ConnectRefused, Call, TypeInv, TypeOK, Statuses, Toolkits, TaskOK, Waiting
<1>3. ASSUME NEW t \in Tasks, ConnectUnbuilt(t) PROVE TypeInv'
  BY <1>3 DEF ConnectUnbuilt, Interruption, TypeInv, TypeOK, Statuses, Toolkits, TaskOK, Waiting
<1>4. ASSUME NEW t \in Tasks, Close(t) PROVE TypeInv'
  <2> DEFINE r == [NoCall EXCEPT !.waits = "close", !.toolkit = toolkit]
  <2>1. r \in Records /\ r.waits = "close"
    BY <1>0 DEF NoCall, Waits
  <2>2. CASE toolkit = None
    BY <1>4, <2>2 DEF Close, Call, TypeInv, TypeOK, Statuses, Toolkits, TaskOK, Waiting
  <2>3. CASE toolkit # None
    <3>1. /\ task' = [task EXCEPT ![t] = r] /\ overlaps' \in Nat
          /\ UNCHANGED <<status, toolkit, failures, circuitOpen, built, entered, interruptions>>
      BY <1>4, <2>3 DEF Close, Call, TypeInv
    <3> HIDE DEF r
    <3> QED  BY <2>1, <3>1, <1>c DEF TypeInv, TypeOK
  <2> QED  BY <2>2, <2>3
<1>5. ASSUME NEW t \in Tasks, EnterSucceeds(t) PROVE TypeInv'
  <2>1. task[t].toolkit \in Toolkits
    BY <1>5, <1>0 DEF EnterSucceeds, TypeInv, TaskOK
  <2> QED
    BY <1>5, <2>1, <1>b DEF EnterSucceeds, counters, TypeInv, TypeOK, Statuses
<1>6. ASSUME NEW t \in Tasks, EnterFails(t) PROVE TypeInv'
  <2> DEFINE r == [task[t] EXCEPT !.waits = "close_failed"]
  <2>1. r \in Records /\ r.waits = "close_failed"
    BY <1>0 DEF Waits
  <2>2. /\ task' = [task EXCEPT ![t] = r] /\ status' \in Statuses /\ failures' \in Nat
        /\ UNCHANGED <<toolkit, circuitOpen, built, entered, overlaps, interruptions>>
    BY <1>6 DEF EnterFails, counters, TypeInv, TypeOK, Statuses
  <2> HIDE DEF r
  <2> QED  BY <2>1, <2>2, <1>c DEF TypeInv, TypeOK
<1>7. ASSUME NEW t \in Tasks, CloseFailed(t) PROVE TypeInv'
  <2>1. entered' \subseteq Toolkits /\ status' \in Statuses /\ circuitOpen' \in BOOLEAN
        /\ failures' \in Nat /\ overlaps' \in Nat /\ interruptions' \in Nat
    BY <1>7 DEF CloseFailed, GiveUp, counters, TypeInv, TypeOK, Statuses
  <2>2. CASE MayRetry(task[t].attempt) /\ BeginAttempt(t, task[t].attempt + 1, None)
    <3>1. task[t].attempt + 1 \in 0 .. RetryBudget
      BY <1>0, <2>2, ServerAssumption DEF MayRetry
    <3> QED  BY <2>1, <2>2, <3>1, <1>a
  <2>3. CASE MayRetry(task[t].attempt) /\ UNCHANGED <<built, circuitOpen, status>>
             /\ toolkit' = None
             /\ task' = [task EXCEPT ![t].waits = "delay"]
    <3>1. [task[t] EXCEPT !.waits = "delay"] \in Records
      BY <1>0 DEF Waits
    <3> QED  BY <2>1, <2>3, <3>1, <1>0, <1>c
  <2>4. CASE toolkit' = None /\ GiveUp(t) /\ built' = built
    BY <2>1, <2>4, <1>b DEF GiveUp
  <2> QED  BY <1>7, <2>2, <2>3, <2>4 DEF CloseFailed
<1>8. ASSUME NEW t \in Tasks, Retry(t) PROVE TypeInv'
  <2>1. task[t].attempt + 1 \in 0 .. RetryBudget
    BY <1>0, <1>8, ServerAssumption DEF Retry, TypeInv, TaskOK, MayRetry
  <2> QED
    BY <1>8, <2>1, <1>0, <1>a DEF Retry, counters, TypeInv, TypeOK
<1>9. ASSUME NEW t \in Tasks, CloseDone(t) PROVE TypeInv'
  BY <1>9, <1>b DEF CloseDone, counters, TypeInv, TypeOK, Statuses
<1>10. ASSUME NEW t \in Tasks, Interrupt(t) PROVE TypeInv'
  BY <1>10, <1>b DEF Interrupt, Interruption, state, TypeInv, TypeOK
<1>11. CASE CircuitResets
  BY <1>11 DEF CircuitResets, counters, TypeInv, TypeOK, Toolkits, TaskOK, Waiting
<1>12. CASE UNCHANGED vars
  BY <1>12 DEF vars, state, counters, TypeInv, TypeOK, Toolkits, TaskOK, Waiting
<1> QED
  BY <1>1, <1>2, <1>3, <1>4, <1>5, <1>6, <1>7, <1>8, <1>9, <1>10, <1>11, <1>12
  DEF Next, Resume

-----------------------------------------------------------------------------
(* What a step does, whichever task takes it.  Begins is a call; the other  *)
(* steps are those of a task that waits.                                    *)

Begins(t) == Connect(t) \/ ConnectRefused(t) \/ ConnectUnbuilt(t) \/ Close(t)

(* A step of a task leaves the others alone and goes on from where it was.  *)
LEMMA OthersStay ==
  ASSUME TypeInv, NEW t \in Tasks, Begins(t) \/ Resume(t) \/ Interrupt(t)
  PROVE  \A u \in Tasks \ {t} : task'[u] = task[u]
<1>1. CASE Begins(t)
  BY <1>1 DEF Begins, Connect, ConnectRefused, ConnectUnbuilt, Close, BeginAttempt,
     TypeInv, TypeOK
<1>2. CASE Resume(t) \/ Interrupt(t)
  BY <1>2 DEF Resume, EnterSucceeds, EnterFails, CloseFailed, Retry, CloseDone,
     Interrupt, BeginAttempt, GiveUp, Return, TypeInv, TypeOK
<1> QED  BY <1>1, <1>2

(* Only a call adds to the overlaps, and only when another task waits.      *)
LEMMA OverlapsCount ==
  ASSUME TypeInv, NEW t \in Tasks, Begins(t) \/ Resume(t) \/ Interrupt(t), overlaps' = 0
  PROVE  /\ overlaps = 0
         /\ Begins(t) => Waiting(t, "nothing")
         /\ Connect(t) \/ ConnectRefused(t) \/ Close(t) => Idle
         /\ ~ Begins(t) => ~ Waiting(t, "nothing")
<1>1. ASSUME Connect(t) \/ ConnectRefused(t) \/ Close(t)
      PROVE  overlaps = 0 /\ Idle /\ Waiting(t, "nothing")
  <2>1. Call /\ Waiting(t, "nothing")
    BY <1>1 DEF Connect, ConnectRefused, Close
  <2> QED  BY <2>1 DEF Call, TypeInv
<1>2. ASSUME ConnectUnbuilt(t) PROVE overlaps = 0 /\ Waiting(t, "nothing")
  BY <1>2 DEF ConnectUnbuilt, Interruption
<1>3. ASSUME Resume(t) \/ Interrupt(t) PROVE overlaps = 0 /\ ~ Waiting(t, "nothing")
  BY <1>3 DEF Resume, EnterSucceeds, EnterFails, CloseFailed, Retry, CloseDone,
     Interrupt, Interruption, counters, Waiting
<1> QED  BY <1>1, <1>2, <1>3 DEF Begins

(* While calls do not overlap, a task that waits is alone with the server.  *)
LEMMA SerialStep == TypeInv /\ SerialInv /\ [Next]_vars => SerialInv'
<1> SUFFICES ASSUME TypeInv, SerialInv, [Next]_vars, overlaps' = 0
             PROVE  \A t, u \in Tasks :
                      t = u \/ Waiting(t, "nothing")' \/ Waiting(u, "nothing")'
  BY DEF SerialInv
<1>1. ASSUME NEW s \in Tasks, Begins(s) \/ Resume(s) \/ Interrupt(s)
      PROVE  \A t, u \in Tasks :
               t = u \/ Waiting(t, "nothing")' \/ Waiting(u, "nothing")'
  <2>1. CASE ConnectUnbuilt(s)
    BY <2>1, <1>1, OverlapsCount DEF ConnectUnbuilt, SerialInv, Waiting
  <2>2. CASE ~ ConnectUnbuilt(s)
    <3>1. \A u \in Tasks \ {s} : Waiting(u, "nothing")
      BY <2>2, <1>1, OverlapsCount DEF Begins, SerialInv, Idle
    <3> QED  BY <3>1, <1>1, OthersStay DEF Waiting
  <2> QED  BY <2>1, <2>2
<1>2. CASE CircuitResets \/ UNCHANGED vars
  BY <1>2 DEF CircuitResets, vars, counters, SerialInv, Waiting
<1> QED  BY <1>1, <1>2 DEF Next, Begins

(* The others are at rest when a task that waits goes on.                   *)
LEMMA Alone ==
  ASSUME SerialInv, overlaps = 0, NEW t \in Tasks, ~ Waiting(t, "nothing")
  PROVE  \A u \in Tasks \ {t} : Waiting(u, "nothing")
  BY DEF SerialInv

(* The circuit is opened by the last failure, and by nothing else; then     *)
(* connect is refused until it closes.                                      *)
LEMMA CircuitStep ==
  TypeInv /\ SerialInv /\ CircuitInv /\ [Next]_vars => CircuitInv'
<1> SUFFICES ASSUME TypeInv, SerialInv, CircuitInv, [Next]_vars,
                    circuitOpen', overlaps' = 0
             PROVE  /\ failures' >= Threshold
                    /\ \A t \in Tasks : task'[t].waits \notin Connecting
  BY DEF CircuitInv
<1> DEFINE Goal == /\ failures' >= Threshold
                   /\ \A t \in Tasks : task'[t].waits \notin Connecting
<1>1. ASSUME NEW t \in Tasks, Begins(t) PROVE Goal
  <2>1. overlaps = 0  BY <1>1, OverlapsCount
  <2>2. circuitOpen /\ ~ Connect(t) /\ failures' = failures
    BY <1>1 DEF Begins, Connect, ConnectRefused, ConnectUnbuilt, Close
  <2>3. task'[t] = task[t] \/ task'[t].waits = "close"
    BY <1>1, <2>2 DEF Begins, ConnectRefused, ConnectUnbuilt, Close, NoCall, TypeInv, TypeOK
  <2> QED
    BY <1>1, <2>1, <2>2, <2>3, OthersStay DEF CircuitInv, Connecting
<1>2. ASSUME NEW t \in Tasks, Resume(t) \/ Interrupt(t) PROVE Goal
  <2>1. overlaps = 0 /\ ~ Waiting(t, "nothing")
    BY <1>2, OverlapsCount DEF Resume, EnterSucceeds, EnterFails, CloseFailed, Retry,
       CloseDone, Interrupt, Waiting
  <2>2. \A u \in Tasks \ {t} : task'[u].waits = "nothing"
    BY <1>2, <2>1, Alone, OthersStay DEF Waiting
  <2>3. CASE circuitOpen
    <3>1. task[t].waits \notin Connecting /\ failures >= Threshold
      BY <2>1, <2>3 DEF CircuitInv
    <3>2. failures' = failures /\ task'[t] = NoCall
      BY <1>2, <3>1, ReturnTask DEF Resume, EnterSucceeds, EnterFails, CloseFailed, Retry,
         CloseDone, Interrupt, Waiting, Connecting, state
    <3> QED  BY <2>2, <3>1, <3>2 DEF NoCall, Connecting
  <2>4. CASE ~ circuitOpen
    <3>1. GiveUp(t) /\ failures' = failures /\ failures >= Threshold
      BY <1>2, <2>4 DEF Resume, EnterSucceeds, EnterFails, CloseFailed, Retry,
         CloseDone, Interrupt, GiveUp, state
    <3>2. task'[t] = NoCall  BY <3>1, ReturnTask DEF GiveUp
    <3> QED  BY <2>2, <3>1, <3>2 DEF NoCall, Connecting
  <2> QED  BY <2>3, <2>4
<1>3. CASE CircuitResets \/ UNCHANGED vars
  BY <1>3 DEF CircuitResets, vars, state, counters, CircuitInv
<1> QED  BY <1>1, <1>2, <1>3 DEF Next, Begins

-----------------------------------------------------------------------------
(* Calls that ran to their end: what is connected is what the state says.    *)

(* A step that leaves the calls undisturbed found them so, with every other *)
(* task at rest, and was no interruption.                                   *)
LEMMA UndisturbedStep ==
  ASSUME TypeInv, SerialInv, NEW t \in Tasks,
         Begins(t) \/ Resume(t) \/ Interrupt(t), Undisturbed'
  PROVE  /\ Undisturbed
         /\ Begins(t) => Idle
         /\ Connect(t) \/ ConnectRefused(t) \/ Close(t) \/ Resume(t)
         /\ \A u \in Tasks \ {t} : Waiting(u, "nothing") /\ Waiting(u, "nothing")'
<1>1. ~ ConnectUnbuilt(t) /\ ~ Interrupt(t)
  BY DEF ConnectUnbuilt, Interrupt, Interruption, Undisturbed, TypeInv
<1>2. interruptions' = interruptions
  BY <1>1 DEF Begins, Connect, ConnectRefused, Close, Call, Resume, EnterSucceeds,
     EnterFails, CloseFailed, Retry, CloseDone, counters
<1>3. Undisturbed
  BY <1>2, OverlapsCount DEF Undisturbed
<1>4. Begins(t) => Idle
  BY <1>1, OverlapsCount DEF Begins, Undisturbed
<1>5. \A u \in Tasks \ {t} : Waiting(u, "nothing")
  <2>1. CASE Begins(t)
    BY <2>1, <1>4 DEF Idle
  <2>2. CASE ~ Begins(t)
    BY <2>2, <1>3, OverlapsCount, Alone DEF Undisturbed
  <2> QED  BY <2>1, <2>2
<1> QED  BY <1>1, <1>3, <1>4, <1>5, OthersStay DEF Begins, Waiting

(* The toolkit that is closed or dropped is the one that was connected.     *)
LEMMA ToolkitStep ==
  TypeInv /\ SerialInv /\ ToolkitInv /\ [Next]_vars => ToolkitInv'
<1> SUFFICES ASSUME TypeInv, SerialInv, ToolkitInv, [Next]_vars, Undisturbed'
             PROVE  entered' \subseteq {toolkit'} /\ \A t \in Tasks : Holds(t)'
  BY DEF ToolkitInv
<1> DEFINE Goal == entered' \subseteq {toolkit'} /\ \A t \in Tasks : Holds(t)'
<1>1. ASSUME NEW t \in Tasks, Begins(t) \/ Resume(t) \/ Interrupt(t) PROVE Goal
  <2>1. /\ Undisturbed
        /\ Begins(t) => Idle
        /\ Connect(t) \/ ConnectRefused(t) \/ Close(t) \/ Resume(t)
        /\ \A u \in Tasks \ {t} : Waiting(u, "nothing")'
    BY <1>1, UndisturbedStep
  <2>2. \A u \in Tasks \ {t} : Holds(u)'
    BY <2>1 DEF Holds, Waiting
  <2>3. entered \subseteq {toolkit} /\ Holds(t)
    BY <2>1 DEF ToolkitInv
  <2>4. toolkit = None => entered = {}
    BY <2>3 DEF TypeInv, TypeOK, Toolkits, None
  <2> SUFFICES entered' \subseteq {toolkit'} /\ Holds(t)'
    BY <2>2
  <2>5. CASE Connect(t)
    BY <2>3, <2>4, <2>5, AttemptTask DEF Connect, Holds, Waiting
  <2>6. CASE ConnectRefused(t)
    BY <2>3, <2>6 DEF ConnectRefused, Holds, Waiting
  <2>7. CASE Close(t)
    <3>1. CASE toolkit = None
      BY <2>3, <2>7, <3>1 DEF Close, Holds, Waiting
    <3>2. CASE toolkit # None
      BY <2>3, <2>7, <3>2 DEF Close, Holds, Waiting, NoCall, TypeInv, TypeOK
    <3> QED  BY <3>1, <3>2
  <2>8. CASE EnterSucceeds(t)
    BY <2>3, <2>8, ReturnTask DEF EnterSucceeds, Holds, Waiting, NoCall
  <2>9. CASE EnterFails(t)
    <3>1. task'[t].waits = "close_failed" /\ task'[t].toolkit = task[t].toolkit
      BY <2>9 DEF EnterFails, TypeInv, TypeOK
    <3> QED  BY <2>3, <2>9, <3>1 DEF EnterFails, Holds, Waiting
  <2>10. CASE CloseFailed(t)
    <3>1. entered' = {}
      BY <2>3, <2>10 DEF CloseFailed, Holds, Waiting
    <3>2. CASE BeginAttempt(t, task[t].attempt + 1, None)
      BY <3>1, <3>2, AttemptTask DEF Holds, Waiting
    <3>3. CASE toolkit' = None /\ task' = [task EXCEPT ![t].waits = "delay"]
      BY <3>1, <3>3 DEF Holds, Waiting, TypeInv, TypeOK
    <3>4. CASE toolkit' = None /\ GiveUp(t)
      BY <3>1, <3>4, ReturnTask DEF GiveUp, Holds, Waiting, NoCall
    <3> QED  BY <2>10, <3>2, <3>3, <3>4 DEF CloseFailed
  <2>11. CASE Retry(t)
    BY <2>3, <2>4, <2>11, AttemptTask DEF Retry, Holds, Waiting
  <2>12. CASE CloseDone(t)
    BY <2>3, <2>12, ReturnTask DEF CloseDone, Holds, Waiting, NoCall
  <2> QED
    BY <2>1, <2>5, <2>6, <2>7, <2>8, <2>9, <2>10, <2>11, <2>12 DEF Resume
<1>2. CASE CircuitResets \/ UNCHANGED vars
  BY <1>2 DEF CircuitResets, vars, state, counters, Undisturbed, ToolkitInv, Holds, Waiting
<1> QED  BY <1>1, <1>2 DEF Next, Begins

(* A call that returns leaves a status that tells what became of the server. *)
LEMMA RestStep ==
  TypeInv /\ SerialInv /\ ToolkitInv /\ RestInv /\ [Next]_vars => RestInv'
<1> SUFFICES ASSUME TypeInv, SerialInv, ToolkitInv, RestInv, [Next]_vars,
                    Undisturbed', Idle'
             PROVE  /\ status' = "healthy" => toolkit' \in entered'
                    /\ status' = "unhealthy" => failures' < Threshold
  BY DEF RestInv
<1> DEFINE Goal == /\ status' = "healthy" => toolkit' \in entered'
                   /\ status' = "unhealthy" => failures' < Threshold
<1>1. ASSUME NEW t \in Tasks, Begins(t) \/ Resume(t) \/ Interrupt(t) PROVE Goal
  <2>1. /\ Undisturbed
        /\ Begins(t) => Idle
        /\ Connect(t) \/ ConnectRefused(t) \/ Close(t) \/ Resume(t)
    BY <1>1, UndisturbedStep
  <2>2. Holds(t)  BY <2>1 DEF ToolkitInv
  <2>3. task'[t].waits = "nothing"  BY DEF Idle, Waiting
  <2>4. CASE Connect(t)
    BY <2>4 DEF Connect
  <2>5. CASE ConnectRefused(t)
    BY <2>5 DEF ConnectRefused
  <2>6. CASE Close(t)
    <3>1. toolkit = None
      BY <2>3, <2>6 DEF Close, NoCall, TypeInv, TypeOK
    <3> QED  BY <2>6, <3>1 DEF Close
  <2>7. CASE EnterSucceeds(t)
    BY <2>2, <2>7 DEF EnterSucceeds, Holds, Waiting
  <2>8. CASE EnterFails(t)
    BY <2>3, <2>8 DEF EnterFails, TypeInv, TypeOK
  <2>9. CASE CloseFailed(t)
    <3>1. GiveUp(t) /\ failures' = failures
      BY <2>3, <2>9, AttemptTask DEF CloseFailed, TypeInv, TypeOK
    <3>2. status = "unhealthy"
      BY <2>2, <2>9 DEF CloseFailed, Holds
    <3> QED  BY <3>1, <3>2, ServerAssumption DEF GiveUp, TypeInv, TypeOK
  <2>10. CASE Retry(t)
    BY <2>3, <2>10, AttemptTask DEF Retry
  <2>11. CASE CloseDone(t)
    BY <2>11 DEF CloseDone
  <2> QED
    BY <2>1, <2>4, <2>5, <2>6, <2>7, <2>8, <2>9, <2>10, <2>11 DEF Resume
<1>2. CASE CircuitResets \/ UNCHANGED vars
  BY <1>2 DEF CircuitResets, vars, state, counters, Undisturbed, RestInv, Idle, Waiting
<1> QED  BY <1>1, <1>2 DEF Next, Begins

-----------------------------------------------------------------------------
(* The invariant, for any number of tasks, overlaps and interruptions.       *)
LEMMA ConnectionInvariant == Spec => []ConnectionInv
<1>1. Init => ConnectionInv
  <2>1. Init => SerialInv /\ CircuitInv /\ ToolkitInv /\ RestInv
    BY DEF Init, SerialInv, CircuitInv, ToolkitInv, RestInv, Holds, Waiting, NoCall
  <2> QED  BY <2>1, TypeInit DEF ConnectionInv
<1>2. ConnectionInv /\ [Next]_vars => ConnectionInv'
  BY TypeStep, SerialStep, CircuitStep, ToolkitStep, RestStep DEF ConnectionInv
<1> QED  BY <1>1, <1>2, PTL DEF Spec

(* While the circuit is open, and calls do not overlap, connect tries       *)
(* nothing, and it was opened by at least circuit_failure_threshold failed  *)
(* attempts; a server that connect leaves unhealthy has had fewer.          *)
THEOREM CircuitAlwaysHolds == Spec => []CircuitHolds
<1>1. ConnectionInv => CircuitHolds
  BY DEF ConnectionInv, CircuitInv, RestInv, CircuitHolds, Connecting
<1> QED  BY <1>1, ConnectionInvariant, PTL

(* After calls of connect and close that ran to their end, healthy means    *)
(* that the toolkit of the state is connected, and no other one is.         *)
THEOREM HealthyStaysConnected == Spec => []HealthyIsConnected
<1>1. ConnectionInv => HealthyIsConnected
  BY DEF ConnectionInv, ToolkitInv, RestInv, HealthyIsConnected
<1> QED  BY <1>1, ConnectionInvariant, PTL
=============================================================================
