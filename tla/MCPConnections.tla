--------------------------- MODULE MCPConnections ---------------------------
(***************************************************************************)
(* MCPConnectionManager: the connection to one MCP server.  connect enters *)
(* a toolkit, retries within its budget and opens a circuit after too many *)
(* failures; close gives the toolkit back.  The tasks of one event loop    *)
(* share the state of the server and change places only where connect and  *)
(* close await: while a toolkit is entered, is closed, or a retry waits.   *)
(* Servers do not share state.                                             *)
(***************************************************************************)
EXTENDS Naturals, FiniteSets

CONSTANTS
  Tasks,
  RetryBudget,        \* retry_budget
  Threshold,          \* circuit_failure_threshold
  MaxCalls,           \* bound: calls of connect and close
  MaxOverlaps,        \* bound: calls that begin while another one waits
  MaxInterruptions    \* bound: calls cancelled while they wait, or left by
                      \* an exception that connect and close do not handle

ASSUME ServerAssumption ==
  /\ RetryBudget \in Nat
  /\ Threshold \in Nat \ {0}
  /\ MaxCalls \in Nat /\ MaxOverlaps \in Nat /\ MaxInterruptions \in Nat

VARIABLES
  status,          \* MCPStatus
  toolkit,         \* the toolkit the state refers to, or None
  failures,        \* failed attempts since the last success
  circuitOpen,     \* opened_until lies ahead
  built,           \* how many toolkits were built: they are 1 .. built
  entered,         \* the toolkits entered and not closed
  task,            \* what each task waits for
  calls, overlaps, interruptions

state == <<status, toolkit, failures, circuitOpen>>
counters == <<calls, overlaps, interruptions>>
vars == <<state, built, entered, task, counters>>

Statuses == {"not_connected", "connecting", "healthy", "unhealthy", "circuit_open"}
None == 0
Toolkits == 1 .. built

Waits == {"nothing", "enter", "close_failed", "delay", "close"}
NoCall == [waits |-> "nothing", attempt |-> 0, toolkit |-> None]

Waiting(t, waits) == task[t].waits = waits
Idle == \A t \in Tasks : Waiting(t, "nothing")
Return(t) == task' = [task EXCEPT ![t] = NoCall]

Call ==
  /\ calls < MaxCalls
  /\ calls' = calls + 1
  /\ IF Idle THEN UNCHANGED overlaps
             ELSE overlaps < MaxOverlaps /\ overlaps' = overlaps + 1
  /\ UNCHANGED interruptions

Interruption ==
  /\ interruptions < MaxInterruptions
  /\ interruptions' = interruptions + 1
  /\ UNCHANGED <<calls, overlaps>>

-----------------------------------------------------------------------------
(* The state refers to a toolkit before the attempt waits for it; current is *)
(* the one it refers to so far.                                              *)
BeginAttempt(t, n, current) ==
  LET tk == IF current = None THEN built + 1 ELSE current IN
  /\ toolkit' = tk
  /\ built' = IF current = None THEN built + 1 ELSE built
  /\ task' = [task EXCEPT ![t] = [waits |-> "enter", attempt |-> n, toolkit |-> tk]]

(* Mutant: the circuit is not consulted. *)
ConnectAnyway(t) ==
  /\ Waiting(t, "nothing") /\ Call
  /\ status' = "connecting"
  /\ BeginAttempt(t, 0, toolkit)
  /\ UNCHANGED <<failures, circuitOpen, entered>>

Connect(t) ==
  /\ Waiting(t, "nothing") /\ Call
  /\ ~ circuitOpen
  /\ status' = "connecting"
  /\ BeginAttempt(t, 0, toolkit)
  /\ UNCHANGED <<failures, circuitOpen, entered>>

ConnectRefused(t) ==
  /\ Waiting(t, "nothing") /\ Call
  /\ circuitOpen
  /\ status' = "circuit_open"
  /\ UNCHANGED <<toolkit, failures, circuitOpen, built, entered, task>>

(* build_toolkit raises: a credential is missing. *)
ConnectUnbuilt(t) ==
  /\ Waiting(t, "nothing") /\ calls < MaxCalls
  /\ ~ circuitOpen /\ toolkit = None
  /\ Interruption
  /\ status' = "connecting"
  /\ UNCHANGED <<toolkit, failures, circuitOpen, built, entered, task>>

EnterSucceeds(t) ==
  /\ Waiting(t, "enter")
  /\ status' = "healthy" /\ failures' = 0
  /\ entered' = entered \union {task[t].toolkit}
  /\ Return(t)
  /\ UNCHANGED <<toolkit, circuitOpen, built, counters>>

(* Mutant: the failure is not caught. *)
EnterEscapes(t) ==
  /\ Waiting(t, "enter")
  /\ Return(t)
  /\ UNCHANGED <<state, built, entered, counters>>

(* An error of the server, or the timeout of the attempt. *)
EnterFails(t) ==
  /\ Waiting(t, "enter")
  /\ status' = "unhealthy" /\ failures' = failures + 1
  /\ task' = [task EXCEPT ![t].waits = "close_failed"]
  /\ UNCHANGED <<toolkit, circuitOpen, built, entered, counters>>

(* After the last attempt the circuit opens if there were enough failures. *)
GiveUp(t) ==
  /\ IF failures >= Threshold
       THEN circuitOpen' = TRUE /\ status' = "circuit_open"
       ELSE UNCHANGED <<circuitOpen, status>>
  /\ Return(t)

MayRetry(n) == n < RetryBudget

(* The failed toolkit is closed, whatever closing it raises, and the state *)
(* refers to none; then the next attempt, at once or after a delay.        *)
CloseFailed(t) ==
  /\ Waiting(t, "close_failed")
  /\ entered' = entered \ {task[t].toolkit}
  /\ \/ /\ MayRetry(task[t].attempt)
        /\ BeginAttempt(t, task[t].attempt + 1, None)
        /\ UNCHANGED <<circuitOpen, status>>
     \/ /\ MayRetry(task[t].attempt)
        /\ toolkit' = None
        /\ task' = [task EXCEPT ![t].waits = "delay"]
        /\ UNCHANGED <<built, circuitOpen, status>>
     \/ /\ ~ MayRetry(task[t].attempt)
        /\ toolkit' = None
        /\ GiveUp(t)
        /\ UNCHANGED built
  /\ UNCHANGED <<failures, counters>>

Retry(t) ==
  /\ Waiting(t, "delay")
  /\ BeginAttempt(t, task[t].attempt + 1, toolkit)
  /\ UNCHANGED <<status, failures, circuitOpen, entered, counters>>

-----------------------------------------------------------------------------
Close(t) ==
  /\ Waiting(t, "nothing") /\ Call
  /\ IF toolkit = None
       THEN status' = "not_connected" /\ UNCHANGED task
       ELSE /\ task' = [task EXCEPT ![t] = [NoCall EXCEPT !.waits = "close", !.toolkit = toolkit]]
            /\ UNCHANGED status
  /\ UNCHANGED <<toolkit, failures, circuitOpen, built, entered>>

(* Mutant: the toolkit is dropped and not closed. *)
DropToolkit(t) ==
  /\ Waiting(t, "close")
  /\ toolkit' = None /\ status' = "not_connected"
  /\ Return(t)
  /\ UNCHANGED <<failures, circuitOpen, built, entered, counters>>

CloseDone(t) ==
  /\ Waiting(t, "close")
  /\ entered' = entered \ {task[t].toolkit}
  /\ toolkit' = None /\ status' = "not_connected"
  /\ Return(t)
  /\ UNCHANGED <<failures, circuitOpen, built, counters>>

(* The task is cancelled, close raises, or no toolkit can be built for the *)
(* retry: nothing is put back.                                             *)
Interrupt(t) ==
  /\ ~ Waiting(t, "nothing")
  /\ Interruption
  /\ Return(t)
  /\ UNCHANGED <<state, built, entered>>

(* circuit_reset_seconds have passed. *)
CircuitResets ==
  /\ circuitOpen
  /\ circuitOpen' = FALSE
  /\ UNCHANGED <<status, toolkit, failures, built, entered, task, counters>>

-----------------------------------------------------------------------------
Init ==
  /\ status = "not_connected" /\ toolkit = None /\ failures = 0
  /\ circuitOpen = FALSE
  /\ built = 0 /\ entered = {}
  /\ task = [t \in Tasks |-> NoCall]
  /\ calls = 0 /\ overlaps = 0 /\ interruptions = 0

Resume(t) ==
  \/ EnterSucceeds(t) \/ EnterFails(t) \/ CloseFailed(t) \/ Retry(t) \/ CloseDone(t)

Next ==
  \/ \E t \in Tasks :
       \/ Connect(t) \/ ConnectRefused(t) \/ ConnectUnbuilt(t) \/ Close(t)
       \/ Resume(t) \/ Interrupt(t)
  \/ CircuitResets

Spec == Init /\ [][Next]_vars

(* What a task awaits ends: enter has a timeout and the event loop resumes *)
(* the task.                                                               *)
FairSpec == Spec /\ \A t \in Tasks : WF_vars(Resume(t))

-----------------------------------------------------------------------------
TypeOK ==
  /\ status \in Statuses
  /\ toolkit \in Toolkits \union {None}
  /\ failures \in Nat /\ built \in Nat
  /\ circuitOpen \in BOOLEAN
  /\ entered \subseteq Toolkits
  /\ task \in [Tasks -> [waits : Waits, attempt : 0 .. RetryBudget,
                         toolkit : Toolkits \union {None}]]

(* The calls so far came one after the other and ran to their end. *)
Undisturbed == overlaps = 0 /\ interruptions = 0

(* While the circuit is open nothing is tried, and only failures opened it; *)
(* with overlapping calls a retry goes on under an open circuit.  A server  *)
(* at rest that is shown unhealthy is still short of opening it.            *)
CircuitHolds ==
  /\ circuitOpen /\ overlaps = 0 =>
       /\ failures >= Threshold
       /\ \A t \in Tasks : task[t].waits \notin {"enter", "close_failed", "delay"}
  /\ Undisturbed /\ Idle /\ status = "unhealthy" => failures < Threshold

(* A server shown healthy has a connected toolkit that the next connect     *)
(* uses, and no toolkit but that of the state stays connected.              *)
HealthyIsConnected ==
  Undisturbed /\ Idle =>
    /\ status = "healthy" => toolkit \in entered
    /\ entered \subseteq {toolkit}

(* Whatever calls overlap, the server does not show connecting for ever     *)
(* unless a call was cancelled or the toolkit could not be built.           *)
ConnectingSettles ==
  status = "connecting" ~> status # "connecting" \/ interruptions > 0
=============================================================================
