----------------------------- MODULE FileStore ------------------------------
(***************************************************************************)
(* The directory of one run, call by call of the file system.  Threads     *)
(* save a record, which is written to a temporary file and renamed         *)
(* (RunStore.save_run, and StageStore.save with the stage list), append    *)
(* events to the trace, and file evaluations, which are appended to a      *)
(* stream and rewritten in place.                                          *)
(*                                                                         *)
(* All saves use the same temporary name.  A handle follows its file when  *)
(* it is renamed, so that a writer may find itself writing the record.     *)
(***************************************************************************)
EXTENDS Naturals, Sequences

CONSTANTS
  Workers,     \* the threads that use the store
  MaxCalls,    \* bound: how many calls of the store there are
  MaxCrashes   \* bound: how often the process may die

ASSUME CallsAssumption == MaxCalls \in Nat

VARIABLES
  file,        \* the record and the temporary file
  evaluation,  \* evaluation.json
  trace,       \* the sequence numbers in trace.jsonl
  reports,     \* how many lines evaluations.jsonl has
  call,        \* the call each worker is in
  collided,    \* the last save to begin found another one under way
  disturbed,   \* the last evaluation met another one or was cut short
  calls, overlaps, crashes

counters == <<calls, overlaps, crashes>>
storeVars == <<file, evaluation, trace, reports, call, collided, disturbed, counters>>

(* A text, and the number of the save or report it is from. *)
Texts == [text : {"none", "empty", "whole", "torn"}, n : Nat]
NoFile == [text |-> "none", n |-> 0]
Empty == [text |-> "empty", n |-> 0]
Torn == [text |-> "torn", n |-> 0]
Whole(n) == [text |-> "whole", n |-> n]

(* A file is written from its start, and after another writer the longer    *)
(* text shows at the end.                                                   *)
Written(old, n) == {Whole(n)} \union IF old = Empty THEN {} ELSE {Torn}

Handles == {"temp", "record", "gone"}
PCs == {"idle", "open", "write", "rename", "number", "event", "report", "truncate", "fill"}
Calls == [pc : PCs, n : Nat, handle : Handles]
IdleCall == [pc |-> "idle", n |-> 0, handle |-> "gone"]

At(w, pc) == call[w].pc = pc
Become(w, c) == call' = [call EXCEPT ![w] = c]
Goto(w, pc) == Become(w, [call[w] EXCEPT !.pc = pc])
Return(w) == Become(w, IdleCall)
AllIdle == \A w \in Workers : At(w, "idle")

(* A save, an event or an evaluation; a save is known by the number of its  *)
(* call.                                                                    *)
Begin(w, pc) ==
  /\ At(w, "idle") /\ calls < MaxCalls
  /\ calls' = calls + 1
  /\ overlaps' = IF AllIdle THEN overlaps ELSE overlaps + 1
  /\ Become(w, [IdleCall EXCEPT !.pc = pc, !.n = calls + 1])
  /\ UNCHANGED <<file, evaluation, trace, reports, collided, disturbed, crashes>>

-----------------------------------------------------------------------------
(* The record is saved. *)
Saving == {w \in Workers : At(w, "write") \/ At(w, "rename")}

(* Mutant: the record itself is opened for writing. *)
OpenInPlace(w) ==
  /\ At(w, "open")
  /\ file' = [file EXCEPT !["record"] = Empty]
  /\ collided' = (Saving # {})
  /\ Become(w, [call[w] EXCEPT !.pc = "write", !.handle = "record"])
  /\ UNCHANGED <<evaluation, trace, reports, disturbed, counters>>

(* Opening the temporary file empties it. *)
OpenTemporary(w) ==
  /\ At(w, "open")
  /\ file' = [file EXCEPT !["temp"] = Empty]
  /\ collided' = (Saving # {})
  /\ Become(w, [call[w] EXCEPT !.pc = "write", !.handle = "temp"])
  /\ UNCHANGED <<evaluation, trace, reports, disturbed, counters>>

WriteTemporary(w) ==
  LET handle == call[w].handle IN
  /\ At(w, "write")
  /\ IF handle = "gone"
       THEN UNCHANGED file
       ELSE \E text \in Written(file[handle], call[w].n) : file' = [file EXCEPT ![handle] = text]
  /\ Goto(w, "rename")
  /\ UNCHANGED <<evaluation, trace, reports, collided, disturbed, counters>>

(* Where the file a handle refers to is, after the temporary one has become *)
(* the record.                                                              *)
Renamed(handle) == IF handle = "temp" THEN "record" ELSE "gone"

(* Nothing there to rename raises. *)
Rename(w) ==
  /\ At(w, "rename")
  /\ IF file["temp"] = NoFile
       THEN Return(w) /\ UNCHANGED file
       ELSE /\ file' = [temp |-> NoFile, record |-> file["temp"]]
            /\ call' = [v \in Workers |->
                 IF v = w THEN IdleCall ELSE [call[v] EXCEPT !.handle = Renamed(@)]]
  /\ UNCHANGED <<evaluation, trace, reports, collided, disturbed, counters>>

-----------------------------------------------------------------------------
(* An event is written.  Mutant: events count from one. *)
NumberFromOne(w) ==
  /\ At(w, "number")
  /\ Become(w, [call[w] EXCEPT !.pc = "event", !.n = Len(trace) + 1])
  /\ UNCHANGED <<file, evaluation, trace, reports, collided, disturbed, counters>>

(* An event is numbered by the length of the stream. *)
NumberEvent(w) ==
  /\ At(w, "number")
  /\ Become(w, [call[w] EXCEPT !.pc = "event", !.n = Len(trace)])
  /\ UNCHANGED <<file, evaluation, trace, reports, collided, disturbed, counters>>

AppendEvent(w) ==
  /\ At(w, "event")
  /\ trace' = Append(trace, call[w].n)
  /\ Return(w)
  /\ UNCHANGED <<file, evaluation, reports, collided, disturbed, counters>>

-----------------------------------------------------------------------------
(* An evaluation is filed. *)
Filing == {w \in Workers : At(w, "truncate") \/ At(w, "fill")}

AppendReport(w) ==
  /\ At(w, "report")
  /\ reports' = reports + 1
  /\ disturbed' = (Filing # {})
  /\ Become(w, [call[w] EXCEPT !.pc = "truncate", !.n = reports + 1])
  /\ UNCHANGED <<file, evaluation, trace, collided, counters>>

(* Mutant: the evaluation is opened without emptying it. *)
OpenEvaluation(w) ==
  /\ At(w, "truncate")
  /\ Goto(w, "fill")
  /\ UNCHANGED <<file, evaluation, trace, reports, collided, disturbed, counters>>

TruncateEvaluation(w) ==
  /\ At(w, "truncate")
  /\ evaluation' = Empty
  /\ Goto(w, "fill")
  /\ UNCHANGED <<file, trace, reports, collided, disturbed, counters>>

FillEvaluation(w) ==
  /\ At(w, "fill")
  /\ evaluation' \in Written(evaluation, call[w].n)
  /\ Return(w)
  /\ UNCHANGED <<file, trace, reports, collided, disturbed, counters>>

-----------------------------------------------------------------------------
(* A call of the file system raises (no space, no permission).  A write may *)
(* have written a part of its text.                                         *)
CallRaises(w) ==
  LET handle == call[w].handle IN
  /\ ~At(w, "idle")
  /\ \/ UNCHANGED <<file, evaluation>>
     \/ /\ At(w, "write") /\ handle # "gone"
        /\ file' = [file EXCEPT ![handle] = Torn]
        /\ UNCHANGED evaluation
     \/ At(w, "fill") /\ evaluation' = Torn /\ UNCHANGED file
  /\ disturbed' = (disturbed \/ w \in Filing)
  /\ Return(w)
  /\ UNCHANGED <<trace, reports, collided, counters>>

Crash ==
  /\ crashes < MaxCrashes /\ ~AllIdle
  /\ crashes' = crashes + 1
  /\ call' = [w \in Workers |-> IdleCall]
  /\ disturbed' = (disturbed \/ Filing # {})
  /\ UNCHANGED <<file, evaluation, trace, reports, collided, calls, overlaps>>

Init ==
  /\ file = [temp |-> NoFile, record |-> NoFile] /\ evaluation = NoFile
  /\ trace = <<>> /\ reports = 0
  /\ call = [w \in Workers |-> IdleCall]
  /\ collided = FALSE /\ disturbed = FALSE
  /\ calls = 0 /\ overlaps = 0 /\ crashes = 0

Serve(w) ==
  \/ OpenTemporary(w) \/ WriteTemporary(w) \/ Rename(w)
  \/ NumberEvent(w) \/ AppendEvent(w)
  \/ AppendReport(w) \/ TruncateEvaluation(w) \/ FillEvaluation(w)
  \/ CallRaises(w)

Next ==
  \/ \E w \in Workers : Serve(w) \/ \E pc \in {"open", "number", "report"} : Begin(w, pc)
  \/ Crash

Spec == Init /\ [][Next]_storeVars

-----------------------------------------------------------------------------
TypeOK ==
  /\ file \in [{"temp", "record"} -> Texts] /\ evaluation \in Texts
  /\ trace \in Seq(Nat) /\ reports \in Nat
  /\ call \in [Workers -> Calls] /\ collided \in BOOLEAN /\ disturbed \in BOOLEAN
  /\ calls \in Nat /\ overlaps \in Nat /\ crashes \in Nat

Promise == INSTANCE AtomicRecord WITH
  Saves <- 1 .. MaxCalls,
  value <- file["record"].n,
  intact <- file["record"].text \in {"none", "whole"},
  pending <- {call[w].n : w \in Saving}

(* A record is there whole, as the last save left it, also when a save      *)
(* raises or its process dies in the middle of it.  Only saves that run     *)
(* into each other may spoil it, and the next save that is alone repairs it.*)
ImplementsAtomicRecord == Promise!Spec

(* An event never has a number above the events before it; it has exactly   *)
(* that many as long as calls do not overlap, also after calls that raise   *)
(* and after a crash.                                                       *)
NumbersStayBehind ==
  \A i \in DOMAIN trace :
    trace[i] < i /\ (overlaps = 0 => trace[i] = i - 1)

(* The evaluation on file is the latest of the stream and is there whole,   *)
(* whatever became of the evaluations before it, unless the latest one ran  *)
(* into another one or was cut short.                                       *)
EvaluationIsLatest ==
  ~disturbed /\ Filing = {} /\ reports > 0 => evaluation = Whole(reports)
=============================================================================
