--------------------------- MODULE FileStoreProofs --------------------------
(***************************************************************************)
(* Proofs about one run's directory: a record that is renamed into place   *)
(* implements AtomicRecord, events are numbered behind the events before   *)
(* them, and the evaluation on file is the latest one.                     *)
(***************************************************************************)
EXTENDS FileStore, SequenceTheorems, TLAPS

-----------------------------------------------------------------------------
(* The inductive invariant, part by part.                                   *)

(* A file is from one of the calls, and so is a save under way.             *)
CallInv ==
  /\ calls <= MaxCalls
  /\ \A w \in Workers : call[w].pc \in {"open", "write", "rename"} => call[w].n \in 1 .. MaxCalls
  /\ file["temp"].n \in 0 .. MaxCalls /\ file["record"].n \in 0 .. MaxCalls

(* A save that did not find another one under way has the temporary file to *)
(* itself.                                                                  *)
SaveInv ==
  ~collided =>
    /\ \A v, w \in Saving : v = w
    /\ \A w \in Saving :
         /\ call[w].handle = "temp"
         /\ file["temp"] = IF At(w, "write") THEN Empty ELSE Whole(call[w].n)

(* Without overlaps one call is served at a time.                           *)
AloneInv ==
  overlaps = 0 => \A v, w \in Workers : At(v, "idle") \/ At(w, "idle") \/ v = w

NumberInv ==
  /\ \A w \in Workers : At(w, "event") =>
       call[w].n <= Len(trace) /\ (overlaps = 0 => call[w].n = Len(trace))
  /\ NumbersStayBehind

(* The evaluation on file is the latest report, or the call that filed that *)
(* report is about to write it.                                             *)
FilingInv ==
  ~disturbed =>
    /\ \A v, w \in Filing : v = w
    /\ \A w \in Filing : call[w].n = reports
    /\ \A w \in Filing : At(w, "fill") => evaluation = Empty
    /\ Filing = {} /\ reports > 0 => evaluation = Whole(reports)

-----------------------------------------------------------------------------
(* What a step makes of the call that takes it.                             *)

(* The other calls are left as they are.                                    *)
Apart(w) == \A v \in Workers \ {w} : call'[v] = call[v]

(* The call goes on with this, or it is over.                               *)
HasFields(c, pc, n, h) == c.pc = pc /\ c.n = n /\ c.handle = h
Turn(w, pc, n, h) == HasFields(call'[w], pc, n, h) /\ Apart(w)
Over(w) == call'[w] = IdleCall /\ Apart(w)

(* The fields of a well-typed call have their types.                        *)
LEMMA CallFields ==
  ASSUME TypeOK, NEW w \in Workers
  PROVE  /\ call[w] \in Calls
         /\ call[w].pc \in PCs /\ call[w].n \in Nat /\ call[w].handle \in Handles
  BY DEF TypeOK, Calls

(* A thread that changes its call leaves the other threads alone.           *)
LEMMA Becomes ==
  ASSUME TypeOK, NEW w \in Workers, NEW c, Become(w, c)
  PROVE  call'[w] = c /\ Apart(w) /\ (c \in Calls => call' \in [Workers -> Calls])
  BY DEF TypeOK, Become, Apart

(* A thread that returns is idle; the others stay where they are.           *)
LEMMA Returns ==
  ASSUME TypeOK, NEW w \in Workers, Return(w)
  PROVE  Over(w) /\ call' \in [Workers -> Calls]
<1>1. IdleCall \in Calls  BY DEF IdleCall, Calls, PCs, Handles
<1> QED  BY <1>1, Becomes DEF Return, Over

(* A call that becomes one of these fields has turned into it.              *)
LEMMA TurnsInto ==
  ASSUME TypeOK, NEW w \in Workers, NEW q, NEW pc, NEW n, NEW h,
         Become(w, q), q \in Calls, HasFields(q, pc, n, h)
  PROVE  Turn(w, pc, n, h) /\ call' \in [Workers -> Calls]
  BY Becomes DEF Turn, HasFields

(* The steps, by what the call is afterwards.                               *)
LEMMA Turns ==
  ASSUME TypeOK, NEW w \in Workers
  PROVE  LET c == call[w] IN
         /\ \A pc \in {"open", "number", "report"} : Begin(w, pc) =>
              Turn(w, pc, calls + 1, "gone") /\ call' \in [Workers -> Calls]
         /\ OpenTemporary(w) =>
              Turn(w, "write", c.n, "temp") /\ call' \in [Workers -> Calls]
         /\ WriteTemporary(w) =>
              Turn(w, "rename", c.n, c.handle) /\ call' \in [Workers -> Calls]
         /\ NumberEvent(w) =>
              Turn(w, "event", Len(trace), c.handle) /\ call' \in [Workers -> Calls]
         /\ AppendReport(w) =>
              Turn(w, "truncate", reports + 1, c.handle) /\ call' \in [Workers -> Calls]
         /\ TruncateEvaluation(w) =>
              Turn(w, "fill", c.n, c.handle) /\ call' \in [Workers -> Calls]
         /\ AppendEvent(w) \/ FillEvaluation(w) \/ CallRaises(w) =>
              Over(w) /\ call' \in [Workers -> Calls]
         /\ Rename(w) /\ file["temp"] = NoFile => Over(w) /\ call' \in [Workers -> Calls]
<1> DEFINE c == call[w]
<1>0. /\ c.pc \in PCs /\ c.n \in Nat /\ c.handle \in Handles
      /\ c \in Calls /\ "temp" \in Handles /\ "gone" \in Handles
      /\ calls \in Nat /\ reports \in Nat /\ Len(trace) \in Nat
  BY CallFields DEF TypeOK, Handles
<1>1. ASSUME NEW pc \in {"open", "number", "report"}, Begin(w, pc)
      PROVE  Turn(w, pc, calls + 1, "gone") /\ call' \in [Workers -> Calls]
  <2> DEFINE q == [IdleCall EXCEPT !.pc = pc, !.n = calls + 1]
  <2>0. calls + 1 \in Nat  BY <1>0
  <2>1. q \in Calls /\ HasFields(q, pc, calls + 1, "gone")
    BY <1>0, <2>0 DEF Calls, HasFields, PCs, IdleCall
  <2>2. Become(w, q)  BY <1>1 DEF Begin
  <2> HIDE DEF q
  <2> QED  BY <1>0, <2>1, <2>2, TurnsInto
<1>2. ASSUME OpenTemporary(w)
      PROVE  Turn(w, "write", c.n, "temp") /\ call' \in [Workers -> Calls]
  <2> DEFINE q == [call[w] EXCEPT !.pc = "write", !.handle = "temp"]
  <2>1. q \in Calls /\ HasFields(q, "write", c.n, "temp")
    BY <1>0 DEF Calls, HasFields, PCs
  <2>2. Become(w, q)  BY <1>2 DEF OpenTemporary
  <2> HIDE DEF q
  <2> QED  BY <1>0, <2>1, <2>2, TurnsInto
<1>3. ASSUME NEW pc \in PCs, Goto(w, pc)
      PROVE  Turn(w, pc, c.n, c.handle) /\ call' \in [Workers -> Calls]
  <2> DEFINE q == [call[w] EXCEPT !.pc = pc]
  <2>1. q \in Calls /\ HasFields(q, pc, c.n, c.handle)
    BY <1>0 DEF Calls, HasFields, PCs
  <2>2. Become(w, q)  BY <1>3 DEF Goto
  <2> HIDE DEF q
  <2> QED  BY <1>0, <2>1, <2>2, TurnsInto
<1>4. WriteTemporary(w) => Turn(w, "rename", c.n, c.handle) /\ call' \in [Workers -> Calls]
  BY <1>3 DEF WriteTemporary, PCs
<1>5. ASSUME NumberEvent(w)
      PROVE  Turn(w, "event", Len(trace), c.handle) /\ call' \in [Workers -> Calls]
  <2> DEFINE q == [call[w] EXCEPT !.pc = "event", !.n = Len(trace)]
  <2>1. q \in Calls /\ HasFields(q, "event", Len(trace), c.handle)
    BY <1>0 DEF Calls, HasFields, PCs
  <2>2. Become(w, q)  BY <1>5 DEF NumberEvent
  <2> HIDE DEF q
  <2> QED  BY <1>0, <2>1, <2>2, TurnsInto
<1>6. ASSUME AppendReport(w)
      PROVE  Turn(w, "truncate", reports + 1, c.handle) /\ call' \in [Workers -> Calls]
  <2> DEFINE q == [call[w] EXCEPT !.pc = "truncate", !.n = reports + 1]
  <2>0. reports + 1 \in Nat  BY <1>0
  <2>1. q \in Calls /\ HasFields(q, "truncate", reports + 1, c.handle)
    BY <1>0, <2>0 DEF Calls, HasFields, PCs
  <2>2. Become(w, q)  BY <1>6 DEF AppendReport
  <2> HIDE DEF q
  <2> QED  BY <1>0, <2>1, <2>2, TurnsInto
<1>7. TruncateEvaluation(w) => Turn(w, "fill", c.n, c.handle) /\ call' \in [Workers -> Calls]
  BY <1>3 DEF TruncateEvaluation, PCs
<1>8. /\ AppendEvent(w) \/ FillEvaluation(w) \/ CallRaises(w) =>
           Over(w) /\ call' \in [Workers -> Calls]
      /\ Rename(w) /\ file["temp"] = NoFile => Over(w) /\ call' \in [Workers -> Calls]
  BY Returns DEF AppendEvent, FillEvaluation, CallRaises, Rename
<1> QED  BY <1>1, <1>2, <1>4, <1>5, <1>6, <1>7, <1>8

(* What a rename into place does to the calls: handles of the temporary     *)
(* file become handles of the record.                                       *)
LEMMA RenameTurns ==
  ASSUME TypeOK, NEW w \in Workers, Rename(w), file["temp"] # NoFile
  PROVE  /\ call'[w] = IdleCall
         /\ \A v \in Workers \ {w} :
              HasFields(call'[v], call[v].pc, call[v].n, Renamed(call[v].handle))
         /\ call' \in [Workers -> Calls]
<1> DEFINE Q(v) == IF v = w THEN IdleCall ELSE [call[v] EXCEPT !.handle = Renamed(@)]
<1>1. call' = [v \in Workers |-> Q(v)]  BY DEF Rename
<1>2. IdleCall \in Calls  BY DEF IdleCall, Calls, PCs, Handles
<1>3. ASSUME NEW v \in Workers \ {w}
      PROVE  /\ HasFields(Q(v), call[v].pc, call[v].n, Renamed(call[v].handle))
             /\ Q(v) \in Calls
  <2>1. call[v] \in Calls  BY CallFields
  <2>2. Renamed(call[v].handle) \in Handles  BY DEF Renamed, Handles
  <2> QED  BY <2>1, <2>2 DEF Calls, HasFields
<1>4. Q(w) = IdleCall  OBVIOUS
<1> HIDE DEF Q
<1> QED  BY <1>1, <1>2, <1>3, <1>4

-----------------------------------------------------------------------------
(* Type correctness.                                                        *)

(* What can be in a file: nothing, a whole text, or what a writer leaves of *)
(* one.                                                                     *)
LEMMA TextTypes ==
  /\ NoFile \in Texts /\ Empty \in Texts /\ Torn \in Texts
  /\ \A n \in Nat : Whole(n) \in Texts
  /\ \A old, n : n \in Nat => Written(old, n) \subseteq Texts
  BY DEF NoFile, Empty, Torn, Whole, Written, Texts

(* Steps of the threads are the beginning of a call or a step of one.       *)
Step(w) == Serve(w) \/ \E pc \in {"open", "number", "report"} : Begin(w, pc)
Starts(w) == \E pc \in {"open", "number", "report"} : Begin(w, pc)

(* Steps of the threads keep the types.                                     *)
LEMMA TypeStep ==
  ASSUME TypeOK, NEW w \in Workers, Step(w)
  PROVE  TypeOK'
<1>1. CASE Starts(w)
  <2>1. PICK pc \in {"open", "number", "report"} : Begin(w, pc)  BY <1>1 DEF Starts
  <2>2. call' \in [Workers -> Calls]  BY <2>1, Turns
  <2>3. calls' \in Nat /\ overlaps' \in Nat  BY <2>1 DEF Begin, TypeOK
  <2> QED  BY <2>1, <2>2, <2>3 DEF Begin, TypeOK
<1>2. CASE OpenTemporary(w)
  <2>1. call' \in [Workers -> Calls]  BY <1>2, Turns
  <2>2. file' \in [{"temp", "record"} -> Texts]  BY <1>2, TextTypes DEF OpenTemporary, TypeOK
  <2>3. collided' \in BOOLEAN  BY <1>2 DEF OpenTemporary
  <2> QED  BY <1>2, <2>1, <2>2, <2>3 DEF OpenTemporary, TypeOK, counters
<1>3. CASE WriteTemporary(w)
  <2>1. call' \in [Workers -> Calls]  BY <1>3, Turns
  <2>2. file' \in [{"temp", "record"} -> Texts]
    BY <1>3, TextTypes, CallFields DEF WriteTemporary, TypeOK
  <2> QED  BY <1>3, <2>1, <2>2 DEF WriteTemporary, TypeOK, counters
<1>4. CASE Rename(w)
  <2>1. call' \in [Workers -> Calls]
    <3>1. CASE file["temp"] = NoFile  BY <1>4, <3>1, Turns
    <3> QED  BY <1>4, <3>1, RenameTurns
  <2>2. file' \in [{"temp", "record"} -> Texts]
    <3>1. CASE file["temp"] = NoFile  BY <1>4, <3>1 DEF Rename, TypeOK
    <3>2. CASE file["temp"] # NoFile
      <4>1. file' = [temp |-> NoFile, record |-> file["temp"]]  BY <1>4, <3>2 DEF Rename
      <4>2. file["temp"] \in Texts /\ NoFile \in Texts  BY TextTypes DEF TypeOK
      <4> QED  BY <4>1, <4>2
    <3> QED  BY <3>1, <3>2
  <2> QED  BY <1>4, <2>1, <2>2 DEF Rename, TypeOK, counters
<1>5. CASE NumberEvent(w)
  <2>1. call' \in [Workers -> Calls]  BY <1>5, Turns
  <2> QED  BY <1>5, <2>1 DEF NumberEvent, TypeOK, counters
<1>6. CASE AppendEvent(w)
  <2>1. call' \in [Workers -> Calls]  BY <1>6, Turns
  <2>2. trace' \in Seq(Nat)  BY <1>6, CallFields DEF AppendEvent, TypeOK
  <2> QED  BY <1>6, <2>1, <2>2 DEF AppendEvent, TypeOK, counters
<1>7. CASE AppendReport(w)
  <2>1. call' \in [Workers -> Calls]  BY <1>7, Turns
  <2>2. reports' \in Nat /\ disturbed' \in BOOLEAN  BY <1>7 DEF AppendReport, TypeOK
  <2> QED  BY <1>7, <2>1, <2>2 DEF AppendReport, TypeOK, counters
<1>8. CASE TruncateEvaluation(w)
  <2>1. call' \in [Workers -> Calls]  BY <1>8, Turns
  <2>2. evaluation' \in Texts  BY <1>8, TextTypes DEF TruncateEvaluation
  <2> QED  BY <1>8, <2>1, <2>2 DEF TruncateEvaluation, TypeOK, counters
<1>9. CASE FillEvaluation(w)
  <2>1. call' \in [Workers -> Calls]  BY <1>9, Turns
  <2>2. evaluation' \in Texts  BY <1>9, TextTypes, CallFields DEF FillEvaluation
  <2> QED  BY <1>9, <2>1, <2>2 DEF FillEvaluation, TypeOK, counters
<1>10. CASE CallRaises(w)
  <2>1. call' \in [Workers -> Calls]  BY <1>10, Turns
  <2>2. evaluation' \in Texts  BY <1>10, TextTypes DEF CallRaises, TypeOK
  <2>3. file' \in [{"temp", "record"} -> Texts]
    BY <1>10, TextTypes, CallFields DEF CallRaises, TypeOK
  <2>4. disturbed' \in BOOLEAN  BY <1>10 DEF CallRaises
  <2> QED  BY <1>10, <2>1, <2>2, <2>3, <2>4 DEF CallRaises, TypeOK, counters
<1> QED  BY <1>1, <1>2, <1>3, <1>4, <1>5, <1>6, <1>7, <1>8, <1>9, <1>10 DEF Serve, Step, Starts

(* A crash keeps the types.                                                 *)
LEMMA CrashTypes ==
  ASSUME TypeOK, Crash
  PROVE  TypeOK'
<1>1. IdleCall \in Calls  BY DEF IdleCall, Calls, PCs, Handles
<1>2. disturbed' \in BOOLEAN  BY DEF Crash
<1> QED  BY <1>1, <1>2 DEF Crash, TypeOK

-----------------------------------------------------------------------------
(* What every step leaves alone.                                            *)

(* The calls other than w do not notice more than a handle renamed.         *)
Unnoticed(w) ==
  \A v \in Workers \ {w} : call'[v].pc = call[v].pc /\ call'[v].n = call[v].n

(* A call under way changes no counter of the bounds.                       *)
LEMMA ServeFrames ==
  ASSUME TypeOK, NEW w \in Workers, Serve(w)
  PROVE  /\ ~At(w, "idle") /\ Unnoticed(w)
         /\ ~(Rename(w) /\ file["temp"] # NoFile) => Apart(w)
         /\ calls' = calls /\ overlaps' = overlaps /\ crashes' = crashes
<1>1. ~At(w, "idle") /\ UNCHANGED counters
  BY DEF Serve, OpenTemporary, WriteTemporary, Rename, NumberEvent, AppendEvent,
         AppendReport, TruncateEvaluation, FillEvaluation, CallRaises, At
<1>2. ~(Rename(w) /\ file["temp"] # NoFile) => Apart(w)
  BY Turns DEF Serve, Turn, Over
<1>3. Unnoticed(w)
  BY <1>2, RenameTurns DEF Apart, Unnoticed, HasFields
<1> QED  BY <1>1, <1>2, <1>3 DEF counters

(* A call that begins touches no file; it overlaps unless all threads are   *)
(* idle.                                                                    *)
LEMMA BeginFrames ==
  ASSUME TypeOK, NEW w \in Workers, Starts(w)
  PROVE  /\ At(w, "idle") /\ call'[w].pc \in {"open", "number", "report"}
         /\ call'[w].n = calls + 1 /\ Apart(w) /\ Unnoticed(w)
         /\ calls < MaxCalls /\ calls' = calls + 1
         /\ overlaps' = IF AllIdle THEN overlaps ELSE overlaps + 1
         /\ UNCHANGED <<file, evaluation, trace, reports, collided, disturbed, crashes>>
<1>1. PICK pc \in {"open", "number", "report"} : Begin(w, pc)  BY DEF Starts
<1>2. call'[w].pc = pc /\ call'[w].n = calls + 1 /\ Apart(w)  BY <1>1, Turns DEF Turn, HasFields
<1> QED  BY <1>1, <1>2 DEF Begin, Apart, Unnoticed

(* A crash ends the calls and leaves the files as they are.                 *)
LEMMA CrashFrames ==
  ASSUME Crash, NEW w \in Workers
  PROVE  call'[w] = IdleCall /\ call'[w].pc = "idle"
  BY DEF Crash, IdleCall

(* Where the call that takes a step stands before and after it.             *)
LEMMA Moves ==
  ASSUME TypeOK, NEW w \in Workers
  PROVE  /\ OpenTemporary(w) => call[w].pc = "open" /\ call'[w].pc = "write"
         /\ WriteTemporary(w) => call[w].pc = "write" /\ call'[w].pc = "rename"
         /\ Rename(w) => call[w].pc = "rename" /\ call'[w].pc = "idle"
         /\ NumberEvent(w) => call[w].pc = "number" /\ call'[w].pc = "event"
         /\ AppendEvent(w) => call[w].pc = "event" /\ call'[w].pc = "idle"
         /\ AppendReport(w) => call[w].pc = "report" /\ call'[w].pc = "truncate"
         /\ TruncateEvaluation(w) => call[w].pc = "truncate" /\ call'[w].pc = "fill"
         /\ FillEvaluation(w) => call[w].pc = "fill" /\ call'[w].pc = "idle"
         /\ CallRaises(w) => call'[w].pc = "idle"
<1>1. /\ OpenTemporary(w) => call'[w].pc = "write"
      /\ WriteTemporary(w) => call'[w].pc = "rename"
      /\ NumberEvent(w) => call'[w].pc = "event"
      /\ AppendReport(w) => call'[w].pc = "truncate"
      /\ TruncateEvaluation(w) => call'[w].pc = "fill"
      /\ AppendEvent(w) \/ FillEvaluation(w) \/ CallRaises(w) => call'[w].pc = "idle"
      /\ Rename(w) /\ file["temp"] = NoFile => call'[w].pc = "idle"
  BY Turns DEF Turn, HasFields, Over, IdleCall
<1>2. Rename(w) /\ file["temp"] # NoFile => call'[w].pc = "idle"
  BY RenameTurns DEF IdleCall
<1> QED
  BY <1>1, <1>2 DEF OpenTemporary, WriteTemporary, Rename, NumberEvent, AppendEvent,
    AppendReport, TruncateEvaluation, FillEvaluation, At

(* The number in a file is that of the save, of the file it was or none.    *)
LEMMA FileNumbers ==
  ASSUME TypeOK, NEW w \in Workers, Step(w)
  PROVE  /\ WriteTemporary(w) =>
              \A f \in {"temp", "record"} : file'[f].n \in {file[f].n, call[w].n, 0}
         /\ CallRaises(w) => \A f \in {"temp", "record"} : file'[f].n \in {file[f].n, 0}
         /\ OpenTemporary(w) => file'["temp"].n = 0 /\ file'["record"] = file["record"]
         /\ Rename(w) => file'["temp"].n \in {file["temp"].n, 0}
                         /\ file'["record"].n \in {file["temp"].n, file["record"].n}
         /\ ~WriteTemporary(w) /\ ~OpenTemporary(w) /\ ~Rename(w) /\ ~CallRaises(w) =>
              file' = file
<1>1. ASSUME WriteTemporary(w), NEW f \in {"temp", "record"}
      PROVE  file'[f].n \in {file[f].n, call[w].n, 0}
  <2>1. CASE call[w].handle = "gone"  BY <1>1, <2>1 DEF WriteTemporary
  <2>2. CASE call[w].handle # "gone"
    <3> DEFINE h == call[w].handle
    <3>1. PICK text \in Written(file[h], call[w].n) : file' = [file EXCEPT ![h] = text]
      BY <1>1, <2>2 DEF WriteTemporary
    <3>2. text.n \in {call[w].n, 0}  BY <3>1 DEF Written, Whole, Torn
    <3>3. file'[f] = IF f = h THEN text ELSE file[f]
      BY <3>1 DEF TypeOK
    <3> HIDE DEF h
    <3> QED  BY <3>2, <3>3
  <2> QED  BY <2>1, <2>2
<1>2. ASSUME OpenTemporary(w)
      PROVE  file'["temp"].n = 0 /\ file'["record"] = file["record"]
  BY <1>2 DEF OpenTemporary, TypeOK, Empty
<1>3. ASSUME Rename(w)
      PROVE  /\ file'["temp"].n \in {file["temp"].n, 0}
             /\ file'["record"].n \in {file["temp"].n, file["record"].n}
  <2>1. CASE file["temp"] = NoFile  BY <1>3, <2>1 DEF Rename
  <2>2. CASE file["temp"] # NoFile
    <3>1. file' = [temp |-> NoFile, record |-> file["temp"]]  BY <1>3, <2>2 DEF Rename
    <3> QED  BY <3>1 DEF NoFile
  <2> QED  BY <2>1, <2>2
<1>4. ASSUME CallRaises(w), NEW f \in {"temp", "record"}
      PROVE  file'[f].n \in {file[f].n, 0}
  BY <1>4, CallFields DEF CallRaises, Torn, TypeOK, Handles
<1>5. ~WriteTemporary(w) /\ ~OpenTemporary(w) /\ ~Rename(w) /\ ~CallRaises(w) => file' = file
  BY BeginFrames DEF Step, Starts, Serve, NumberEvent, AppendEvent, AppendReport,
    TruncateEvaluation, FillEvaluation
<1> QED  BY <1>1, <1>2, <1>3, <1>4, <1>5

-----------------------------------------------------------------------------
(* Saves and files are from the calls there are.                            *)

(* Steps of the threads keep the numbers within the calls there are.        *)
LEMMA CallStep ==
  ASSUME TypeOK, CallInv, NEW w \in Workers, Step(w)
  PROVE  CallInv'
<1>0. /\ calls \in Nat /\ MaxCalls \in Nat /\ calls <= MaxCalls
      /\ file["temp"].n \in 0 .. MaxCalls /\ file["record"].n \in 0 .. MaxCalls
      /\ \A v \in Workers :
           call[v].pc \in {"open", "write", "rename"} => call[v].n \in 1 .. MaxCalls
  BY CallsAssumption DEF TypeOK, CallInv
<1>1. Unnoticed(w)  BY ServeFrames, BeginFrames DEF Step, Starts
<1>2. calls' <= MaxCalls
  <2>1. CASE Starts(w)  BY <1>0, <2>1, BeginFrames
  <2>2. CASE Serve(w)  BY <1>0, <2>2, ServeFrames
  <2> QED  BY <2>1, <2>2 DEF Step, Starts
<1>3. call'[w].pc \in {"open", "write", "rename"} => call'[w].n \in 1 .. MaxCalls
  <2>1. CASE Starts(w)  BY <1>0, <2>1, BeginFrames
  <2>2. CASE OpenTemporary(w) \/ WriteTemporary(w)
    <3>1. call[w].pc \in {"open", "write"}  BY <2>2, Moves
    <3>2. call'[w].n = call[w].n  BY <2>2, Turns DEF Turn, HasFields
    <3> QED  BY <1>0, <3>1, <3>2
  <2>3. CASE Serve(w) /\ ~OpenTemporary(w) /\ ~WriteTemporary(w)
    BY <2>3, Moves DEF Serve
  <2> QED  BY <2>1, <2>2, <2>3 DEF Step, Starts
<1>4. file'["temp"].n \in 0 .. MaxCalls /\ file'["record"].n \in 0 .. MaxCalls
  <2>1. WriteTemporary(w) => call[w].n \in 1 .. MaxCalls  BY <1>0, Moves
  <2>2. 0 \in 0 .. MaxCalls /\ 1 .. MaxCalls \subseteq 0 .. MaxCalls  BY <1>0
  <2> QED  BY <1>0, <2>1, <2>2, FileNumbers
<1> QED  BY <1>0, <1>1, <1>2, <1>3, <1>4 DEF CallInv, Unnoticed

(* The same for a crash.                                                    *)
LEMMA CallCrash ==
  ASSUME CallInv, Crash
  PROVE  CallInv'
<1>1. UNCHANGED <<file, calls>>  BY DEF Crash
<1> QED  BY <1>1, CrashFrames DEF CallInv

-----------------------------------------------------------------------------
(* Without overlaps one call is served at a time.                           *)

(* Without overlap at most one thread is at work.                           *)
LEMMA AloneStep ==
  ASSUME TypeOK, AloneInv, NEW w \in Workers, Step(w)
  PROVE  AloneInv'
<1>1. ASSUME Starts(w), overlaps' = 0, NEW v \in Workers \ {w}
      PROVE  At(v, "idle")'
  <2>0. /\ overlaps' = IF AllIdle THEN overlaps ELSE overlaps + 1
        /\ Unnoticed(w) /\ overlaps \in Nat
    BY <1>1, BeginFrames DEF TypeOK
  <2>1. AllIdle  BY <1>1, <2>0
  <2> QED  BY <2>0, <2>1 DEF AllIdle, At, Unnoticed
<1>2. ASSUME Serve(w), overlaps' = 0, NEW v \in Workers \ {w}
      PROVE  At(v, "idle")'
  BY <1>2, ServeFrames DEF AloneInv, At, Unnoticed
<1> QED  BY <1>1, <1>2 DEF AloneInv, Step, Starts

(* After a crash none is.                                                   *)
LEMMA AloneCrash ==
  ASSUME Crash
  PROVE  AloneInv'
  BY CrashFrames DEF AloneInv, At

(* A call that is served without overlaps is the only one.                  *)
LEMMA OnlyOne ==
  ASSUME TypeOK, AloneInv, NEW w \in Workers, Serve(w), overlaps = 0,
         NEW v \in Workers \ {w}
  PROVE  call[v].pc = "idle" /\ call'[v].pc = "idle"
  BY ServeFrames DEF AloneInv, At, Unnoticed

-----------------------------------------------------------------------------
(* Events are numbered behind the events before them.                       *)

(* What appending to a sequence does, place by place.                       *)
LEMMA Appended ==
  ASSUME NEW S, NEW s \in Seq(S), NEW x \in S
  PROVE  /\ Append(s, x) \in Seq(S)
         /\ Len(s) \in Nat /\ Len(Append(s, x)) = Len(s) + 1
         /\ DOMAIN s = 1 .. Len(s) /\ DOMAIN Append(s, x) = 1 .. Len(s) + 1
         /\ \A i \in 1 .. Len(s) : Append(s, x)[i] = s[i]
         /\ Append(s, x)[Len(s) + 1] = x
  OBVIOUS

(* Events keep numbers below their places: steps of the threads.            *)
LEMMA NumberStep ==
  ASSUME TypeOK, AloneInv, NumberInv, NEW w \in Workers, Step(w)
  PROVE  NumberInv'
<1>0. trace \in Seq(Nat) /\ Len(trace) \in Nat /\ overlaps \in Nat /\ call[w].n \in Nat
      /\ \A v \in Workers : call[v].n \in Nat
  BY CallFields DEF TypeOK
<1>1. overlaps' = 0 => overlaps = 0  BY <1>0, ServeFrames, BeginFrames DEF Step, Starts
<1>2. Unnoticed(w)  BY ServeFrames, BeginFrames DEF Step, Starts
<1>3. CASE AppendEvent(w)
  <2>1. call[w].pc = "event" /\ call'[w].pc = "idle" /\ trace' = Append(trace, call[w].n)
    BY <1>3, Moves DEF AppendEvent
  <2>2. /\ Len(trace') = Len(trace) + 1 /\ DOMAIN trace = 1 .. Len(trace)
        /\ DOMAIN trace' = 1 .. Len(trace) + 1
        /\ \A i \in 1 .. Len(trace) : trace'[i] = trace[i]
        /\ trace'[Len(trace) + 1] = call[w].n
    BY <2>1, <1>0, Appended
  <2>3. call[w].n <= Len(trace) /\ (overlaps = 0 => call[w].n = Len(trace))
    BY <2>1 DEF NumberInv, At
  <2>4. NumbersStayBehind'
    <3>1. SUFFICES ASSUME NEW i \in DOMAIN trace'
                   PROVE  trace'[i] < i /\ (overlaps' = 0 => trace'[i] = i - 1)
      BY DEF NumbersStayBehind
    <3>2. CASE i = Len(trace) + 1  BY <3>2, <1>0, <1>1, <2>2, <2>3
    <3>3. CASE i \in 1 .. Len(trace)
      BY <3>3, <1>1, <2>2 DEF NumberInv, NumbersStayBehind
    <3> QED  BY <3>2, <3>3, <2>2, <1>0
  <2>5. ASSUME NEW v \in Workers, At(v, "event")'
        PROVE  call'[v].n <= Len(trace') /\ (overlaps' = 0 => call'[v].n = Len(trace'))
    <3>1. v # w  BY <2>1, <2>5 DEF At
    <3>2. call'[v].n = call[v].n /\ call[v].pc = "event"
      BY <3>1, <2>5, <1>2 DEF Unnoticed, At
    <3>3. call[v].n <= Len(trace)  BY <3>2 DEF NumberInv, At
    <3>4. overlaps' # 0
      BY <3>1, <3>2, <1>1, <1>3, OnlyOne DEF Serve
    <3> QED  BY <3>2, <3>3, <3>4, <2>2, <1>0
  <2> QED  BY <2>4, <2>5 DEF NumberInv
<1>4. CASE ~AppendEvent(w)
  <2>1. trace' = trace
    BY <1>4, BeginFrames DEF Step, Starts, Serve, OpenTemporary, WriteTemporary, Rename,
      NumberEvent, AppendReport, TruncateEvaluation, FillEvaluation, CallRaises
  <2>2. ASSUME NEW v \in Workers \ {w}, At(v, "event")'
        PROVE  call'[v].n <= Len(trace') /\ (overlaps' = 0 => call'[v].n = Len(trace'))
    <3>1. call'[v].n = call[v].n /\ call[v].pc = "event"
      BY <2>2, <1>2 DEF Unnoticed, At
    <3> QED  BY <3>1, <2>1, <1>1 DEF NumberInv, At
  <2>3. ASSUME At(w, "event")'
        PROVE  call'[w].n <= Len(trace') /\ (overlaps' = 0 => call'[w].n = Len(trace'))
    <3>1. NumberEvent(w)
      BY <1>4, <2>3, Moves, BeginFrames DEF At, Step, Starts, Serve
    <3>2. call'[w].n = Len(trace)  BY <3>1, Turns DEF Turn, HasFields
    <3> QED  BY <3>2, <2>1, <1>0
  <2>4. NumbersStayBehind'
    BY <2>1, <1>1 DEF NumberInv, NumbersStayBehind
  <2> QED  BY <2>2, <2>3, <2>4 DEF NumberInv
<1> QED  BY <1>3, <1>4

(* The same for a crash.                                                    *)
LEMMA NumberCrash ==
  ASSUME NumberInv, Crash
  PROVE  NumberInv'
<1>1. UNCHANGED <<trace, overlaps>>  BY DEF Crash
<1> QED  BY <1>1, CrashFrames DEF NumberInv, NumbersStayBehind, At

-----------------------------------------------------------------------------
(* The evaluation on file is the latest report.                             *)

(* Who is filing: appending the report begins it, filling the file ends it. *)
LEMMA FilingMoves ==
  ASSUME TypeOK, NEW w \in Workers, Step(w)
  PROVE  /\ AppendReport(w) => w \notin Filing /\ Filing' = Filing \union {w}
         /\ TruncateEvaluation(w) => w \in Filing /\ Filing' = Filing
         /\ FillEvaluation(w) => w \in Filing /\ Filing' = Filing \ {w}
         /\ CallRaises(w) => Filing' = Filing \ {w}
         /\ ~AppendReport(w) /\ ~TruncateEvaluation(w) /\ ~FillEvaluation(w) /\ ~CallRaises(w) =>
              w \notin Filing /\ Filing' = Filing
<1>0. Unnoticed(w)  BY ServeFrames, BeginFrames DEF Step, Starts
<1>1. /\ AppendReport(w) => call[w].pc = "report" /\ call'[w].pc = "truncate"
      /\ TruncateEvaluation(w) => call[w].pc = "truncate" /\ call'[w].pc = "fill"
      /\ FillEvaluation(w) => call[w].pc = "fill" /\ call'[w].pc = "idle"
      /\ CallRaises(w) => call'[w].pc = "idle"
  BY Moves
<1>2. ~AppendReport(w) /\ ~TruncateEvaluation(w) /\ ~FillEvaluation(w) /\ ~CallRaises(w) =>
        call[w].pc \notin {"truncate", "fill"} /\ call'[w].pc \notin {"truncate", "fill"}
  BY Moves, BeginFrames DEF Step, Starts, Serve, At
<1> QED  BY <1>0, <1>1, <1>2 DEF Filing, Unnoticed, At

(* The evaluation on file is the latest report, or about to become it,      *)
(* unless the latest was disturbed.                                         *)
LEMMA FilingStep ==
  ASSUME TypeOK, FilingInv, NEW w \in Workers, Step(w)
  PROVE  FilingInv'
<1> SUFFICES ASSUME ~disturbed'
             PROVE  /\ \A u, v \in Filing' : u = v
                    /\ \A v \in Filing' : call'[v].n = reports'
                    /\ \A v \in Filing' : At(v, "fill")' => evaluation' = Empty
                    /\ Filing' = {} /\ reports' > 0 => evaluation' = Whole(reports')
  BY DEF FilingInv
<1>0. Unnoticed(w) /\ Filing \subseteq Workers
  BY ServeFrames, BeginFrames DEF Filing, Step, Starts
<1>1. ~disturbed =>
        /\ \A u, v \in Filing : u = v
        /\ \A v \in Filing : call[v].n = reports
        /\ \A v \in Filing : At(v, "fill") => evaluation = Empty
        /\ Filing = {} /\ reports > 0 => evaluation = Whole(reports)
  BY DEF FilingInv
<1>2. CASE AppendReport(w)
  <2>1. Filing' = {w}  BY <1>2, FilingMoves DEF AppendReport
  <2>2. call'[w].pc = "truncate" /\ call'[w].n = reports' /\ reports' = reports + 1
    BY <1>2, Turns DEF Turn, HasFields, AppendReport
  <2> QED  BY <2>1, <2>2 DEF At
<1>3. CASE TruncateEvaluation(w)
  <2>1. /\ w \in Filing /\ Filing' = Filing /\ ~disturbed /\ reports' = reports
        /\ evaluation' = Empty
    BY <1>3, FilingMoves DEF TruncateEvaluation
  <2>2. call'[w].n = call[w].n  BY <1>3, Turns DEF Turn, HasFields
  <2>3. Filing = {w}  BY <1>1, <2>1
  <2> QED  BY <1>1, <2>1, <2>2, <2>3
<1>4. CASE FillEvaluation(w)
  <2>1. /\ w \in Filing /\ Filing' = Filing \ {w} /\ ~disturbed /\ reports' = reports
        /\ evaluation' \in Written(evaluation, call[w].n) /\ At(w, "fill")
    BY <1>4, FilingMoves DEF FillEvaluation
  <2>2. evaluation' = Whole(reports)  BY <1>1, <2>1 DEF Written
  <2>3. Filing' = {}  BY <1>1, <2>1
  <2> QED  BY <2>1, <2>2, <2>3
<1>5. CASE CallRaises(w)
  <2>1. w \notin Filing /\ ~disturbed /\ reports' = reports
    BY <1>5 DEF CallRaises
  <2>2. evaluation' = evaluation  BY <1>5, <2>1 DEF CallRaises, Filing
  <2>3. Filing' = Filing  BY <1>5, <2>1, FilingMoves
  <2>4. \A v \in Filing : /\ call'[v].n = call[v].n
                          /\ At(v, "fill")' <=> At(v, "fill")
    BY <1>0, <2>1 DEF Unnoticed, At
  <2> QED  BY <1>1, <2>1, <2>2, <2>3, <2>4
<1>6. CASE ~AppendReport(w) /\ ~TruncateEvaluation(w) /\ ~FillEvaluation(w) /\ ~CallRaises(w)
  <2>1. UNCHANGED <<reports, evaluation, disturbed>>
    BY <1>6, BeginFrames DEF Step, Starts, Serve, OpenTemporary, WriteTemporary, Rename,
      NumberEvent, AppendEvent
  <2>2. w \notin Filing /\ Filing' = Filing  BY <1>6, FilingMoves
  <2>3. \A v \in Filing : /\ call'[v].n = call[v].n
                          /\ At(v, "fill")' <=> At(v, "fill")
    BY <1>0, <2>2 DEF Unnoticed, At
  <2> QED  BY <1>1, <2>1, <2>2, <2>3
<1> QED  BY <1>2, <1>3, <1>4, <1>5, <1>6

(* A crash disturbs an evaluation that is being filed.                      *)
LEMMA FilingCrash ==
  ASSUME TypeOK, FilingInv, Crash
  PROVE  FilingInv'
<1>1. Filing' = {}  BY CrashFrames DEF Filing, At
<1>2. UNCHANGED <<reports, evaluation>> /\ (disturbed' <=> disturbed \/ Filing # {})
  BY DEF Crash
<1> QED  BY <1>1, <1>2 DEF FilingInv

-----------------------------------------------------------------------------
(* The record implements AtomicRecord.                                      *)

(* Who is saving: opening begins a save, renaming or an error ends it.      *)
LEMMA SavingMoves ==
  ASSUME TypeOK, NEW w \in Workers, Step(w)
  PROVE  /\ OpenTemporary(w) => w \notin Saving /\ Saving' = Saving \union {w}
         /\ WriteTemporary(w) => w \in Saving /\ Saving' = Saving
         /\ Rename(w) => w \in Saving /\ Saving' = Saving \ {w}
         /\ CallRaises(w) => Saving' = Saving \ {w}
         /\ ~OpenTemporary(w) /\ ~WriteTemporary(w) /\ ~Rename(w) /\ ~CallRaises(w) =>
              w \notin Saving /\ Saving' = Saving
<1>0. Unnoticed(w)  BY ServeFrames, BeginFrames DEF Step, Starts
<1>1. /\ OpenTemporary(w) => call[w].pc = "open" /\ call'[w].pc = "write"
      /\ WriteTemporary(w) => call[w].pc = "write" /\ call'[w].pc = "rename"
      /\ Rename(w) => call[w].pc = "rename" /\ call'[w].pc = "idle"
      /\ CallRaises(w) => call'[w].pc = "idle"
  BY Moves
<1>2. ~OpenTemporary(w) /\ ~WriteTemporary(w) /\ ~Rename(w) /\ ~CallRaises(w) =>
        call[w].pc \notin {"write", "rename"} /\ call'[w].pc \notin {"write", "rename"}
  BY Moves, BeginFrames DEF Step, Starts, Serve, At
<1> QED  BY <1>0, <1>1, <1>2 DEF Saving, Unnoticed, At

(* Steps of calls that are not saving leave the saves as they are.          *)
LEMMA SavesApart ==
  ASSUME TypeOK, NEW w \in Workers, Step(w), ~OpenTemporary(w), w \notin Saving
  PROVE  /\ Saving' = Saving /\ file' = file /\ collided' = collided
         /\ \A v \in Saving : v \in Workers \ {w} /\ call'[v] = call[v]
<1>1. ~WriteTemporary(w) /\ ~Rename(w)  BY SavingMoves
<1>2. Apart(w)  BY <1>1, ServeFrames, BeginFrames DEF Step, Starts
<1>3. collided' = collided
  BY <1>1, BeginFrames DEF Step, Starts, Serve, NumberEvent, AppendEvent, AppendReport,
    TruncateEvaluation, FillEvaluation, CallRaises
<1>4. CallRaises(w) => file' = file  BY DEF CallRaises, Saving
<1> QED  BY <1>1, <1>2, <1>3, <1>4, SavingMoves, FileNumbers DEF Apart, Saving

(* A save that found none under way keeps the temporary file to itself,     *)
(* until another one begins and is marked as colliding.                     *)
LEMMA SaveStep ==
  ASSUME TypeOK, SaveInv, NEW w \in Workers, Step(w)
  PROVE  SaveInv'
<1> SUFFICES ASSUME ~collided'
             PROVE  /\ \A u, v \in Saving' : u = v
                    /\ \A v \in Saving' :
                         /\ call'[v].handle = "temp"
                         /\ file'["temp"] = IF At(v, "write")' THEN Empty
                                                               ELSE Whole(call'[v].n)
  BY DEF SaveInv
<1>0. ~collided =>
        /\ \A u, v \in Saving : u = v
        /\ \A v \in Saving :
             /\ call[v].handle = "temp"
             /\ file["temp"] = IF At(v, "write") THEN Empty ELSE Whole(call[v].n)
  BY DEF SaveInv
<1>1. file \in [{"temp", "record"} -> Texts]  BY DEF TypeOK
<1>2. CASE OpenTemporary(w)
  <2>1. Saving' = {w}  BY <1>2, SavingMoves DEF OpenTemporary
  <2>2. file'["temp"] = Empty  BY <1>1, <1>2 DEF OpenTemporary
  <2>3. call'[w].pc = "write" /\ call'[w].handle = "temp"  BY <1>2, Turns DEF Turn, HasFields
  <2> QED  BY <2>1, <2>2, <2>3 DEF At
<1>3. CASE WriteTemporary(w)
  <2>1. w \in Saving /\ Saving' = Saving /\ ~collided /\ At(w, "write")
    BY <1>3, SavingMoves DEF WriteTemporary
  <2>2. call'[w].pc = "rename" /\ call'[w].n = call[w].n /\ call'[w].handle = call[w].handle
    BY <1>3, Turns DEF Turn, HasFields
  <2>3. Saving = {w} /\ call[w].handle = "temp" /\ file["temp"] = Empty  BY <1>0, <2>1
  <2>4. file'["temp"] = Whole(call[w].n)
    BY <1>1, <1>3, <2>3 DEF WriteTemporary, Written
  <2> QED  BY <2>1, <2>2, <2>3, <2>4 DEF At
<1>4. CASE Rename(w) \/ (CallRaises(w) /\ w \in Saving)
  <2>1. w \in Saving /\ Saving' = Saving \ {w} /\ ~collided
    BY <1>4, SavingMoves DEF Rename, CallRaises
  <2>2. Saving' = {}  BY <1>0, <2>1
  <2> QED  BY <2>2
<1>5. CASE ~OpenTemporary(w) /\ w \notin Saving
  <2>1. /\ Saving' = Saving /\ file' = file /\ collided' = collided
        /\ \A v \in Saving : call'[v] = call[v]
    BY <1>5, SavesApart
  <2>2. \A v \in Saving : At(v, "write")' <=> At(v, "write")  BY <2>1 DEF At
  <2> QED  BY <1>0, <2>1, <2>2
<1> QED  BY <1>2, <1>3, <1>4, <1>5, SavingMoves

(* A crash ends all saves.                                                  *)
LEMMA SaveCrash ==
  ASSUME Crash
  PROVE  SaveInv' /\ Saving' = {}
<1>1. Saving' = {}  BY CrashFrames DEF Saving, At
<1> QED  BY <1>1 DEF SaveInv

(* What a reader of the record goes by.                                     *)
value == file["record"].n
intact == file["record"].text \in {"none", "whole"}
pending == {call[w].n : w \in Saving}

(* Saves that run into each other leave what AtomicRecord leaves open.      *)
LEMMA Collides ==
  ASSUME CallInv', collided, collided' = collided, pending' \in SUBSET pending
  PROVE  Promise!Next
<1>1. value' \in 1 .. MaxCalls \union {0}  BY CallsAssumption DEF CallInv, value
<1>2. intact' \in BOOLEAN  BY DEF intact
<1>3. Promise!Collide  BY <1>1, <1>2 DEF Promise!Collide, pending, value, intact
<1> QED  BY <1>3 DEF Promise!Next

(* Every step of a thread is one of the abstract record or changes nothing  *)
(* of it.                                                                   *)
LEMMA PromisedStep ==
  ASSUME TypeOK, CallInv, SaveInv, NEW w \in Workers, Step(w)
  PROVE  Promise!Next \/ UNCHANGED Promise!recordVars
<1>0. ~collided =>
        /\ \A u, v \in Saving : u = v
        /\ \A v \in Saving :
             /\ call[v].handle = "temp"
             /\ file["temp"] = IF At(v, "write") THEN Empty ELSE Whole(call[v].n)
  BY DEF SaveInv
<1>1. /\ Saving \subseteq Workers /\ collided \in BOOLEAN
      /\ file \in [{"temp", "record"} -> Texts]
  BY DEF Saving, TypeOK
<1>2. CallInv' /\ Unnoticed(w)
  BY CallStep, ServeFrames, BeginFrames DEF Step, Starts
<1>3. CASE OpenTemporary(w)
  <2>1. /\ Saving' = Saving \union {w} /\ file'["record"] = file["record"]
        /\ collided' = (Saving # {})
    BY <1>3, SavingMoves, FileNumbers DEF OpenTemporary
  <2>2. call[w].n \in 1 .. MaxCalls  BY <1>3, Moves DEF CallInv
  <2>3. \A v \in Saving \union {w} : call'[v].n = call[v].n
    BY <1>1, <1>3, Turns DEF Turn, HasFields, Apart
  <2>4. /\ pending' = pending \union {call[w].n}
        /\ (Saving # {} <=> pending # {})
    BY <2>1, <2>3 DEF pending
  <2>5. /\ collided' = (pending # {}) /\ value' = value /\ intact' = intact
    BY <2>1, <2>4 DEF value, intact
  <2>6. PICK n \in 1 .. MaxCalls : n = call[w].n  BY <2>2
  <2>7. Promise!Begin(n)
    BY <2>4, <2>5, <2>6 DEF Promise!Begin, pending, value, intact
  <2> QED  BY <2>6, <2>7 DEF Promise!Next
<1>4. CASE WriteTemporary(w)
  <2>1. w \in Saving /\ Saving' = Saving /\ collided' = collided
    BY <1>4, SavingMoves DEF WriteTemporary
  <2>2. \A v \in Saving : call'[v].n = call[v].n
    BY <1>1, <1>4, Turns DEF Turn, HasFields, Apart
  <2>3. pending' = pending  BY <2>1, <2>2 DEF pending
  <2>4. CASE ~collided
    <3>1. call[w].handle = "temp"  BY <1>0, <2>1, <2>4
    <3>2. file'["record"] = file["record"]  BY <1>1, <1>4, <3>1 DEF WriteTemporary
    <3> QED  BY <2>1, <2>3, <3>2 DEF Promise!recordVars, pending
  <2> QED  BY <1>2, <2>1, <2>3, <2>4, Collides
<1>5. CASE Rename(w)
  <2>1. w \in Saving /\ Saving' = Saving \ {w} /\ collided' = collided /\ ~At(w, "write")
    BY <1>5, SavingMoves DEF Rename, At
  <2>2. \A v \in Saving' : call'[v].n = call[v].n
    BY <1>1, <1>2, <2>1 DEF Unnoticed
  <2>3. pending' \in SUBSET pending /\ call[w].n \in pending  BY <2>1, <2>2 DEF pending
  <2>4. CASE ~collided
    <3>1. file["temp"] = Whole(call[w].n) /\ Saving = {w}  BY <1>0, <2>1, <2>4
    <3>2. file' = [temp |-> NoFile, record |-> file["temp"]]
      <4>1. Whole(call[w].n) # NoFile  BY DEF Whole, NoFile
      <4> QED  BY <1>5, <3>1, <4>1 DEF Rename
    <3>3. value' = call[w].n /\ intact' = TRUE  BY <3>1, <3>2 DEF value, intact, Whole
    <3>4. pending' = pending \ {call[w].n}  BY <2>1, <3>1 DEF pending
    <3>5. PICK n \in pending : n = call[w].n  BY <2>3
    <3>6. Promise!Complete(n)
      BY <2>1, <3>3, <3>4, <3>5 DEF Promise!Complete, pending, value, intact
    <3> QED  BY <3>5, <3>6 DEF Promise!Next, pending
  <2> QED  BY <1>2, <2>1, <2>3, <2>4, Collides
<1>6. CASE CallRaises(w) /\ w \in Saving
  <2>1. Saving' = Saving \ {w} /\ collided' = collided
    BY <1>6, SavingMoves DEF CallRaises
  <2>2. \A v \in Saving' : call'[v].n = call[v].n
    BY <1>1, <1>2, <2>1 DEF Unnoticed
  <2>3. pending' \in SUBSET pending /\ call[w].n \in pending  BY <1>6, <2>1, <2>2 DEF pending
  <2>4. CASE ~collided
    <3>1. call[w].handle = "temp" /\ Saving = {w}  BY <1>0, <1>6, <2>4
    <3>2. file'["record"] = file["record"]  BY <1>1, <1>6, <3>1 DEF CallRaises
    <3>3. value' = value /\ intact' = intact  BY <3>2 DEF value, intact
    <3>4. pending' = pending \ {call[w].n}  BY <2>1, <3>1 DEF pending
    <3>5. PICK n \in pending : n = call[w].n  BY <2>3
    <3>6. Promise!Abandon(n)
      BY <2>1, <3>3, <3>4, <3>5 DEF Promise!Abandon, pending, value, intact
    <3> QED  BY <3>5, <3>6 DEF Promise!Next, pending
  <2> QED  BY <1>2, <2>1, <2>3, <2>4, Collides
<1>7. CASE ~OpenTemporary(w) /\ w \notin Saving
  <2>1. /\ Saving' = Saving /\ file' = file /\ collided' = collided
        /\ \A v \in Saving : call'[v] = call[v]
    BY <1>7, SavesApart
  <2>2. {call'[v].n : v \in Saving'} = {call[v].n : v \in Saving}  BY <2>1
  <2> QED  BY <2>1, <2>2 DEF Promise!recordVars
<1> QED  BY <1>3, <1>4, <1>5, <1>6, <1>7, SavingMoves

(* A crash is a crash of the abstract record.                               *)
LEMMA PromisedCrash ==
  ASSUME Crash
  PROVE  Promise!Next
<1>1. Saving' = {} /\ UNCHANGED <<file, collided>>  BY SaveCrash DEF Crash
<1>2. Promise!Crash  BY <1>1 DEF Promise!Crash
<1> QED  BY <1>2 DEF Promise!Next

-----------------------------------------------------------------------------
(* The invariant and what it yields.                                        *)

StoreInv == TypeOK /\ CallInv /\ SaveInv /\ AloneInv /\ NumberInv /\ FilingInv

(* The empty files satisfy the invariant.                                   *)
LEMMA InitStore == Init => StoreInv
<1> SUFFICES ASSUME Init PROVE StoreInv  OBVIOUS
<1>1. IdleCall \in Calls  BY DEF IdleCall, Calls, PCs, Handles
<1>2. \A w \in Workers : call[w].pc = "idle"  BY DEF Init, IdleCall
<1>3. Saving = {} /\ Filing = {}  BY <1>2 DEF Saving, Filing, At
<1>4. TypeOK
  <2>1. file \in [{"temp", "record"} -> Texts] /\ evaluation \in Texts
    BY TextTypes DEF Init
  <2>2. call \in [Workers -> Calls] /\ trace \in Seq(Nat)  BY <1>1 DEF Init
  <2>3. /\ reports \in Nat /\ collided \in BOOLEAN /\ disturbed \in BOOLEAN
        /\ calls \in Nat /\ overlaps \in Nat /\ crashes \in Nat
    BY DEF Init
  <2> QED  BY <2>1, <2>2, <2>3 DEF TypeOK
<1>5. CallInv
  BY <1>2, CallsAssumption DEF Init, CallInv, NoFile
<1>6. SaveInv /\ FilingInv  BY <1>3 DEF Init, SaveInv, FilingInv
<1>7. AloneInv /\ NumberInv
  BY <1>2 DEF Init, AloneInv, NumberInv, NumbersStayBehind, At
<1> QED  BY <1>4, <1>5, <1>6, <1>7 DEF StoreInv

(* Every step keeps it.                                                     *)
LEMMA StoreStep == StoreInv /\ [Next]_storeVars => StoreInv'
<1> SUFFICES ASSUME StoreInv, [Next]_storeVars PROVE StoreInv'  OBVIOUS
<1> USE DEF StoreInv
<1>1. CASE \E w \in Workers : Step(w)
  <2>1. PICK w \in Workers : Step(w)  BY <1>1
  <2> QED  BY <2>1, TypeStep, CallStep, SaveStep, AloneStep, NumberStep, FilingStep
<1>2. CASE Crash
  BY <1>2, CrashTypes, CallCrash, SaveCrash, AloneCrash, NumberCrash, FilingCrash
<1>3. CASE UNCHANGED storeVars
  BY <1>3 DEF storeVars, counters, TypeOK, CallInv, SaveInv, Saving, AloneInv, NumberInv,
    NumbersStayBehind, FilingInv, Filing, At
<1> QED  BY <1>1, <1>2, <1>3 DEF Next, Step

(* The invariant holds in every reachable state.                            *)
THEOREM StoreInvariance == Spec => []StoreInv
<1> QED  BY InitStore, StoreStep, PTL DEF Spec

(* However many calls there are and whenever the process dies, an event is  *)
(* never numbered above the events before it, and exactly by them as long   *)
(* as calls do not overlap.                                                 *)
THEOREM EventsAreNumbered == Spec => []NumbersStayBehind
<1>1. StoreInv => NumbersStayBehind  BY DEF StoreInv, NumberInv
<1> QED  BY <1>1, StoreInvariance, PTL

(* Whatever became of earlier evaluations, the one on file is the latest    *)
(* and whole, unless that one ran into another or was cut short.            *)
THEOREM LatestEvaluationIsOnFile == Spec => []EvaluationIsLatest
<1>1. StoreInv => EvaluationIsLatest  BY DEF StoreInv, FilingInv, EvaluationIsLatest
<1> QED  BY <1>1, StoreInvariance, PTL

(* A record that is written aside and renamed into place is an atomic       *)
(* record: crashes and saves that raise never spoil it, and saves that run  *)
(* into each other only until the next save that is alone.                  *)
THEOREM RecordIsAtomic == Spec => ImplementsAtomicRecord
<1>1. Init => Promise!Init
  <2> SUFFICES ASSUME Init PROVE Promise!Init  OBVIOUS
  <2>1. Saving = {}  BY DEF Init, Saving, At, IdleCall
  <2> QED  BY <2>1 DEF Init, Promise!Init, NoFile
<1>2. StoreInv /\ [Next]_storeVars => [Promise!Next]_(Promise!recordVars)
  <2> SUFFICES ASSUME StoreInv, [Next]_storeVars
               PROVE  Promise!Next \/ UNCHANGED Promise!recordVars
    OBVIOUS
  <2>1. CASE \E w \in Workers : Step(w)
    BY <2>1, PromisedStep DEF StoreInv
  <2>2. CASE Crash  BY <2>2, PromisedCrash
  <2>3. CASE UNCHANGED storeVars
    BY <2>3 DEF storeVars, Promise!recordVars, Saving, At
  <2> QED  BY <2>1, <2>2, <2>3 DEF Next, Step
<1> QED  BY <1>1, <1>2, StoreInvariance, PTL DEF Spec, ImplementsAtomicRecord, Promise!Spec
=============================================================================
