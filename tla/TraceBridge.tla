----------------------------- MODULE TraceBridge -----------------------------
(***************************************************************************)
(* AgnoEventBridge and TraceStore for the trace of one run: consume turns  *)
(* the events that the research team streams into rows of spans, events    *)
(* and measurements.  The bridge keeps the open spans and the next number  *)
(* in memory, shared by the threads that execute a stage of the run; the   *)
(* rows are on disk.  Traces share nothing, except that retention deletes  *)
(* the whole of any trace with an ended span old enough.                   *)
(***************************************************************************)
EXTENDS Naturals, Sequences, FiniteSets

CONSTANTS
  Streams,        \* the threads that stream a team's events
  Components,     \* what spans stand for: the team, an agent, a tool call
  Measured,       \* model requests and tool calls
  MaxEvents,      \* bound: events streamed
  MaxOverlaps,    \* bound: events that arrive while another stream is at work
  MaxRestarts,    \* bound: how often the process restarts
  MaxPrunes       \* bound: how often retention deletes the trace

ASSUME TraceAssumption ==
  /\ Components # {} /\ Measured \subseteq Components
  /\ MaxEvents \in Nat /\ MaxOverlaps \in Nat
  /\ MaxRestarts \in Nat /\ MaxPrunes \in Nat

VARIABLES
  spans,      \* every span made, by span_id; its row, or why it has none
  open,       \* _open: the span of each component, or NoSpan
  sequence,   \* _sequences of the run
  events,     \* the numbers of the event rows, in the order they were put
  reports,    \* the spans that have a measurement row
  live,       \* the attempts each stream has begun and not ended
  event,      \* the event each stream consumes
  arrived, overlaps, restarts, prunes,
  dropped,    \* attempts that ended without an event: an exception ended
              \* the stream, or the runtime began another attempt
  lost        \* history: the numbers taken for events that were never put

rows == <<spans, events, reports>>
memory == <<open, sequence>>
counters == <<arrived, overlaps, restarts, prunes, dropped, lost>>
vars == <<rows, memory, live, event, counters>>

NoSpan == 0
SpanIds == 1 .. Len(spans)
Running == "running"
Outcomes == {"ok", "error", "cancelled"}
SpanStatuses == {Running, "unsaved", "pruned"} \union Outcomes

(* Events that neither start nor end anything ("other") have a key of their *)
(* own, which is never open.                                                *)
Kinds == {"started", "other"} \union Outcomes

PCs == {"idle", "put_started", "put_ended", "pop", "read_number",
        "write_number", "put_event", "put_report"}
NoEvent == [pc |-> "idle", kind |-> "other", on |-> CHOOSE c \in Components : TRUE,
            span |-> NoSpan, number |-> 0]

At(s, pc) == event[s].pc = pc
Quiet == \A s \in Streams : At(s, "idle")
Goto(s, pc) == event' = [event EXCEPT ![s].pc = pc]

-----------------------------------------------------------------------------
(* An event arrives and its key is looked up. *)
Arrive(s, c, kind, span, pc) ==
  /\ At(s, "idle") /\ arrived < MaxEvents
  /\ arrived' = arrived + 1
  /\ IF \A r \in Streams \ {s} : At(r, "idle") /\ live[r] = {}
       THEN UNCHANGED overlaps
       ELSE overlaps < MaxOverlaps /\ overlaps' = overlaps + 1
  /\ event' = [event EXCEPT ![s] = [pc |-> pc, kind |-> kind, on |-> c, span |-> span, number |-> 0]]
  /\ UNCHANGED <<restarts, prunes, lost>>

NewSpan(c) == spans' = Append(spans, [on |-> c, status |-> "unsaved"])

(* A start opens a span in place of the one that is open, if any. *)
Started(s, c) ==
  /\ Arrive(s, c, "started", Len(spans) + 1, "put_started")
  /\ NewSpan(c)
  /\ open' = [open EXCEPT ![c] = Len(spans) + 1]
  /\ live' = [live EXCEPT ![s] = @ \union {c}]
  /\ dropped' = IF c \in live[s] THEN dropped + 1 ELSE dropped
  /\ UNCHANGED <<sequence, events, reports>>

(* An end belongs to the open span, or to one made for it. *)
Ended(s, c, outcome) ==
  /\ c \in live[s]
  /\ live' = [live EXCEPT ![s] = @ \ {c}]
  /\ IF open[c] = NoSpan
       THEN NewSpan(c) /\ Arrive(s, c, outcome, Len(spans) + 1, "put_ended")
       ELSE UNCHANGED spans /\ Arrive(s, c, outcome, open[c], "put_ended")
  /\ UNCHANGED <<events, reports, memory, dropped>>

Other(s, c) ==
  /\ Arrive(s, c, "other", NoSpan, "read_number")
  /\ UNCHANGED <<rows, memory, live, dropped>>

(* An exception ends the stream; no event tells of what was going on. *)
StreamBreaks(s) ==
  /\ At(s, "idle") /\ live[s] # {}
  /\ live' = [live EXCEPT ![s] = {}]
  /\ dropped' = dropped + Cardinality(live[s])
  /\ UNCHANGED <<rows, memory, event, arrived, overlaps, restarts, prunes, lost>>

-----------------------------------------------------------------------------
(* The rest of consume, one step per access to the store or the numbers. *)
PutStarted(s) ==
  /\ At(s, "put_started")
  /\ spans' = [spans EXCEPT ![event[s].span].status = Running]
  /\ Goto(s, "read_number")
  /\ UNCHANGED <<events, reports, memory, live, counters>>

PutEnded(s) ==
  /\ At(s, "put_ended")
  /\ spans' = [spans EXCEPT ![event[s].span].status = event[s].kind]
  /\ Goto(s, "pop")
  /\ UNCHANGED <<events, reports, memory, live, counters>>

(* Mutant: an ended span stays open. *)
LeaveOpen(s) ==
  /\ At(s, "pop")
  /\ Goto(s, "read_number")
  /\ UNCHANGED <<rows, memory, live, counters>>

Pop(s) ==
  /\ At(s, "pop")
  /\ open' = [open EXCEPT ![event[s].on] = NoSpan]
  /\ Goto(s, "read_number")
  /\ UNCHANGED <<rows, sequence, live, counters>>

ReadNumber(s) ==
  /\ At(s, "read_number")
  /\ event' = [event EXCEPT ![s].pc = "write_number", ![s].number = sequence]
  /\ UNCHANGED <<rows, memory, live, counters>>

(* Mutant: the number is raised by two. *)
RaiseTwice(s) ==
  /\ At(s, "write_number")
  /\ sequence' = sequence + 2
  /\ Goto(s, "put_event")
  /\ UNCHANGED <<rows, open, live, counters>>

WriteNumber(s) ==
  /\ At(s, "write_number")
  /\ sequence' = event[s].number + 1
  /\ Goto(s, "put_event")
  /\ UNCHANGED <<rows, open, live, counters>>

Measures(e) == e.on \in Measured /\ e.kind \in {"ok", "error"}

PutEvent(s) ==
  /\ At(s, "put_event")
  /\ events' = Append(events, event[s].number)
  /\ Goto(s, IF Measures(event[s]) THEN "put_report" ELSE "idle")
  /\ UNCHANGED <<spans, reports, memory, live, counters>>

PutReport(s) ==
  /\ At(s, "put_report")
  /\ reports' = Append(reports, event[s].span)
  /\ Goto(s, "idle")
  /\ UNCHANGED <<spans, events, memory, live, counters>>

(* consume raises: the store refuses a row, or a payload cannot be redacted *)
(* or serialised.  What it did so far stays done, a number it took is gone, *)
(* and the stream ends; execute may begin another.                          *)
ConsumeRaises(s) ==
  /\ ~At(s, "idle")
  /\ event' = [event EXCEPT ![s] = NoEvent]
  /\ live' = [live EXCEPT ![s] = {}]
  /\ dropped' = dropped + Cardinality(live[s] \union {event[s].on})
  /\ lost' = IF At(s, "put_event") THEN lost \union {event[s].number} ELSE lost
  /\ UNCHANGED <<rows, memory, arrived, overlaps, restarts, prunes>>

-----------------------------------------------------------------------------
(* The rows stay, and what the bridge kept in memory is gone. *)
Restart ==
  /\ restarts < MaxRestarts
  /\ restarts' = restarts + 1
  /\ open' = [c \in Components |-> NoSpan] /\ sequence' = 0
  /\ live' = [s \in Streams |-> {}]
  /\ event' = [s \in Streams |-> NoEvent]
  /\ UNCHANGED <<rows, arrived, overlaps, prunes, dropped, lost>>

(* prune: one ended span is enough, the running ones go with it. *)
Prune ==
  /\ prunes < MaxPrunes
  /\ \E i \in SpanIds : spans[i].status \in Outcomes
  /\ prunes' = prunes + 1
  /\ spans' = [i \in SpanIds |-> IF spans[i].status = "unsaved" THEN spans[i]
                                 ELSE [spans[i] EXCEPT !.status = "pruned"]]
  /\ events' = <<>> /\ reports' = <<>>
  /\ UNCHANGED <<memory, live, event, arrived, overlaps, restarts, dropped, lost>>

Init ==
  /\ spans = <<>> /\ events = <<>> /\ reports = <<>>
  /\ open = [c \in Components |-> NoSpan] /\ sequence = 0
  /\ live = [s \in Streams |-> {}]
  /\ event = [s \in Streams |-> NoEvent]
  /\ arrived = 0 /\ overlaps = 0 /\ restarts = 0 /\ prunes = 0 /\ dropped = 0 /\ lost = {}

Receive(s) ==
  \/ \E c \in Components :
       \/ Started(s, c) \/ Other(s, c)
       \/ \E outcome \in Outcomes : Ended(s, c, outcome)
  \/ StreamBreaks(s)

Consume(s) ==
  \/ PutStarted(s) \/ PutEnded(s) \/ Pop(s)
  \/ ReadNumber(s) \/ WriteNumber(s) \/ PutEvent(s) \/ PutReport(s)

Next ==
  \/ \E s \in Streams : Receive(s) \/ Consume(s) \/ ConsumeRaises(s)
  \/ Restart \/ Prune

Spec == Init /\ [][Next]_vars

-----------------------------------------------------------------------------
TypeOK ==
  /\ spans \in Seq([on : Components, status : SpanStatuses])
  /\ open \in [Components -> SpanIds \union {NoSpan}]
  /\ sequence \in Nat
  /\ events \in Seq(Nat)
  /\ reports \in Seq(SpanIds)
  /\ live \in [Streams -> SUBSET Components]
  /\ event \in [Streams -> [pc : PCs, kind : Kinds, on : Components,
                            span : SpanIds \union {NoSpan}, number : Nat]]
  /\ lost \subseteq Nat

(* While streams come one at a time, every attempt keeps a span of its own: *)
(* the spans shown running are those the bridge can still end, unless an    *)
(* attempt ended without an event, the process restarted, or the trace was  *)
(* deleted.                                                                 *)
RunningAreOpen ==
  Quiet /\ overlaps + restarts + prunes + dropped = 0 =>
    {i \in SpanIds : spans[i].status = Running} = {open[c] : c \in Components} \ {NoSpan}

(* A gap in the numbers of a trace's events tells of an event that consume  *)
(* failed to put, and of nothing else, however consume overlaps with        *)
(* itself; while streams come one at a time no number is used twice, by two *)
(* events or by an event and one that was not put.                          *)
GapsAreLostEvents ==
  Quiet /\ restarts + prunes = 0 =>
    LET used == {events[i] : i \in DOMAIN events} IN
    /\ \A n \in used \union lost : 0 .. n \subseteq used \union lost
    /\ overlaps = 0 =>
         /\ used \intersect lost = {}
         /\ Len(events) = Cardinality(used)
         /\ sequence = Len(events) + Cardinality(lost)
=============================================================================
