-------------------------- MODULE TraceBridgeProofs --------------------------
(***************************************************************************)
(* Theorems of TraceBridge, for any number of streams, components, events, *)
(* restarts and deletions.                                                 *)
(***************************************************************************)
EXTENDS TraceBridge, SequenceTheorems, FiniteSetTheorems, TLAPS

USE TraceAssumption

Spans == [on : Components, status : SpanStatuses]
Consumed(n) == [pc : PCs, kind : Kinds, on : Components,
                span : (1 .. n) \union {NoSpan}, number : Nat]

(* An event that starts or ends something has the span it made or found. *)
HasSpan(e, n) ==
  /\ e.kind # "other" => e.span \in 1 .. n
  /\ e.pc = "put_ended" => e.kind \in Outcomes
  /\ e.pc \in {"put_started", "put_ended", "put_report"} => e.span \in 1 .. n

TypeInv ==
  /\ TypeOK
  /\ \A s \in Streams : HasSpan(event[s], Len(spans))

(* The empty trace is well typed.                                           *)
LEMMA TypeInit == Init => TypeInv
<1> SUFFICES ASSUME Init PROVE TypeInv
  OBVIOUS
<1>1. NoEvent \in Consumed(0) /\ HasSpan(NoEvent, 0)
  BY DEF NoEvent, Consumed, HasSpan, PCs, Kinds, Outcomes, NoSpan
<1>2. spans = <<>> /\ Len(spans) = 0
  BY DEF Init
<1>3. event \in [Streams -> Consumed(0)] /\ \A s \in Streams : HasSpan(event[s], 0)
  BY <1>1 DEF Init
<1> QED
  BY <1>2, <1>3 DEF Init, TypeInv, TypeOK, Consumed, SpanIds, NoSpan

(* What is true of an event stays true when the spans become more. *)
LEMMA MoreSpans ==
  ASSUME NEW m \in Nat, NEW n \in Nat, m <= n
  PROVE  /\ Consumed(m) \subseteq Consumed(n)
         /\ \A e \in Consumed(m) : HasSpan(e, m) => HasSpan(e, n)
  BY DEF Consumed, HasSpan, NoSpan

(* The type of the events, of the open spans and of the reports when there  *)
(* are n spans.                                                             *)
Typed(n) ==
  /\ open \in [Components -> (1 .. n) \union {NoSpan}]
  /\ reports \in Seq(1 .. n)
  /\ event \in [Streams -> Consumed(n)]
  /\ \A s \in Streams : HasSpan(event[s], n)

(* The types by the number of spans there are.                              *)
LEMMA TypedMeans ==
  TypeInv <=> /\ spans \in Seq(Spans) /\ Typed(Len(spans))
              /\ sequence \in Nat /\ events \in Seq(Nat)
              /\ live \in [Streams -> SUBSET Components] /\ lost \subseteq Nat
  BY DEF TypeInv, TypeOK, Typed, Spans, Consumed, SpanIds

(* They stay right when spans are added.                                    *)
LEMMA TypedMore ==
  ASSUME NEW m \in Nat, NEW n \in Nat, m <= n, Typed(m)
  PROVE  Typed(n)
<1>1. reports \in Seq(1 .. n)
  BY DEF Typed
<1>2. event \in [Streams -> Consumed(n)] /\ \A s \in Streams : HasSpan(event[s], n)
  BY MoreSpans DEF Typed
<1> QED
  BY <1>1, <1>2 DEF Typed

(* A step of consume changes one event, which keeps its component and span. *)
LEMMA EventMoves ==
  ASSUME NEW n \in Nat, Typed(n), NEW s \in Streams, NEW e \in Consumed(n), HasSpan(e, n),
         event' = [event EXCEPT ![s] = e]
  PROVE  event' \in [Streams -> Consumed(n)] /\ \A r \in Streams : HasSpan(event'[r], n)
  BY DEF Typed

(* An event that goes on keeps its type and its span.                       *)
LEMMA EventGoesTo ==
  ASSUME NEW n \in Nat, Typed(n), NEW s \in Streams, NEW pc \in PCs \ {"put_started", "put_ended"},
         pc = "put_report" => event[s].kind # "other",
         Goto(s, pc)
  PROVE  event' \in [Streams -> Consumed(n)] /\ \A r \in Streams : HasSpan(event'[r], n)
<1> DEFINE e == [event[s] EXCEPT !.pc = pc]
<1>1. e \in Consumed(n) /\ HasSpan(e, n)
  BY DEF Typed, Consumed, HasSpan
<1>2. event' = [event EXCEPT ![s] = e]
  BY DEF Goto
<1> HIDE DEF e
<1> QED
  BY <1>1, <1>2, EventMoves

(* So does one that arrives.                                                *)
LEMMA ArriveTyped ==
  ASSUME NEW n \in Nat, Typed(n), NEW s \in Streams, NEW c \in Components,
         NEW kind \in Kinds, NEW span \in (1 .. n) \union {NoSpan}, NEW pc \in PCs,
         kind # "other" => span \in 1 .. n,
         pc = "put_ended" => kind \in Outcomes,
         pc \in {"put_started", "put_ended", "put_report"} => kind # "other",
         Arrive(s, c, kind, span, pc)
  PROVE  event' \in [Streams -> Consumed(n)] /\ \A r \in Streams : HasSpan(event'[r], n)
<1> DEFINE e == [pc |-> pc, kind |-> kind, on |-> c, span |-> span, number |-> 0]
<1>1. e \in Consumed(n) /\ HasSpan(e, n)
  BY DEF Consumed, HasSpan
<1>2. event' = [event EXCEPT ![s] = e]
  BY DEF Arrive
<1> HIDE DEF e
<1> QED
  BY <1>1, <1>2, EventMoves

(* Steps of a stream keep the types.                                        *)
LEMMA StreamStep ==
  ASSUME TypeInv, NEW s \in Streams, Receive(s) \/ Consume(s)
  PROVE  TypeInv'
<1> DEFINE n == Len(spans)
<1>1. /\ spans \in Seq(Spans) /\ Typed(n) /\ n \in Nat
      /\ sequence \in Nat /\ events \in Seq(Nat)
      /\ live \in [Streams -> SUBSET Components] /\ lost \subseteq Nat
  BY TypedMeans
<1>0. lost' \subseteq Nat
  <2>1. Receive(s) => lost' = lost
    BY DEF Receive, Started, Ended, Other, StreamBreaks, Arrive
  <2>2. Consume(s) => lost' = lost
    BY DEF Consume, PutStarted, PutEnded, Pop, ReadNumber, WriteNumber, PutEvent, PutReport, counters
  <2> QED
    BY <1>1, <2>1, <2>2
<1> USE <1>0
<1>2. ASSUME NEW c \in Components, NewSpan(c)
      PROVE  spans' \in Seq(Spans) /\ Len(spans') = n + 1 /\ Typed(n + 1)
  <2>1. [on |-> c, status |-> "unsaved"] \in Spans
    BY DEF Spans, SpanStatuses
  <2> QED
    BY <1>1, <1>2, <2>1, TypedMore DEF NewSpan
<1>3. ASSUME NEW c \in Components, Started(s, c) PROVE TypeInv'
  <2>1. spans' \in Seq(Spans) /\ Len(spans') = n + 1 /\ Typed(n + 1)
    BY <1>2, <1>3 DEF Started
  <2>2. event' \in [Streams -> Consumed(n + 1)] /\ \A r \in Streams : HasSpan(event'[r], n + 1)
    BY <1>1, <1>3, <2>1, ArriveTyped DEF Started, Kinds, PCs
  <2>3. open' \in [Components -> (1 .. n + 1) \union {NoSpan}]
    BY <1>1, <1>3, <2>1 DEF Started, Typed
  <2>4. live' \in [Streams -> SUBSET Components]
    BY <1>1, <1>3 DEF Started
  <2> QED
    BY <1>1, <1>3, <2>1, <2>2, <2>3, <2>4, TypedMeans DEF Started, TypeInv, TypeOK, Typed, Spans, Consumed, SpanIds
<1>4. ASSUME NEW c \in Components, NEW outcome \in Outcomes, Ended(s, c, outcome) PROVE TypeInv'
  <2>1. live' \in [Streams -> SUBSET Components]
    BY <1>1, <1>4 DEF Ended
  <2>2. outcome \in Kinds /\ outcome # "other"
    BY DEF Kinds, Outcomes
  <2>3. CASE open[c] = NoSpan
    <3>1. spans' \in Seq(Spans) /\ Len(spans') = n + 1 /\ Typed(n + 1)
      BY <1>2, <1>4, <2>3 DEF Ended
    <3>2. event' \in [Streams -> Consumed(n + 1)] /\ \A r \in Streams : HasSpan(event'[r], n + 1)
      BY <1>1, <1>4, <2>2, <2>3, <3>1, ArriveTyped DEF Ended, PCs
    <3> QED
      BY <1>1, <1>4, <2>1, <3>1, <3>2 DEF Ended, memory, TypeInv, TypeOK, Typed, Spans, Consumed, SpanIds
  <2>4. CASE open[c] # NoSpan
    <3>1. open[c] \in 1 .. n
      BY <1>1, <2>4 DEF Typed
    <3>2. event' \in [Streams -> Consumed(n)] /\ \A r \in Streams : HasSpan(event'[r], n)
      BY <1>1, <1>4, <2>2, <2>4, <3>1, ArriveTyped DEF Ended, PCs
    <3> QED
      BY <1>1, <1>4, <2>1, <2>4, <3>2 DEF Ended, memory, TypeInv, TypeOK, Typed, Spans, Consumed, SpanIds
  <2> QED
    BY <2>3, <2>4
<1>5. ASSUME NEW c \in Components, Other(s, c) PROVE TypeInv'
  <2>1. event' \in [Streams -> Consumed(n)] /\ \A r \in Streams : HasSpan(event'[r], n)
    BY <1>1, <1>5, ArriveTyped DEF Other, Kinds, PCs
  <2> QED
    BY <1>1, <1>5, <2>1 DEF Other, rows, memory, TypeInv, TypeOK, Typed, Spans, Consumed, SpanIds
<1>6. ASSUME StreamBreaks(s) PROVE TypeInv'
  BY <1>1, <1>6 DEF StreamBreaks, rows, memory, TypeInv, TypeOK, SpanIds
<1>7. ASSUME PutStarted(s) \/ PutEnded(s) PROVE TypeInv'
  <2>1. event[s].span \in 1 .. n /\ (At(s, "put_ended") => event[s].kind \in Outcomes)
    BY <1>1, <1>7 DEF PutStarted, PutEnded, At, Typed, HasSpan
  <2>2. PICK status \in SpanStatuses : spans' = [spans EXCEPT ![event[s].span].status = status]
    <3>1. CASE PutStarted(s)
      BY <3>1 DEF PutStarted, SpanStatuses
    <3>2. CASE PutEnded(s)
      <4>1. event[s].kind \in SpanStatuses
        BY <2>1, <3>2 DEF PutEnded, SpanStatuses
      <4> QED
        BY <3>2, <4>1 DEF PutEnded
    <3> QED
      BY <1>7, <3>1, <3>2
  <2>3. spans' \in Seq(Spans) /\ Len(spans') = n
    <3> DEFINE i == event[s].span
               row == [spans[i] EXCEPT !.status = status]
    <3>1. row \in Spans
      <4>1. spans[i] \in Spans
        BY <1>1, <2>1
      <4> QED
        BY <4>1, <2>2 DEF Spans
    <3>2. spans' = [spans EXCEPT ![i] = row]
      BY <2>2
    <3> HIDE DEF row
    <3> QED
      BY <1>1, <2>1, <3>1, <3>2, ExceptSeq
  <2>4. event' \in [Streams -> Consumed(n)] /\ \A r \in Streams : HasSpan(event'[r], n)
    BY <1>1, <1>7, EventGoesTo DEF PutStarted, PutEnded, PCs
  <2>5. UNCHANGED <<open, sequence, events, reports, live>>
    BY <1>7 DEF PutStarted, PutEnded, memory
  <2> QED
    BY <1>1, <2>3, <2>4, <2>5 DEF TypeInv, TypeOK, Typed, Spans, Consumed, SpanIds
<1>8. ASSUME Pop(s) PROVE TypeInv'
  <2>1. event' \in [Streams -> Consumed(n)] /\ \A r \in Streams : HasSpan(event'[r], n)
    BY <1>1, <1>8, EventGoesTo DEF Pop, PCs
  <2>2. open' \in [Components -> (1 .. n) \union {NoSpan}]
    BY <1>1, <1>8 DEF Pop, Typed
  <2> QED
    BY <1>1, <1>8, <2>1, <2>2 DEF Pop, rows, TypeInv, TypeOK, Typed, Spans, Consumed, SpanIds
<1>9. ASSUME ReadNumber(s) PROVE TypeInv'
  <2> DEFINE e == [event[s] EXCEPT !.pc = "write_number", !.number = sequence]
  <2>1. e \in Consumed(n) /\ HasSpan(e, n)
    BY <1>1 DEF Typed, Consumed, HasSpan, PCs
  <2>2. event' = [event EXCEPT ![s] = e]
    BY <1>1, <1>9 DEF ReadNumber, Typed
  <2> HIDE DEF e
  <2>3. event' \in [Streams -> Consumed(n)] /\ \A r \in Streams : HasSpan(event'[r], n)
    BY <1>1, <2>1, <2>2, EventMoves
  <2> QED
    BY <1>1, <1>9, <2>3 DEF ReadNumber, rows, memory, TypeInv, TypeOK, Typed, Spans, Consumed, SpanIds
<1>10. ASSUME WriteNumber(s) PROVE TypeInv'
  <2>1. event' \in [Streams -> Consumed(n)] /\ \A r \in Streams : HasSpan(event'[r], n)
    BY <1>1, <1>10, EventGoesTo DEF WriteNumber, PCs
  <2>2. sequence' \in Nat
    BY <1>1, <1>10 DEF WriteNumber, Typed, Consumed
  <2> QED
    BY <1>1, <1>10, <2>1, <2>2 DEF WriteNumber, rows, TypeInv, TypeOK, Typed, Spans, Consumed, SpanIds
<1>11. ASSUME PutEvent(s) PROVE TypeInv'
  <2>1. event' \in [Streams -> Consumed(n)] /\ \A r \in Streams : HasSpan(event'[r], n)
    BY <1>1, <1>11, EventGoesTo DEF PutEvent, Measures, PCs
  <2>2. events' \in Seq(Nat)
    BY <1>1, <1>11 DEF PutEvent, Typed, Consumed
  <2> QED
    BY <1>1, <1>11, <2>1, <2>2 DEF PutEvent, memory, TypeInv, TypeOK, Typed, Spans, Consumed, SpanIds
<1>12. ASSUME PutReport(s) PROVE TypeInv'
  <2>1. event' \in [Streams -> Consumed(n)] /\ \A r \in Streams : HasSpan(event'[r], n)
    BY <1>1, <1>12, EventGoesTo DEF PutReport, PCs
  <2>2. event[s].span \in 1 .. n
    BY <1>1, <1>12 DEF PutReport, At, Typed, HasSpan
  <2>3. reports' \in Seq(1 .. n)
    BY <1>1, <1>12, <2>2 DEF PutReport, Typed
  <2> QED
    BY <1>1, <1>12, <2>1, <2>3 DEF PutReport, memory, TypeInv, TypeOK, Typed, Spans, Consumed, SpanIds
<1> QED
  BY <1>3, <1>4, <1>5, <1>6, <1>7, <1>8, <1>9, <1>10, <1>11, <1>12 DEF Receive, Consume

(* Every step does.                                                         *)
LEMMA TypeStep == TypeInv /\ [Next]_vars => TypeInv'
<1> SUFFICES ASSUME TypeInv, [Next]_vars PROVE TypeInv'
  OBVIOUS
<1>1. ASSUME Restart PROVE TypeInv'
  <2> DEFINE n == Len(spans)
  <2>1. /\ spans \in Seq(Spans) /\ Typed(n) /\ n \in Nat /\ events \in Seq(Nat)
        /\ lost \subseteq Nat
    BY TypedMeans
  <2>2. NoEvent \in Consumed(n) /\ HasSpan(NoEvent, n)
    BY DEF NoEvent, Consumed, HasSpan, PCs, Kinds, Outcomes, NoSpan
  <2>3. event' \in [Streams -> Consumed(n)] /\ \A r \in Streams : HasSpan(event'[r], n)
    BY <1>1, <2>2 DEF Restart
  <2> QED
    BY <1>1, <2>1, <2>3 DEF Restart, rows, TypeInv, TypeOK, Typed, Spans, Consumed, SpanIds
<1>2. ASSUME Prune PROVE TypeInv'
  <2> DEFINE n == Len(spans)
  <2>1. /\ spans \in Seq(Spans) /\ Typed(n) /\ n \in Nat
        /\ sequence \in Nat /\ live \in [Streams -> SUBSET Components] /\ lost \subseteq Nat
    BY TypedMeans
  <2>2. spans' \in Seq(Spans) /\ Len(spans') = n
    <3> DEFINE deleted(row) == IF row.status = "unsaved" THEN row ELSE [row EXCEPT !.status = "pruned"]
    <3>1. \A row \in Spans : deleted(row) \in Spans
      BY DEF Spans, SpanStatuses
    <3>2. spans' = [i \in 1 .. n |-> deleted(spans[i])]
      BY <1>2 DEF Prune, SpanIds
    <3>3. \A i \in 1 .. n : spans[i] \in Spans
      BY <2>1
    <3> HIDE DEF deleted
    <3>4. spans' \in [1 .. n -> Spans]
      BY <3>1, <3>2, <3>3
    <3>5. spans' \in Seq(Spans)
      BY <2>1, <3>4, SeqDef
    <3>6. DOMAIN spans' = 1 .. n /\ DOMAIN spans' = 1 .. Len(spans') /\ Len(spans') \in Nat
      BY <3>4, <3>5, LenProperties
    <3> QED
      BY <2>1, <3>5, <3>6
  <2> QED
    BY <1>2, <2>1, <2>2 DEF Prune, memory, TypeInv, TypeOK, Typed, Spans, Consumed, SpanIds
<1>3. CASE UNCHANGED vars
  BY <1>3 DEF vars, rows, memory, counters, TypeInv, TypeOK, HasSpan, SpanIds
<1>4. ASSUME NEW s \in Streams, ConsumeRaises(s) PROVE TypeInv'
  <2> DEFINE n == Len(spans)
  <2>1. /\ spans \in Seq(Spans) /\ Typed(n) /\ n \in Nat /\ events \in Seq(Nat)
        /\ sequence \in Nat /\ live \in [Streams -> SUBSET Components] /\ lost \subseteq Nat
    BY TypedMeans
  <2>2. NoEvent \in Consumed(n) /\ HasSpan(NoEvent, n)
    BY DEF NoEvent, Consumed, HasSpan, PCs, Kinds, Outcomes, NoSpan
  <2>3. event' \in [Streams -> Consumed(n)] /\ \A r \in Streams : HasSpan(event'[r], n)
    BY <1>4, <2>1, <2>2, EventMoves DEF ConsumeRaises
  <2>4. event[s].number \in Nat
    BY <2>1 DEF Typed, Consumed
  <2>5. lost' \subseteq Nat
    BY <1>4, <2>1, <2>4 DEF ConsumeRaises
  <2>6. live' \in [Streams -> SUBSET Components]
    BY <1>4, <2>1 DEF ConsumeRaises
  <2> QED
    BY <1>4, <2>1, <2>3, <2>5, <2>6
    DEF ConsumeRaises, rows, memory, TypeInv, TypeOK, Typed, Spans, Consumed, SpanIds
<1> QED
  BY <1>1, <1>2, <1>3, <1>4, StreamStep DEF Next

(* Every reachable state of the bridge and the store is well typed: what is *)
(* open, reported or being saved is a span that was made                    *)
(* (AgnoEventBridge.consume, TraceStore).                                   *)
THEOREM TypeCorrect == Spec => []TypeOK
<1>1. Spec => []TypeInv
  BY TypeInit, TypeStep, PTL DEF Spec
<1> QED
  BY <1>1, PTL DEF TypeInv

-----------------------------------------------------------------------------
(* What a step makes of the event of its stream, and of the counters.       *)

Apart(s) == \A r \in Streams \ {s} : event'[r] = event[r] /\ live'[r] = live[r]
Keeps(s, pc) ==
  /\ event'[s].pc = pc /\ event'[s].on = event[s].on /\ event'[s].span = event[s].span
  /\ event'[s].number = event[s].number

(* The parts of a well-typed state have their types.                        *)
LEMMA Fields ==
  ASSUME TypeInv
  PROVE  /\ spans \in Seq(Spans) /\ Len(spans) \in Nat /\ events \in Seq(Nat) /\ sequence \in Nat
         /\ \A i \in SpanIds : spans[i] \in Spans /\ spans[i].on \in Components
         /\ \A c \in Components : open[c] \in SpanIds \union {NoSpan}
         /\ \A s \in Streams :
              /\ event[s].pc \in PCs /\ event[s].on \in Components
              /\ event[s].span \in SpanIds \union {NoSpan} /\ event[s].number \in Nat
              /\ live[s] \subseteq Components
              /\ At(s, "put_ended") => event[s].kind \in Outcomes
<1>1. /\ spans \in Seq(Spans) /\ Len(spans) \in Nat /\ events \in Seq(Nat) /\ sequence \in Nat
      /\ \A c \in Components : open[c] \in SpanIds \union {NoSpan}
  BY DEF TypeInv, TypeOK, Spans
<1>2. \A i \in SpanIds : spans[i] \in Spans /\ spans[i].on \in Components
  <2>1. \A i \in SpanIds : spans[i] \in Spans  BY <1>1 DEF SpanIds
  <2> QED  BY <2>1 DEF Spans
<1>3. \A s \in Streams : event[s] \in Consumed(Len(spans)) /\ live[s] \subseteq Components
  BY DEF TypeInv, TypeOK, Consumed, SpanIds
<1>4. \A s \in Streams : At(s, "put_ended") => event[s].kind \in Outcomes
  BY DEF TypeInv, HasSpan, At
<1> QED  BY <1>1, <1>2, <1>3, <1>4 DEF Consumed, SpanIds

(* An event that goes on leaves the other streams alone.                    *)
LEMMA GoesOn ==
  ASSUME TypeInv, NEW s \in Streams, NEW pc, Goto(s, pc)
  PROVE  Keeps(s, pc) /\ \A r \in Streams \ {s} : event'[r] = event[r]
<1> DEFINE q == [event[s] EXCEPT !.pc = pc]
<1>1. event[s] \in Consumed(Len(spans))  BY DEF TypeInv, TypeOK, Consumed, SpanIds
<1>2. /\ q.pc = pc /\ q.on = event[s].on /\ q.span = event[s].span
      /\ q.number = event[s].number
  BY <1>1 DEF Consumed
<1>3. event' = [event EXCEPT ![s] = q] /\ event'[s] = q
  BY DEF Goto, TypeInv, TypeOK
<1> HIDE DEF q
<1> QED  BY <1>2, <1>3 DEF Keeps, TypeInv, TypeOK

(* An event that arrives finds the other streams at rest, or overlaps.      *)
LEMMA Arrivals ==
  ASSUME TypeInv, NEW s \in Streams, NEW c \in Components, NEW kind, NEW span, NEW pc,
         Arrive(s, c, kind, span, pc)
  PROVE  /\ At(s, "idle") /\ event'[s].pc = pc /\ event'[s].on = c /\ event'[s].span = span
         /\ \A r \in Streams \ {s} : event'[r] = event[r]
         /\ \/ overlaps' = overlaps /\ \A r \in Streams \ {s} : At(r, "idle") /\ live[r] = {}
            \/ overlaps' = overlaps + 1
         /\ UNCHANGED <<restarts, prunes>>
  BY DEF Arrive, TypeInv, TypeOK

(* Where the steps of consume begin and end, and what they change.          *)
LEMMA ConsumeMoves ==
  ASSUME TypeInv, NEW s \in Streams, Consume(s)
  PROVE  /\ Apart(s) /\ UNCHANGED <<live, counters>> /\ event'[s].on = event[s].on
         /\ event'[s].span = event[s].span /\ ~At(s, "idle")
         /\ \/ PutStarted(s) /\ At(s, "put_started") /\ Keeps(s, "read_number")
            \/ PutEnded(s) /\ At(s, "put_ended") /\ Keeps(s, "pop")
            \/ Pop(s) /\ At(s, "pop") /\ Keeps(s, "read_number")
            \/ /\ ReadNumber(s) /\ At(s, "read_number")
               /\ event'[s].pc = "write_number" /\ event'[s].number = sequence
            \/ WriteNumber(s) /\ At(s, "write_number") /\ Keeps(s, "put_event")
            \/ /\ PutEvent(s) /\ At(s, "put_event")
               /\ Keeps(s, "idle") \/ Keeps(s, "put_report")
            \/ PutReport(s) /\ At(s, "put_report") /\ Keeps(s, "idle")
<1>1. CASE PutStarted(s) \/ PutEnded(s) \/ Pop(s) \/ WriteNumber(s) \/ PutEvent(s) \/ PutReport(s)
  <2>1. /\ UNCHANGED <<live, counters>>
        /\ \/ PutStarted(s) /\ At(s, "put_started") /\ Goto(s, "read_number")
           \/ PutEnded(s) /\ At(s, "put_ended") /\ Goto(s, "pop")
           \/ Pop(s) /\ At(s, "pop") /\ Goto(s, "read_number")
           \/ WriteNumber(s) /\ At(s, "write_number") /\ Goto(s, "put_event")
           \/ PutEvent(s) /\ At(s, "put_event") /\ (Goto(s, "idle") \/ Goto(s, "put_report"))
           \/ PutReport(s) /\ At(s, "put_report") /\ Goto(s, "idle")
    BY <1>1 DEF PutStarted, PutEnded, Pop, WriteNumber, PutEvent, PutReport
  <2> QED  BY <2>1, GoesOn DEF Apart, Keeps, At
<1>2. CASE ReadNumber(s)
  <2> DEFINE q == [event[s] EXCEPT !.pc = "write_number", !.number = sequence]
  <2>1. event[s] \in Consumed(Len(spans))  BY DEF TypeInv, TypeOK, Consumed, SpanIds
  <2>2. /\ q.pc = "write_number" /\ q.on = event[s].on /\ q.span = event[s].span
        /\ q.number = sequence
    BY <2>1 DEF Consumed
  <2>3. event' = [event EXCEPT ![s] = q] /\ event'[s] = q
    BY <1>2 DEF ReadNumber, TypeInv, TypeOK
  <2> HIDE DEF q
  <2>4. At(s, "read_number") /\ UNCHANGED <<live, counters>>
    BY <1>2 DEF ReadNumber
  <2>5. Apart(s)  BY <2>3, <2>4 DEF Apart, TypeInv, TypeOK
  <2> QED  BY <1>2, <2>2, <2>3, <2>4, <2>5 DEF At
<1> QED  BY <1>1, <1>2 DEF Consume

(* What a stream can deliver: it breaks off, or it brings an event of one   *)
(* component.                                                               *)
LEMMA ReceiveMoves ==
  ASSUME TypeInv, NEW s \in Streams, Receive(s)
  PROVE  /\ Apart(s) /\ At(s, "idle") /\ UNCHANGED <<restarts, prunes, sequence, events, lost>>
         /\ \/ /\ StreamBreaks(s) /\ UNCHANGED <<event, overlaps>>
               /\ live[s] # {} /\ live'[s] = {} /\ dropped' = dropped + Cardinality(live[s])
            \/ /\ event'[s].pc \in {"put_started", "put_ended", "read_number"}
               /\ dropped' \in {dropped, dropped + 1}
               /\ \E c \in Components : live'[s] \in {live[s], live[s] \union {c}, live[s] \ {c}}
               /\ \/ /\ overlaps' = overlaps
                     /\ \A r \in Streams \ {s} : At(r, "idle") /\ live[r] = {}
                  \/ overlaps' = overlaps + 1
<1>0. lost' = lost
  BY DEF Receive, Started, Ended, Other, StreamBreaks, Arrive
<1>1. CASE StreamBreaks(s)
  BY <1>0, <1>1 DEF StreamBreaks, Apart, rows, memory, TypeInv, TypeOK
<1>2. ASSUME NEW c \in Components, Started(s, c)
      PROVE  /\ Apart(s) /\ At(s, "idle") /\ UNCHANGED <<restarts, prunes, sequence, events>>
             /\ event'[s].pc = "put_started" /\ dropped' \in {dropped, dropped + 1}
             /\ live'[s] = live[s] \union {c}
             /\ \/ /\ overlaps' = overlaps
                   /\ \A r \in Streams \ {s} : At(r, "idle") /\ live[r] = {}
                \/ overlaps' = overlaps + 1
  <2>1. Arrive(s, c, "started", Len(spans) + 1, "put_started")
        /\ live' = [live EXCEPT ![s] = @ \union {c}]
        /\ dropped' \in {dropped, dropped + 1} /\ UNCHANGED <<sequence, events>>
    BY <1>2 DEF Started
  <2> QED  BY <2>1, Arrivals DEF Apart, TypeInv, TypeOK
<1>3. ASSUME NEW c \in Components, NEW outcome \in Outcomes, Ended(s, c, outcome)
      PROVE  /\ Apart(s) /\ At(s, "idle") /\ UNCHANGED <<restarts, prunes, sequence, events>>
             /\ event'[s].pc = "put_ended" /\ dropped' = dropped /\ live'[s] = live[s] \ {c}
             /\ \/ /\ overlaps' = overlaps
                   /\ \A r \in Streams \ {s} : At(r, "idle") /\ live[r] = {}
                \/ overlaps' = overlaps + 1
  <2>1. /\ \E span : Arrive(s, c, outcome, span, "put_ended")
        /\ live' = [live EXCEPT ![s] = @ \ {c}]
        /\ dropped' = dropped /\ UNCHANGED <<sequence, events>>
    BY <1>3 DEF Ended, memory
  <2> QED  BY <2>1, Arrivals DEF Apart, TypeInv, TypeOK
<1>4. ASSUME NEW c \in Components, Other(s, c)
      PROVE  /\ Apart(s) /\ At(s, "idle") /\ UNCHANGED <<restarts, prunes, sequence, events>>
             /\ event'[s].pc = "read_number" /\ dropped' = dropped /\ live' = live
             /\ \/ /\ overlaps' = overlaps
                   /\ \A r \in Streams \ {s} : At(r, "idle") /\ live[r] = {}
                \/ overlaps' = overlaps + 1
  <2>1. /\ Arrive(s, c, "other", NoSpan, "read_number")
        /\ live' = live /\ dropped' = dropped /\ UNCHANGED <<sequence, events>>
    BY <1>4 DEF Other, rows, memory
  <2> QED  BY <2>1, Arrivals DEF Apart
<1>5. Components # {}  BY DEF TraceAssumption
<1> QED  BY <1>0, <1>1, <1>2, <1>3, <1>4, <1>5 DEF Receive

(* What an exception of consume leaves: the stream is at rest, the rows and *)
(* the memory stay, and a number that was taken is lost.                    *)
LEMMA RaiseMoves ==
  ASSUME TypeInv, NEW s \in Streams, ConsumeRaises(s)
  PROVE  /\ Apart(s) /\ ~At(s, "idle") /\ event'[s].pc = "idle" /\ live'[s] = {}
         /\ dropped' = dropped + Cardinality(live[s] \union {event[s].on})
         /\ lost' = IF At(s, "put_event") THEN lost \union {event[s].number} ELSE lost
         /\ UNCHANGED <<rows, memory, overlaps, restarts, prunes>>
<1>1. NoEvent.pc = "idle"  BY DEF NoEvent
<1> QED  BY <1>1 DEF ConsumeRaises, Apart, TypeInv, TypeOK

-----------------------------------------------------------------------------
(* The invariant, part by part.                                             *)
(* A stream with an event at hand or an attempt under way. *)
Busy(s) == ~At(s, "idle") \/ live[s] # {}

CountersInv ==
  /\ {overlaps, restarts, prunes, dropped} \subseteq Nat
  /\ \A s \in Streams : IsFiniteSet(live[s])

(* No two streams are at work until they overlap. *)
AloneInv ==
  overlaps = 0 => \A r, s \in Streams : Busy(r) /\ Busy(s) => r = s

(* As long as nothing is out of order a component has an open span exactly  *)
(* while one of its attempts runs or its end is being saved; the span is    *)
(* its own, and the row shows it running but for the moments in between.    *)
Calm == overlaps = 0 /\ restarts = 0 /\ prunes = 0 /\ dropped = 0
Holds(s, c) == \/ c \in live[s]
               \/ event[s].pc \in {"put_ended", "pop"} /\ event[s].on = c
StatusOf(i) == spans[i].status
HeldInv ==
  Calm =>
    /\ \A c \in Components :
         open[c] # NoSpan <=> \E s \in Streams : Holds(s, c)
    /\ \A c \in Components : open[c] # NoSpan => spans[open[c]].on = c
    /\ \A i \in SpanIds : StatusOf(i) = Running => open[spans[i].on] = i
    /\ \A s \in Streams :
         /\ event[s].pc \in {"put_started", "put_ended", "pop"} =>
              event[s].span # NoSpan /\ open[event[s].on] = event[s].span
         /\ event[s].pc \in {"put_ended", "pop"} => event[s].on \notin live[s]
         /\ At(s, "pop") => StatusOf(event[s].span) # Running
    /\ \A c \in Components :
         \/ open[c] = NoSpan
         \/ StatusOf(open[c]) = Running
         \/ \E s \in Streams : event[s].pc \in {"put_started", "pop"} /\ event[s].on = c

(* The numbers that are used, lost or about to be used have no gap, and all *)
(* below the next number, or below one that was read, are among them.       *)
Used == {events[i] : i \in DOMAIN events}
Gone == Used \union lost
Taken == Gone \union {event[s].number : s \in {r \in Streams : At(r, "put_event")}}
NumberInv ==
  restarts = 0 /\ prunes = 0 =>
    /\ \A n \in Taken : 0 .. n \subseteq Taken
    /\ 0 .. sequence - 1 \subseteq Taken
    /\ \A s \in Streams : At(s, "write_number") => 0 .. event[s].number - 1 \subseteq Taken

(* One stream at a time takes every number once, for an event or for none.  *)
OrderInv ==
  restarts = 0 /\ prunes = 0 /\ overlaps = 0 =>
    /\ IsFiniteSet(lost) /\ Used \intersect lost = {}
    /\ \A n \in Gone : n < sequence
    /\ \A s \in Streams : At(s, "write_number") => event[s].number = sequence
    /\ \A s \in Streams : At(s, "put_event") =>
         /\ event[s].number \notin Gone /\ sequence = event[s].number + 1
         /\ sequence = Len(events) + Cardinality(lost) + 1
    /\ (\A s \in Streams : ~At(s, "put_event")) =>
         sequence = Len(events) + Cardinality(lost)

BridgeInv ==
  TypeInv /\ CountersInv /\ AloneInv /\ HeldInv /\ NumberInv /\ OrderInv

-----------------------------------------------------------------------------
(* The counters only count up, and streams are alone unless they overlap.   *)

(* Counters never fall.                                                     *)
LEMMA CountersStep ==
  ASSUME TypeInv, CountersInv, [Next]_vars
  PROVE  /\ CountersInv'
         /\ overlaps <= overlaps' /\ restarts <= restarts' /\ prunes <= prunes'
         /\ dropped <= dropped'
<1>0. /\ overlaps \in Nat /\ restarts \in Nat /\ prunes \in Nat /\ dropped \in Nat
      /\ \A s \in Streams : IsFiniteSet(live[s]) /\ Cardinality(live[s]) \in Nat
  BY FS_CardinalityType DEF CountersInv
<1>1. ASSUME NEW s \in Streams, Receive(s)
      PROVE  /\ CountersInv'
             /\ overlaps <= overlaps' /\ restarts <= restarts' /\ prunes <= prunes'
             /\ dropped <= dropped'
  <2>1. Apart(s) /\ UNCHANGED <<restarts, prunes>>
    BY <1>1, ReceiveMoves
  <2>2. \/ /\ overlaps' = overlaps /\ live'[s] = {} /\ dropped' = dropped + Cardinality(live[s])
        \/ /\ overlaps' \in {overlaps, overlaps + 1} /\ dropped' \in {dropped, dropped + 1}
           /\ \E c \in Components : live'[s] \in {live[s], live[s] \union {c}, live[s] \ {c}}
    BY <1>1, ReceiveMoves
  <2>3. IsFiniteSet(live'[s])
    <3>1. IsFiniteSet(live[s])  BY <1>0
    <3>2. \A c : IsFiniteSet(live[s] \union {c}) /\ IsFiniteSet(live[s] \ {c})
      BY <3>1, FS_AddElement, FS_RemoveElement
    <3> QED  BY <2>2, <3>1, <3>2, FS_EmptySet
  <2>4. \A r \in Streams : IsFiniteSet(live'[r])  BY <1>0, <2>1, <2>3 DEF Apart
  <2>5. /\ overlaps' \in Nat /\ overlaps <= overlaps' /\ dropped' \in Nat /\ dropped <= dropped'
    BY <1>0, <2>2
  <2> QED  BY <1>0, <2>1, <2>4, <2>5 DEF CountersInv
<1>6. ASSUME NEW s \in Streams, ConsumeRaises(s)
      PROVE  /\ CountersInv'
             /\ overlaps <= overlaps' /\ restarts <= restarts' /\ prunes <= prunes'
             /\ dropped <= dropped'
  <2>1. IsFiniteSet(live[s] \union {event[s].on})  BY <1>0, FS_AddElement
  <2>2. Cardinality(live[s] \union {event[s].on}) \in Nat  BY <2>1, FS_CardinalityType
  <2>3. dropped' \in Nat /\ dropped <= dropped'
    BY <1>0, <1>6, <2>2, RaiseMoves
  <2>4. \A r \in Streams : IsFiniteSet(live'[r])
    BY <1>0, <1>6, RaiseMoves, FS_EmptySet DEF Apart
  <2>5. UNCHANGED <<overlaps, restarts, prunes>>  BY <1>6, RaiseMoves
  <2> QED  BY <1>0, <2>3, <2>4, <2>5 DEF CountersInv
<1>2. ASSUME NEW s \in Streams, Consume(s)  PROVE UNCHANGED <<live, counters>>
  BY <1>2, ConsumeMoves
<1>3. CASE UNCHANGED <<live, counters>>  BY <1>0, <1>3 DEF CountersInv, counters
<1>4. CASE Restart  BY <1>0, <1>4, FS_EmptySet DEF Restart, CountersInv
<1>5. CASE Prune  BY <1>0, <1>5 DEF Prune, CountersInv
<1> QED  BY <1>1, <1>2, <1>3, <1>4, <1>5, <1>6 DEF Next, vars

(* Nobody but the stream s is at work.                                      *)
Rest(s) == \A r \in Streams \ {s} : At(r, "idle") /\ live[r] = {}

(* While nothing overlaps, the other streams rest.                          *)
LEMMA OthersRest ==
  ASSUME TypeInv, CountersInv, AloneInv, [Next]_vars, overlaps' = 0,
         NEW s \in Streams,
         Receive(s) \/ Consume(s) \/ ConsumeRaises(s)
  PROVE  overlaps = 0 /\ Rest(s) /\ Rest(s)'
<1>1. overlaps = 0  BY CountersStep DEF CountersInv
<1>2. Rest(s)
  <2>1. CASE Busy(s)  BY <1>1, <2>1 DEF AloneInv, Busy, Rest
  <2>2. CASE ~Busy(s)
    <3>1. ~Consume(s) /\ ~ConsumeRaises(s)  BY <2>2, ConsumeMoves, RaiseMoves DEF Busy
    <3>2. overlaps' # overlaps + 1  BY <1>1
    <3> QED  BY <2>2, <3>1, <3>2, ReceiveMoves DEF Rest, Busy
  <2> QED  BY <2>1, <2>2
<1>3. Apart(s)  BY ReceiveMoves, ConsumeMoves, RaiseMoves
<1> QED  BY <1>1, <1>2, <1>3 DEF Rest, Apart, At

(* At most one stream is under way while nothing overlaps.                  *)
LEMMA AloneStep ==
  ASSUME TypeInv, CountersInv, AloneInv, [Next]_vars
  PROVE  AloneInv'
<1> SUFFICES ASSUME overlaps' = 0
             PROVE  \A r, s \in Streams : Busy(r)' /\ Busy(s)' => r = s
  BY DEF AloneInv
<1>1. overlaps = 0  BY CountersStep DEF CountersInv
<1>2. ASSUME NEW s \in Streams, Receive(s) \/ Consume(s) \/ ConsumeRaises(s)
      PROVE  \A r \in Streams : Busy(r)' => r = s
  BY <1>2, OthersRest DEF Rest, Busy
<1>3. CASE Restart
  BY <1>3 DEF Restart, Busy, At, NoEvent
<1>4. CASE UNCHANGED <<live, event>>
  BY <1>1, <1>4 DEF AloneInv, Busy, At
<1>5. Prune \/ UNCHANGED vars => UNCHANGED <<live, event>>
  BY DEF Prune, vars
<1> QED  BY <1>2, <1>3, <1>4, <1>5 DEF Next

-----------------------------------------------------------------------------
(* What is open when streams come one at a time: the same, said of the one  *)
(* stream that may be at work.                                              *)

Ending(s) == event[s].pc \in {"put_ended", "pop"}
HeldBy(s) ==
  /\ \A c \in Components : open[c] # NoSpan <=> Holds(s, c)
  /\ \A c \in Components : open[c] # NoSpan => spans[open[c]].on = c
  /\ \A i \in SpanIds : StatusOf(i) = Running => open[spans[i].on] = i
  /\ At(s, "put_started") \/ Ending(s) =>
       event[s].span # NoSpan /\ open[event[s].on] = event[s].span
  /\ Ending(s) => event[s].on \notin live[s]
  /\ At(s, "pop") => StatusOf(event[s].span) # Running
  /\ \A c \in Components :
       \/ open[c] = NoSpan
       \/ StatusOf(open[c]) = Running
       \/ (At(s, "put_started") \/ At(s, "pop")) /\ event[s].on = c

(* For one stream under way the invariant is about its components alone.    *)
LEMMA HeldByOne ==
  ASSUME NEW s \in Streams, Rest(s), HeldInv, Calm
  PROVE  HeldBy(s)
<1>1. \A r \in Streams, c \in Components : Holds(r, c) => r = s
  BY DEF Rest, Holds, At
<1> QED  BY <1>1 DEF HeldInv, HeldBy, Rest, Holds, At, Ending

(* For that stream it suffices after its step.                              *)
LEMMA HeldByOneNext ==
  ASSUME NEW s \in Streams, Rest(s)', HeldBy(s)'
  PROVE  HeldInv'
<1>1. \A r \in Streams, c \in Components : Holds(r, c)' => r = s
  BY DEF Rest, Holds, At
<1>2. \A r \in Streams \ {s} : event'[r].pc = "idle"  BY DEF Rest, At
<1>3. \A c \in Components : open'[c] # NoSpan <=> \E r \in Streams : Holds(r, c)'
  BY <1>1 DEF HeldBy
<1>4. \A r \in Streams :
        /\ event'[r].pc \in {"put_started", "put_ended", "pop"} =>
             event'[r].span # NoSpan /\ open'[event'[r].on] = event'[r].span
        /\ event'[r].pc \in {"put_ended", "pop"} => event'[r].on \notin live'[r]
        /\ At(r, "pop")' => StatusOf(event[r].span)' # Running
  BY <1>2 DEF HeldBy, At, Ending
<1> QED  BY <1>3, <1>4 DEF HeldBy, HeldInv, At

(* Open spans follow the attempts of the stream: an event arrives.          *)
LEMMA ReceiveHeld ==
  ASSUME BridgeInv, NEW s \in Streams, Receive(s), HeldBy(s), dropped = 0, dropped' = 0
  PROVE  HeldBy(s)'
<1>0. /\ spans \in Seq(Spans) /\ Len(spans) \in Nat /\ live \in [Streams -> SUBSET Components]
      /\ open \in [Components -> SpanIds \union {NoSpan}]
      /\ \A i \in SpanIds : spans[i].on \in Components
      /\ IsFiniteSet(live[s])
  BY Fields DEF BridgeInv, TypeInv, TypeOK, CountersInv
<1>1. CASE StreamBreaks(s)
  <2>1. live[s] # {} /\ dropped' = dropped + Cardinality(live[s])
    BY <1>1 DEF StreamBreaks
  <2>2. Cardinality(live[s]) \in Nat /\ Cardinality(live[s]) # 0
    BY <1>0, <2>1, FS_EmptySet, FS_CardinalityType
  <2> QED  BY <2>1, <2>2
<1>2. ASSUME NEW c \in Components, Started(s, c)  PROVE HeldBy(s)'
  <2>1. /\ At(s, "idle") /\ event'[s].pc = "put_started" /\ event'[s].on = c
        /\ event'[s].span = Len(spans) + 1
    BY <1>2, Arrivals DEF Started, BridgeInv
  <2>2. c \notin live[s] /\ live'[s] = live[s] \union {c}
    BY <1>0, <1>2 DEF Started
  <2>3. open[c] = NoSpan /\ \A d \in Components : open[d] # NoSpan <=> d \in live[s]
    BY <2>1, <2>2 DEF HeldBy, Holds, At
  <2>4. open' = [open EXCEPT ![c] = Len(spans) + 1]  BY <1>2 DEF Started
  <2>5. /\ SpanIds' = SpanIds \union {Len(spans) + 1} /\ Len(spans) + 1 \notin SpanIds
        /\ spans'[Len(spans) + 1] = [on |-> c, status |-> "unsaved"]
        /\ \A i \in SpanIds : spans'[i] = spans[i]
    BY <1>0, <1>2 DEF Started, NewSpan, SpanIds
  <2>6. \A d \in Components : open[d] # NoSpan =>
          /\ d # c /\ open'[d] = open[d] /\ open[d] \in SpanIds
          /\ spans[open[d]].on = d /\ StatusOf(open[d]) = Running
    BY <1>0, <2>1, <2>3, <2>4 DEF HeldBy, At
  <2>7. \A d \in Components :
          /\ open'[d] # NoSpan <=> Holds(s, d)'
          /\ open'[d] # NoSpan => spans'[open'[d]].on = d
          /\ d # c => open'[d] = NoSpan \/ spans'[open'[d]].status = Running
    BY <1>0, <2>1, <2>2, <2>3, <2>4, <2>5, <2>6 DEF Holds, StatusOf, NoSpan
  <2>8. \A i \in SpanIds' : spans'[i].status = Running => open'[spans'[i].on] = i
    <3> SUFFICES ASSUME NEW i \in SpanIds', spans'[i].status = Running
                 PROVE  open'[spans'[i].on] = i
      OBVIOUS
    <3>1. i \in SpanIds /\ spans'[i] = spans[i]  BY <2>5 DEF Running
    <3>2. open[spans[i].on] = i /\ i # NoSpan
      BY <1>0, <3>1 DEF HeldBy, StatusOf, SpanIds, NoSpan
    <3>3. open'[spans[i].on] = open[spans[i].on]
      BY <1>0, <2>6, <3>1, <3>2
    <3> QED  BY <3>1, <3>2, <3>3
  <2>9. event'[s].span # NoSpan /\ open'[event'[s].on] = event'[s].span
    BY <1>0, <2>1, <2>4 DEF NoSpan
  <2> QED  BY <2>1, <2>7, <2>8, <2>9 DEF HeldBy, StatusOf, At, Ending
<1>3. ASSUME NEW c \in Components, NEW outcome \in Outcomes, Ended(s, c, outcome)
      PROVE  HeldBy(s)'
  <2>1. At(s, "idle") /\ c \in live[s] /\ live'[s] = live[s] \ {c}
    BY <1>0, <1>3 DEF Ended, Arrive
  <2>2. open[c] # NoSpan  BY <2>1 DEF HeldBy, Holds
  <2>3. /\ UNCHANGED <<spans, open>>
        /\ event'[s].pc = "put_ended" /\ event'[s].on = c /\ event'[s].span = open[c]
    BY <1>3, <2>2, Arrivals DEF Ended, memory, BridgeInv
  <2>4. \A d \in Components : Holds(s, d)' <=> Holds(s, d)
    BY <2>1, <2>3 DEF Holds, At
  <2>5. \A d \in Components : open[d] = NoSpan \/ StatusOf(open[d]) = Running
    BY <2>1 DEF HeldBy, At
  <2> QED  BY <2>1, <2>2, <2>3, <2>4, <2>5 DEF HeldBy, StatusOf, SpanIds, At, Ending
<1>4. ASSUME NEW c \in Components, Other(s, c)  PROVE HeldBy(s)'
  <2>1. /\ At(s, "idle") /\ event'[s].pc = "read_number" /\ UNCHANGED <<spans, open, live>>
    BY <1>4, Arrivals DEF Other, rows, memory, BridgeInv
  <2> QED  BY <2>1 DEF HeldBy, Holds, StatusOf, SpanIds, At, Ending
<1> QED  BY <1>1, <1>2, <1>3, <1>4 DEF Receive

(* The same while the event is consumed.                                    *)
LEMMA ConsumeHeld ==
  ASSUME BridgeInv, NEW s \in Streams, Consume(s), HeldBy(s)
  PROVE  HeldBy(s)'
<1>0. /\ spans \in Seq(Spans) /\ Len(spans) \in Nat
      /\ open \in [Components -> SpanIds \union {NoSpan}]
      /\ \A i \in SpanIds : spans[i] \in Spans /\ spans[i].on \in Components
      /\ event[s].on \in Components /\ event[s].span \in SpanIds \union {NoSpan}
      /\ At(s, "put_ended") => event[s].kind \in Outcomes
  BY Fields DEF BridgeInv, TypeInv, TypeOK
<1> DEFINE e == event[s]
           i == e.span
           c == e.on
<1>1. live' = live /\ event'[s].on = c /\ event'[s].span = i
  BY ConsumeMoves DEF BridgeInv
<1>2. ASSUME At(s, "put_started") \/ Ending(s)
      PROVE  i \in SpanIds /\ open[c] = i /\ spans[i].on = c
  BY <1>0, <1>2 DEF HeldBy
(* The row of the span at hand gets another status. *)
<1>3. ASSUME NEW status, spans' = [spans EXCEPT ![i].status = status], i \in SpanIds
      PROVE  /\ SpanIds' = SpanIds /\ spans'[i].on = spans[i].on /\ spans'[i].status = status
             /\ \A k \in SpanIds \ {i} : spans'[k] = spans[k]
  <2> DEFINE row == [spans[i] EXCEPT !.status = status]
  <2>1. row.on = spans[i].on /\ row.status = status  BY <1>0, <1>3 DEF Spans
  <2>2. spans' = [spans EXCEPT ![i] = row]  BY <1>3
  <2> HIDE DEF row
  <2>3. spans \in [1 .. Len(spans) -> Spans]  BY <1>0
  <2>4. SpanIds' = SpanIds
    <3>1. DOMAIN spans' = DOMAIN spans  BY <2>2
    <3>2. Len(spans') = Len(spans)  BY <1>0, <2>2, <3>1
    <3> QED  BY <3>2 DEF SpanIds
  <2> QED  BY <1>3, <2>1, <2>2, <2>3, <2>4 DEF SpanIds
<1>4. CASE PutStarted(s) /\ At(s, "put_started") /\ Keeps(s, "read_number")
  <2>1. /\ SpanIds' = SpanIds /\ spans'[i].on = c /\ spans'[i].status = Running
        /\ \A k \in SpanIds \ {i} : spans'[k] = spans[k]
        /\ open' = open
    BY <1>2, <1>3, <1>4 DEF PutStarted, memory
  <2>2. event'[s].pc = "read_number"  BY <1>4 DEF Keeps
  <2>3. \A d \in Components : /\ Holds(s, d)' <=> Holds(s, d)
                              /\ open[d] # NoSpan => spans'[open[d]].on = d
                              /\ open[d] # NoSpan => spans'[open[d]].status = Running
    BY <1>0, <1>1, <1>2, <1>4, <2>1, <2>2 DEF HeldBy, Holds, StatusOf, At
  <2>4. \A k \in SpanIds : spans'[k].status = Running => open[spans'[k].on] = k
    BY <1>0, <1>2, <1>4, <2>1 DEF HeldBy, StatusOf
  <2> QED  BY <2>1, <2>2, <2>3, <2>4 DEF HeldBy, StatusOf, At, Ending
<1>5. CASE PutEnded(s) /\ At(s, "put_ended") /\ Keeps(s, "pop")
  <2>0. Ending(s)  BY <1>5 DEF Ending, At
  <2>1. /\ SpanIds' = SpanIds /\ spans'[i].on = c /\ spans'[i].status # Running
        /\ \A k \in SpanIds \ {i} : spans'[k] = spans[k]
        /\ open' = open
    BY <1>0, <1>2, <1>3, <1>5, <2>0 DEF PutEnded, memory, Outcomes, Running
  <2>2. event'[s].pc = "pop"  BY <1>5 DEF Keeps
  <2>3. \A d \in Components :
          /\ Holds(s, d)' <=> Holds(s, d)
          /\ open[d] # NoSpan => spans'[open[d]].on = d
          /\ d # c /\ open[d] # NoSpan => spans'[open[d]].status = Running
    BY <1>0, <1>1, <1>2, <1>5, <2>0, <2>1, <2>2 DEF HeldBy, Holds, StatusOf, At
  <2>4. \A k \in SpanIds : spans'[k].status = Running => open[spans'[k].on] = k
    BY <1>0, <2>1 DEF HeldBy, StatusOf
  <2>5. i # NoSpan /\ open[c] = i /\ c \notin live[s]
    BY <1>2, <2>0 DEF HeldBy
  <2>6. \A d \in Components : \/ open'[d] = NoSpan \/ spans'[open'[d]].status = Running
                              \/ d = c
    BY <2>1, <2>3
  <2> QED  BY <1>1, <2>1, <2>2, <2>3, <2>4, <2>5, <2>6 DEF HeldBy, StatusOf, At, Ending
<1>6. CASE Pop(s) /\ At(s, "pop") /\ Keeps(s, "read_number")
  <2>0. Ending(s) /\ event'[s].pc = "read_number"  BY <1>6 DEF Ending, At, Keeps
  <2>1. spans' = spans /\ open' = [open EXCEPT ![c] = NoSpan]
    BY <1>6 DEF Pop, rows
  <2>2. open'[c] = NoSpan /\ \A d \in Components \ {c} : open'[d] = open[d]
    BY <1>0, <2>1
  <2>3. \A d \in Components :
          /\ open'[d] # NoSpan <=> Holds(s, d)'
          /\ open'[d] # NoSpan => spans[open'[d]].on = d
          /\ open'[d] = NoSpan \/ spans[open'[d]].status = Running
    BY <1>1, <1>6, <2>0, <2>2 DEF HeldBy, Holds, StatusOf, At
  <2>4. ASSUME NEW k \in SpanIds, spans[k].status = Running  PROVE open'[spans[k].on] = k
    <3>1. open[spans[k].on] = k  BY <2>4 DEF HeldBy, StatusOf
    <3>2. spans[k].on # c
      BY <1>2, <1>6, <2>0, <2>4, <3>1 DEF HeldBy, StatusOf
    <3> QED  BY <1>0, <2>2, <3>1, <3>2
  <2> QED  BY <2>0, <2>1, <2>3, <2>4 DEF HeldBy, StatusOf, SpanIds, At, Ending
<1>7. CASE ReadNumber(s) \/ WriteNumber(s) \/ PutEvent(s) \/ PutReport(s)
  <2>1. UNCHANGED <<spans, open, live>>
    BY <1>7 DEF ReadNumber, WriteNumber, PutEvent, PutReport, rows, memory
  <2>2. /\ event[s].pc \in {"read_number", "write_number", "put_event", "put_report"}
        /\ event'[s].pc \in {"write_number", "put_event", "put_report", "idle"}
    BY <1>7, ConsumeMoves
    DEF ReadNumber, WriteNumber, PutEvent, PutReport, At, Keeps, BridgeInv, PutStarted, PutEnded, Pop
  <2> QED  BY <2>1, <2>2 DEF HeldBy, Holds, StatusOf, SpanIds, At, Ending
<1> QED  BY <1>4, <1>5, <1>6, <1>7, ConsumeMoves DEF BridgeInv

(* Every step keeps open spans and attempts together.                       *)
LEMMA HeldStep ==
  ASSUME BridgeInv, [Next]_vars
  PROVE  HeldInv'
<1> SUFFICES ASSUME Calm'  PROVE HeldInv'
  BY DEF HeldInv
<1>1. Calm /\ overlaps' = 0 /\ dropped = 0 /\ dropped' = 0
  BY CountersStep DEF BridgeInv, Calm, CountersInv
<1>2. ASSUME NEW s \in Streams, Receive(s) \/ Consume(s)  PROVE HeldInv'
  <2>1. Rest(s) /\ Rest(s)'  BY <1>1, <1>2, OthersRest DEF BridgeInv
  <2>2. HeldBy(s)  BY <1>1, <2>1, HeldByOne DEF BridgeInv
  <2>3. HeldBy(s)'  BY <1>1, <1>2, <2>2, ReceiveHeld, ConsumeHeld
  <2> QED  BY <2>1, <2>3, HeldByOneNext
<1>3. ~Restart /\ ~Prune
  <2>1. restarts = 0 /\ restarts' = 0 /\ prunes = 0 /\ prunes' = 0  BY <1>1 DEF Calm
  <2> QED  BY <2>1 DEF Restart, Prune
<1>4. CASE UNCHANGED vars
  BY <1>1, <1>4
  DEF BridgeInv, HeldInv, Holds, StatusOf, SpanIds, At, vars, rows, memory
<1>5. ASSUME NEW s \in Streams, ConsumeRaises(s)  PROVE FALSE
  <2> DEFINE ended == live[s] \union {event[s].on}
  <2>1. IsFiniteSet(ended)  BY FS_AddElement DEF BridgeInv, CountersInv
  <2>2. Cardinality(ended) \in Nat /\ Cardinality(ended) # 0
    BY <2>1, FS_CardinalityType, FS_EmptySet
  <2>3. dropped' = dropped + Cardinality(ended)  BY <1>5, RaiseMoves DEF BridgeInv
  <2> HIDE DEF ended
  <2> QED  BY <1>1, <2>2, <2>3
<1> QED  BY <1>2, <1>3, <1>4, <1>5 DEF Next

-----------------------------------------------------------------------------
(* The numbers.                                                             *)

(* A number is taken when its event is about to be put, and put it stays.   *)
LEMMA TakenStep ==
  ASSUME TypeInv, NEW s \in Streams, Receive(s) \/ Consume(s) \/ ConsumeRaises(s)
  PROVE  Taken' = IF WriteNumber(s) THEN Taken \union {event[s].number} ELSE Taken
<1>0. events \in Seq(Nat) /\ event[s].number \in Nat  BY Fields
<1>1. Apart(s)  BY ReceiveMoves, ConsumeMoves, RaiseMoves
<1>2. \A r \in Streams \ {s} : event'[r] = event[r]  BY <1>1 DEF Apart
<1>3. CASE WriteNumber(s)
  <2>1. /\ ~At(s, "put_event") /\ event'[s].pc = "put_event"
        /\ event'[s].number = event[s].number
    <3>1. At(s, "write_number") /\ Goto(s, "put_event")  BY <1>3 DEF WriteNumber
    <3> QED  BY <3>1, GoesOn DEF Keeps, At
  <2>2. events' = events /\ lost' = lost  BY <1>3 DEF WriteNumber, rows, counters
  <2> QED  BY <1>2, <1>3, <2>1, <2>2 DEF Taken, Gone, Used, At
<1>4. CASE PutEvent(s)
  <2>1. /\ At(s, "put_event") /\ event'[s].pc # "put_event" /\ lost' = lost
        /\ events' = Append(events, event[s].number) /\ ~WriteNumber(s)
    <3>1. /\ At(s, "put_event")
          /\ Goto(s, "put_report") \/ Goto(s, "idle")
          /\ events' = Append(events, event[s].number) /\ ~WriteNumber(s)
          /\ lost' = lost
      BY <1>4 DEF PutEvent, WriteNumber, At, counters
    <3> QED  BY <3>1, GoesOn DEF Keeps
  <2>2. Used' = Used \union {event[s].number}
    BY <1>0, <2>1 DEF Used
  <2> QED  BY <1>2, <2>1, <2>2 DEF Taken, Gone, At
<1>6. CASE ConsumeRaises(s)
  <2>1. /\ event'[s].pc # "put_event" /\ events' = events /\ ~WriteNumber(s)
        /\ lost' = IF At(s, "put_event") THEN lost \union {event[s].number} ELSE lost
    <3>1. /\ event'[s].pc = "idle" /\ events' = events /\ sequence' = sequence
          /\ lost' = IF At(s, "put_event") THEN lost \union {event[s].number} ELSE lost
      BY <1>6, RaiseMoves DEF rows, memory
    <3>2. ~WriteNumber(s)
      <4>1. WriteNumber(s) => event'[s].pc = "put_event"  BY GoesOn DEF WriteNumber, Keeps
      <4> QED  BY <3>1, <4>1
    <3> QED  BY <3>1, <3>2
  <2> QED  BY <1>2, <2>1 DEF Taken, Gone, Used, At
<1>5. CASE ~WriteNumber(s) /\ ~PutEvent(s) /\ ~ConsumeRaises(s)
  <2>1. events' = events /\ lost' = lost
    <3>1. Receive(s) => events' = events /\ lost' = lost  BY ReceiveMoves
    <3>2. Consume(s) => events' = events /\ lost' = lost
      BY <1>5 DEF Consume, PutStarted, PutEnded, Pop, ReadNumber, PutReport, rows, counters
    <3> QED  BY <1>5, <3>1, <3>2
  <2>2. ~At(s, "put_event") /\ event'[s].pc # "put_event"
    <3>1. Receive(s) => ~At(s, "put_event") /\ event'[s].pc # "put_event"
      BY ReceiveMoves DEF At
    <3>2. Consume(s) => ~At(s, "put_event") /\ event'[s].pc # "put_event"
      BY <1>5, ConsumeMoves DEF Keeps, At
    <3> QED  BY <1>5, <3>1, <3>2
  <2> QED  BY <1>2, <1>5, <2>1, <2>2 DEF Taken, Gone, Used, At
<1> QED  BY <1>3, <1>4, <1>5, <1>6

(* Numbers taken keep having no gap.                                        *)
LEMMA NumberStep ==
  ASSUME BridgeInv, [Next]_vars
  PROVE  NumberInv'
<1> SUFFICES ASSUME restarts' = 0, prunes' = 0
             PROVE  /\ \A n \in Taken' : 0 .. n \subseteq Taken'
                    /\ 0 .. sequence' - 1 \subseteq Taken'
                    /\ \A s \in Streams :
                         At(s, "write_number")' => 0 .. event'[s].number - 1 \subseteq Taken'
  BY DEF NumberInv
<1>1. restarts = 0 /\ prunes = 0
  BY CountersStep DEF BridgeInv, CountersInv
<1>2. /\ \A n \in Taken : 0 .. n \subseteq Taken
      /\ 0 .. sequence - 1 \subseteq Taken
      /\ \A s \in Streams : At(s, "write_number") => 0 .. event[s].number - 1 \subseteq Taken
  BY <1>1 DEF BridgeInv, NumberInv
<1>3. sequence \in Nat /\ \A s \in Streams : event[s].number \in Nat
  BY Fields DEF BridgeInv
<1>4. ASSUME NEW s \in Streams, WriteNumber(s)
      PROVE  /\ \A n \in Taken' : 0 .. n \subseteq Taken'
             /\ 0 .. sequence' - 1 \subseteq Taken'
             /\ \A r \in Streams :
                  At(r, "write_number")' => 0 .. event'[r].number - 1 \subseteq Taken'
  <2>1. PICK k \in Nat : k = event[s].number  BY <1>3
  <2>2. /\ At(s, "write_number") /\ sequence' = k + 1 /\ Goto(s, "put_event")
    BY <1>4, <2>1 DEF WriteNumber
  <2>3. Taken' = Taken \union {k}
    BY <1>4, <2>1, TakenStep DEF BridgeInv, Consume
  <2>4. 0 .. k - 1 \subseteq Taken  BY <1>2, <2>1, <2>2
  <2>5. 0 .. k \subseteq Taken'  BY <2>1, <2>3, <2>4
  <2>6. \A r \in Streams : At(r, "write_number")' =>
          At(r, "write_number") /\ event'[r].number = event[r].number
    BY <2>2, GoesOn DEF BridgeInv, Keeps, At
  <2>7. 0 .. sequence' - 1 \subseteq Taken'  BY <2>1, <2>2, <2>5
  <2>8. \A n \in Taken' : 0 .. n \subseteq Taken'  BY <1>2, <2>3, <2>5
  <2> QED  BY <1>2, <2>3, <2>6, <2>7, <2>8
<1>5. ASSUME NEW s \in Streams, Receive(s) \/ Consume(s), ~WriteNumber(s)
      PROVE  /\ Taken' = Taken /\ sequence' = sequence
             /\ \A r \in Streams : At(r, "write_number")' =>
                  \/ At(r, "write_number") /\ event'[r].number = event[r].number
                  \/ event'[r].number = sequence
  <2>1. Taken' = Taken  BY <1>5, TakenStep DEF BridgeInv
  <2>2. sequence' = sequence
    BY <1>5, ReceiveMoves
    DEF BridgeInv, Consume, PutStarted, PutEnded, Pop, ReadNumber, PutEvent, PutReport, memory
  <2>3. \A r \in Streams \ {s} : event'[r] = event[r]
    BY <1>5, ReceiveMoves, ConsumeMoves DEF BridgeInv, Apart
  <2>4. event'[s].pc = "write_number" => event'[s].number = sequence
    BY <1>5, ReceiveMoves, ConsumeMoves DEF BridgeInv, Keeps, At
  <2> QED  BY <2>1, <2>2, <2>3, <2>4 DEF At
<1>9. ASSUME NEW s \in Streams, ConsumeRaises(s)
      PROVE  /\ Taken' = Taken /\ sequence' = sequence
             /\ \A r \in Streams : At(r, "write_number")' =>
                  At(r, "write_number") /\ event'[r].number = event[r].number
  <2>1. /\ event'[s].pc = "idle" /\ sequence' = sequence
        /\ \A r \in Streams \ {s} : event'[r] = event[r]
    BY <1>9, RaiseMoves DEF BridgeInv, Apart, memory
  <2>2. ~WriteNumber(s)
    <3>1. WriteNumber(s) => event'[s].pc = "put_event"
      BY GoesOn DEF BridgeInv, WriteNumber, Keeps
    <3> QED  BY <2>1, <3>1
  <2> QED  BY <1>9, <2>1, <2>2, TakenStep DEF BridgeInv, At
<1>6. ~Restart /\ ~Prune  BY <1>1 DEF Restart, Prune
<1>7. UNCHANGED vars => UNCHANGED <<events, event, sequence, lost>>
  BY DEF vars, rows, memory, counters
<1>8. CASE UNCHANGED <<events, event, sequence, lost>>
  BY <1>2, <1>8 DEF Taken, Gone, Used, At
<1> QED  BY <1>2, <1>4, <1>5, <1>6, <1>7, <1>8, <1>9 DEF Next

(* While nothing overlaps, every number below the next was taken once.      *)
LEMMA OrderStep ==
  ASSUME BridgeInv, [Next]_vars
  PROVE  OrderInv'
<1> DEFINE Ordered ==
      /\ IsFiniteSet(lost) /\ Used \intersect lost = {}
      /\ \A n \in Gone : n < sequence
      /\ \A s \in Streams : At(s, "write_number") => event[s].number = sequence
      /\ \A s \in Streams : At(s, "put_event") =>
           /\ event[s].number \notin Gone /\ sequence = event[s].number + 1
           /\ sequence = Len(events) + Cardinality(lost) + 1
      /\ (\A s \in Streams : ~At(s, "put_event")) =>
           sequence = Len(events) + Cardinality(lost)
<1> SUFFICES ASSUME restarts' = 0, prunes' = 0, overlaps' = 0  PROVE Ordered'
  BY DEF OrderInv
<1>1. restarts = 0 /\ prunes = 0 /\ overlaps = 0
  BY CountersStep DEF BridgeInv, CountersInv
<1>2. Ordered  BY <1>1 DEF BridgeInv, OrderInv
<1>3. /\ events \in Seq(Nat) /\ Len(events) \in Nat /\ sequence \in Nat
      /\ IsFiniteSet(lost) /\ Cardinality(lost) \in Nat /\ lost \subseteq Nat
      /\ Used \subseteq Nat /\ \A s \in Streams : event[s].number \in Nat
  BY <1>2, Fields, FS_CardinalityType DEF BridgeInv, TypeInv, TypeOK, Used
<1>4. ASSUME NEW s \in Streams, Receive(s) \/ Consume(s) \/ ConsumeRaises(s)  PROVE Ordered'
  <2>1. \A r \in Streams \ {s} : event'[r].pc = "idle" /\ At(r, "idle")
    BY <1>1, <1>4, OthersRest DEF BridgeInv, Rest, At
  <2>2. CASE WriteNumber(s)
    <3>1. /\ At(s, "write_number") /\ Keeps(s, "put_event") /\ events' = events
          /\ sequence' = event[s].number + 1 /\ lost' = lost
      BY <2>2, GoesOn DEF WriteNumber, rows, BridgeInv, counters
    <3>2. event[s].number = sequence /\ sequence = Len(events) + Cardinality(lost)
      BY <1>2, <2>1, <3>1 DEF At
    <3>3. sequence' = sequence + 1 /\ Used' = Used /\ Gone' = Gone /\ sequence \notin Gone
      BY <1>2, <1>3, <3>1, <3>2 DEF Used, Gone
    <3>4. \A n \in Gone : n < sequence'
      BY <1>2, <1>3, <3>3 DEF Gone
    <3> QED  BY <1>2, <1>3, <2>1, <3>1, <3>2, <3>3, <3>4 DEF Keeps, At
  <2>3. CASE PutEvent(s)
    <3>1. /\ At(s, "put_event")
          /\ Keeps(s, "idle") \/ Keeps(s, "put_report")
          /\ events' = Append(events, event[s].number) /\ sequence' = sequence
          /\ lost' = lost
      BY <2>3, GoesOn DEF PutEvent, memory, BridgeInv, counters
    <3>2. /\ event[s].number \notin Gone /\ sequence = event[s].number + 1
          /\ sequence = Len(events) + Cardinality(lost) + 1
      BY <1>2, <3>1
    <3>3. Len(events') = Len(events) + 1 /\ Used' = Used \union {event[s].number}
      <4>1. events \in Seq(Nat) /\ event[s].number \in Nat  BY <1>3
      <4>2. events' = Append(events, event[s].number)  BY <3>1
      <4>3. Used' = Used \union {event[s].number}  BY <4>1, <4>2 DEF Used
      <4> QED  BY <4>1, <4>2, <4>3
    <3>4. Used' \intersect lost = {} /\ \A n \in Gone' : n < sequence
      <4>1. Used \intersect lost = {} /\ \A n \in Gone : n < sequence  BY <1>2
      <4>2. Used' \intersect lost = {}  BY <3>2, <3>3, <4>1 DEF Gone
      <4>3. Gone' = Gone \union {event[s].number}  BY <3>1, <3>3 DEF Gone
      <4>4. sequence \in Nat /\ event[s].number \in Nat  BY <1>3
      <4>5. \A n \in Gone' : n < sequence  BY <3>2, <4>1, <4>3, <4>4
      <4> QED  BY <4>2, <4>5
    <3> QED  BY <1>3, <2>1, <3>1, <3>2, <3>3, <3>4 DEF Keeps, At
  <2>5. CASE ConsumeRaises(s)
    <3>1. /\ event'[s].pc = "idle" /\ UNCHANGED <<events, sequence>> /\ Used' = Used
          /\ lost' = IF At(s, "put_event") THEN lost \union {event[s].number} ELSE lost
      BY <2>5, RaiseMoves DEF BridgeInv, rows, memory, Used
    <3>2. CASE At(s, "put_event")
      <4>1. /\ event[s].number \notin Gone /\ sequence = event[s].number + 1
            /\ sequence = Len(events) + Cardinality(lost) + 1
        BY <1>2, <3>2
      <4>2. /\ IsFiniteSet(lost') /\ Cardinality(lost') = Cardinality(lost) + 1
        BY <1>3, <3>1, <3>2, <4>1, FS_AddElement DEF Gone
      <4>3. Used \intersect lost' = {}
        BY <1>2, <3>1, <3>2, <4>1 DEF Gone
      <4>4. Gone' = Gone \union {event[s].number}  BY <3>1, <3>2 DEF Gone
      <4>5. \A n \in Gone' : n < sequence
        BY <1>2, <1>3, <4>1, <4>4
      <4>6. \A r \in Streams : event'[r].pc = "idle"  BY <2>1, <3>1
      <4>7. sequence' = Len(events') + Cardinality(lost')  BY <3>1, <4>1, <4>2, <1>3
      <4> QED  BY <3>1, <4>2, <4>3, <4>5, <4>6, <4>7 DEF At
    <3>3. CASE ~At(s, "put_event")
      <4>1. lost' = lost /\ Gone' = Gone  BY <3>1, <3>3 DEF Gone
      <4> QED  BY <1>2, <2>1, <3>1, <3>3, <4>1 DEF At
    <3> QED  BY <3>2, <3>3
  <2>4. CASE ~WriteNumber(s) /\ ~PutEvent(s) /\ ~ConsumeRaises(s)
    <3>1. UNCHANGED <<events, sequence, lost>> /\ Used' = Used /\ Gone' = Gone
      BY <1>4, <2>4, ReceiveMoves
      DEF BridgeInv, Consume, PutStarted, PutEnded, Pop, ReadNumber, PutReport, memory, rows,
          counters, Used, Gone
    <3>2. /\ ~At(s, "put_event") /\ event'[s].pc # "put_event"
          /\ event'[s].pc = "write_number" => event'[s].number = sequence
      BY <1>4, <2>4, ReceiveMoves, ConsumeMoves DEF BridgeInv, Keeps, At
    <3> QED  BY <1>2, <2>1, <3>1, <3>2 DEF At
  <2> QED  BY <2>2, <2>3, <2>4, <2>5
<1>5. ~Restart /\ ~Prune  BY <1>1 DEF Restart, Prune
<1>6. UNCHANGED vars => UNCHANGED <<events, event, sequence, lost>>
  BY DEF vars, rows, memory, counters
<1>7. CASE UNCHANGED <<events, event, sequence, lost>>  BY <1>2, <1>7 DEF At, Used, Gone
<1> QED  BY <1>4, <1>5, <1>6, <1>7 DEF Next

-----------------------------------------------------------------------------
(* The invariant holds in every reachable state.                            *)
THEOREM BridgeInvariance == Spec => []BridgeInv
<1>1. Init => BridgeInv
  <2> SUFFICES ASSUME Init  PROVE BridgeInv
    OBVIOUS
  <2>1. /\ \A s \in Streams : At(s, "idle") /\ live[s] = {}
        /\ \A s \in Streams : event[s] = NoEvent
    BY DEF Init, At, NoEvent
  <2>2. CountersInv  BY <2>1, FS_EmptySet DEF Init, CountersInv
  <2>3. AloneInv  BY <2>1 DEF AloneInv, Busy
  <2>4. HeldInv
    <3>1. SpanIds = {} /\ \A c \in Components : open[c] = NoSpan  BY DEF Init, SpanIds
    <3>2. \A s \in Streams : event[s].pc = "idle" /\ live[s] = {}  BY <2>1 DEF At
    <3> QED  BY <3>1, <3>2 DEF HeldInv, Holds, At
  <2>5. Taken = {} /\ Gone = {}  BY <2>1 DEF Init, Taken, Gone, Used, At
  <2>6. NumberInv  BY <2>1, <2>5 DEF Init, NumberInv, At
  <2>7. OrderInv  BY <2>1, <2>5, FS_EmptySet DEF Init, OrderInv, Gone, At
  <2> QED  BY <2>2, <2>3, <2>4, <2>6, <2>7, TypeInit DEF BridgeInv
<1>2. BridgeInv /\ [Next]_vars => BridgeInv'
  BY TypeStep, CountersStep, AloneStep, HeldStep, NumberStep, OrderStep DEF BridgeInv
<1> QED  BY <1>1, <1>2, PTL DEF Spec

(* While streams come one at a time and every attempt ends with an event,   *)
(* the spans shown running are the ones the bridge can still end.           *)
THEOREM RunningSpansAreOpen == Spec => []RunningAreOpen
<1>1. BridgeInv => RunningAreOpen
  <2> SUFFICES ASSUME BridgeInv, Quiet, overlaps + restarts + prunes + dropped = 0
               PROVE  {i \in SpanIds : spans[i].status = Running} =
                        {open[c] : c \in Components} \ {NoSpan}
    BY DEF RunningAreOpen
  <2>1. Calm
    <3>1. overlaps \in Nat /\ restarts \in Nat /\ prunes \in Nat /\ dropped \in Nat
      BY DEF BridgeInv, CountersInv
    <3> QED  BY <3>1 DEF Calm
  <2>2. \A c \in Components : open[c] # NoSpan => open[c] \in SpanIds
    BY Fields DEF BridgeInv
  <2>3. \A i \in SpanIds : spans[i].status = Running =>
          open[spans[i].on] = i /\ spans[i].on \in Components /\ i # NoSpan
    BY <2>1, Fields DEF BridgeInv, HeldInv, StatusOf, SpanIds, NoSpan
  <2>4. \A c \in Components : open[c] # NoSpan => spans[open[c]].status = Running
    BY <2>1 DEF BridgeInv, HeldInv, StatusOf, Quiet, At
  <2> QED  BY <2>2, <2>3, <2>4
<1> QED  BY <1>1, BridgeInvariance, PTL

(* However consume overlaps with itself, a number is missing from a trace   *)
(* only if the event it was taken for was not put; as long as streams come  *)
(* one at a time no number is taken twice.                                  *)
THEOREM MissingNumbersAreLostEvents == Spec => []GapsAreLostEvents
<1>1. BridgeInv => GapsAreLostEvents
  <2> SUFFICES ASSUME BridgeInv, Quiet, restarts + prunes = 0
               PROVE  /\ \A n \in Gone : 0 .. n \subseteq Gone
                      /\ overlaps = 0 => /\ Used \intersect lost = {}
                                         /\ Len(events) = Cardinality(Used)
                                         /\ sequence = Len(events) + Cardinality(lost)
    BY DEF GapsAreLostEvents, Gone, Used
  <2>1. restarts = 0 /\ prunes = 0  BY DEF BridgeInv, CountersInv
  <2>2. Taken = Gone  BY DEF Taken, Quiet, At
  <2>3. (\A n \in Gone : 0 .. n \subseteq Gone) /\ 0 .. sequence - 1 \subseteq Gone
    BY <2>1, <2>2 DEF BridgeInv, NumberInv
  <2>4. ASSUME overlaps = 0
        PROVE  /\ Used \intersect lost = {} /\ Len(events) = Cardinality(Used)
               /\ sequence = Len(events) + Cardinality(lost)
    <3>1. /\ IsFiniteSet(lost) /\ Used \intersect lost = {}
          /\ \A n \in Gone : n < sequence
          /\ sequence = Len(events) + Cardinality(lost)
      BY <2>1, <2>4 DEF BridgeInv, OrderInv, Quiet, At
    <3>2. /\ events \in Seq(Nat) /\ Len(events) \in Nat /\ sequence \in Nat
          /\ lost \subseteq Nat /\ Used \subseteq Nat
      BY Fields DEF BridgeInv, TypeInv, TypeOK, Used
    <3>3. Gone = 0 .. (sequence - 1)
      <4>1. \A n \in Gone : n \in Nat /\ n \in 0 .. (sequence - 1)
        BY <3>1, <3>2 DEF Gone
      <4> QED  BY <2>3, <4>1
    <3>4. IsFiniteSet(Gone) /\ Cardinality(Gone) = sequence
      <4> DEFINE n == sequence - 1
      <4>1. n \in Int /\ n >= -1 /\ sequence = n + 1 /\ 0 \in Int  BY <3>2
      <4>2. Gone = 0 .. n  BY <3>3
      <4> HIDE DEF n
      <4>3. IsFiniteSet(0 .. n) /\ Cardinality(0 .. n) = IF 0 > n THEN 0 ELSE n - 0 + 1
        BY <4>1, FS_Interval
      <4> QED  BY <4>1, <4>2, <4>3
    <3>5. Used = Gone \ lost /\ Gone \intersect lost = lost
      BY <3>1 DEF Gone
    <3>6. Cardinality(Used) = Cardinality(Gone) - Cardinality(lost)
      BY <3>4, <3>5, FS_Difference
    <3>7. Cardinality(lost) \in Nat  BY <3>1, FS_CardinalityType
    <3> QED  BY <3>1, <3>2, <3>4, <3>6, <3>7
  <2> QED  BY <2>3, <2>4
<1> QED  BY <1>1, BridgeInvariance, PTL
=============================================================================
