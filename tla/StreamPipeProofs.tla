---------------------------- MODULE StreamPipeProofs ----------------------------
(***************************************************************************)
(* Text flows in order, a success is whole, nothing is abandoned on a      *)
(* fallback and a Responses stream is a lifecycle, however many events the *)
(* upstream sends and wherever reads, writes and clients give up.          *)
(***************************************************************************)
EXTENDS StreamPipe, SequenceTheorems, TLAPS

USE StreamAssumption

First(type) == queue # <<>> /\ queue[1].type = type
Final(type) == plan # <<>> /\ plan[Len(plan)].type = type

\* Deltas on the way to the client: one may be in the plan, one behind it in the queue.
Pending == IF Final("delta") THEN 1 ELSE 0
Queued  == IF First("delta") THEN 1 ELSE 0

\* What the goroutine has to send.
QueueOK ==
  /\ \A i \in 2..Len(queue) : queue[i].type \notin {"delta", "finish", "error"}
  /\ First("error") => Len(queue) = 1 /\ ending
  /\ First("finish") => queue[1].reason = final
  /\ First("delta") => queue[1].piece \in Pieces
  /\ First("delta") /\ handler # "returned" => text # <<>> /\ queue[1].piece = text[Len(text)]

\* What the handler has to write.
PlanOK ==
  /\ plan # <<>> => emitted
  /\ \A i \in 1..Len(plan) - 1 : plan[i].type # "delta"
  /\ Final("delta") => /\ Len(view.said) < Len(text)
                       /\ plan[Len(plan)].piece = text[Len(view.said) + 1]
  /\ handler = "closing" =>
       /\ Responses /\ pump = "stopped"
       /\ plan[Len(plan)] = Event("completed", NoPiece, full, Status)
  /\ handler = "breaking" => ~Final("delta")

\* What has been said, and the translator's copy, are beginnings of the text.
Flow ==
  /\ Len(view.said) <= Len(text)
  /\ \A i \in 1..Len(view.said) : view.said[i] = text[i]
  /\ Len(full) <= Len(text)
  /\ \A i \in 1..Len(full) : full[i] = text[i]
  /\ Responses /\ handler # "returned" => Len(full) = Len(view.said) + Pending

\* Nothing of the text is lost while both sides run, nor before a client leaves.
Sync ==
  handler # "returned" /\ (pump # "stopped" \/ ctx = "live") =>
    /\ Len(text) = Len(view.said) + Pending + Queued
    /\ Responses /\ ~First("finish") => finish = final

\* The codex goroutine ends with a finish reason, or else with an error.
Ends ==
  /\ Codex /\ final # "none" => ending
  /\ Codex /\ ending /\ final = "none" /\ ctx = "live" =>
       First("error") \/ handler \in {"breaking", "returned"}
  /\ Codex /\ ~Responses /\ final # "none" /\ ctx = "live" /\ handler # "returned" =>
       \/ queue # <<>> /\ queue[Len(queue)].type = "done"
       \/ queue = <<>> /\ Final("done")
       \/ queue = <<>> /\ plan = <<>> /\ view.last = "done"

Outcome ==
  /\ ctx = "ended" => handler = "returned"
  /\ outcome = "success" => handler = "returned" /\ pump = "stopped"

IInv == /\ TypeOK /\ QueueOK /\ PlanOK /\ Flow /\ Sync /\ Ends /\ Outcome
        /\ SuccessIsWhole /\ NothingAbandoned

-----------------------------------------------------------------------------

\* What Head and Tail do.
LEMMA TailFacts ==
  ASSUME NEW S, NEW s \in Seq(S), s # <<>>
  PROVE  /\ Len(s) \in Nat /\ Len(s) > 0
         /\ Head(s) = s[1] /\ s[1] \in S
         /\ Tail(s) \in Seq(S) /\ Len(Tail(s)) = Len(s) - 1
         /\ \A i \in 1..Len(s) - 1 : Tail(s)[i] = s[i + 1]
         /\ Tail(s) = <<>> <=> Len(s) = 1
<1>1. Len(s) \in Nat /\ Len(s) > 0
  BY EmptySeq
<1>2. Head(s) = s[1]
  OBVIOUS
<1>3. /\ s[1] \in S /\ Tail(s) \in Seq(S) /\ Len(Tail(s)) = Len(s) - 1
      /\ \A i \in 1..Len(s) - 1 : Tail(s)[i] = s[i + 1]
  BY <1>1, <1>2, HeadTailProperties
<1>4. Tail(s) = <<>> <=> Len(Tail(s)) = 0
  BY <1>3, EmptySeq
<1>. QED  BY <1>1, <1>2, <1>3, <1>4

\* What a join of two sequences holds.
LEMMA ConcatFacts ==
  ASSUME NEW S, NEW s \in Seq(S), NEW t \in Seq(S)
  PROVE  /\ s \o t \in Seq(S) /\ Len(s \o t) = Len(s) + Len(t)
         /\ Len(s) \in Nat /\ Len(t) \in Nat
         /\ \A i \in 1..Len(s) : (s \o t)[i] = s[i]
         /\ \A i \in 1..Len(t) : (s \o t)[Len(s) + i] = t[i]
  OBVIOUS

\* A concatenation ends as its second part, and holds nothing but the two.
LEMMA ConcatEnds ==
  ASSUME NEW S, NEW s \in Seq(S), NEW t \in Seq(S), t # <<>>
  PROVE  /\ s \o t \in Seq(S) /\ s \o t # <<>>
         /\ (s \o t)[Len(s \o t)] = t[Len(t)]
         /\ \A i \in 1..Len(s \o t) :
              \/ i \in 1..Len(s) /\ (s \o t)[i] = s[i]
              \/ \E j \in 1..Len(t) : (s \o t)[i] = t[j]
<1>. DEFINE u == s \o t
            m == Len(s)
            n == Len(t)
<1>1. /\ u \in Seq(S) /\ Len(u) = m + n /\ m \in Nat /\ n \in Nat
      /\ \A i \in 1..m : u[i] = s[i]
      /\ \A i \in 1..n : u[m + i] = t[i]
  BY ConcatFacts
<1>2. n > 0
  BY EmptySeq
<1>. HIDE DEF u, m, n
<1>3. u # <<>> /\ u[Len(u)] = t[n]
  BY <1>1, <1>2
<1>4. ASSUME NEW i \in 1..Len(u)
      PROVE  (i \in 1..m /\ u[i] = s[i]) \/ \E j \in 1..n : u[i] = t[j]
  <2>1. CASE i <= m
    BY <1>1, <2>1
  <2>2. CASE i > m
    <3>1. i - m \in 1..n /\ m + (i - m) = i
      BY <1>1, <2>2
    <3>2. u[i] = t[i - m]
      BY <1>1, <3>1
    <3>. QED  BY <3>1, <3>2
  <2>. QED  BY <1>1, <2>1, <2>2
<1>. QED  BY <1>1, <1>3, <1>4 DEF u, m, n

\* An event with typed fields is an event for the client.
LEMMA EventTyped ==
  ASSUME NEW type \in EventTypes, NEW piece \in 0..MaxReads, NEW t \in Seq(Pieces),
         NEW status \in {"none"} \cup Statuses
  PROVE  Event(type, piece, t, status) \in ClientEvents
BY DEF Event, ClientEvents

\* No piece and no text are typed.
LEMMA NothingTyped == NoPiece \in 0..MaxReads /\ <<>> \in Seq(Pieces)
BY EmptySeq DEF NoPiece

\* The opening events carry no text.
LEMMA OpeningFacts ==
  /\ OpeningEvents \in Seq(ClientEvents)
  /\ \A i \in 1..Len(OpeningEvents) : OpeningEvents[i].type # "delta"
<1>1. \A i \in 1..3 : /\ Plain(Opening[i]) \in ClientEvents
                      /\ Plain(Opening[i]).type # "delta"
  <2>. TAKE i \in 1..3
  <2>1. Opening[i] \in EventTypes /\ Opening[i] # "delta"
    BY DEF Opening, EventTypes
  <2>. QED  BY <2>1, NothingTyped, EventTyped DEF Plain, Event
<1>2. Len(Opening) = 3
  BY DEF Opening
<1>. QED  BY <1>1, <1>2 DEF OpeningEvents

\* What the handler writes for an event: a delta comes last.
LEMMA WrittenFacts ==
  ASSUME NEW e \in IREvents
  PROVE  /\ Written(e) \in Seq(ClientEvents)
         /\ \A i \in 1..Len(Written(e)) - 1 : Written(e)[i].type # "delta"
         /\ Written(e) # <<>> /\ Written(e)[Len(Written(e))].type = "delta" => e.type = "delta"
         /\ e.type = "delta" => /\ Written(e) # <<>>
                                /\ Written(e)[Len(Written(e))].type = "delta"
                                /\ Written(e)[Len(Written(e))].piece = e.piece
         /\ ~Responses => Written(e) # <<>> /\ Written(e)[Len(Written(e))].type = e.type
<1>1. CASE Responses /\ e.type = "delta"
  <2>. DEFINE d == Delta(e.piece)
              o == OpeningEvents
  <2>1. d \in ClientEvents /\ d.type = "delta" /\ d.piece = e.piece
    BY EventTyped, NothingTyped DEF Delta, EventTypes, Event, IREvents
  <2>2. Written(e) = o \o <<d>>
    BY <1>1 DEF Written
  <2>3. o \in Seq(ClientEvents) /\ \A i \in 1..Len(o) : o[i].type # "delta"
    BY OpeningFacts
  <2>4. /\ o \o <<d>> \in Seq(ClientEvents) /\ Len(o \o <<d>>) = Len(o) + 1
        /\ \A i \in 1..Len(o) : (o \o <<d>>)[i] = o[i]
        /\ (o \o <<d>>)[Len(o) + 1] = d
    BY <2>1, <2>3, ConcatFacts
  <2>. HIDE DEF d, o
  <2>. QED  BY <1>1, <2>1, <2>2, <2>3, <2>4
<1>2. CASE Responses /\ e.type # "delta"
  <2>1. Written(e) = OpeningEvents \o <<>>
    BY <1>2 DEF Written
  <2>2. Written(e) = OpeningEvents
    BY <2>1, OpeningFacts
  <2>. QED  BY <1>2, <2>2, OpeningFacts
<1>3. CASE ~Responses
  <2>1. /\ Event(e.type, e.piece, <<>>, "none") \in ClientEvents
        /\ Event(e.type, e.piece, <<>>, "none").type = e.type
        /\ Event(e.type, e.piece, <<>>, "none").piece = e.piece
    BY EventTyped, NothingTyped DEF EventTypes, Event, IREvents
  <2>. QED  BY <1>3, <2>1 DEF Written
<1>. QED  BY <1>1, <1>2, <1>3

\* The closing events end with the whole text.
LEMMA ClosingFacts ==
  ASSUME full \in Seq(Pieces)
  PROVE  LET all == OpeningEvents \o ClosingEvents
         IN  /\ all \in Seq(ClientEvents)
             /\ all # <<>>
             /\ \A i \in 1..Len(all) : all[i].type # "delta"
             /\ all[Len(all)] = Event("completed", NoPiece, full, Status)
<1>. DEFINE c == ClosingEvents
            o == OpeningEvents
<1>1. Status \in {"none"} \cup Statuses
  BY DEF Status, Statuses
<1>2. Len(Closing) = 4 /\ Closing[4] = "completed"
  BY DEF Closing
<1>3. \A i \in 1..4 : Closing[i] \in EventTypes /\ Closing[i] # "delta"
  BY DEF Closing, EventTypes
<1>4. \A i \in 1..4 :
        LET e == Event(Closing[i], NoPiece, full, IF i < 3 THEN "none" ELSE Status)
        IN  e \in ClientEvents /\ e.type # "delta"
  <2>. TAKE i \in 1..4
  <2>1. (IF i < 3 THEN "none" ELSE Status) \in {"none"} \cup Statuses
    BY <1>1
  <2>2. NoPiece \in 0..MaxReads
    BY DEF NoPiece
  <2>3. Event(Closing[i], NoPiece, full, IF i < 3 THEN "none" ELSE Status).type = Closing[i]
    BY DEF Event
  <2>. QED  BY <1>3, <2>1, <2>2, <2>3, EventTyped
<1>5. /\ c \in Seq(ClientEvents) /\ Len(c) = 4
      /\ \A i \in 1..4 : c[i].type # "delta"
      /\ c[4] = Event("completed", NoPiece, full, Status)
  BY <1>2, <1>4 DEF ClosingEvents
<1>6. o \in Seq(ClientEvents) /\ \A i \in 1..Len(o) : o[i].type # "delta"
  BY OpeningFacts
<1>. HIDE DEF c, o
<1>7. c # <<>>
  BY <1>5, EmptySeq, SMTT(40)
<1>8. /\ o \o c \in Seq(ClientEvents) /\ o \o c # <<>>
      /\ (o \o c)[Len(o \o c)] = c[4]
      /\ \A i \in 1..Len(o \o c) : \/ i \in 1..Len(o) /\ (o \o c)[i] = o[i]
                                   \/ \E j \in 1..4 : (o \o c)[i] = c[j]
  <2>1. /\ o \o c \in Seq(ClientEvents) /\ o \o c # <<>>
        /\ (o \o c)[Len(o \o c)] = c[Len(c)]
        /\ \A i \in 1..Len(o \o c) : \/ i \in 1..Len(o) /\ (o \o c)[i] = o[i]
                                     \/ \E j \in 1..Len(c) : (o \o c)[i] = c[j]
    <3>1. o \in Seq(ClientEvents) /\ c \in Seq(ClientEvents)
      BY <1>5, <1>6
    <3>. QED  BY <3>1, <1>7, ConcatEnds
  <2>2. Len(c) = 4
    BY <1>5
  <2>. QED  BY <2>1, <2>2
<1>9. \A i \in 1..Len(o \o c) : (o \o c)[i].type # "delta"
  <2>. TAKE i \in 1..Len(o \o c)
  <2>1. CASE i \in 1..Len(o) /\ (o \o c)[i] = o[i]
    BY <1>6, <2>1
  <2>2. CASE \E j \in 1..4 : (o \o c)[i] = c[j]
    BY <1>5, <2>2
  <2>. QED  BY <1>8, <2>1, <2>2
<1>. QED  BY <1>5, <1>8, <1>9 DEF c, o

-----------------------------------------------------------------------------
(***************************************************************************)
(* The goroutine reads.                                                    *)
(***************************************************************************)

\* Nothing is queued while it reads, and the handler has not succeeded.
LEMMA WhileReading ==
  ASSUME IInv, pump = "reading"
  PROVE  /\ queue = <<>> /\ ~ending
         /\ handler # "closing" /\ outcome # "success"
         /\ handler = "returned" => emitted
         /\ Codex => final = "none"
<1>1. queue = <<>> /\ ~ending
  BY DEF IInv, TypeOK
<1>. QED  BY <1>1 DEF IInv, PlanOK, Ends, Outcome, NothingAbandoned

\* A read that queues events keeps the types.
LEMMA EnqueueTyped ==
  ASSUME TypeOK, NEW events \in Seq(IREvents), NEW last \in BOOLEAN, Enqueue(events, last),
         UNCHANGED <<fixed, ctx, serving>>,
         reads' \in 0..MaxReads, text' \in Seq(Pieces), final' \in {"none", "stop", "length"}
  PROVE  TypeOK'
BY DEF TypeOK, Enqueue, fixed, serving

\* The events of the goroutine are typed.
LEMMA EventsTyped ==
  /\ \A n \in Pieces : DeltaEvent(n) \in IREvents
  /\ \A r \in {"stop", "length"} : FinishEvent(r) \in IREvents
  /\ \A type \in {"done", "other", "error"} : PlainEvent(type) \in IREvents
BY DEF DeltaEvent, FinishEvent, PlainEvent, IREvent, IREvents, NoPiece, Pieces

\* A piece of text read keeps the invariant.
LEMMA ReadText ==
  ASSUME IInv, pump = "reading", reads < MaxReads, reads' = reads + 1,
         Enqueue(<<DeltaEvent(reads + 1)>>, FALSE),
         text' = Append(text, reads + 1),
         UNCHANGED <<fixed, ctx, serving, final>>
  PROVE  IInv'
<1>. DEFINE n == reads + 1
<1>1. n \in Pieces /\ n \in 0..MaxReads
  BY DEF IInv, TypeOK, Pieces
<1>2. /\ text \in Seq(Pieces) /\ text' \in Seq(Pieces) /\ Len(text) \in Nat
      /\ Len(text') = Len(text) + 1 /\ text'[Len(text')] = n
      /\ \A i \in 1..Len(text) : text'[i] = text[i]
  BY <1>1 DEF IInv, TypeOK
<1>3. /\ queue' = <<DeltaEvent(n)>> /\ pump' = "sending" /\ ending' = FALSE
      /\ DeltaEvent(n).type = "delta" /\ DeltaEvent(n).piece = n
  BY DEF Enqueue, DeltaEvent, IREvent
<1>. HIDE DEF n
<1>4. /\ Len(view.said) \in Nat /\ Len(full) \in Nat
  BY DEF IInv, TypeOK
<1>5. TypeOK'
  <2>1. <<DeltaEvent(n)>> \in Seq(IREvents)
    BY <1>1, EventsTyped
  <2>2. final \in {"none", "stop", "length"} /\ TypeOK
    BY DEF IInv, TypeOK
  <2>. QED  BY <1>1, <1>2, <2>1, <2>2, EnqueueTyped DEF n
<1>6. QueueOK'
  BY <1>1, <1>2, <1>3 DEF QueueOK, First
<1>. USE WhileReading DEF serving, fixed
<1>7. PlanOK'
  BY <1>2, <1>4 DEF IInv, PlanOK, Final, Status, Responses
<1>8. Flow'
  <2>1. /\ Len(view.said) <= Len(text) /\ Len(full) <= Len(text)
        /\ \A i \in 1..Len(view.said) : view.said[i] = text[i]
        /\ \A i \in 1..Len(full) : full[i] = text[i]
        /\ Responses /\ handler # "returned" => Len(full) = Len(view.said) + Pending
    BY DEF IInv, Flow
  <2>2. /\ \A i \in 1..Len(view.said) : text'[i] = text[i]
        /\ \A i \in 1..Len(full) : text'[i] = text[i]
    BY <1>2, <1>4, <2>1
  <2>3. Len(view.said) <= Len(text') /\ Len(full) <= Len(text')
    BY <1>2, <1>4, <2>1
  <2>4. /\ view' = view /\ full' = full /\ handler' = handler /\ Responses' = Responses
        /\ Pending' = Pending
    BY DEF Responses, Pending, Final
  <2>. QED  BY <2>1, <2>2, <2>3, <2>4 DEF Flow
<1>9. Sync'
  <2>1. Queued = 0 /\ Queued' = 1 /\ Pending' = Pending /\ Pending \in Nat
    BY <1>3 DEF Queued, First, Pending, Final
  <2>2. ~First("finish")
    BY DEF First
  <2>3. handler # "returned" =>
          Len(text) = Len(view.said) + Pending /\ (Responses => finish = final)
    BY <1>4, <2>1, <2>2 DEF IInv, Sync
  <2>4. Len(text') = Len(text) + 1 /\ view' = view /\ handler' = handler
        /\ Responses' = Responses /\ finish' = finish /\ final' = final
    BY <1>2 DEF Responses
  <2>. QED  BY <1>4, <2>1, <2>3, <2>4 DEF Sync
<1>10. Ends'
  BY <1>3 DEF Ends, Codex
<1>11. Outcome' /\ SuccessIsWhole' /\ NothingAbandoned'
  BY DEF IInv, Outcome, SuccessIsWhole, NothingAbandoned
<1>. QED  BY <1>5, <1>6, <1>7, <1>8, <1>9, <1>10, <1>11 DEF IInv

\* A finish read keeps the invariant.
LEMMA ReadFinish ==
  ASSUME IInv, pump = "reading", reads' \in 0..MaxReads, NEW r \in {"stop", "length"},
         Enqueue(IF Codex THEN <<FinishEvent(r), PlainEvent("done")>> ELSE <<FinishEvent(r)>>, Codex),
         text' = text, final' = r,
         UNCHANGED <<fixed, ctx, serving>>
  PROVE  IInv'
<1>1. /\ FinishEvent(r).type = "finish" /\ FinishEvent(r).reason = r
      /\ PlainEvent("done").type = "done"
  BY DEF FinishEvent, PlainEvent, IREvent
<1>2. /\ queue' = IF Codex THEN <<FinishEvent(r), PlainEvent("done")>> ELSE <<FinishEvent(r)>>
      /\ queue' # <<>> /\ queue'[1] = FinishEvent(r)
      /\ Len(queue') = IF Codex THEN 2 ELSE 1
      /\ Codex => queue'[2] = PlainEvent("done")
      /\ pump' = "sending" /\ ending' = Codex
  BY DEF Enqueue
<1>3. TypeOK'
  <2>1. FinishEvent(r) \in IREvents /\ PlainEvent("done") \in IREvents
    BY EventsTyped
  <2>2. queue' \in Seq(IREvents) /\ Codex \in BOOLEAN
    BY <1>2, <2>1 DEF Codex
  <2>3. text' \in Seq(Pieces) /\ final' \in {"none", "stop", "length"} /\ TypeOK
    BY DEF IInv, TypeOK
  <2>4. Enqueue(queue', Codex)
    BY <1>2 DEF Enqueue
  <2>. QED  BY <2>2, <2>3, <2>4, EnqueueTyped
<1>4. QueueOK'
  BY <1>1, <1>2 DEF QueueOK, First
<1>. USE WhileReading DEF serving, fixed
<1>5. PlanOK'
  BY DEF IInv, PlanOK, Final, Status, Responses
<1>6. Flow'
  BY DEF IInv, Flow, Pending, Final, Responses
<1>7. Sync'
  <2>1. Queued = 0 /\ Queued' = 0 /\ Pending' = Pending /\ First("finish")'
    BY <1>1, <1>2 DEF Queued, First, Pending, Final
  <2>. QED  BY <2>1 DEF IInv, Sync, Responses
<1>8. Ends'
  BY <1>1, <1>2 DEF Ends, Codex
<1>9. Outcome' /\ SuccessIsWhole' /\ NothingAbandoned'
  BY DEF IInv, Outcome, SuccessIsWhole, NothingAbandoned
<1>. QED  BY <1>3, <1>4, <1>5, <1>6, <1>7, <1>8, <1>9 DEF IInv

\* What carries neither text nor a finish reason.
Other(type) == IF type = "nothing" THEN <<>> ELSE <<PlainEvent(type)>>

\* At most one such event.
LEMMA ReadOther ==
  ASSUME IInv, pump = "reading", reads' \in 0..MaxReads,
         NEW type \in {"nothing", "done", "other", "error"}, NEW last \in BOOLEAN,
         Enqueue(Other(type), last),
         type = "error" => last,
         Codex /\ last /\ ctx = "live" => type = "error",
         text' = text, final' = final,
         UNCHANGED <<fixed, ctx, serving>>
  PROVE  IInv'
<1>. DEFINE events == Other(type)
<1>1. /\ events \in Seq(IREvents)
      /\ events = <<>> <=> type = "nothing"
      /\ events # <<>> => Len(events) = 1 /\ events[1].type = type
  <2>1. type # "nothing" => PlainEvent(type) \in IREvents /\ PlainEvent(type).type = type
    BY EventsTyped DEF PlainEvent, IREvent
  <2>. QED  BY <2>1, EmptySeq DEF Other
<1>2. Enqueue(events, last)
  OBVIOUS
<1>. HIDE DEF events
<1>3. TypeOK'
  <2>1. text' \in Seq(Pieces) /\ final' \in {"none", "stop", "length"} /\ TypeOK
    BY DEF IInv, TypeOK
  <2>. QED  BY <1>1, <1>2, <2>1, EnqueueTyped
<1>4. /\ queue' = events /\ ending' = last
      /\ pump' # "reading" => queue' # <<>> \/ ending'
      /\ First("delta")' = FALSE /\ First("finish")' = FALSE
      /\ First("error")' = (type = "error")
  BY <1>1, <1>2 DEF Enqueue, First
<1>5. QueueOK'
  <2>1. \A i \in 2..Len(queue') : queue'[i].type \notin {"delta", "finish", "error"}
    BY <1>1, <1>4, EmptySeq
  <2>. QED  BY <1>1, <1>4, <2>1 DEF QueueOK
<1>. USE WhileReading DEF serving, fixed
<1>6. PlanOK'
  BY DEF IInv, PlanOK, Final, Status, Responses
<1>7. Flow'
  BY DEF IInv, Flow, Pending, Final, Responses
<1>8. Sync'
  <2>1. Queued = 0 /\ Queued' = 0 /\ Pending' = Pending /\ ~First("finish")
    BY <1>4 DEF Queued, First, Pending, Final
  <2>. QED  BY <1>4, <2>1 DEF IInv, Sync, Responses
<1>9. Ends'
  BY <1>4 DEF Ends, Codex, First
<1>30. Outcome' /\ SuccessIsWhole' /\ NothingAbandoned'
  BY DEF IInv, Outcome, SuccessIsWhole, NothingAbandoned
<1>. QED  BY <1>3, <1>5, <1>6, <1>7, <1>8, <1>9, <1>30 DEF IInv

\* Whatever is read keeps the invariant.
LEMMA ReadStep == ASSUME IInv, NEW item \in Items, Read(item)  PROVE IInv'
<1>. USE DEF Read
<1>1. /\ TypeOK /\ reads' = reads + 1 /\ reads' \in 0..MaxReads
  BY DEF IInv, TypeOK
<1>2. UNCHANGED <<fixed, ctx, serving>> /\ pump = "reading" /\ reads < MaxReads
  OBVIOUS
<1>3. CASE ~(Codex \/ ~Cancelled)
  <2>1. Enqueue(<<>>, TRUE) /\ text' = text /\ final' = final /\ ~Codex
    BY <1>3
  <2>2. Enqueue(Other("nothing"), TRUE)
    BY <2>1 DEF Other
  <2>. QED  BY <1>1, <1>2, <2>1, <2>2, ReadOther
<1>4. CASE Codex \/ ~Cancelled
  <2>1. /\ Enqueue(IF Codex THEN Translated(item) ELSE Forwarded(item), Returns(item))
        /\ text' = IF Grows(item) THEN Append(text, reads + 1) ELSE text
        /\ final' = IF Finishes(item) THEN Reason(item) ELSE final
    BY <1>4
  <2>2. CASE Grows(item)
    <3>1. ~Finishes(item) /\ Returns(item) = FALSE
      BY <2>2 DEF Grows, Finishes, Returns
    <3>2. (IF Codex THEN Translated(item) ELSE Forwarded(item)) = <<DeltaEvent(reads + 1)>>
      BY <2>2 DEF Translated, Forwarded
    <3>. QED  BY <1>1, <1>2, <2>1, <2>2, <3>1, <3>2, ReadText
  <2>3. CASE ~Grows(item) /\ Finishes(item)
    <3>1. Returns(item) = Codex /\ Reason(item) \in {"stop", "length"}
      BY <2>3 DEF Returns, Reason, Codex
    <3>2. (IF Codex THEN Translated(item) ELSE Forwarded(item))
            = IF Codex THEN <<FinishEvent(Reason(item)), PlainEvent("done")>>
              ELSE <<FinishEvent(Reason(item))>>
      BY <2>3 DEF Translated, Forwarded
    <3>. QED  BY <1>1, <1>2, <2>1, <2>3, <3>1, <3>2, ReadFinish
  <2>4. CASE ~Grows(item) /\ ~Finishes(item) /\ Codex
    <3>1. \/ item = "failed" /\ Returns(item) = TRUE /\ Translated(item) = Other("error")
          \/ Returns(item) = FALSE /\ Translated(item) = Other("nothing")
      BY <2>4 DEF Returns, Translated, Other
    <3>. QED  BY <1>1, <1>2, <2>1, <2>4, <3>1, ReadOther
  <2>5. CASE ~Grows(item) /\ ~Finishes(item) /\ ~Codex
    <3>1. item \in {"done", "other"}
      BY <2>5 DEF Items, Grows, Finishes
    <3>2. Returns(item) = FALSE /\ Forwarded(item) = Other(item)
      BY <2>5, <3>1 DEF Returns, Forwarded, Other
    <3>. QED  BY <1>1, <1>2, <2>1, <2>5, <3>1, <3>2, ReadOther
  <2>. QED  BY <2>2, <2>3, <2>4, <2>5
<1>. QED  BY <1>3, <1>4

\* The end of the upstream, in order or not, keeps the invariant.
LEMMA ReadStops == ASSUME IInv, ReadEnds \/ ReadFails  PROVE IInv'
<1>1. /\ pump = "reading" /\ reads' \in 0..MaxReads /\ text' = text /\ final' = final
      /\ UNCHANGED <<fixed, ctx, serving>>
  BY DEF IInv, TypeOK, ReadEnds, ReadFails
<1>2. \/ Enqueue(Other("error"), TRUE)
      \/ Enqueue(Other("nothing"), TRUE) /\ (Codex => ctx # "live")
  BY <1>1, WhileReading DEF ReadEnds, ReadFails, Cancelled, Other
<1>. QED  BY <1>1, <1>2, ReadOther

\* A goroutine that gives up on a cancelled context keeps the invariant.
LEMMA Cancelling == ASSUME IInv, SendCancelled  PROVE IInv'
<1>1. /\ queue' = <<>> /\ pump' = "stopped" /\ ending' = TRUE /\ ctx # "live"
      /\ pump = "sending" /\ handler # "closing" /\ outcome # "success"
  BY DEF IInv, PlanOK, Outcome, SendCancelled, Enqueue, Cancelled
<1>2. UNCHANGED <<fixed, ctx, reads, text, final, serving>>
  BY DEF SendCancelled
<1>. USE <1>1, <1>2 DEF fixed, serving
<1>3. TypeOK'
  <2>1. <<>> \in Seq(IREvents)
    BY EmptySeq
  <2>. QED  BY <2>1 DEF IInv, TypeOK
<1>4. QueueOK'
  <2>1. Len(<<>>) = 0
    BY EmptySeq
  <2>. QED  BY <2>1 DEF QueueOK, First
<1>5. PlanOK'
  BY DEF IInv, PlanOK, Final
<1>6. Flow' /\ Sync'
  BY DEF IInv, Flow, Sync, Pending, Final, Responses
<1>7. Ends' /\ Outcome' /\ SuccessIsWhole' /\ NothingAbandoned'
  BY DEF IInv, Ends, Outcome, SuccessIsWhole, NothingAbandoned
<1>. QED  BY <1>3, <1>4, <1>5, <1>6, <1>7 DEF IInv

\* All that has been sent has been said once nothing is on the way.
LEMMA Whole ==
  ASSUME IInv, ctx = "live", handler # "returned", Pending = 0, Queued = 0
  PROVE  /\ view.said = text
         /\ Responses => full = text
<1>1. /\ text \in Seq(Pieces) /\ view.said \in Seq(Pieces) /\ full \in Seq(Pieces)
      /\ Len(view.said) \in Nat
  BY DEF IInv, TypeOK
<1>2. Len(text) = Len(view.said) + 0 + 0
  BY DEF IInv, Sync
<1>3. Responses => Len(full) = Len(view.said) + 0
  BY DEF IInv, Flow
<1>4. Len(view.said) = Len(text) /\ (Responses => Len(full) = Len(text))
  BY <1>1, <1>2, <1>3
<1>5. /\ \A i \in 1..Len(view.said) : view.said[i] = text[i]
      /\ \A i \in 1..Len(full) : full[i] = text[i]
  BY DEF IInv, Flow
<1>. QED  BY <1>1, <1>4, <1>5, SeqEqual

-----------------------------------------------------------------------------
(***************************************************************************)
(* An event passes, or the channel is found closed.                        *)
(***************************************************************************)

\* What passing an event through the channel changes.
LEMMA Passing ==
  ASSUME IInv, Pass
  PROVE  /\ queue # <<>> /\ queue[1] \in IREvents /\ plan = <<>> /\ Pending = 0
         /\ queue' = Tail(queue) /\ ending' = ending
         /\ queue' \in Seq(IREvents)
         /\ pump' = IF queue' # <<>> THEN "sending" ELSE IF ending' THEN "stopped" ELSE "reading"
         /\ Len(queue) \in Nat /\ Len(queue') = Len(queue) - 1
         /\ \A i \in 1..Len(queue) - 1 : queue'[i] = queue[i + 1]
         /\ \A type \in {"delta", "finish", "error"} : First(type)' = FALSE
         /\ QueueOK'
         /\ Len(text) = Len(view.said) + Queued
         /\ Responses /\ queue[1].type # "finish" => finish = final
         /\ outcome # "success" /\ ctx # "ended"
<1>1. /\ pump = "sending" /\ handler = "receiving" /\ TypeOK
      /\ queue' = Tail(queue) /\ ending' = ending
      /\ pump' = IF queue' # <<>> THEN "sending" ELSE IF ending' THEN "stopped" ELSE "reading"
  BY DEF IInv, Pass, Enqueue
<1>2. queue # <<>> /\ queue \in Seq(IREvents) /\ plan = <<>>
  BY <1>1 DEF TypeOK
<1>3. /\ queue' \in Seq(IREvents) /\ queue[1] \in IREvents
      /\ Len(queue) \in Nat /\ Len(queue) > 0 /\ Len(queue') = Len(queue) - 1
      /\ \A i \in 1..Len(queue) - 1 : queue'[i] = queue[i + 1]
  BY <1>1, <1>2, TailFacts
<1>4. \A i \in 1..Len(queue') : queue'[i].type \notin {"delta", "finish", "error"}
  BY <1>3 DEF IInv, QueueOK
<1>5. \A type \in {"delta", "finish", "error"} : First(type)' = FALSE
  <2>1. queue' # <<>> => 1 \in 1..Len(queue')
    BY <1>3, EmptySeq
  <2>. QED  BY <1>4, <2>1 DEF First
<1>6. QueueOK'
  BY <1>3, <1>4, <1>5 DEF QueueOK
<1>7. Pending = 0 /\ Queued \in {0, 1}
  BY <1>2 DEF Pending, Final, Queued
<1>8. Len(text) = Len(view.said) + Queued
  <2>1. Len(view.said) \in Nat
    BY <1>1 DEF TypeOK
  <2>2. Len(text) = Len(view.said) + Pending + Queued
    BY <1>1 DEF IInv, Sync
  <2>. QED  BY <1>7, <2>1, <2>2
<1>9. Responses /\ queue[1].type # "finish" => finish = final
  BY <1>1 DEF IInv, Sync, First
<1>10. outcome # "success" /\ ctx # "ended"
  BY <1>1 DEF IInv, Outcome
<1>. QED  BY <1>1, <1>2, <1>3, <1>5, <1>6, <1>7, <1>8, <1>9, <1>10

\* An error is the last event, so the goroutine has returned.
LEMMA PassError ==
  ASSUME IInv, Pass, queue[1].type = "error"
  PROVE  IInv'
<1>1. Len(queue) = 1 /\ ending /\ queue' = <<>> /\ pump' = "stopped" /\ Queued = 0 /\ Queued' = 0
  <2>1. Len(queue) = 1 /\ ending
    BY Passing DEF IInv, QueueOK, First
  <2>2. queue' = <<>>
    BY <2>1, Passing, EmptySeq
  <2>. QED  BY <2>1, <2>2, Passing DEF Queued, First
<1>2. /\ IF emitted THEN Interrupt ELSE GiveUp
      /\ UNCHANGED <<fixed, ctx, reads, text, final>>
  <2>1. Head(queue) = queue[1]
    BY Passing
  <2>. QED  BY <2>1 DEF Pass
<1>3. /\ emitted' = emitted /\ full' = full /\ finish' = finish /\ view' = view
      /\ outcome' = "failure"
      /\ \/ emitted /\ handler' = "breaking" /\ plan' = <<Plain("error")>>
         \/ ~emitted /\ handler' = "returned" /\ plan' = <<>>
  BY <1>2, Passing DEF Interrupt, GiveUp
<1>4. /\ Plain("error") \in ClientEvents /\ Plain("error").type = "error"
      /\ <<>> \in Seq(ClientEvents)
  BY EventTyped, NothingTyped, EmptySeq DEF Plain, Event, EventTypes
<1>5. /\ plan' \in Seq(ClientEvents) /\ (plan' # <<>>) = (handler' = "breaking")
      /\ Len(plan') <= 1 /\ Final("delta")' = FALSE /\ Pending' = 0
  <2>1. CASE emitted
    <3>. DEFINE p == <<Plain("error")>>
    <3>1. p \in Seq(ClientEvents) /\ p # <<>> /\ Len(p) = 1 /\ p[1].type = "error"
      BY <1>4
    <3>2. plan' = p /\ handler' = "breaking"
      BY <1>3, <2>1
    <3>. HIDE DEF p
    <3>3. /\ plan' \in Seq(ClientEvents) /\ plan' # <<>> /\ Len(plan') = 1
          /\ plan'[Len(plan')].type = "error"
      BY <3>1, <3>2
    <3>4. Final("delta")' = FALSE
      BY <3>3 DEF Final
    <3>. QED  BY <3>2, <3>3, <3>4 DEF Pending
  <2>2. CASE ~emitted
    <3>1. plan' = <<>> /\ handler' = "returned"
      BY <1>3, <2>2
    <3>. QED  BY <1>4, <3>1, EmptySeq DEF Final, Pending
  <2>. QED  BY <2>1, <2>2
<1>6. /\ adapter' = adapter /\ endpoint' = endpoint /\ ctx' = ctx /\ reads' = reads
      /\ text' = text /\ final' = final /\ Codex' = Codex /\ Responses' = Responses
      /\ ending' = ending
  BY <1>2, Passing DEF fixed, Codex, Responses
<1>7. TypeOK'
  <2>1. queue' \in Seq(IREvents)
    BY Passing
  <2>2. handler' \in {"receiving", "writing", "closing", "breaking", "returned"}
    BY <1>3
  <2>3. (plan' # <<>>) = (handler' \in {"writing", "closing", "breaking"})
    BY <1>3, <1>5
  <2>. QED  BY <1>1, <1>3, <1>5, <1>6, <2>1, <2>2, <2>3 DEF IInv, TypeOK
<1>8. QueueOK'
  BY Passing
<1>9. PlanOK'
  <2>1. \A i \in 1..Len(plan') - 1 : plan'[i].type # "delta"
    BY <1>5
  <2>. QED  BY <1>3, <1>5, <2>1 DEF PlanOK
<1>10. Flow' /\ Sync'
  <2>1. handler = "receiving" /\ Pending = 0 /\ Len(view.said) \in Nat
    <3>1. Pending = 0
      BY Passing
    <3>. QED  BY <3>1 DEF Pass, IInv, TypeOK
  <2>2. Responses => finish = final
    BY Passing
  <2>3. Len(text) = Len(view.said) + Pending + Queued
    BY <1>1, <2>1, Passing
  <2>4. Flow'
    BY <1>3, <1>5, <1>6, <2>1 DEF IInv, Flow
  <2>5. Sync'
    BY <1>1, <1>3, <1>5, <1>6, <2>1, <2>2, <2>3 DEF Sync
  <2>. QED  BY <2>4, <2>5
<1>11. Ends'
  <2>1. queue[Len(queue)].type # "done" /\ queue # <<>> /\ handler = "receiving"
    BY <1>1, Passing DEF Pass
  <2>2. ~(Codex /\ ~Responses /\ final # "none" /\ ctx = "live")
    BY <2>1 DEF IInv, Ends
  <2>3. Codex /\ final # "none" => ending
    BY DEF IInv, Ends
  <2>4. handler' \in {"breaking", "returned"}
    BY <1>3
  <2>. QED  BY <1>6, <2>2, <2>3, <2>4 DEF Ends
<1>12. Outcome' /\ SuccessIsWhole' /\ NothingAbandoned'
  BY <1>1, <1>3, <1>6, Passing DEF Outcome, SuccessIsWhole, NothingAbandoned
<1>. QED  BY <1>7, <1>8, <1>9, <1>10, <1>11, <1>12 DEF IInv

\* An event passed that is no error keeps the invariant.
LEMMA PassRelay ==
  ASSUME IInv, Pass, queue[1].type # "error"
  PROVE  IInv'
<1>. DEFINE e == queue[1]
            w == Written(e)
<1>1. Relay(e) /\ UNCHANGED <<fixed, ctx, reads, text, final>>
  <2>1. Head(queue) = e
    BY Passing
  <2>. QED  BY <2>1 DEF Pass
<1>2. /\ plan' = w /\ emitted' = TRUE /\ outcome' = outcome /\ view' = view
      /\ handler' = IF w = <<>> THEN "receiving" ELSE "writing"
      /\ full' = IF Responses /\ e.type = "delta" THEN Append(full, e.piece) ELSE full
      /\ finish' = IF Responses /\ e.type = "finish" THEN e.reason ELSE finish
  BY <1>1 DEF Relay
<1>3. /\ w \in Seq(ClientEvents)
      /\ \A i \in 1..Len(w) - 1 : w[i].type # "delta"
      /\ w # <<>> /\ w[Len(w)].type = "delta" => e.type = "delta"
      /\ e.type = "delta" => /\ w # <<>>
                             /\ w[Len(w)].type = "delta"
                             /\ w[Len(w)].piece = e.piece
      /\ ~Responses => w # <<>> /\ w[Len(w)].type = e.type
  BY Passing, WrittenFacts
<1>4. /\ e.type = "delta" => e.piece \in Pieces /\ e.piece = text[Len(text)] /\ Queued = 1
      /\ e.type # "delta" => Queued = 0
      /\ e.type = "finish" => e.reason = final
  BY Passing DEF IInv, QueueOK, First, Queued, Pass
<1>5. e.reason \in {"none", "stop", "length"}
  BY Passing DEF IREvents
<1>. HIDE DEF w, e
<1>6. Final("delta")' <=> e.type = "delta"
  BY <1>2, <1>3 DEF Final
<1>7. Pending' = Queued /\ Queued' = 0
  BY <1>4, <1>6, Passing DEF Pending, Queued
<1>8. /\ Len(view.said) \in Nat /\ Len(full) \in Nat /\ full \in Seq(Pieces) /\ TypeOK
      /\ handler = "receiving"
  BY DEF IInv, TypeOK, Pass
<1>9. /\ full' \in Seq(Pieces)
      /\ Responses /\ e.type = "delta" =>
           /\ Len(full') = Len(full) + 1 /\ full'[Len(full) + 1] = e.piece
           /\ \A i \in 1..Len(full) : full'[i] = full[i]
      /\ ~(Responses /\ e.type = "delta") => full' = full
  BY <1>2, <1>4, <1>8
<1>10. TypeOK'
  <2>1. finish' \in {"none", "stop", "length"}
    BY <1>2, <1>5, <1>8 DEF TypeOK
  <2>2. /\ plan' \in Seq(ClientEvents)
        /\ (plan' # <<>>) = (handler' \in {"writing", "closing", "breaking"})
        /\ handler' \in {"receiving", "writing", "closing", "breaking", "returned"}
    BY <1>2, <1>3
  <2>3. adapter' = adapter /\ endpoint' = endpoint /\ ctx' = ctx /\ reads' = reads /\ text' = text
        /\ final' = final
    BY <1>1 DEF fixed
  <2>. QED  BY <1>2, <1>8, <1>9, <2>1, <2>2, <2>3, Passing DEF TypeOK
<1>11. QueueOK'
  BY Passing
<1>12. PlanOK'
  <2>1. Final("delta")' => /\ Len(view.said) < Len(text)
                           /\ w[Len(w)].piece = text[Len(view.said) + 1]
    BY <1>3, <1>4, <1>6, <1>8, Passing, SMTT(40)
  <2>2. text' = text
    BY <1>1
  <2>. QED  BY <1>2, <1>3, <2>1, <2>2 DEF PlanOK
<1>13. Flow'
  <2>1. /\ Len(view.said) <= Len(text)
        /\ \A i \in 1..Len(view.said) : view.said[i] = text[i]
        /\ Len(full) <= Len(text)
        /\ \A i \in 1..Len(full) : full[i] = text[i]
        /\ Responses => Len(full) = Len(view.said)
    <3>1. Pending = 0
      BY Passing
    <3>2. Responses => Len(full) = Len(view.said) + Pending
      BY <1>8 DEF IInv, Flow
    <3>3. Responses => Len(full) = Len(view.said)
      BY <1>8, <3>1, <3>2
    <3>. QED  BY <3>3 DEF IInv, Flow
  <2>2. /\ Len(full') <= Len(text)
        /\ Responses => Len(full') = Len(view.said) + Queued
    BY <1>4, <1>8, <1>9, <2>1, Passing
  <2>3. \A i \in 1..Len(full') : full'[i] = text[i]
    <3>1. CASE Responses /\ e.type = "delta"
      <4>1. Len(text) = Len(full) + 1
        BY <1>4, <2>1, <3>1, Passing
      <4>2. \A i \in 1..Len(full') : i \in 1..Len(full) \/ i = Len(full) + 1
        BY <1>8, <1>9, <3>1
      <4>. QED  BY <1>4, <1>9, <2>1, <3>1, <4>1, <4>2
    <3>2. CASE ~(Responses /\ e.type = "delta")
      BY <1>9, <2>1, <3>2
    <3>. QED  BY <3>1, <3>2
  <2>4. text' = text /\ view' = view /\ Responses' = Responses
    BY <1>1, <1>2 DEF Responses, fixed
  <2>. QED  BY <1>7, <2>1, <2>2, <2>3, <2>4 DEF Flow
<1>14. Sync'
  <2>1. text' = text /\ view' = view /\ final' = final /\ Responses' = Responses
    BY <1>1, <1>2 DEF Responses, fixed
  <2>2. Responses => finish' = final
    BY <1>2, <1>4, Passing DEF e
  <2>3. Queued \in Nat
    BY DEF Queued
  <2>4. Len(text) = Len(view.said) + Queued
    BY Passing
  <2>5. Len(text) = Len(view.said) + Queued + 0
    BY <1>8, <2>3, <2>4
  <2>. QED  BY <1>7, <2>1, <2>2, <2>5 DEF Sync
<1>15. Ends'
  <2>1. /\ Codex' = Codex /\ Responses' = Responses /\ final' = final /\ ctx' = ctx
        /\ ending' = ending /\ view' = view
    BY <1>1, <1>2, Passing DEF Codex, Responses, fixed
  <2>2. ~First("error") /\ handler = "receiving"
    BY <1>8 DEF First
  <2>3. ~(Codex /\ ending /\ final = "none" /\ ctx = "live")
    BY <2>2 DEF IInv, Ends
  <2>4. ASSUME Codex, ~Responses, final # "none", ctx = "live"
        PROVE  \/ queue' # <<>> /\ queue'[Len(queue')].type = "done"
               \/ queue' = <<>> /\ Final("done")'
    <3>1. queue[Len(queue)].type = "done"
      BY <1>8, <2>4, Passing DEF IInv, Ends
    <3>2. CASE Len(queue) = 1
      <4>1. queue' = <<>> /\ e.type = "done"
        BY <3>1, <3>2, Passing, EmptySeq DEF e
      <4>2. Final("done")'
        BY <1>2, <1>3, <2>4, <4>1 DEF Final
      <4>. QED  BY <4>1, <4>2
    <3>3. CASE Len(queue) # 1
      <4>1. Len(queue) > 1 /\ queue' # <<>>
        BY <3>3, Passing, EmptySeq
      <4>2. queue'[Len(queue')] = queue[Len(queue)]
        BY <4>1, Passing
      <4>. QED  BY <3>1, <4>1, <4>2
    <3>. QED  BY <3>2, <3>3
  <2>5. Codex /\ final # "none" => ending
    BY DEF IInv, Ends
  <2>. QED  BY <2>1, <2>3, <2>4, <2>5 DEF Ends
<1>16. Outcome' /\ SuccessIsWhole' /\ NothingAbandoned'
  BY <1>1, <1>2, Passing DEF Outcome, SuccessIsWhole, NothingAbandoned
<1>. QED  BY <1>10, <1>11, <1>12, <1>13, <1>14, <1>15, <1>16 DEF IInv

\* An event passed keeps the invariant.
LEMMA Passes == ASSUME IInv, Pass  PROVE IInv'
BY PassError, PassRelay

\* The end of the channel keeps the invariant.
LEMMA ClosesChannel ==
  ASSUME IInv, Closed
  PROVE  IInv'
<1>1. /\ UNCHANGED <<adapter, endpoint, ctx, reads, text, final, pump, queue, ending>>
      /\ Codex' = Codex /\ Responses' = Responses
  BY DEF Closed, gorout, fixed, Codex, Responses
<1>2. full' = full /\ finish' = finish /\ view' = view /\ Status' = Status
  BY DEF Closed, Status
<1>3. /\ pump = "stopped" /\ queue = <<>> /\ ending /\ handler = "receiving" /\ plan = <<>>
      /\ TypeOK /\ ctx # "ended" /\ outcome # "success"
  BY DEF IInv, TypeOK, Outcome, Closed
<1>4. Pending = 0 /\ Queued = 0 /\ Queued' = 0 /\ ~First("error") /\ ~First("finish")
      /\ First("finish")' = FALSE
  BY <1>1, <1>3 DEF Pending, Queued, Final, First
<1>5. /\ emitted' = TRUE
      /\ IF Responses
         THEN /\ handler' = "closing" /\ outcome' = outcome
              /\ plan' = OpeningEvents \o ClosingEvents
         ELSE handler' = "returned" /\ outcome' = "success" /\ plan' = plan
  BY DEF Closed
<1>6. /\ plan' \in Seq(ClientEvents)
      /\ (plan' # <<>>) = Responses
      /\ \A i \in 1..Len(plan') : plan'[i].type # "delta"
      /\ Responses => plan'[Len(plan')] = Event("completed", NoPiece, full, Status)
  <2>1. CASE Responses
    <3>. DEFINE all == OpeningEvents \o ClosingEvents
    <3>1. /\ all \in Seq(ClientEvents) /\ all # <<>>
          /\ \A i \in 1..Len(all) : all[i].type # "delta"
          /\ all[Len(all)] = Event("completed", NoPiece, full, Status)
      BY <1>3, ClosingFacts DEF TypeOK
    <3>2. plan' = all
      BY <1>5, <2>1
    <3>. HIDE DEF all
    <3>. QED  BY <2>1, <3>1, <3>2 DEF Responses
  <2>2. CASE ~Responses
    <3>1. plan' = <<>>
      BY <1>3, <1>5, <2>2
    <3>. QED  BY <2>2, <3>1, EmptySeq DEF Responses
  <2>. QED  BY <2>1, <2>2
<1>7. Len(plan') \in Nat /\ (plan' # <<>> => Len(plan') \in 1..Len(plan'))
  BY <1>6, EmptySeq
<1>8. Final("delta")' = FALSE /\ Pending' = 0
  BY <1>6, <1>7 DEF Final, Pending
<1>9. TypeOK'
  BY <1>1, <1>2, <1>3, <1>5, <1>6 DEF TypeOK, Responses
<1>10. QueueOK'
  BY <1>1, <1>3, EmptySeq DEF QueueOK, First
<1>11. PlanOK'
  BY <1>1, <1>2, <1>3, <1>5, <1>6, <1>7, <1>8 DEF PlanOK
<1>12. Flow' /\ Sync'
  BY <1>1, <1>2, <1>3, <1>4, <1>5, <1>8 DEF IInv, Flow, Sync, Responses
<1>13. Codex /\ ctx = "live" => final # "none"
  BY <1>3, <1>4 DEF IInv, Ends
<1>14. Ends'
  BY <1>1, <1>3, <1>5, <1>13 DEF Ends
<1>15. SuccessIsWhole'
  <2>1. CASE Responses
    BY <1>3, <1>5, <2>1 DEF SuccessIsWhole
  <2>2. CASE ~Responses /\ ctx = "live"
    <3>1. view.said = text
      BY <1>3, <1>4, <2>2, Whole
    <3>2. Codex => view.last = "done"
      BY <1>3, <1>13, <2>2 DEF IInv, Ends, Final
    <3>. QED  BY <1>1, <1>2, <1>13, <2>2, <3>1, <3>2 DEF SuccessIsWhole
  <2>3. CASE ctx = "left"
    BY <1>1, <2>3 DEF SuccessIsWhole
  <2>. QED  BY <1>3, <2>1, <2>2, <2>3 DEF TypeOK
<1>16. Outcome' /\ NothingAbandoned'
  BY <1>1, <1>3, <1>5 DEF Outcome, NothingAbandoned
<1>. QED  BY <1>9, <1>10, <1>11, <1>12, <1>14, <1>15, <1>16 DEF IInv

-----------------------------------------------------------------------------
(***************************************************************************)
(* The handler writes, clients leave and requests end.                     *)
(***************************************************************************)

\* What writing an event changes.
LEMMA Writing ==
  ASSUME IInv, Write
  PROVE  /\ plan # <<>> /\ plan[1] \in ClientEvents /\ handler # "returned" /\ emitted
         /\ plan' = Tail(plan) /\ plan' \in Seq(ClientEvents)
         /\ Len(plan) \in Nat /\ Len(plan) > 0 /\ Len(plan') = Len(plan) - 1
         /\ \A i \in 1..Len(plan) - 1 : plan'[i] = plan[i + 1]
         /\ plan' = <<>> <=> Len(plan) = 1
         /\ plan' # <<>> => plan'[Len(plan')] = plan[Len(plan)]
         /\ \A i \in 1..Len(plan') - 1 : plan'[i].type # "delta"
         /\ view' = Seen(view, plan[1])
         /\ ctx # "ended" /\ outcome # "success"
<1>1. plan # <<>> /\ plan \in Seq(ClientEvents) /\ handler # "returned"
  BY DEF IInv, TypeOK, Write
<1>2. plan' = Tail(plan) /\ view' = Seen(view, Head(plan))
  BY DEF Write
<1>3. /\ plan[1] \in ClientEvents /\ Head(plan) = plan[1]
      /\ Len(plan) \in Nat /\ Len(plan) > 0
      /\ plan' \in Seq(ClientEvents) /\ Len(plan') = Len(plan) - 1
      /\ \A i \in 1..Len(plan) - 1 : plan'[i] = plan[i + 1]
      /\ plan' = <<>> <=> Len(plan) = 1
  BY <1>1, <1>2, TailFacts
<1>4. plan' # <<>> => plan'[Len(plan')] = plan[Len(plan)]
  BY <1>3
<1>5. \A i \in 1..Len(plan') - 1 : plan'[i].type # "delta"
  <2>1. \A i \in 1..Len(plan) - 1 : plan[i].type # "delta"
    BY DEF IInv, PlanOK
  <2>. QED  BY <1>3, <2>1
<1>6. ctx # "ended" /\ outcome # "success" /\ emitted
  BY <1>1 DEF IInv, Outcome, PlanOK
<1>. QED  BY <1>1, <1>2, <1>3, <1>4, <1>5, <1>6

\* A written event keeps the invariant.
LEMMA Writes == ASSUME IInv, Write  PROVE IInv'
<1>. DEFINE e == plan[1]
            said == view.said
<1>1. /\ UNCHANGED <<adapter, endpoint, ctx, reads, text, final, pump, queue, ending, emitted,
                     full, finish>>
      /\ Codex' = Codex /\ Responses' = Responses /\ Status' = Status
  BY DEF Write, gorout, fixed, Codex, Responses, Status
<1>2. /\ handler' = IF plan' # <<>> THEN handler
                    ELSE IF handler = "writing" THEN "receiving" ELSE "returned"
      /\ outcome' = IF plan' = <<>> /\ handler = "closing" THEN "success" ELSE outcome
      /\ handler \in {"writing", "closing", "breaking"}
  BY DEF Write, IInv, TypeOK
<1>3. /\ TypeOK /\ said \in Seq(Pieces) /\ Len(said) \in Nat
      /\ text \in Seq(Pieces) /\ Len(text) \in Nat
  BY DEF IInv, TypeOK
<1>4. /\ e.type \in EventTypes /\ e.piece \in 0..MaxReads /\ e.text \in Seq(Pieces)
      /\ e.status \in {"none"} \cup Statuses
  BY Writing DEF ClientEvents
<1>5. /\ view' = [last |-> e.type, said |-> IF e.type = "delta" THEN Append(said, e.piece) ELSE said,
                 told |-> e.text, status |-> e.status]
  BY Writing DEF Seen
<1>6. e.type = "delta" => /\ Len(plan) = 1 /\ Pending = 1 /\ Len(said) < Len(text)
                          /\ e.piece = text[Len(said) + 1]
  <2>1. \A i \in 1..Len(plan) - 1 : plan[i].type # "delta"
    BY DEF IInv, PlanOK
  <2>2. e.type = "delta" => Len(plan) = 1
    BY <2>1, Writing
  <2>3. e.type = "delta" => Final("delta")
    BY <2>2, Writing DEF Final
  <2>. QED  BY <2>2, <2>3 DEF IInv, PlanOK, Pending
<1>7. /\ handler = "closing" => /\ Responses /\ pump = "stopped" /\ queue = <<>> /\ ending
                                /\ plan[Len(plan)] = Event("completed", NoPiece, full, Status)
      /\ handler = "breaking" => ~Final("delta")
  BY DEF IInv, PlanOK, TypeOK
<1>8. plan' # <<>> => Final("delta")' = Final("delta")
  BY Writing DEF Final
<1>9. plan' = <<>> => Final("delta")' = FALSE /\ Final("delta") = (e.type = "delta")
  BY Writing DEF Final
<1>. HIDE DEF said, e
<1>10. /\ view'.said = IF e.type = "delta" THEN Append(said, e.piece) ELSE said
       /\ view'.last = e.type /\ view'.told = e.text /\ view'.status = e.status
       /\ view' \in [last : EventTypes \cup {"nothing"}, said : Seq(Pieces),
                     told : Seq(Pieces), status : {"none"} \cup Statuses]
  <2>1. e.type = "delta" => e.piece \in Pieces
    BY <1>3, <1>6, ElementOfSeq
  <2>. QED  BY <1>3, <1>4, <1>5, <2>1
<1>11. /\ view'.said \in Seq(Pieces) /\ Len(view'.said) + Pending' = Len(said) + Pending
       /\ Len(view'.said) <= Len(text)
       /\ \A i \in 1..Len(view'.said) : view'.said[i] = text[i]
       /\ Pending' \in Nat /\ Pending \in Nat
  <2>1. /\ Len(said) <= Len(text)
        /\ \A i \in 1..Len(said) : said[i] = text[i]
    BY DEF IInv, Flow, said
  <2>2. Pending' \in Nat /\ Pending \in Nat
    BY DEF Pending
  <2>3. CASE e.type = "delta"
    <3>1. Pending' = 0 /\ Pending = 1
      BY <1>6, <1>9, <2>3, Writing DEF Pending
    <3>2. view'.said = Append(said, e.piece) /\ view'.said \in Seq(Pieces)
      BY <1>10, <2>3
    <3>3. /\ Len(view'.said) = Len(said) + 1 /\ view'.said[Len(said) + 1] = e.piece
          /\ \A i \in 1..Len(said) : view'.said[i] = said[i]
      BY <1>3, <3>2
    <3>4. \A i \in 1..Len(said) + 1 : i \in 1..Len(said) \/ i = Len(said) + 1
      BY <1>3
    <3>5. \A i \in 1..Len(view'.said) : view'.said[i] = text[i]
      BY <1>6, <2>1, <2>3, <3>3, <3>4
    <3>6. Len(view'.said) <= Len(text)
      BY <1>3, <1>6, <2>3, <3>3
    <3>. QED  BY <1>3, <2>2, <3>1, <3>2, <3>3, <3>5, <3>6
  <2>4. CASE e.type # "delta"
    <3>1. Pending' = Pending
      BY <1>8, <1>9, <2>4 DEF Pending
    <3>2. view'.said = said
      BY <1>10, <2>4
    <3>. QED  BY <1>3, <2>1, <2>2, <3>1, <3>2
  <2>. QED  BY <2>3, <2>4
<1>12. Queued' = Queued /\ First("finish")' = First("finish") /\ First("error")' = First("error")
  BY <1>1 DEF Queued, First
<1>13. TypeOK'
  <2>1. /\ handler' \in {"receiving", "writing", "closing", "breaking", "returned"}
        /\ (plan' # <<>>) = (handler' \in {"writing", "closing", "breaking"})
        /\ outcome' \in {"none", "success", "failure"}
    BY <1>2, <1>3 DEF TypeOK
  <2>. QED  BY <1>1, <1>3, <1>10, <2>1, Writing DEF TypeOK
<1>14. QueueOK'
  BY <1>1, <1>2 DEF IInv, QueueOK, First
<1>15. PlanOK'
  <2>1. ASSUME Final("delta")'
        PROVE  /\ Len(view'.said) < Len(text) /\ plan'[Len(plan')].piece = text[Len(view'.said) + 1]
               /\ handler # "breaking"
    <3>1. plan' # <<>> /\ Final("delta")
      BY <1>8, <1>9, <2>1
    <3>2. e.type # "delta"
      BY <1>6, <3>1, Writing
    <3>3. view'.said = view.said /\ plan'[Len(plan')] = plan[Len(plan)]
      BY <1>10, <3>1, <3>2, Writing DEF said
    <3>. QED  BY <1>7, <3>1, <3>3 DEF IInv, PlanOK
  <2>2. handler' = "closing" => /\ Responses /\ pump = "stopped"
                                /\ plan'[Len(plan')] = Event("completed", NoPiece, full, Status)
    BY <1>2, <1>7, Writing
  <2>. QED  BY <1>1, <1>2, <2>1, <2>2, Writing DEF PlanOK
<1>16. Flow'
  <2>1. /\ Len(full) <= Len(text)
        /\ \A i \in 1..Len(full) : full[i] = text[i]
        /\ Responses => Len(full) = Len(said) + Pending
    BY Writing DEF IInv, Flow, said
  <2>2. Responses => Len(full) = Len(view'.said) + Pending'
    BY <1>11, <2>1
  <2>. QED  BY <1>1, <1>11, <2>1, <2>2 DEF Flow
<1>17. Sync'
  <2>1. pump # "stopped" \/ ctx = "live" =>
          /\ Len(text) = Len(said) + Pending + Queued
          /\ Responses /\ ~First("finish") => finish = final
    BY Writing DEF IInv, Sync, said
  <2>2. Len(view'.said) + Pending' + Queued = Len(said) + Pending + Queued
    BY <1>11
  <2>. QED  BY <1>1, <1>12, <2>1, <2>2 DEF Sync
<1>18. Ends'
  <2>1. handler = "breaking" => handler' \in {"breaking", "returned"}
    BY <1>2
  <2>2. ASSUME Codex, ~Responses, final # "none", ctx = "live"
        PROVE  \/ queue # <<>> /\ queue[Len(queue)].type = "done"
               \/ queue = <<>> /\ Final("done")'
               \/ queue = <<>> /\ plan' = <<>> /\ view'.last = "done"
    <3>1. \/ queue # <<>> /\ queue[Len(queue)].type = "done"
          \/ queue = <<>> /\ plan[Len(plan)].type = "done"
      BY <2>2, Writing DEF IInv, Ends, Final
    <3>2. plan' = <<>> /\ plan[Len(plan)].type = "done" => view'.last = "done"
      BY <1>10, Writing DEF e
    <3>. QED  BY <3>1, <3>2, Writing DEF Final
  <2>3. /\ Codex /\ final # "none" => ending
        /\ Codex /\ ending /\ final = "none" /\ ctx = "live" =>
             First("error") \/ handler = "breaking"
    BY Writing DEF IInv, Ends
  <2>. QED  BY <1>1, <1>12, <2>1, <2>2, <2>3 DEF Ends
<1>19. Outcome' /\ NothingAbandoned'
  BY <1>1, <1>2, <1>7, Writing DEF Outcome, NothingAbandoned
<1>20. SuccessIsWhole'
  <2>. SUFFICES ASSUME outcome' = "success", ctx # "left"
                PROVE  SuccessIsWhole'
    BY <1>1 DEF SuccessIsWhole
  <2>1. plan' = <<>> /\ handler = "closing" /\ ctx = "live" /\ Responses
    BY <1>2, <1>3, <1>7, Writing DEF TypeOK
  <2>2. e = Event("completed", NoPiece, full, Status)
    BY <1>7, <2>1, Writing DEF e
  <2>3. view'.said = said /\ view'.last = "completed" /\ view'.told = full /\ view'.status = Status
    BY <1>10, <2>2 DEF Event
  <2>4. Pending = 0 /\ Queued = 0 /\ ~First("error") /\ ~First("finish")
    <3>1. e.type = "completed"
      BY <2>2 DEF Event
    <3>. QED  BY <1>7, <1>9, <2>1, <3>1 DEF Pending, Queued, First
  <2>5. said = text /\ full = text
    BY <2>1, <2>4, Whole, Writing DEF said
  <2>6. Codex => final # "none"
    BY <1>7, <2>1, <2>4 DEF IInv, Ends
  <2>7. finish = final
    BY <2>1, <2>4 DEF IInv, Sync
  <2>8. (Status = "incomplete") = (final = "length")
    BY <2>7 DEF Status
  <2>. QED  BY <1>1, <2>1, <2>3, <2>5, <2>6, <2>8 DEF SuccessIsWhole
<1>. QED  BY <1>13, <1>14, <1>15, <1>16, <1>17, <1>18, <1>19, <1>20 DEF IInv

\* A write that fails keeps the invariant.
LEMMA WriteBreaks == ASSUME IInv, WriteFails  PROVE IInv'
<1>1. /\ UNCHANGED <<adapter, endpoint, ctx, reads, text, final, pump, queue, ending, emitted,
                     full, finish, view>>
      /\ Codex' = Codex /\ Responses' = Responses
      /\ plan' = <<>> /\ handler' = "returned" /\ outcome' = "failure" /\ emitted
  BY DEF WriteFails, gorout, fixed, Codex, Responses, IInv, PlanOK
<1>2. Len(plan') = 0 /\ plan' \in Seq(ClientEvents)
  BY <1>1, EmptySeq
<1>3. TypeOK'
  BY <1>1, <1>2 DEF IInv, TypeOK
<1>4. QueueOK' /\ PlanOK'
  BY <1>1, <1>2 DEF IInv, QueueOK, PlanOK, First, Final
<1>5. Flow' /\ Sync'
  BY <1>1 DEF IInv, Flow, Sync
<1>6. Ends' /\ Outcome' /\ SuccessIsWhole' /\ NothingAbandoned'
  BY <1>1 DEF IInv, Ends, Outcome, SuccessIsWhole, NothingAbandoned
<1>. QED  BY <1>3, <1>4, <1>5, <1>6 DEF IInv

\* A client that leaves, or a request that ends, keeps the invariant.
LEMMA Leaves == ASSUME IInv, ClientLeaves \/ RequestEnds  PROVE IInv'
<1>1. /\ UNCHANGED <<adapter, endpoint, reads, text, final, pump, queue, ending, handler, emitted,
                     plan, full, finish, outcome, view>>
      /\ Codex' = Codex /\ Responses' = Responses /\ Status' = Status
      /\ ctx = "live" /\ ctx' \in {"left", "ended"} /\ (ctx' = "left" <=> handler # "returned")
  BY DEF ClientLeaves, RequestEnds, gorout, fixed, serving, Codex, Responses, Status
<1>2. TypeOK' /\ QueueOK' /\ PlanOK'
  BY <1>1 DEF IInv, TypeOK, QueueOK, PlanOK, First, Final
<1>3. Flow' /\ Sync'
  BY <1>1 DEF IInv, Flow, Sync, Pending, Queued, First, Final
<1>4. Ends' /\ Outcome' /\ SuccessIsWhole' /\ NothingAbandoned'
  BY <1>1 DEF IInv, Ends, Outcome, SuccessIsWhole, NothingAbandoned
<1>. QED  BY <1>2, <1>3, <1>4 DEF IInv

-----------------------------------------------------------------------------

\* The initial state satisfies the invariant.
LEMMA Starts == Init => IInv
<1>. SUFFICES ASSUME Init  PROVE IInv
  OBVIOUS
<1>1. /\ <<>> \in Seq(IREvents) /\ <<>> \in Seq(Pieces) /\ <<>> \in Seq(ClientEvents)
      /\ Len(<<>>) = 0
  BY EmptySeq
<1>2. TypeOK
  <2>1. "nothing" \in EventTypes \cup {"nothing"} /\ "none" \in {"none"} \cup Statuses
    OBVIOUS
  <2>2. view \in [last : EventTypes \cup {"nothing"}, said : Seq(Pieces),
                told : Seq(Pieces), status : {"none"} \cup Statuses]
    BY <1>1, <2>1 DEF Init, Nothing
  <2>3. /\ adapter \in Adapters /\ endpoint \in Endpoints /\ reads \in 0..MaxReads
        /\ ctx \in {"live", "left", "ended"}
    BY DEF Init
  <2>6. ending \in BOOLEAN /\ emitted \in BOOLEAN
    BY Zenon DEF Init
  <2>4. /\ queue \in Seq(IREvents) /\ text \in Seq(Pieces) /\ plan \in Seq(ClientEvents)
        /\ full \in Seq(Pieces)
    BY <1>1 DEF Init
  <2>5. /\ pump = IF queue # <<>> THEN "sending" ELSE IF ending THEN "stopped" ELSE "reading"
        /\ (plan # <<>>) = (handler \in {"writing", "closing", "breaking"})
        /\ handler \in {"receiving", "writing", "closing", "breaking", "returned"}
        /\ outcome \in {"none", "success", "failure"}
        /\ final \in {"none", "stop", "length"} /\ finish \in {"none", "stop", "length"}
    BY DEF Init
  <2>. QED  BY <2>2, <2>3, <2>4, <2>5, <2>6 DEF TypeOK
<1>3. Pending = 0 /\ Queued = 0
  BY DEF Init, Pending, Queued, First, Final
<1>4. view.said = <<>>
  BY DEF Init, Nothing
<1>5. QueueOK /\ PlanOK
  BY <1>1 DEF Init, QueueOK, PlanOK, First, Final
<1>6. Flow /\ Sync
  BY <1>1, <1>3, <1>4 DEF Init, Flow, Sync
<1>. QED  BY <1>2, <1>5, <1>6 DEF Init, IInv, Ends, Outcome, SuccessIsWhole, NothingAbandoned

\* Every step keeps the invariant.
LEMMA Inductive == IInv /\ [Next]_vars => IInv'
<1>. SUFFICES ASSUME IInv, [Next]_vars  PROVE IInv'
  OBVIOUS
<1>1. CASE UNCHANGED vars
  <2>. USE <1>1 DEF vars, fixed, gorout, serving
  <2>1. TypeOK' /\ QueueOK' /\ PlanOK'
    BY DEF IInv, TypeOK, QueueOK, PlanOK, First, Final, Responses, Status
  <2>2. Flow' /\ Sync'
    BY DEF IInv, Flow, Sync, Pending, Queued, First, Final, Responses
  <2>3. Ends' /\ Outcome' /\ SuccessIsWhole' /\ NothingAbandoned'
    BY DEF IInv, Ends, Outcome, SuccessIsWhole, NothingAbandoned, First, Final, Codex, Responses
  <2>. QED  BY <2>1, <2>2, <2>3 DEF IInv
<1>. QED  BY <1>1, ReadStep, ReadStops, Cancelling, Passes, ClosesChannel, Writes, WriteBreaks,
             Leaves DEF Next

\* The invariant holds in every state of a stream.
LEMMA Invariance == Spec => []IInv
BY Starts, Inductive, PTL DEF Spec

\* The goroutine and the handler hold events only where their state says so, and
\* event, text and view keep their types.
THEOREM TypeCorrect == Spec => []TypeOK
<1>1. IInv => TypeOK
  BY DEF IInv
<1>. QED  BY <1>1, Invariance, PTL

\* What a client of either endpoint has been told is always a beginning of what
\* the upstream said, for every number of events and wherever something breaks.
THEOREM TextInOrder == Spec => []TextFlows
<1>1. ASSUME IInv  PROVE TextFlows
  <2>1. /\ text \in Seq(Pieces) /\ view.said \in Seq(Pieces)
        /\ Len(view.said) \in 0..Len(text)
        /\ \A i \in 1..Len(view.said) : view.said[i] = text[i]
    <3>1. text \in Seq(Pieces) /\ view.said \in Seq(Pieces)
      BY <1>1 DEF IInv, TypeOK
    <3>2. /\ Len(view.said) <= Len(text)
          /\ \A i \in 1..Len(view.said) : view.said[i] = text[i]
      BY <1>1 DEF IInv, Flow
    <3>. QED  BY <3>1, <3>2
  <2>. DEFINE sub == SubSeq(text, 1, Len(view.said))
  <2>2. /\ sub \in Seq(Pieces) /\ Len(sub) = Len(view.said)
        /\ \A i \in 1..Len(sub) : sub[i] = text[i]
    BY <2>1, SubSeqProperties
  <2>. HIDE DEF sub
  <2>3. view.said = sub
    BY <2>1, <2>2, SeqEqual
  <2>. QED  BY <2>1, <2>3 DEF TextFlows, sub
<1>. QED  BY <1>1, Invariance, PTL

\* A stream that is reported to the tracker as a success carried all the upstream
\* said and a proper end, on either endpoint and behind either adapter.
THEOREM SuccessWhole == Spec => []SuccessIsWhole
<1>1. IInv => SuccessIsWhole
  BY DEF IInv
<1>. QED  BY <1>1, Invariance, PTL

\* No goroutine still waits to send when the handler turns to another candidate.
THEOREM NoneAbandoned == Spec => []NothingAbandoned
<1>1. IInv => NothingAbandoned
  BY DEF IInv
<1>. QED  BY <1>1, Invariance, PTL

-----------------------------------------------------------------------------
(***************************************************************************)
(* The events of a Responses stream are a lifecycle: what is planned       *)
(* continues what has been written.                                        *)
(***************************************************************************)

Flowing == {"part_added", "delta"}

\* This event may follow the last one; closing events carry one of these texts.
Fits(last, e, texts) ==
  \/ \E i \in 1..3 : /\ last = IF i = 1 THEN "nothing" ELSE Opening[i - 1]
                    /\ e = Plain(Opening[i])
  \/ last \in Flowing /\ \E piece \in Pieces : e = Delta(piece)
  \/ \E i \in 1..4, t \in texts, status \in Statuses :
       /\ IF i = 1 THEN last \in Flowing ELSE last = Closing[i - 1]
       /\ e = Event(Closing[i], NoPiece, t, IF i < 3 THEN "none" ELSE status)
  \/ last \in Flowing /\ e = Plain("error")

Chain(last, s, texts) ==
  /\ s # <<>> => Fits(last, s[1], texts)
  /\ \A i \in 1..Len(s) - 1 : Fits(s[i].type, s[i + 1], texts)

Ending(last, s) == IF s = <<>> THEN last ELSE s[Len(s)].type

\* The translator repeats the text only in the closing events.
Told == IF handler = "closing" THEN {full} ELSE {}

Order ==
  Responses =>
    /\ ~emitted => view = Nothing /\ plan = <<>>
    /\ handler = "receiving" /\ emitted => view.last \in Flowing
    /\ handler = "writing" => plan[Len(plan)].type \in Flowing
    /\ Chain(view.last, plan, Told)

\* Two chains that fit make one.
LEMMA ChainJoined ==
  ASSUME NEW s \in Seq(ClientEvents), NEW t \in Seq(ClientEvents), NEW last, NEW texts,
         Chain(last, s, texts), Chain(Ending(last, s), t, texts)
  PROVE  Chain(last, s \o t, texts) /\ Ending(last, s \o t) = Ending(Ending(last, s), t)
<1>. DEFINE u == s \o t
            m == Len(s)
            n == Len(t)
<1>1. /\ u \in Seq(ClientEvents) /\ Len(u) = m + n /\ m \in Nat /\ n \in Nat
      /\ \A i \in 1..m : u[i] = s[i]
      /\ \A i \in 1..n : u[m + i] = t[i]
  BY ConcatFacts
<1>2. (m = 0 <=> s = <<>>) /\ (n = 0 <=> t = <<>>) /\ (m + n = 0 <=> u = <<>>)
  BY <1>1, EmptySeq
<1>3. /\ s # <<>> => Fits(last, s[1], texts)
      /\ \A i \in 1..m - 1 : Fits(s[i].type, s[i + 1], texts)
      /\ t # <<>> => Fits(Ending(last, s), t[1], texts)
      /\ \A i \in 1..n - 1 : Fits(t[i].type, t[i + 1], texts)
  BY DEF Chain
<1>4. Ending(last, s) = (IF s = <<>> THEN last ELSE s[m].type)
  BY DEF Ending
<1>5. Ending(Ending(last, s), t) = (IF t = <<>> THEN Ending(last, s) ELSE t[n].type)
  BY DEF Ending
<1>6. Ending(last, u) = (IF u = <<>> THEN last ELSE u[Len(u)].type)
  BY DEF Ending
<1>7. Chain(last, u, texts) <=> /\ u # <<>> => Fits(last, u[1], texts)
                                /\ \A i \in 1..Len(u) - 1 : Fits(u[i].type, u[i + 1], texts)
  BY DEF Chain
<1>. HIDE DEF u, m, n
<1>8. ASSUME u # <<>>  PROVE Fits(last, u[1], texts)
  <2>1. CASE m = 0
    <3>1. 1 \in 1..n /\ u[0 + 1] = t[1]
      BY <1>1, <1>2, <1>8, <2>1
    <3>. QED  BY <1>2, <1>3, <1>4, <2>1, <3>1
  <2>2. CASE m > 0
    BY <1>1, <1>2, <1>3, <2>2
  <2>. QED  BY <1>1, <2>1, <2>2
<1>9. ASSUME NEW i \in 1..m + n - 1  PROVE Fits(u[i].type, u[i + 1], texts)
  <2>1. CASE i < m
    <3>1. i \in 1..m - 1 /\ i \in 1..m /\ i + 1 \in 1..m
      BY <1>1, <2>1
    <3>. QED  BY <1>1, <1>3, <3>1
  <2>2. CASE i = m
    <3>1. i \in 1..m /\ 1 \in 1..n /\ i + 1 = m + 1 /\ m # 0 /\ n # 0
      BY <1>1, <2>2
    <3>2. u[i] = s[m] /\ u[i + 1] = t[1]
      BY <1>1, <2>2, <3>1
    <3>. QED  BY <1>2, <1>3, <1>4, <3>1, <3>2
  <2>3. CASE i > m
    <3>1. /\ i - m \in 1..n - 1 /\ i - m \in 1..n /\ i - m + 1 \in 1..n
          /\ m + (i - m) = i /\ m + (i - m + 1) = i + 1
      BY <1>1, <2>3
    <3>2. u[m + (i - m)] = t[i - m] /\ u[m + (i - m + 1)] = t[i - m + 1]
      <4>1. \A j \in 1..n : u[m + j] = t[j]
        BY <1>1
      <4>. QED  BY <3>1, <4>1
    <3>3. u[i] = t[i - m] /\ u[i + 1] = t[i - m + 1]
      BY <3>1, <3>2
    <3>. QED  BY <1>3, <3>1, <3>3
  <2>. QED  BY <1>1, <2>1, <2>2, <2>3
<1>10. Chain(last, u, texts)
  BY <1>1, <1>7, <1>8, <1>9
<1>11. Ending(last, u) = Ending(Ending(last, s), t)
  <2>1. CASE n = 0
    <3>1. Len(u) = m
      BY <1>1, <2>1
    <3>2. m # 0 => u[m] = s[m]
      BY <1>1
    <3>. QED  BY <1>2, <1>4, <1>5, <1>6, <2>1, <3>1, <3>2
  <2>2. CASE n # 0
    <3>1. u[Len(u)] = t[n] /\ u # <<>>
      BY <1>1, <1>2, <2>2
    <3>. QED  BY <1>2, <1>5, <1>6, <2>2, <3>1
  <2>. QED  BY <2>1, <2>2
<1>. QED  BY <1>10, <1>11 DEF u

\* The opening events are a chain behind what the client has seen.
LEMMA OpeningChain ==
  ASSUME IInv, Order, Responses, handler = "receiving", NEW texts
  PROVE  /\ Chain(view.last, OpeningEvents, texts)
         /\ Ending(view.last, OpeningEvents) \in Flowing
<1>1. CASE emitted
  <2>1. OpeningEvents = <<>> /\ view.last \in Flowing /\ Len(<<>>) = 0
    BY <1>1, EmptySeq DEF OpeningEvents, Order
  <2>. QED  BY <2>1 DEF Chain, Ending
<1>2. CASE ~emitted
  <2>. DEFINE o == OpeningEvents
  <2>1. view.last = "nothing"
    BY <1>2 DEF Order, Nothing
  <2>2. /\ Len(o) = 3 /\ o[1] = Plain(Opening[1]) /\ o[2] = Plain(Opening[2])
        /\ o[3] = Plain(Opening[3]) /\ o \in Seq(ClientEvents)
    <3>1. o = [i \in 1..3 |-> Plain(Opening[i])]
      BY <1>2 DEF OpeningEvents, Opening
    <3>2. o \in Seq(ClientEvents)
      BY OpeningFacts
    <3>. QED  BY <3>1, <3>2
  <2>. HIDE DEF o
  <2>3. \A i \in 1..3 : Plain(Opening[i]).type = Opening[i]
    BY DEF Plain, Event
  <2>4. /\ Fits("nothing", Plain(Opening[1]), texts)
        /\ Fits(Opening[1], Plain(Opening[2]), texts)
        /\ Fits(Opening[2], Plain(Opening[3]), texts)
    BY DEF Fits
  <2>5. o # <<>> /\ \A i \in 1..Len(o) - 1 : i = 1 \/ i = 2
    <3>1. Len(o) = 3
      BY <2>2
    <3>2. o # <<>>
      BY <3>1, EmptySeq
    <3>. QED  BY <3>1, <3>2
  <2>6. Chain("nothing", o, texts)
    BY <2>2, <2>3, <2>4, <2>5 DEF Chain
  <2>7. Ending("nothing", o) = Opening[3]
    BY <2>2, <2>3, <2>5 DEF Ending
  <2>. QED  BY <2>1, <2>6, <2>7 DEF Flowing, Opening, o
<1>. QED  BY <1>1, <1>2

\* An event that fits is a chain.
LEMMA OneChain ==
  ASSUME NEW e, NEW last, NEW texts, Fits(last, e, texts)
  PROVE  Chain(last, <<e>>, texts) /\ Ending(last, <<e>>) = e.type
BY DEF Chain, Ending

\* The closing events are a chain.
LEMMA ClosingChain ==
  ASSUME full \in Seq(Pieces), NEW last \in Flowing
  PROVE  Chain(last, ClosingEvents, {full}) /\ ClosingEvents \in Seq(ClientEvents)
<1>. DEFINE c == ClosingEvents
            d(i) == Event(Closing[i], NoPiece, full, IF i < 3 THEN "none" ELSE Status)
<1>1. Status \in Statuses
  BY DEF Status, Statuses
<1>2. c = [i \in 1..4 |-> d(i)]
  BY DEF ClosingEvents, Closing
<1>3. \A i \in 1..4 : d(i).type = Closing[i] /\ d(i) \in ClientEvents
  <2>. TAKE i \in 1..4
  <2>1. (IF i < 3 THEN "none" ELSE Status) \in {"none"} \cup Statuses
    BY <1>1
  <2>2. Closing[i] \in EventTypes
    BY DEF Closing, EventTypes
  <2>3. NoPiece \in 0..MaxReads
    BY NothingTyped
  <2>4. d(i).type = Closing[i]
    BY DEF Event
  <2>. QED  BY <2>1, <2>2, <2>3, <2>4, EventTyped
<1>4. Fits(last, d(1), {full})
  BY <1>1 DEF Fits
<1>5. \A i \in 1..3 : Fits(Closing[i], d(i + 1), {full})
  <2>. TAKE i \in 1..3
  <2>1. i + 1 \in 1..4 /\ i + 1 # 1 /\ i = i + 1 - 1
    OBVIOUS
  <2>. QED  BY <1>1, <2>1 DEF Fits
<1>. HIDE DEF d
<1>6. c \in Seq(ClientEvents) /\ Len(c) = 4 /\ \A i \in 1..4 : c[i] = d(i)
  BY <1>2, <1>3
<1>. HIDE DEF c
<1>7. \A i \in 1..Len(c) - 1 : i \in 1..3 /\ i \in 1..4 /\ i + 1 \in 1..4
  BY <1>6
<1>8. Chain(last, c, {full})
  BY <1>3, <1>4, <1>5, <1>6, <1>7 DEF Chain
<1>. QED  BY <1>6, <1>8 DEF c

\* The rest of a chain is a chain.
LEMMA TailChain ==
  ASSUME NEW s \in Seq(ClientEvents), s # <<>>, NEW last, NEW texts, Chain(last, s, texts)
  PROVE  Fits(last, s[1], texts) /\ Chain(s[1].type, Tail(s), texts)
<1>. DEFINE t == Tail(s)
<1>1. /\ Len(s) \in Nat /\ Len(s) > 0 /\ t \in Seq(ClientEvents) /\ Len(t) = Len(s) - 1
      /\ \A i \in 1..Len(s) - 1 : t[i] = s[i + 1]
  BY TailFacts
<1>2. /\ Fits(last, s[1], texts)
      /\ \A i \in 1..Len(s) - 1 : Fits(s[i].type, s[i + 1], texts)
  BY DEF Chain
<1>. HIDE DEF t
<1>3. ASSUME t # <<>>  PROVE Fits(s[1].type, t[1], texts)
  <2>1. 1 \in 1..Len(s) - 1 /\ 1 + 1 = 2
    BY <1>1, <1>3, EmptySeq
  <2>2. t[1] = s[1 + 1]
    BY <1>1, <2>1
  <2>. QED  BY <1>2, <2>1, <2>2
<1>4. ASSUME NEW i \in 1..Len(t) - 1  PROVE Fits(t[i].type, t[i + 1], texts)
  <2>1. i \in 1..Len(s) - 1 /\ i + 1 \in 1..Len(s) - 1
    BY <1>1
  <2>2. t[i] = s[i + 1] /\ t[i + 1] = s[i + 1 + 1]
    BY <1>1, <2>1
  <2>. QED  BY <1>2, <2>1, <2>2
<1>5. Chain(s[1].type, t, texts)
  BY <1>3, <1>4 DEF Chain
<1>. QED  BY <1>2, <1>5 DEF t

\* No event is a chain.
LEMMA NoChain == ASSUME NEW last, NEW texts  PROVE Chain(last, <<>>, texts)
<1>1. Len(<<>>) = 0
  BY EmptySeq
<1>. QED  BY <1>1 DEF Chain

\* An event passed keeps the order.
LEMMA OrderPass == ASSUME IInv, Order, Pass  PROVE Order'
<1>. SUFFICES ASSUME Responses  PROVE Order'
  <2>1. Responses' = Responses
    BY DEF Pass, Responses, fixed
  <2>. QED  BY <2>1 DEF Order
<1>. DEFINE e == queue[1]
<1>1. handler = "receiving" /\ plan = <<>> /\ e \in IREvents /\ Head(queue) = e
  <2>1. plan = <<>> /\ e \in IREvents /\ queue # <<>>
    BY Passing
  <2>2. handler = "receiving"
    BY DEF Pass
  <2>. QED  BY <2>1, <2>2
<1>2. e.type = "delta" => e.piece \in Pieces
  BY Passing DEF IInv, QueueOK, First
<1>. HIDE DEF e
<1>3. CASE e.type = "error" /\ emitted
  <2>1. /\ handler' = "breaking" /\ plan' = <<Plain("error")>> /\ view' = view
        /\ emitted' = emitted /\ Told' = {}
    BY <1>1, <1>3 DEF Pass, Interrupt, Told
  <2>2. Fits(view.last, Plain("error"), {})
    BY <1>1, <1>3 DEF Order, Fits
  <2>3. Chain(view.last, plan', {})
    BY <2>1, <2>2, OneChain
  <2>. QED  BY <1>3, <2>1, <2>3 DEF Order
<1>4. CASE e.type = "error" /\ ~emitted
  <2>1. /\ handler' = "returned" /\ plan' = <<>> /\ view' = view /\ emitted' = emitted
    BY <1>1, <1>4 DEF Pass, GiveUp
  <2>2. Chain(view'.last, plan', Told')
    BY <2>1, NoChain
  <2>3. view = Nothing
    BY <1>4 DEF Order
  <2>. QED  BY <2>1, <2>2, <2>3 DEF Order
<1>5. CASE e.type # "error"
  <2>. DEFINE o == OpeningEvents
              d == IF e.type = "delta" THEN <<Delta(e.piece)>> ELSE <<>>
              w == o \o d
  <2>1. /\ plan' = w /\ view' = view /\ emitted' = TRUE
        /\ handler' = IF w = <<>> THEN "receiving" ELSE "writing"
    <3>1. Relay(e)
      BY <1>1, <1>5 DEF Pass
    <3>2. Written(e) = w
      BY DEF Written
    <3>. QED  BY <3>1, <3>2 DEF Relay
  <2>2. Told' = {}
    BY <2>1 DEF Told
  <2>3. /\ Chain(view.last, o, {}) /\ Ending(view.last, o) \in Flowing
        /\ o \in Seq(ClientEvents)
    BY <1>1, OpeningChain, OpeningFacts
  <2>4. /\ d \in Seq(ClientEvents) /\ Chain(Ending(view.last, o), d, {})
        /\ Ending(Ending(view.last, o), d) \in Flowing
    <3>1. CASE e.type = "delta"
      <4>1. Delta(e.piece) \in ClientEvents /\ Delta(e.piece).type = "delta"
        BY <1>1, EventTyped, NothingTyped DEF Delta, EventTypes, Event, IREvents
      <4>2. Fits(Ending(view.last, o), Delta(e.piece), {})
        BY <1>2, <2>3, <3>1 DEF Fits
      <4>3. d = <<Delta(e.piece)>> /\ d \in Seq(ClientEvents)
        BY <3>1, <4>1
      <4>4. /\ Chain(Ending(view.last, o), d, {})
            /\ Ending(Ending(view.last, o), d) = "delta"
        BY <4>1, <4>2, <4>3, OneChain
      <4>. QED  BY <4>3, <4>4 DEF Flowing
    <3>2. CASE e.type # "delta"
      <4>1. d = <<>> /\ d \in Seq(ClientEvents)
        BY <3>2, EmptySeq
      <4>. QED  BY <2>3, <4>1, NoChain DEF Ending
    <3>. QED  BY <3>1, <3>2
  <2>. HIDE DEF o, d
  <2>5. /\ Chain(view.last, w, {})
        /\ Ending(view.last, w) \in Flowing
    <3>1. Ending(view.last, o \o d) = Ending(Ending(view.last, o), d) /\ Chain(view.last, o \o d, {})
      BY <2>3, <2>4, ChainJoined
    <3>. QED  BY <2>4, <3>1
  <2>. HIDE DEF w
  <2>6. w = <<>> => view.last \in Flowing
    BY <2>5 DEF Ending
  <2>7. w # <<>> => w[Len(w)].type \in Flowing
    BY <2>5 DEF Ending
  <2>. QED  BY <2>1, <2>2, <2>5, <2>6, <2>7 DEF Order
<1>. QED  BY <1>3, <1>4, <1>5

\* The end of the channel keeps the order.
LEMMA OrderClosed == ASSUME IInv, Order, Closed  PROVE Order'
<1>. SUFFICES ASSUME Responses  PROVE Order'
  <2>1. Responses' = Responses
    BY DEF Closed, Responses, fixed
  <2>. QED  BY <2>1 DEF Order
<1>. DEFINE o == OpeningEvents
            c == ClosingEvents
<1>1. /\ plan' = o \o c /\ view' = view /\ emitted' = TRUE /\ handler' = "closing"
      /\ Told' = {full} /\ handler = "receiving" /\ full \in Seq(Pieces)
  BY DEF Closed, Told, IInv, TypeOK
<1>2. /\ Chain(view.last, o, {full}) /\ Ending(view.last, o) \in Flowing
      /\ o \in Seq(ClientEvents)
  BY <1>1, OpeningChain, OpeningFacts
<1>3. Chain(Ending(view.last, o), c, {full}) /\ c \in Seq(ClientEvents)
  BY <1>1, <1>2, ClosingChain
<1>. HIDE DEF o, c
<1>4. Chain(view.last, o \o c, {full})
  BY <1>2, <1>3, ChainJoined
<1>. QED  BY <1>1, <1>4 DEF Order

\* A written event keeps the order.
LEMMA OrderWrite == ASSUME IInv, Order, Write  PROVE Order'
<1>. SUFFICES ASSUME Responses  PROVE Order'
  <2>1. Responses' = Responses
    BY DEF Write, Responses, fixed
  <2>. QED  BY <2>1 DEF Order
<1>1. /\ plan # <<>> /\ plan' = Tail(plan) /\ plan \in Seq(ClientEvents) /\ emitted
      /\ view' = Seen(view, plan[1]) /\ Len(plan) \in Nat
      /\ plan' = <<>> <=> Len(plan) = 1
      /\ plan' # <<>> => plan'[Len(plan')] = plan[Len(plan)]
  <2>1. plan \in Seq(ClientEvents)
    BY DEF IInv, TypeOK
  <2>. QED  BY <2>1, Writing
<1>2. /\ emitted' = emitted /\ full' = full
      /\ handler' = IF plan' # <<>> THEN handler
                    ELSE IF handler = "writing" THEN "receiving" ELSE "returned"
  BY DEF Write
<1>3. view'.last = plan[1].type
  BY <1>1 DEF Seen
<1>4. Chain(plan[1].type, plan', Told)
  BY <1>1, TailChain DEF Order
<1>5. Chain(view'.last, plan', Told')
  <2>1. CASE plan' = <<>>
    BY <2>1, NoChain
  <2>2. CASE plan' # <<>>
    <3>1. Told' = Told
      BY <1>2, <2>2 DEF Told
    <3>. QED  BY <1>3, <1>4, <3>1
  <2>. QED  BY <2>1, <2>2
<1>6. handler' = "receiving" => view'.last \in Flowing
  <2>1. handler' = "receiving" => plan' = <<>> /\ handler = "writing"
    <3>1. handler # "receiving"
      BY <1>1 DEF IInv, TypeOK
    <3>. QED  BY <1>2, <3>1
  <2>. QED  BY <1>1, <1>3, <2>1 DEF Order
<1>7. handler' = "writing" => plan'[Len(plan')].type \in Flowing
  BY <1>1, <1>2 DEF Order
<1>. QED  BY <1>1, <1>2, <1>5, <1>6, <1>7 DEF Order

\* Every step keeps the order.
LEMMA OrderKept == ASSUME IInv, Order, [Next]_vars  PROVE Order'
<1>1. ASSUME UNCHANGED <<fixed, serving>>  PROVE Order'
  <2>1. /\ Responses' = Responses /\ Told' = Told /\ emitted' = emitted /\ view' = view
        /\ plan' = plan /\ handler' = handler
    BY <1>1 DEF fixed, serving, Responses, Told
  <2>. QED  BY <2>1 DEF Order
<1>2. ASSUME WriteFails  PROVE Order'
  <2>1. /\ Responses' = Responses /\ plan' = <<>> /\ handler' = "returned" /\ emitted' = emitted
        /\ emitted
    BY <1>2 DEF WriteFails, Responses, fixed, IInv, PlanOK
  <2>2. Chain(view'.last, plan', Told')
    BY <2>1, NoChain
  <2>. QED  BY <2>1, <2>2 DEF Order
<1>3. ASSUME NEW item \in Items, Read(item)  PROVE UNCHANGED <<fixed, serving>>
  BY <1>3 DEF Read
<1>4. ASSUME ReadEnds \/ ReadFails \/ SendCancelled \/ ClientLeaves \/ RequestEnds
      PROVE  UNCHANGED <<fixed, serving>>
  BY <1>4 DEF ReadEnds, ReadFails, SendCancelled, ClientLeaves, RequestEnds
<1>5. ASSUME UNCHANGED vars  PROVE UNCHANGED <<fixed, serving>>
  BY <1>5 DEF vars
<1>. QED  BY <1>1, <1>2, <1>3, <1>4, <1>5, OrderPass, OrderClosed, OrderWrite DEF Next

\* The order holds initially.
LEMMA OrderStarts == Init => Order
<1>. SUFFICES ASSUME Init  PROVE Order
  OBVIOUS
<1>1. Chain(view.last, plan, Told)
  BY NoChain DEF Init
<1>. QED  BY <1>1 DEF Init, Order

\* Both modules mean the same by the events.
LEMMA SameEvents ==
  /\ Lifecycle!Nothing = Nothing /\ Lifecycle!NoPiece = NoPiece
  /\ Lifecycle!Opening = Opening /\ Lifecycle!Closing = Closing /\ Lifecycle!Statuses = Statuses
  /\ \A v, e : Lifecycle!Seen(v, e) = Seen(v, e)
  /\ \A type : Lifecycle!Plain(type) = Plain(type)
  /\ \A piece : Lifecycle!Delta(piece) = Delta(piece)
  /\ \A type, piece, t, status :
       Lifecycle!Event(type, piece, t, status) = Event(type, piece, t, status)
BY DEF Lifecycle!Nothing, Nothing, Lifecycle!NoPiece, NoPiece, Lifecycle!Opening, Opening,
       Lifecycle!Closing, Closing, Lifecycle!Statuses, Statuses, Lifecycle!Seen, Seen,
       Lifecycle!Plain, Plain, Lifecycle!Delta, Delta, Lifecycle!Event, Event

\* Each client event is a step of the lifecycle; nothing else changes the view.
LEMMA WriteIsLifecycleStep ==
  ASSUME IInv, Order, Write, Responses
  PROVE  Lifecycle!Next /\ Responses'
<1>. DEFINE e == plan[1]
            bar == IF Responses THEN view ELSE Nothing
<1>0. Responses' /\ bar = view /\ bar' = view'
  <2>1. Responses'
    BY DEF Write, Responses, fixed
  <2>. QED  BY <2>1
<1>1. plan # <<>> /\ view' = Seen(view, e) /\ Fits(view.last, e, Told)
  <2>1. plan \in Seq(ClientEvents) /\ plan # <<>>
    BY Writing DEF IInv, TypeOK
  <2>. QED  BY <2>1, TailChain, Writing DEF Order
<1>2. handler = "closing" => full = view.said
  <2>. SUFFICES ASSUME handler = "closing"  PROVE full = view.said
    OBVIOUS
  <2>1. plan[Len(plan)].type = "completed"
    BY DEF IInv, PlanOK, Event
  <2>2. Pending = 0
    BY <2>1 DEF Pending, Final
  <2>3. /\ full \in Seq(Pieces) /\ view.said \in Seq(Pieces) /\ Len(view.said) \in Nat
    BY DEF IInv, TypeOK
  <2>4. Len(full) = Len(view.said) + Pending
    BY DEF IInv, Flow
  <2>5. Len(full) = Len(view.said)
    BY <2>2, <2>3, <2>4
  <2>6. \A i \in 1..Len(full) : full[i] = view.said[i]
    BY <2>5 DEF IInv, Flow
  <2>. QED  BY <2>3, <2>5, <2>6, SeqEqual
<1>3. \A t \in Told : t = view.said
  BY <1>2 DEF Told
<1>. HIDE DEF e
<1>. USE SameEvents
<1>4. Lifecycle!Next
  <2>1. CASE \E i \in 1..3 : /\ view.last = IF i = 1 THEN "nothing" ELSE Opening[i - 1]
                             /\ e = Plain(Opening[i])
    <3>1. Len(Opening) = 3
      BY DEF Opening
    <3>2. Lifecycle!Open
      BY <1>0, <1>1, <2>1, <3>1 DEF Lifecycle!Open, Lifecycle!Says
    <3>. QED  BY <3>2 DEF Lifecycle!Next
  <2>2. CASE view.last \in Flowing /\ \E piece \in Pieces : e = Delta(piece)
    <3>1. Lifecycle!Speak
      BY <1>0, <1>1, <2>2 DEF Lifecycle!Speak, Lifecycle!Flowing, Lifecycle!Says, Flowing
    <3>. QED  BY <3>1 DEF Lifecycle!Next
  <2>3. CASE \E i \in 1..4, t \in Told, status \in Statuses :
               /\ IF i = 1 THEN view.last \in Flowing ELSE view.last = Closing[i - 1]
               /\ e = Event(Closing[i], NoPiece, t, IF i < 3 THEN "none" ELSE status)
    <3>1. PICK i \in 1..4, t \in Told, status \in Statuses :
            /\ IF i = 1 THEN view.last \in Flowing ELSE view.last = Closing[i - 1]
            /\ e = Event(Closing[i], NoPiece, t, IF i < 3 THEN "none" ELSE status)
      BY <2>3
    <3>2. Len(Closing) = 4 /\ t = view.said
      BY <1>3 DEF Closing
    <3>3. \E s \in IF i < 3 THEN {"none"} ELSE Statuses : s = IF i < 3 THEN "none" ELSE status
      OBVIOUS
    <3>4. Lifecycle!Close
      BY <1>0, <1>1, <3>1, <3>2, <3>3 DEF Lifecycle!Close, Lifecycle!Flowing, Lifecycle!Says, Flowing
    <3>. QED  BY <3>4 DEF Lifecycle!Next
  <2>4. CASE view.last \in Flowing /\ e = Plain("error")
    <3>1. Lifecycle!Break
      BY <1>0, <1>1, <2>4 DEF Lifecycle!Break, Lifecycle!Flowing, Lifecycle!Says, Flowing
    <3>. QED  BY <3>1 DEF Lifecycle!Next
  <2>. QED  BY <1>1, <2>1, <2>2, <2>3, <2>4 DEF Fits
<1>. QED  BY <1>0, <1>4

\* A Responses stream is a lifecycle from its first event to wherever it stops:
\* nothing twice, nothing out of order, and closing events that repeat the text.
THEOREM ImplementsLifecycle == Spec => LifecycleKept
<1>. DEFINE bar == IF Responses THEN view ELSE Nothing
<1>1. Init => Lifecycle!Init
  BY SameEvents DEF Init, Lifecycle!Init
<1>2. IInv /\ Order /\ [Next]_vars => [Lifecycle!Next]_bar
  <2>. SUFFICES ASSUME IInv, Order, [Next]_vars  PROVE [Lifecycle!Next]_bar
    OBVIOUS
  <2>1. Responses' = Responses
    BY DEF Next, Read, ReadEnds, ReadFails, SendCancelled, Pass, Closed, Write, WriteFails,
           ClientLeaves, RequestEnds, vars, fixed, Responses
  <2>2. view' = view \/ Write
    BY DEF Next, Read, ReadEnds, ReadFails, SendCancelled, Pass, Relay, Interrupt, GiveUp, Closed,
           WriteFails, ClientLeaves, RequestEnds, vars, serving
  <2>3. CASE Write /\ Responses
    BY <2>3, WriteIsLifecycleStep
  <2>4. CASE ~(Write /\ Responses)
    BY <2>1, <2>2, <2>4
  <2>. QED  BY <2>3, <2>4
<1>3. Spec => [](IInv /\ Order)
  <2>1. Init => IInv /\ Order
    BY Starts, OrderStarts
  <2>2. IInv /\ Order /\ [Next]_vars => (IInv /\ Order)'
    BY Inductive, OrderKept
  <2>. QED  BY <2>1, <2>2, PTL DEF Spec
<1>. QED  BY <1>1, <1>2, <1>3, PTL DEF Spec, LifecycleKept, Lifecycle!Spec

=============================================================================
