------------------------------ MODULE StreamPipe ------------------------------
(***************************************************************************)
(* One streaming attempt from end to end: the upstream, the goroutine of   *)
(* the adapter that reads it (Stream in internal/provider), the unbuffered *)
(* channel, the handler that receives from it (internal/api), and for the  *)
(* Responses API the translator that writes lifecycle events.  The client  *)
(* may leave, and any write may fail.  Dispatch models what surrounds it.  *)
(*                                                                         *)
(* A piece of text is the number of the upstream event it came in, so a    *)
(* lost, doubled or reordered piece shows.                                 *)
(***************************************************************************)
EXTENDS ResponseEvents

CONSTANTS
  Adapters,    \* adapters the candidate may be behind
  Endpoints,   \* endpoints the request may have come to
  MaxReads     \* bound: events the upstream sends before it ends

ASSUME StreamAssumption ==
  /\ Adapters \subseteq {"openai_compatible", "codex_responses"}
  /\ Endpoints \subseteq {"chat", "responses"}
  /\ MaxReads \in Nat

VARIABLES
  adapter, endpoint,
  ctx,         \* the request context: "live", "left" by the client, or "ended"
  reads,       \* events read from the upstream
  pump,        \* the goroutine: "reading", "sending" or "stopped"
  queue,       \* events it has to send
  ending,      \* it returns when they are sent
  text,        \* text the upstream has sent; the codex adapter keeps it
  final,       \* the last finish reason the upstream has sent
  handler,     \* "receiving", "writing", "closing", "breaking" or "returned"
  emitted,     \* headers have been written
  plan,        \* client events of the received event not written yet
  full,        \* translator: fullText
  finish,      \* translator: finishReason
  outcome,     \* what the handler reported to the tracker
  view         \* what has been written for the client

fixed   == <<adapter, endpoint>>
gorout  == <<pump, queue, ending, reads, text, final>>
serving == <<handler, emitted, plan, full, finish, outcome, view>>
vars    == <<fixed, ctx, gorout, serving>>

Cancelled == ctx # "live"
Codex     == adapter = "codex_responses"
Responses == endpoint = "responses"

\* Upstream events: text; the whole text again, which only the Responses API of
\* the codex upstream sends; a finish reason; a failure, which for the codex
\* adapter may also be an event it cannot parse; anything else.
Items == {"text", "finish_stop", "finish_length", "other"}
           \cup (IF Codex THEN {"text_done", "failed"} ELSE {"done"})

IREvent(type, piece, reason) == [type |-> type, piece |-> piece, reason |-> reason]

DeltaEvent(piece)   == IREvent("delta", piece, "none")
FinishEvent(reason) == IREvent("finish", NoPiece, reason)
PlainEvent(type)    == IREvent(type, NoPiece, "none")

Reason(item) == IF item = "finish_length" THEN "length" ELSE "stop"

-----------------------------------------------------------------------------
(***************************************************************************)
(* The goroutine of the adapter.                                           *)
(***************************************************************************)

\* It has these events to send, after which it returns or reads on.  The
\* deferred calls close the body and the channel.
Enqueue(events, last) ==
  /\ queue' = events
  /\ ending' = last
  /\ pump' = IF events # <<>> THEN "sending" ELSE IF last THEN "stopped" ELSE "reading"

Finishes(item) == item \in {"finish_stop", "finish_length"}

\* The text grows, text_done only supplies it where there were no deltas.
Grows(item) == item = "text" \/ (item = "text_done" /\ text = <<>>)

\* The openai_compatible adapter passes every parsed event on as it is.
Forwarded(item) ==
  <<IF Grows(item) THEN DeltaEvent(reads + 1)
    ELSE IF Finishes(item) THEN FinishEvent(Reason(item)) ELSE PlainEvent(item)>>

\* Mutant of Translated: the whole text so far instead of what is new.
TranslatedAgain(item) ==
  IF Grows(item)
  THEN [i \in 1..Len(text) + 1 |-> DeltaEvent(Append(text, reads + 1)[i])]
  ELSE IF Finishes(item) THEN <<FinishEvent(Reason(item)), PlainEvent("done")>>
  ELSE IF item = "failed" THEN <<PlainEvent("error")>> ELSE <<>>

\* The codex_responses adapter sends new text as a delta, a completed response
\* as a terminal chunk and the end marker, a failure as an error.
Translated(item) ==
  IF Grows(item) THEN <<DeltaEvent(reads + 1)>>
  ELSE IF Finishes(item) THEN <<FinishEvent(Reason(item)), PlainEvent("done")>>
  ELSE IF item = "failed" THEN <<PlainEvent("error")>> ELSE <<>>

\* Mutant of Returns: the goroutine reads on after a failure.
ReturnsNotOnFailure(item) == Codex /\ Finishes(item)

\* Only the codex adapter knows the end before the upstream closes.
Returns(item) == Codex /\ (Finishes(item) \/ item = "failed")

\* An event has been read.  The openai_compatible adapter looks at the context
\* first; the codex adapter does so only when it sends.
Read(item) ==
  /\ pump = "reading"
  /\ reads < MaxReads
  /\ reads' = reads + 1
  /\ IF Codex \/ ~Cancelled
     THEN /\ Enqueue(IF Codex THEN Translated(item) ELSE Forwarded(item), Returns(item))
          /\ text' = IF Grows(item) THEN Append(text, reads + 1) ELSE text
          /\ final' = IF Finishes(item) THEN Reason(item) ELSE final
     ELSE Enqueue(<<>>, TRUE) /\ UNCHANGED <<text, final>>
  /\ UNCHANGED <<fixed, ctx, serving>>

\* Mutant of ReadEnds: the end of the stream is taken for the end of the answer.
ReadEndsQuietly ==
  /\ pump = "reading"
  /\ Enqueue(<<>>, TRUE)
  /\ UNCHANGED <<fixed, ctx, reads, text, final, serving>>

\* io.EOF: for the codex adapter an error unless the response was completed.
ReadEnds ==
  /\ pump = "reading"
  /\ Enqueue(IF Codex /\ final = "none" THEN <<PlainEvent("error")>> ELSE <<>>, TRUE)
  /\ UNCHANGED <<fixed, ctx, reads, text, final, serving>>

\* Reading fails: the connection broke, or the context is cancelled.
ReadFails ==
  /\ pump = "reading"
  /\ Enqueue(IF Codex /\ ~Cancelled THEN <<PlainEvent("error")>> ELSE <<>>, TRUE)
  /\ UNCHANGED <<fixed, ctx, reads, text, final, serving>>

\* Mutant of SendCancelled: the send does not select on the context.
SendWaits == FALSE /\ UNCHANGED vars

\* select { case <-ctx.Done(): return }
SendCancelled ==
  /\ pump = "sending"
  /\ Cancelled
  /\ Enqueue(<<>>, TRUE)
  /\ UNCHANGED <<fixed, ctx, reads, text, final, serving>>

-----------------------------------------------------------------------------
(***************************************************************************)
(* The handler and the translator.                                         *)
(***************************************************************************)

OpeningEvents == IF emitted THEN <<>> ELSE [i \in 1..Len(Opening) |-> Plain(Opening[i])]

\* responseStatusForFinishReason
Status == IF finish = "length" THEN "incomplete" ELSE "completed"

\* WriteClosing
ClosingEvents ==
  [i \in 1..Len(Closing) |->
     Event(Closing[i], NoPiece, full, IF i < 3 THEN "none" ELSE Status)]

\* Client events for one received event.  Chat Completions writes it as it is;
\* Translate writes a delta or nothing, after the opening events the first time.
Written(e) ==
  IF Responses
  THEN OpeningEvents \o (IF e.type = "delta" THEN <<Delta(e.piece)>> ELSE <<>>)
  ELSE <<Event(e.type, e.piece, <<>>, "none")>>

\* Nothing has been sent: an error answer, or the next candidate is tried.
GiveUp ==
  /\ handler' = "returned"
  /\ outcome' = "failure"
  /\ UNCHANGED <<emitted, plan, full, finish, view>>

\* A stream has begun: an error event ends it.
Interrupt ==
  /\ handler' = "breaking"
  /\ outcome' = "failure"
  /\ plan' = <<Plain("error")>>
  /\ UNCHANGED <<emitted, full, finish, view>>

Relay(e) ==
  /\ emitted' = TRUE
  /\ plan' = Written(e)
  /\ handler' = IF Written(e) = <<>> THEN "receiving" ELSE "writing"
  /\ full' = IF Responses /\ e.type = "delta" THEN Append(full, e.piece) ELSE full
  /\ finish' = IF Responses /\ e.type = "finish" THEN e.reason ELSE finish
  /\ UNCHANGED <<outcome, view>>

\* The channel has no buffer: an event passes when both are there.
Pass ==
  /\ pump = "sending"
  /\ handler = "receiving"
  /\ Enqueue(Tail(queue), ending)
  /\ LET e == Head(queue)
     IN  IF e.type # "error" THEN Relay(e) ELSE IF emitted THEN Interrupt ELSE GiveUp
  /\ UNCHANGED <<fixed, ctx, reads, text, final>>

\* Mutant of Closed: a stream without events has not been opened.
ClosedUnopened ==
  /\ pump = "stopped"
  /\ handler = "receiving"
  /\ emitted' = TRUE
  /\ IF Responses
     THEN /\ handler' = "closing"
          /\ plan' = ClosingEvents
          /\ UNCHANGED outcome
     ELSE handler' = "returned" /\ outcome' = "success" /\ UNCHANGED plan
  /\ UNCHANGED <<fixed, ctx, gorout, full, finish, view>>

\* The channel is closed, whatever the reason: a normal end.
Closed ==
  /\ pump = "stopped"
  /\ handler = "receiving"
  /\ emitted' = TRUE
  /\ IF Responses
     THEN /\ handler' = "closing"
          /\ plan' = OpeningEvents \o ClosingEvents
          /\ UNCHANGED outcome
     ELSE handler' = "returned" /\ outcome' = "success" /\ UNCHANGED plan
  /\ UNCHANGED <<fixed, ctx, gorout, full, finish, view>>

Write ==
  /\ plan # <<>>
  /\ view' = Seen(view, Head(plan))
  /\ plan' = Tail(plan)
  /\ handler' = IF Tail(plan) # <<>> THEN handler
                ELSE IF handler = "writing" THEN "receiving" ELSE "returned"
  /\ outcome' = IF Tail(plan) = <<>> /\ handler = "closing" THEN "success" ELSE outcome
  /\ UNCHANGED <<fixed, ctx, gorout, emitted, full, finish>>

WriteFails ==
  /\ plan # <<>>
  /\ plan' = <<>>
  /\ handler' = "returned"
  /\ outcome' = "failure"
  /\ UNCHANGED <<fixed, ctx, gorout, emitted, full, finish, view>>

-----------------------------------------------------------------------------

Init ==
  /\ adapter \in Adapters
  /\ endpoint \in Endpoints
  /\ ctx = "live"
  /\ reads = 0
  /\ pump = "reading"
  /\ queue = <<>>
  /\ ending = FALSE
  /\ text = <<>>
  /\ final = "none"
  /\ handler = "receiving"
  /\ emitted = FALSE
  /\ plan = <<>>
  /\ full = <<>>
  /\ finish = "none"
  /\ outcome = "none"
  /\ view = Nothing

\* The client disconnects while it is served.
ClientLeaves ==
  /\ ctx = "live"
  /\ handler # "returned"
  /\ ctx' = "left"
  /\ UNCHANGED <<fixed, gorout, serving>>

\* ServeHTTP has returned, after this attempt or a later one.
RequestEnds ==
  /\ ctx = "live"
  /\ handler = "returned"
  /\ ctx' = "ended"
  /\ UNCHANGED <<fixed, gorout, serving>>

Next ==
  \/ \E item \in Items : Read(item)
  \/ ReadEnds \/ ReadFails \/ SendCancelled
  \/ Pass \/ Closed \/ Write \/ WriteFails
  \/ ClientLeaves \/ RequestEnds

\* The transport fails a read once the context is cancelled; an upstream whose
\* context is live owes nothing.
Fairness ==
  /\ WF_vars(Cancelled /\ ReadFails)
  /\ WF_vars(SendCancelled)
  /\ WF_vars(Pass)
  /\ WF_vars(Closed)
  /\ WF_vars(Write \/ WriteFails)
  /\ WF_vars(RequestEnds)

Spec == Init /\ [][Next]_vars /\ Fairness

-----------------------------------------------------------------------------

Pieces == 1..MaxReads

IREvents ==
  [type : {"delta", "finish", "done", "error", "other"}, piece : 0..MaxReads,
   reason : {"none", "stop", "length"}]

EventTypes ==
  {"created", "item_added", "part_added", "delta", "text_done", "part_done",
   "item_done", "completed", "finish", "done", "other", "error"}

ClientEvents ==
  [type : EventTypes, piece : 0..MaxReads, text : Seq(Pieces),
   status : {"none"} \cup Statuses]

\* Type invariant; the goroutine and the handler are where the events they hold
\* say they are.
TypeOK ==
  /\ adapter \in Adapters /\ endpoint \in Endpoints
  /\ ctx \in {"live", "left", "ended"}
  /\ reads \in 0..MaxReads
  /\ queue \in Seq(IREvents) /\ ending \in BOOLEAN
  /\ pump = IF queue # <<>> THEN "sending" ELSE IF ending THEN "stopped" ELSE "reading"
  /\ text \in Seq(Pieces)
  /\ final \in {"none", "stop", "length"}
  /\ handler \in {"receiving", "writing", "closing", "breaking", "returned"}
  /\ plan \in Seq(ClientEvents)
  /\ (plan # <<>>) = (handler \in {"writing", "closing", "breaking"})
  /\ emitted \in BOOLEAN
  /\ full \in Seq(Pieces)
  /\ finish \in {"none", "stop", "length"}
  /\ outcome \in {"none", "success", "failure"}
  /\ view \in [last : EventTypes \cup {"nothing"}, said : Seq(Pieces),
               told : Seq(Pieces), status : {"none"} \cup Statuses]

\* The client of either endpoint reads a beginning of what the upstream said, in
\* order, nothing twice, whatever happens in between.
TextFlows ==
  /\ Len(view.said) <= Len(text)
  /\ view.said = SubSeq(text, 1, Len(view.said))

\* A stream reported as a success to a client that stayed is all the upstream
\* said; behind the codex adapter the upstream has finished it, so a broken
\* stream is never a success.  The client can tell: the last event is [DONE] or
\* response.completed, with the status the finish reason asks for.
SuccessIsWhole ==
  outcome = "success" /\ ctx # "left" =>
    /\ view.said = text
    /\ Codex => final # "none"
    /\ Codex /\ ~Responses => view.last = "done"
    /\ Responses => /\ view.last = "completed" /\ view.told = text
                    /\ (view.status = "incomplete") = (final = "length")

\* When a handler goes on to the next candidate, or answers with an error, the
\* goroutine of this attempt has returned: nothing is left waiting for a
\* receiver while the request goes on.
NothingAbandoned == handler = "returned" /\ ~emitted => pump = "stopped"

\* The events of a Responses stream are a lifecycle, text included.
Lifecycle ==
  INSTANCE ResponseLifecycle WITH view <- IF Responses THEN view ELSE Nothing

LifecycleKept == Lifecycle!Spec

\* Nothing of an attempt is left running: the goroutine returns, and closes the
\* upstream's body, after its handler has, whatever it was doing; and a client that
\* leaves frees its handler, even if the upstream is silent.
NothingLeftRunning ==
  /\ handler = "returned" ~> pump = "stopped"
  /\ ctx = "left" ~> handler = "returned"

=============================================================================
