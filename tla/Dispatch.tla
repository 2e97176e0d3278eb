------------------------------ MODULE Dispatch ------------------------------
(***************************************************************************)
(* The request handlers of internal/api/chat.go and responses.go: resolve  *)
(* the alias into candidates, call one after the other until one answers,  *)
(* report every outcome to the availability tracker, relay the answer.     *)
(* Requests run concurrently and share the tracker.                        *)
(*                                                                         *)
(* The two handlers have the same control; where they differ (the opening  *)
(* and closing events of the Responses API) a closing event that cannot be *)
(* written is the same WriteFails as a data event that cannot.             *)
(***************************************************************************)
EXTENDS ProviderErrors, Sequences

CONSTANTS
  Requests,
  Candidates,     \* the candidate list of the alias, in order of preference
  Adapter,        \* adapter behind each pair
  MaxEvents,      \* bound: data events of one upstream stream
  MaxClock        \* bound: the clock stops here

ASSUME DispatchAssumption ==
  /\ Candidates \in Seq(Pairs) \ {<<>>}
  /\ Adapter \in [Pairs -> {"openai_compatible", "codex_responses"}]
  /\ MaxEvents \in Nat \ {0}
  /\ MaxClock \in Nat

VARIABLES
  states, now,    \* the shared tracker and the clock
  pc,             \* where the handler of each request is
  mode,           \* "complete" or "stream"
  pos,            \* loop variable of Resolve, then of the candidate loop
  retries,        \* retryCount: candidates given up so far
  cands,          \* what Resolve returned
  gone,           \* the request context is cancelled: the client went away
  view,           \* what the client has received (ClientSession)
  logging,        \* the logger is a JSONLLogger, not a NoopLogger
  logged,         \* records of the request in the request log
  lost,           \* history: the record could not be written
  marks,          \* history: outcomes reported to the tracker
  cause           \* history: how the upstream of a stream really ended

tracker  == <<states, now>>
handler  == <<pc, mode, pos, retries, cands>>
log      == <<logging, logged, lost>>
outcome  == <<view, log>>
history  == <<marks, cause>>
vars     == <<tracker, handler, gone, outcome, history>>

Session == INSTANCE ClientSession WITH Sources <- 1..Len(Candidates)

\* A broken stream and a failed write carry no classification that matters.
Unclassified == [code |-> NoCode, retryAfter |-> NoWindow]

Current(r) == cands[r][pos[r]]

-----------------------------------------------------------------------------
(***************************************************************************)
(* Pieces the actions are made of.                                         *)
(***************************************************************************)

ReportFailure(r, err) ==
  /\ states' = AfterFailure(states, Current(r), err, now)
  /\ marks' = [marks EXCEPT ![r] = Append(@, "failed")]
  /\ UNCHANGED now

ReportSuccess(r) ==
  /\ states' = AfterSuccess(states, Current(r))
  /\ marks' = [marks EXCEPT ![r] = Append(@, "ok")]
  /\ UNCHANGED now

Goto(r, label) == pc' = [pc EXCEPT ![r] = label]

\* What a record says: the candidate of the loop if Resolve returned any, how many were
\* given up before it, and whether the status is that of an error document.
LogRecord(r, v) ==
  [src     |-> IF cands[r] = <<>> THEN Session!NoSource ELSE pos[r],
   retries |-> retries[r],
   status  |-> IF v.kind = "error" THEN "error" ELSE "ok"]

\* The record is not encoded, or the file not opened or written.  The handlers ignore it.
LogFails(r) == lost' = [lost EXCEPT ![r] = TRUE] /\ UNCHANGED logged

\* NoopLogger writes nothing, JSONLLogger nothing for a request that is cancelled.
LogRequest(r, record) ==
  /\ \/ /\ logging /\ ~gone[r]
        /\ \/ logged' = [logged EXCEPT ![r] = Append(@, record)] /\ UNCHANGED lost
           \/ LogFails(r)
     \/ (~logging \/ gone[r]) /\ UNCHANGED <<logged, lost>>
  /\ UNCHANGED logging

\* Mutant of Finish: a stream cut off by an error event is not logged.
FinishUnlogged(r, v) ==
  /\ Goto(r, "done")
  /\ view' = [view EXCEPT ![r] = v]
  /\ IF v.end = "interrupted" THEN UNCHANGED log ELSE LogRequest(r, LogRecord(r, v))
  /\ UNCHANGED <<mode, pos, retries, cands, gone>>

\* The handler has written the response, logs the request and returns.
Finish(r, v) ==
  /\ Goto(r, "done")
  /\ view' = [view EXCEPT ![r] = v]
  /\ LogRequest(r, LogRecord(r, v))
  /\ UNCHANGED <<mode, pos, retries, cands, gone>>

\* Mutant of NextCandidate: i+1 < len(candidates) is not asked.
NextUnbounded(r) ==
  /\ Goto(r, "calling")
  /\ pos' = [pos EXCEPT ![r] = @ + 1]
  /\ retries' = [retries EXCEPT ![r] = @ + 1]
  /\ UNCHANGED <<mode, cands, gone, outcome>>

\* continue: the next candidate is called.
NextCandidate(r) ==
  /\ pos[r] < Len(cands[r])
  /\ Goto(r, "calling")
  /\ pos' = [pos EXCEPT ![r] = @ + 1]
  /\ retries' = [retries EXCEPT ![r] = @ + 1]
  /\ UNCHANGED <<mode, cands, gone, outcome>>

-----------------------------------------------------------------------------

Init ==
  /\ states = [k \in {} |-> Unseen]
  /\ now = 0
  /\ pc = [r \in Requests |-> "idle"]
  /\ mode \in [Requests -> {"complete", "stream"}]
  /\ pos = [r \in Requests |-> 1]
  /\ retries = [r \in Requests |-> 0]
  /\ cands = [r \in Requests |-> <<>>]
  /\ gone = [r \in Requests |-> FALSE]
  /\ view = [r \in Requests |-> Session!Nothing]
  /\ logging \in BOOLEAN
  /\ logged = [r \in Requests |-> <<>>]
  /\ lost = [r \in Requests |-> FALSE]
  /\ marks = [r \in Requests |-> <<>>]
  /\ cause = [r \in Requests |-> "none"]

\* A client sends a request; the handler has parsed it.
Arrive(r) ==
  /\ pc[r] = "idle"
  /\ Goto(r, "arrived")
  /\ UNCHANGED <<tracker, mode, pos, retries, cands, gone, outcome, history>>

\* The client disconnects: the request context is cancelled.
Leave(r) ==
  /\ pc[r] \notin {"idle", "done"}
  /\ ~gone[r]
  /\ gone' = [gone EXCEPT ![r] = TRUE]
  /\ UNCHANGED <<tracker, handler, outcome, history>>

Tick ==
  /\ now < MaxClock
  /\ now' = now + 1
  /\ UNCHANGED <<states, handler, gone, outcome, history>>

-----------------------------------------------------------------------------
(***************************************************************************)
(* Resolve.  Availability is read candidate by candidate, not at once.     *)
(***************************************************************************)

ResolveCancelled(r) ==
  /\ pc[r] = "arrived"
  /\ gone[r]
  /\ Finish(r, Session!ErrorJSON)
  /\ UNCHANGED <<tracker, history>>

ResolveBegins(r) ==
  /\ pc[r] = "arrived"
  /\ ~gone[r]
  /\ Goto(r, "resolving")
  /\ UNCHANGED <<tracker, mode, pos, retries, cands, gone, outcome, history>>

\* Mutant of Consider: an unavailable candidate is considered again.
ConsiderAgain(r) ==
  /\ pc[r] = "resolving"
  /\ pos[r] <= Len(Candidates)
  /\ LET k == Candidates[pos[r]]
         usable == IsAvailable(states, k, now)
     IN  /\ pos' = [pos EXCEPT ![r] = IF usable THEN @ + 1 ELSE @]
         /\ cands' = [cands EXCEPT ![r] = IF usable THEN Append(@, k) ELSE @]
  /\ UNCHANGED <<tracker, pc, mode, retries, gone, outcome, history>>

\* One turn of the loop over the alias' candidates.
Consider(r) ==
  /\ pc[r] = "resolving"
  /\ pos[r] <= Len(Candidates)
  /\ pos' = [pos EXCEPT ![r] = @ + 1]
  /\ LET k == Candidates[pos[r]]
     IN  cands' = [cands EXCEPT ![r] =
                     IF IsAvailable(states, k, now) THEN Append(@, k) ELSE @]
  /\ UNCHANGED <<tracker, pc, mode, retries, gone, outcome, history>>

\* No candidate is left: no_available_model.
ResolveFails(r) ==
  /\ pc[r] = "resolving"
  /\ pos[r] > Len(Candidates)
  /\ cands[r] = <<>>
  /\ Finish(r, Session!ErrorJSON)
  /\ UNCHANGED <<tracker, history>>

ResolveReturns(r) ==
  /\ pc[r] = "resolving"
  /\ pos[r] > Len(Candidates)
  /\ cands[r] # <<>>
  /\ Goto(r, "calling")
  /\ pos' = [pos EXCEPT ![r] = 1]
  /\ UNCHANGED <<tracker, mode, retries, cands, gone, outcome, history>>

-----------------------------------------------------------------------------
(***************************************************************************)
(* The candidate loop.                                                     *)
(***************************************************************************)

\* Complete, or Stream before it returns a channel, fails: try the next
\* candidate or answer with an error document.
CallFails(r) ==
  /\ pc[r] = "calling"
  /\ \E err \in Failures :
       /\ ReportFailure(r, err)
       /\ \/ err.retryable /\ NextCandidate(r)
          \/ /\ ~(err.retryable /\ pos[r] < Len(cands[r]))
             /\ Finish(r, Session!ErrorJSON)
  /\ UNCHANGED cause

CallSucceeds(r) ==
  /\ pc[r] = "calling"
  /\ mode[r] = "complete"
  /\ ReportSuccess(r)
  /\ Finish(r, Session!Reply(pos[r]))
  /\ UNCHANGED cause

StreamOpens(r) ==
  /\ pc[r] = "calling"
  /\ mode[r] = "stream"
  /\ Goto(r, "streaming")
  /\ cause' = [cause EXCEPT ![r] = "none"]
  /\ UNCHANGED <<tracker, mode, pos, retries, cands, gone, outcome, marks>>

\* Mutant of Emitted: the flag is never set.
NeverEmitted(r) == FALSE

\* Whether headers, hence a first event, have gone out on this request.
Emitted(r) == view[r].kind = "stream"

StreamData(r) ==
  /\ pc[r] = "streaming"
  /\ view[r].n < MaxEvents
  /\ view' = [view EXCEPT ![r] = Session!Stream(pos[r], @.n + 1, "open")]
  /\ UNCHANGED <<tracker, handler, gone, log, history>>

\* Mutant of WriteFails: the error of the write is ignored at the mark.
WriteErrorIgnored(r) ==
  /\ pc[r] = "streaming"
  /\ ReportSuccess(r)
  /\ Finish(r, Session!Stream(pos[r], view[r].n, "cut"))
  /\ UNCHANGED cause

\* Writing an event fails: the candidate is marked as failed all the same.
WriteFails(r) ==
  /\ pc[r] = "streaming"
  /\ ReportFailure(r, Unclassified)
  /\ Finish(r, Session!Stream(pos[r], view[r].n, "cut"))
  /\ UNCHANGED cause

\* The adapter sends an error event.  Only the Codex adapter does, and its
\* code, upstream_error, always allows a fallback before the first event.
StreamErrors(r) ==
  /\ pc[r] = "streaming"
  /\ Adapter[Current(r)] = "codex_responses"
  /\ ReportFailure(r, Unclassified)
  /\ cause' = [cause EXCEPT ![r] = "broken"]
  /\ \/ ~Emitted(r) /\ NextCandidate(r)
     \/ /\ ~Emitted(r) /\ pos[r] = Len(cands[r])
        /\ Finish(r, Session!ErrorJSON)
     \/ /\ Emitted(r)
        /\ \E end \in {"interrupted", "cut"} :
             Finish(r, Session!Stream(pos[r], view[r].n, end))

\* The channel is closed: the end of the upstream's answer, for the
\* OpenAI-compatible adapter also a read error, and for both a cancelled
\* context.  The handler cannot tell these apart.
StreamCloses(r) ==
  /\ pc[r] = "streaming"
  /\ \E c \in {"finished", "broken", "cancelled"} :
       /\ c = "broken" => Adapter[Current(r)] = "openai_compatible"
       /\ c = "cancelled" => gone[r]
       /\ cause' = [cause EXCEPT ![r] = c]
  /\ ReportSuccess(r)
  /\ Finish(r, Session!Stream(pos[r], view[r].n, "completed"))

-----------------------------------------------------------------------------

Resolve(r) ==
  \/ ResolveCancelled(r) \/ ResolveBegins(r) \/ Consider(r)
  \/ ResolveFails(r) \/ ResolveReturns(r)

Serve(r) ==
  \/ Resolve(r)
  \/ CallFails(r) \/ CallSucceeds(r)
  \/ StreamOpens(r) \/ StreamData(r) \/ WriteFails(r) \/ StreamErrors(r) \/ StreamCloses(r)

Next ==
  \/ \E r \in Requests : Arrive(r) \/ Leave(r) \/ Serve(r)
  \/ Tick

\* The handler of an accepted request keeps running, and its upstream
\* eventually answers, closes or fails.  Clients owe nothing.
Spec == Init /\ [][Next]_vars /\ \A r \in Requests : WF_vars(Serve(r))

-----------------------------------------------------------------------------

Labels == {"idle", "arrived", "resolving", "calling", "streaming", "done"}

Views == [kind : {"nothing", "error", "reply", "stream"},
          src  : 0..Len(Candidates),
          n    : 0..MaxEvents,
          end  : {"open"} \cup Session!StreamEnds]

LogRecords == [src : 0..Len(Candidates), retries : Nat, status : {"ok", "error"}]

\* Type invariant; the candidate loop never runs off its list.
TypeOK ==
  /\ DOMAIN states \subseteq Pairs
  /\ \A k \in DOMAIN states : states[k].failures \in Nat
  /\ now \in 0..MaxClock
  /\ pc \in [Requests -> Labels]
  /\ mode \in [Requests -> {"complete", "stream"}]
  /\ pos \in [Requests -> 1..Len(Candidates) + 1]
  /\ retries \in [Requests -> Nat]
  /\ cands \in [Requests -> Seq(Pairs)]
  /\ gone \in [Requests -> BOOLEAN]
  /\ view \in [Requests -> Views]
  /\ logging \in BOOLEAN
  /\ logged \in [Requests -> Seq(LogRecords)]
  /\ lost \in [Requests -> BOOLEAN]
  /\ marks \in [Requests -> Seq({"ok", "failed"})]
  /\ \A r \in Requests :
       /\ Len(cands[r]) <= Len(Candidates)
       /\ pc[r] \in {"calling", "streaming"} => pos[r] <= Len(cands[r])

\* Every candidate the loop called is reported exactly once, in order: while
\* the loop is at position i the i-1 candidates before it have failed, and when
\* the handler returns the last report agrees with what the client got: a
\* success for a reply or a stream that ended normally, a failure otherwise.
OutcomesReported ==
  \A r \in Requests :
    /\ pc[r] \in {"idle", "arrived", "resolving"} => marks[r] = <<>>
    /\ pc[r] \in {"calling", "streaming"} => Len(marks[r]) = pos[r] - 1
    /\ \A i \in 1..Len(marks[r]) - 1 : marks[r][i] = "failed"
    /\ pc[r] = "done" /\ marks[r] # <<>> =>
         /\ Len(marks[r]) = pos[r]
         /\ marks[r][pos[r]] = "ok" <=>
              view[r].kind \in {"reply", "stream"} /\ view[r].end = "completed"

\* A record tells what became of its request: it names the candidate that was reported
\* last, the one an answer came from, counts those given up before it, and has the status
\* of an error exactly when the client got an error document.
Tells(record, r) ==
  /\ record.src = Len(marks[r])
  /\ view[r].src \in {Session!NoSource, record.src}
  /\ record.retries = IF record.src = Session!NoSource THEN 0 ELSE record.src - 1
  /\ record.status = "error" <=> view[r].kind = "error"

\* Every path of the handlers logs its request once, after the response: one record that
\* tells what happened.  It is missing only when logging is off, the client left before,
\* or the record could not be written.
LogTellsTruth ==
  \A r \in Requests :
    IF pc[r] = "done" /\ logging /\ ~gone[r] /\ ~lost[r]
    THEN Len(logged[r]) = 1 /\ Tells(logged[r][1], r)
    ELSE logged[r] = <<>>

\* The client of each request sees what ClientSession promises: one document,
\* or one stream from one candidate; no fallback after the first event.
ClientSeesOneAnswer == Session!Spec

\* Every request that reached the handler is answered or abandoned, however its candidates
\* fail and whatever its client does, provided that each upstream it calls ends: answers,
\* closes or fails.  Nothing in the code bounds an upstream that stays silent.
Answered == \A r \in Requests : pc[r] = "arrived" ~> pc[r] = "done"

-----------------------------------------------------------------------------
(***************************************************************************)
(* Statements of the documentation that the code does not keep.            *)
(***************************************************************************)

\* docs/spec.md:199: "if upstream fails mid-stream, emit an error SSE event if
\* possible, then close".  A stream whose upstream broke after the first event
\* does not end, for a client that is still there, as if it were complete.
BrokenStreamsShow ==
  \A r \in Requests :
    pc[r] = "done" /\ ~gone[r] /\ cause[r] = "broken" /\ view[r].n > 0 =>
      view[r].end # "completed"

=============================================================================
