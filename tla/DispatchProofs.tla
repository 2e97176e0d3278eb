--------------------------- MODULE DispatchProofs ---------------------------
(***************************************************************************)
(* Dispatch, proved for every number of requests and candidates, every     *)
(* assignment of adapters and every bound.                                 *)
(***************************************************************************)
EXTENDS Dispatch, TLAPS

-----------------------------------------------------------------------------
(***************************************************************************)
(* The inductive invariant relates, request by request, the place of the   *)
(* handler to what it has done so far.                                     *)
(***************************************************************************)

\* Nothing has been sent before a stream begins, and a stream that began is
\* one of the current candidate.
ViewAgrees(r) ==
  /\ pc[r] \notin {"streaming", "done"} => view[r] = Session!Nothing
  /\ pc[r] = "streaming" =>
       \/ view[r] = Session!Nothing
       \/ \E n \in 1..MaxEvents : view[r] = Session!Stream(pos[r], n, "open")

\* The part of OutcomesReported about r.
Reported(r) ==
  /\ pc[r] \in {"idle", "arrived", "resolving"} => marks[r] = <<>>
  /\ pc[r] \in {"calling", "streaming"} => Len(marks[r]) = pos[r] - 1
  /\ \A i \in 1..Len(marks[r]) - 1 : marks[r][i] = "failed"
  /\ pc[r] # "done" => \A i \in 1..Len(marks[r]) : marks[r][i] = "failed"
  /\ pc[r] = "done" /\ marks[r] # <<>> =>
       /\ Len(marks[r]) = pos[r]
       /\ marks[r][pos[r]] = "ok" <=>
            view[r].kind \in {"reply", "stream"} /\ view[r].end = "completed"

\* The part of LogTellsTruth about r.  Until the handler returns nothing is logged, and
\* retryCount keeps pace with the index of the loop.
Recorded(r) ==
  /\ pc[r] \in {"idle", "arrived", "resolving"} => retries[r] = 0
  /\ pc[r] \in {"calling", "streaming"} => retries[r] = pos[r] - 1
  /\ pc[r] # "done" => logged[r] = <<>> /\ ~lost[r]
  /\ pc[r] = "done" =>
       IF logging /\ ~gone[r] /\ ~lost[r]
       THEN Len(logged[r]) = 1 /\ Tells(logged[r][1], r)
       ELSE logged[r] = <<>>

\* Resolve takes at most one candidate per turn.
ListAgrees(r) ==
  /\ pc[r] \in {"idle", "arrived"} => pos[r] = 1 /\ cands[r] = <<>>
  /\ pc[r] = "resolving" => Len(cands[r]) < pos[r]

Local(r) == ViewAgrees(r) /\ Reported(r) /\ Recorded(r) /\ ListAgrees(r)

IInv == TypeOK /\ \A r \in Requests : Local(r)

\* A step of one request leaves the others where they are.
Others(r) ==
  /\ logging' = logging
  /\ \A q \in Requests \ {r} :
       /\ pc'[q] = pc[q] /\ pos'[q] = pos[q] /\ cands'[q] = cands[q]
       /\ retries'[q] = retries[q] /\ gone'[q] = gone[q] /\ view'[q] = view[q]
       /\ logged'[q] = logged[q] /\ lost'[q] = lost[q] /\ marks'[q] = marks[q]

\* A step that moves the handler of one request leaves what is known of the others.
LEMMA FrameIInv ==
  ASSUME IInv, TypeOK', NEW r \in Requests, Others(r), Local(r)'
  PROVE  IInv'
<1>1. ASSUME NEW q \in Requests PROVE Local(q)'
  <2>1. CASE q = r
    BY <2>1
  <2>2. CASE q # r
    BY <2>2 DEF Others, IInv, Local, ViewAgrees, Reported, Recorded, Tells, ListAgrees
  <2>. QED  BY <2>1, <2>2
<1>. QED  BY <1>1 DEF IInv

\* The initial state satisfies the invariant.
LEMMA InitIInv == Init => IInv
<1>. SUFFICES ASSUME Init PROVE IInv
  OBVIOUS
<1>1. Len(Candidates) \in Nat /\ Len(Candidates) # 0
  BY DispatchAssumption
<1>2. Session!Nothing \in Views
  BY <1>1, DispatchAssumption DEF Session!Nothing, Views, Session!NoSource
<1>3. TypeOK
  BY <1>1, <1>2, DispatchAssumption DEF Init, TypeOK, Labels
<1>4. ASSUME NEW r \in Requests PROVE Local(r)
  BY DEF Init, Local, ViewAgrees, Reported, Recorded, ListAgrees
<1>. QED  BY <1>3, <1>4 DEF IInv

-----------------------------------------------------------------------------
(***************************************************************************)
(* Lemmas about the pieces the actions are made of.                        *)
(***************************************************************************)

\* The tracker after a mark is a tracker.
TrackerOK(s) ==
  /\ DOMAIN s \subseteq Pairs
  /\ \A k \in DOMAIN s : s[k].failures \in Nat

\* A failure leaves a well-formed tracker with the pair in it, unhealthy, and one more
\* failure counted.
LEMMA FailureTyped ==
  ASSUME TypeOK, NEW k \in Pairs, NEW err
  PROVE  /\ TrackerOK(AfterFailure(states, k, err, now))
         /\ k \in DOMAIN AfterFailure(states, k, err, now)
         /\ ~AfterFailure(states, k, err, now)[k].healthy
         /\ AfterFailure(states, k, err, now)[k].failures > Get(states, k).failures
<1>1. Get(states, k).failures \in Nat
  BY DEF TypeOK, Get, Unseen
<1>2. ASSUME NEW u, NEW c
      PROVE  LET s == [healthy |-> FALSE, until |-> u, code |-> c,
                       failures |-> Get(states, k).failures + 1]
             IN  /\ TrackerOK(Put(states, k, s))
                 /\ k \in DOMAIN Put(states, k, s)
                 /\ ~Put(states, k, s)[k].healthy
                 /\ Put(states, k, s)[k].failures > Get(states, k).failures
  BY <1>1 DEF Put, TypeOK, TrackerOK
<1>. QED  BY <1>2 DEF AfterFailure

\* A success leaves a well-formed tracker.
LEMMA SuccessTyped ==
  ASSUME TypeOK, NEW k \in Pairs
  PROVE  TrackerOK(AfterSuccess(states, k))
  BY DEF AfterSuccess, Put, TypeOK, TrackerOK

\* While the candidate loop runs, the current candidate is one of the list.
LEMMA CurrentIsPair ==
  ASSUME TypeOK, NEW r \in Requests, pc[r] \in {"calling", "streaming"}
  PROVE  /\ Current(r) \in Pairs
         /\ pos[r] \in 1..Len(cands[r])
         /\ pos[r] \in 1..Len(Candidates)
         /\ Len(cands[r]) \in Nat
<1>1. cands[r] \in Seq(Pairs) /\ pos[r] \in 1..Len(Candidates) + 1
  BY DEF TypeOK
<1>2. Len(Candidates) \in Nat
  BY DispatchAssumption
<1>. QED  BY <1>1, <1>2 DEF TypeOK, Current

\* The values a handler shows its client.
LEMMA ViewTypes ==
  /\ Session!Nothing \in Views
  /\ Session!ErrorJSON \in Views
  /\ \A src \in 1..Len(Candidates) : Session!Reply(src) \in Views
  /\ \A src \in 1..Len(Candidates), n \in 0..MaxEvents, end \in {"open"} \cup Session!StreamEnds :
       Session!Stream(src, n, end) \in Views
<1>1. Len(Candidates) \in Nat /\ MaxEvents \in Nat
  BY DispatchAssumption
<1>. QED
  BY <1>1 DEF Views, Session!Nothing, Session!ErrorJSON, Session!Reply, Session!Stream,
              Session!NoSource, Session!StreamEnds

\* What a handler has logged when it returns.
LEMMA FinishLogs ==
  ASSUME IInv, NEW r \in Requests, NEW v, Finish(r, v), pc[r] # "done",
         pc[r] \in {"calling", "streaming"} \/ cands[r] = <<>>
  PROVE  /\ logged' \in [Requests -> Seq(LogRecords)]
         /\ lost' \in [Requests -> BOOLEAN]
         /\ logging' = logging
         /\ \A q \in Requests \ {r} : logged'[q] = logged[q] /\ lost'[q] = lost[q]
         /\ IF logging /\ ~gone[r] /\ ~lost'[r]
            THEN logged'[r] = <<LogRecord(r, v)>>
            ELSE logged'[r] = <<>>
<1>. DEFINE rec == LogRecord(r, v)
<1>0. /\ TypeOK /\ logged[r] = <<>> /\ ~lost[r]
      /\ LogRequest(r, rec)
  BY DEF IInv, Local, Recorded, Finish
<1>1. rec \in LogRecords
  <2>1. cands[r] # <<>> => pos[r] \in 0..Len(Candidates)
    BY <1>0, CurrentIsPair, DispatchAssumption
  <2>. QED
    BY <1>0, <2>1, DispatchAssumption DEF LogRecord, LogRecords, TypeOK, Session!NoSource
<1>. HIDE DEF rec
<1>2. <<rec>> \in Seq(LogRecords) /\ Append(<<>>, rec) = <<rec>>
  BY <1>1
<1>3. CASE logging /\ ~gone[r] /\ logged' = [logged EXCEPT ![r] = Append(@, rec)] /\ UNCHANGED lost
  BY <1>0, <1>2, <1>3 DEF TypeOK, LogRequest, rec
<1>4. CASE logging /\ ~gone[r] /\ LogFails(r)
  BY <1>0, <1>4 DEF TypeOK, LogRequest, LogFails
<1>5. CASE (~logging \/ gone[r]) /\ UNCHANGED <<logged, lost>>
  BY <1>0, <1>5 DEF TypeOK, LogRequest
<1>. QED  BY <1>0, <1>3, <1>4, <1>5 DEF LogRequest

-----------------------------------------------------------------------------
(***************************************************************************)
(* Each action keeps the invariant.                                        *)
(***************************************************************************)

\* The handler returns before any candidate was called.
LEMMA RejectIInv ==
  ASSUME IInv, NEW r \in Requests, pc[r] \in {"arrived", "resolving"}, cands[r] = <<>>,
         Finish(r, Session!ErrorJSON), UNCHANGED <<tracker, history>>
  PROVE  IInv'
<1>. DEFINE v == Session!ErrorJSON
<1>. PICK rec : rec = LogRecord(r, v)
  OBVIOUS
<1>0. /\ TypeOK /\ Local(r) /\ pc[r] # "done"
      /\ Finish(r, v) /\ tracker' = tracker /\ history' = history
  BY DEF IInv
<1>1. /\ logged' \in [Requests -> Seq(LogRecords)]
      /\ lost' \in [Requests -> BOOLEAN]
      /\ logging' = logging
      /\ \A q \in Requests \ {r} : logged'[q] = logged[q] /\ lost'[q] = lost[q]
      /\ IF logging /\ ~gone[r] /\ ~lost'[r] THEN logged'[r] = <<rec>> ELSE logged'[r] = <<>>
  BY <1>0, FinishLogs
<1>2. /\ rec.src = 0 /\ rec.retries = 0 /\ rec.status = "error"
      /\ v.src = 0 /\ v.kind = "error" /\ marks[r] = <<>>
  BY <1>0 DEF LogRecord, Session!ErrorJSON, Session!NoSource, Local, Recorded, Reported
<1>3. /\ pc' = [pc EXCEPT ![r] = "done"] /\ view' = [view EXCEPT ![r] = v]
      /\ UNCHANGED <<states, now, marks, cause, mode, pos, retries, cands, gone>>
  BY <1>0 DEF Finish, Goto, tracker, history
<1>. HIDE DEF v
<1>4. Others(r)
  BY <1>0, <1>1, <1>3 DEF Others, TypeOK
<1>5. TypeOK'
  <2>1. v \in Views
    BY ViewTypes DEF v
  <2>. QED  BY <1>0, <1>1, <1>3, <2>1 DEF TypeOK, Labels
<1>6. Local(r)'
  <2>1. pc'[r] = "done" /\ view'[r] = v /\ marks'[r] = <<>>
    BY <1>0, <1>2, <1>3 DEF TypeOK
  <2>2. Tells(rec, r)'
    BY <1>2, <2>1 DEF Tells, Session!NoSource
  <2>3. Recorded(r)'
    <3>1. Len(<<rec>>) = 1 /\ <<rec>>[1] = rec
      OBVIOUS
    <3>2. gone'[r] = gone[r]
      BY <1>3
    <3>. QED
      BY <1>1, <2>1, <2>2, <3>1, <3>2 DEF Recorded, Tells
  <2>. QED
    BY <2>1, <2>3 DEF Local, ViewAgrees, Reported, ListAgrees
<1>. QED  BY <1>4, <1>5, <1>6, FrameIInv

\* Resolve: nothing is marked or sent, the list grows by one turn at a time.
LEMMA ResolveIInv ==
  ASSUME IInv, NEW r \in Requests, Resolve(r)
  PROVE  IInv'
<1>. USE DEF Goto
<1>0. TypeOK /\ Local(r) /\ Len(Candidates) \in Nat /\ cands[r] \in Seq(Pairs)
  BY DispatchAssumption DEF IInv, TypeOK
<1>1. CASE ResolveCancelled(r)
  BY <1>0, <1>1, RejectIInv DEF ResolveCancelled, Local, ListAgrees
<1>2. CASE ResolveBegins(r)
  <2>1. Others(r)
    BY <1>0, <1>2 DEF ResolveBegins, Others, outcome, log, history, TypeOK
  <2>2. TypeOK'
    BY <1>0, <1>2 DEF ResolveBegins, TypeOK, tracker, outcome, log, history, Labels
  <2>3. Local(r)'
    BY <1>0, <1>2
       DEF ResolveBegins, TypeOK, outcome, log, history, Local, ViewAgrees, Reported, Recorded, ListAgrees
  <2>. QED  BY <2>1, <2>2, <2>3, FrameIInv
<1>3. CASE Consider(r)
  <2>1. Others(r)
    BY <1>0, <1>3 DEF Consider, Others, outcome, log, history, TypeOK
  <2>2. /\ pos' = [pos EXCEPT ![r] = @ + 1]
        /\ cands'[r] \in {cands[r], Append(cands[r], Candidates[pos[r]])}
        /\ cands' = [cands EXCEPT ![r] = cands'[r]]
    BY <1>0, <1>3 DEF Consider, TypeOK
  <2>3. Candidates[pos[r]] \in Pairs /\ Len(cands[r]) < pos[r] /\ pos[r] <= Len(Candidates)
    BY <1>0, <1>3, DispatchAssumption DEF Consider, TypeOK, Local, ListAgrees
  <2>4. cands'[r] \in Seq(Pairs) /\ Len(cands'[r]) <= Len(cands[r]) + 1
    <3>1. \A c \in Seq(Pairs), k \in Pairs :
            Append(c, k) \in Seq(Pairs) /\ Len(Append(c, k)) = Len(c) + 1 /\ Len(c) \in Nat
      OBVIOUS
    <3>2. CASE cands'[r] = cands[r]
      BY <1>0, <3>1, <3>2, <2>3
    <3>3. CASE cands'[r] = Append(cands[r], Candidates[pos[r]])
      BY <1>0, <3>1, <3>3, <2>3
    <3>. QED  BY <2>2, <3>2, <3>3
  <2>5. pos'[r] = pos[r] + 1 /\ pos'[r] \in 1..Len(Candidates) + 1 /\ pos[r] \in Nat
    BY <1>0, <2>2, <2>3 DEF TypeOK
  <2>6. Len(cands'[r]) <= Len(Candidates) /\ Len(cands'[r]) < pos'[r]
    BY <1>0, <2>3, <2>4, <2>5
  <2>7. TypeOK'
    <3>1. cands' \in [Requests -> Seq(Pairs)] /\ pos' \in [Requests -> 1..Len(Candidates) + 1]
      BY <1>0, <2>2, <2>4, <2>5 DEF TypeOK
    <3>2. \A q \in Requests :
            /\ Len(cands'[q]) <= Len(Candidates)
            /\ pc'[q] \in {"calling", "streaming"} => pos'[q] <= Len(cands'[q])
      BY <1>0, <1>3, <2>1, <2>6 DEF Consider, Others, TypeOK
    <3>. QED  BY <1>0, <1>3, <3>1, <3>2 DEF Consider, TypeOK, tracker, outcome, log, history
  <2>8. Local(r)'
    BY <1>0, <1>3, <2>6
       DEF Consider, outcome, log, history, Local, ViewAgrees, Reported, Recorded, ListAgrees
  <2>. QED  BY <2>1, <2>7, <2>8, FrameIInv
<1>4. CASE ResolveFails(r)
  BY <1>0, <1>4, RejectIInv DEF ResolveFails
<1>5. CASE ResolveReturns(r)
  <2>1. Others(r)
    BY <1>0, <1>5 DEF ResolveReturns, Others, outcome, log, history, TypeOK
  <2>2. Len(cands[r]) \in Nat /\ Len(cands[r]) # 0
    BY <1>0, <1>5 DEF ResolveReturns
  <2>3. TypeOK'
    BY <1>0, <1>5, <2>2 DEF ResolveReturns, TypeOK, tracker, outcome, log, history, Labels
  <2>4. Local(r)'
    BY <1>0, <1>5
       DEF ResolveReturns, TypeOK, outcome, log, history, Local, ViewAgrees, Reported, Recorded, ListAgrees
  <2>. QED  BY <2>1, <2>3, <2>4, FrameIInv
<1>. QED  BY <1>1, <1>2, <1>3, <1>4, <1>5 DEF Resolve

\* A failed candidate is followed by the next one: the report and the position
\* move together.
LEMMA FailoverIInv ==
  ASSUME IInv, NEW r \in Requests, NEW err,
         pc[r] \in {"calling", "streaming"}, view[r] = Session!Nothing,
         ReportFailure(r, err), NextCandidate(r)
  PROVE  IInv'
<1>0. TypeOK /\ Local(r)
  BY DEF IInv
<1>1. /\ Current(r) \in Pairs /\ Len(cands[r]) \in Nat /\ Len(Candidates) \in Nat
      /\ pos[r] \in 1..Len(Candidates) /\ marks[r] \in Seq({"ok", "failed"})
  <2>1. marks[r] \in Seq({"ok", "failed"})
    BY <1>0 DEF TypeOK
  <2>. QED  BY <1>0, <2>1, CurrentIsPair, DispatchAssumption
<1>. USE DEF Goto, ReportFailure, NextCandidate, outcome, log
<1>2. TrackerOK(states')
  BY <1>0, <1>1, FailureTyped
<1>3. Others(r)
  BY <1>0 DEF Others, TypeOK
<1>4. /\ pc'[r] = "calling" /\ pos'[r] = pos[r] + 1 /\ cands'[r] = cands[r]
      /\ marks'[r] = Append(marks[r], "failed") /\ view'[r] = view[r]
      /\ retries'[r] = retries[r] + 1 /\ gone'[r] = gone[r]
      /\ logged'[r] = logged[r] /\ lost'[r] = lost[r]
  BY <1>0 DEF TypeOK
<1>5. marks'[r] \in Seq({"ok", "failed"}) /\ Len(marks'[r]) = Len(marks[r]) + 1
  BY <1>1, <1>4
<1>6. TypeOK'
  <2>1. pos' \in [Requests -> 1..Len(Candidates) + 1]
    BY <1>0, <1>1 DEF TypeOK
  <2>2. marks' \in [Requests -> Seq({"ok", "failed"})]
    BY <1>0, <1>5 DEF TypeOK
  <2>3. \A q \in Requests :
          /\ Len(cands'[q]) <= Len(Candidates)
          /\ pc'[q] \in {"calling", "streaming"} => pos'[q] <= Len(cands'[q])
    BY <1>0, <1>1, <1>3, <1>4 DEF Others, TypeOK
  <2>4. pc' \in [Requests -> Labels] /\ retries' \in [Requests -> Nat]
    BY <1>0 DEF TypeOK, Labels
  <2>. QED
    BY <1>0, <1>2, <2>1, <2>2, <2>3, <2>4 DEF TypeOK, TrackerOK
<1>7. \A i \in 1..Len(marks'[r]) : marks'[r][i] = "failed"
  BY <1>0, <1>1, <1>4, <1>5 DEF Local, Reported
<1>8. Len(marks'[r]) = pos'[r] - 1
  BY <1>0, <1>1, <1>4, <1>5 DEF Local, Reported
<1>9. Local(r)'
  <2>1. Reported(r)'
    BY <1>4, <1>5, <1>7, <1>8 DEF Reported
  <2>. QED
    BY <1>0, <1>1, <1>4, <2>1 DEF Local, ViewAgrees, Recorded, ListAgrees
<1>. QED  BY <1>3, <1>6, <1>9, FrameIInv

\* The handler returns after the last report.
LEMMA FinishIInv ==
  ASSUME IInv, NEW r \in Requests, NEW v \in Views, NEW outcomeOf \in {"ok", "failed"},
         pc[r] \in {"calling", "streaming"},
         TrackerOK(states'), UNCHANGED now,
         marks' = [marks EXCEPT ![r] = Append(@, outcomeOf)],
         outcomeOf = "ok" <=> v.kind \in {"reply", "stream"} /\ v.end = "completed",
         v.src \in {Session!NoSource, pos[r]},
         Finish(r, v)
  PROVE  IInv'
<1>. PICK rec : rec = LogRecord(r, v)
  OBVIOUS
<1>0. TypeOK /\ Local(r)
  BY DEF IInv
<1>1. /\ Len(cands[r]) \in Nat /\ pos[r] \in Nat /\ marks[r] \in Seq({"ok", "failed"})
  BY <1>0, CurrentIsPair DEF TypeOK
<1>2. /\ logged' \in [Requests -> Seq(LogRecords)]
      /\ lost' \in [Requests -> BOOLEAN]
      /\ logging' = logging
      /\ \A q \in Requests \ {r} : logged'[q] = logged[q] /\ lost'[q] = lost[q]
      /\ IF logging /\ ~gone[r] /\ ~lost'[r] THEN logged'[r] = <<rec>> ELSE logged'[r] = <<>>
  BY FinishLogs
<1>3. /\ rec.src = pos[r] /\ rec.retries = pos[r] - 1
      /\ rec.status = "error" <=> v.kind = "error"
  <2>1. cands[r] # <<>>
    BY <1>0, CurrentIsPair
  <2>. QED  BY <1>0, <2>1 DEF LogRecord, Local, Recorded
<1>. USE DEF Goto, Finish
<1>4. Others(r)
  BY <1>0, <1>2 DEF Others, TypeOK
<1>5. /\ pc'[r] = "done" /\ pos'[r] = pos[r] /\ view'[r] = v
      /\ marks'[r] = Append(marks[r], outcomeOf) /\ gone'[r] = gone[r]
  BY <1>0 DEF TypeOK
<1>6. marks'[r] \in Seq({"ok", "failed"}) /\ Len(marks'[r]) = Len(marks[r]) + 1
  BY <1>1, <1>5
<1>7. TypeOK'
  <2>1. marks' \in [Requests -> Seq({"ok", "failed"})]
    BY <1>0, <1>6 DEF TypeOK
  <2>2. pc' \in [Requests -> Labels] /\ view' \in [Requests -> Views]
    BY <1>0 DEF TypeOK, Labels
  <2>3. \A q \in Requests :
          /\ Len(cands'[q]) <= Len(Candidates)
          /\ pc'[q] \in {"calling", "streaming"} => pos'[q] <= Len(cands'[q])
    BY <1>0, <1>4, <1>5 DEF Others, TypeOK
  <2>. QED
    BY <1>0, <1>2, <2>1, <2>2, <2>3 DEF TypeOK, TrackerOK
<1>8. Len(marks'[r]) = pos'[r] /\ marks'[r][pos'[r]] = outcomeOf
  BY <1>0, <1>1, <1>5, <1>6 DEF Local, Reported
<1>9. \A i \in 1..Len(marks'[r]) - 1 : marks'[r][i] = "failed"
  BY <1>0, <1>1, <1>5, <1>6 DEF Local, Reported
<1>10. Local(r)'
  <2>1. Reported(r)'
    BY <1>5, <1>8, <1>9 DEF Reported
  <2>2. Tells(rec, r)'
    BY <1>0, <1>3, <1>5, <1>8, CurrentIsPair DEF Tells, Session!NoSource
  <2>3. Recorded(r)'
    <3>1. Len(<<rec>>) = 1 /\ <<rec>>[1] = rec
      OBVIOUS
    <3>2. CASE logging /\ ~gone[r] /\ ~lost'[r]
      <4>1. logged'[r] = <<rec>> /\ logged'[r][1] = rec
        BY <1>2, <3>1, <3>2
      <4>2. Tells(logged[r][1], r)'
        BY <2>2, <4>1 DEF Tells
      <4>. QED  BY <1>2, <1>5, <3>1, <3>2, <4>1, <4>2 DEF Recorded
    <3>3. CASE ~(logging /\ ~gone[r] /\ ~lost'[r])
      BY <1>2, <1>5, <3>3 DEF Recorded
    <3>. QED  BY <3>2, <3>3
  <2>. QED
    BY <1>5, <2>1, <2>3 DEF Local, ViewAgrees, ListAgrees
<1>. QED  BY <1>4, <1>7, <1>10, FrameIInv

-----------------------------------------------------------------------------
\* Each action of the candidate loop is one of the two, or moves inside a
\* stream.
LEMMA ServeIInv ==
  ASSUME IInv, NEW r \in Requests, Serve(r)
  PROVE  IInv'
<1>0. TypeOK /\ Local(r)
  BY DEF IInv
<1>1. CASE Resolve(r)
  BY <1>1, ResolveIInv
<1>2. CASE CallFails(r)
  <2>1. PICK err \in Failures :
          /\ ReportFailure(r, err)
          /\ \/ NextCandidate(r)
             \/ Finish(r, Session!ErrorJSON)
    BY <1>2 DEF CallFails
  <2>2. pc[r] = "calling" /\ view[r] = Session!Nothing
    BY <1>0, <1>2 DEF CallFails, Local, ViewAgrees
  <2>3. CASE NextCandidate(r)
    BY <2>1, <2>2, <2>3, FailoverIInv
  <2>4. CASE Finish(r, Session!ErrorJSON)
    <3>1. TrackerOK(states')
      BY <1>0, <2>1, <2>2, CurrentIsPair, FailureTyped DEF ReportFailure
    <3>. QED
      BY <2>1, <2>2, <2>4, <3>1, ViewTypes, FinishIInv DEF ReportFailure, Session!ErrorJSON
  <2>. QED  BY <2>1, <2>3, <2>4
<1>3. CASE CallSucceeds(r)
  <2>1. pos[r] \in 1..Len(Candidates) /\ TrackerOK(states')
    BY <1>0, <1>3, CurrentIsPair, SuccessTyped DEF CallSucceeds, ReportSuccess
  <2>2. Session!Reply(pos[r]) \in Views
    BY <2>1, ViewTypes
  <2>. QED
    BY <1>3, <2>1, <2>2, FinishIInv DEF CallSucceeds, ReportSuccess, Session!Reply
<1>4. CASE StreamOpens(r)
  <2>1. Others(r)
    BY <1>0, <1>4 DEF StreamOpens, Goto, Others, outcome, log, TypeOK
  <2>2. TypeOK'
    BY <1>0, <1>4 DEF StreamOpens, Goto, TypeOK, tracker, outcome, log, Labels
  <2>3. Local(r)'
    BY <1>0, <1>4
       DEF StreamOpens, Goto, outcome, log, TypeOK, Local, ViewAgrees, Reported, Recorded, ListAgrees
  <2>. QED  BY <2>1, <2>2, <2>3, FrameIInv
<1>5. CASE StreamData(r)
  <2>1. pos[r] \in 1..Len(Candidates) /\ pc[r] = "streaming" /\ MaxEvents \in Nat
    BY <1>0, <1>5, CurrentIsPair, DispatchAssumption DEF StreamData
  <2>2. view[r].n + 1 \in 1..MaxEvents
    BY <1>0, <1>5, <2>1 DEF StreamData, TypeOK, Views
  <2>3. view' = [view EXCEPT ![r] = Session!Stream(pos[r], view[r].n + 1, "open")]
    BY <1>5 DEF StreamData
  <2>4. Session!Stream(pos[r], view[r].n + 1, "open") \in Views
    BY <2>1, <2>2, ViewTypes
  <2>5. Others(r)
    BY <1>0, <1>5 DEF StreamData, Others, handler, log, history, TypeOK
  <2>6. TypeOK'
    BY <1>0, <1>5, <2>3, <2>4 DEF StreamData, TypeOK, tracker, handler, log, history
  <2>7. view'[r] = Session!Stream(pos[r], view[r].n + 1, "open")
    BY <1>0, <2>3 DEF TypeOK
  <2>8. Local(r)'
    BY <1>0, <1>5, <2>1, <2>2, <2>7
       DEF StreamData, handler, log, history, Local, ViewAgrees, Reported, Recorded, ListAgrees
  <2>. QED  BY <2>5, <2>6, <2>8, FrameIInv
<1>6. CASE WriteFails(r)
  <2>1. /\ pos[r] \in 1..Len(Candidates) /\ TrackerOK(states')
        /\ view[r].n \in 0..MaxEvents
    BY <1>0, <1>6, CurrentIsPair, FailureTyped DEF WriteFails, ReportFailure, TypeOK, Views
  <2>2. Session!Stream(pos[r], view[r].n, "cut") \in Views
    BY <2>1, ViewTypes DEF Session!StreamEnds
  <2>. QED
    BY <1>6, <2>1, <2>2, FinishIInv DEF WriteFails, ReportFailure, Session!Stream
<1>7. CASE StreamErrors(r)
  <2>1. /\ pos[r] \in 1..Len(Candidates) /\ TrackerOK(states')
        /\ view[r].n \in 0..MaxEvents
    BY <1>0, <1>7, CurrentIsPair, FailureTyped DEF StreamErrors, ReportFailure, TypeOK, Views
  <2>2. CASE ~Emitted(r) /\ NextCandidate(r)
    <3>1. view[r] = Session!Nothing
      <4>1. pc[r] = "streaming" /\ view[r].kind # "stream"
        BY <1>7, <2>2 DEF StreamErrors, Emitted
      <4>2. \A n \in 1..MaxEvents : Session!Stream(pos[r], n, "open").kind = "stream"
        BY DEF Session!Stream
      <4>. QED  BY <1>0, <4>1, <4>2 DEF Local, ViewAgrees
    <3>. QED  BY <1>7, <2>2, <3>1, FailoverIInv DEF StreamErrors
  <2>3. CASE Finish(r, Session!ErrorJSON)
    BY <1>7, <2>1, <2>3, ViewTypes, FinishIInv DEF StreamErrors, ReportFailure, Session!ErrorJSON
  <2>4. ASSUME NEW end \in {"interrupted", "cut"},
               Finish(r, Session!Stream(pos[r], view[r].n, end))
        PROVE  IInv'
    <3>1. Session!Stream(pos[r], view[r].n, end) \in Views
      BY <2>1, ViewTypes DEF Session!StreamEnds
    <3>. QED
      BY <1>7, <2>1, <2>4, <3>1, FinishIInv DEF StreamErrors, ReportFailure, Session!Stream
  <2>. QED  BY <1>7, <2>2, <2>3, <2>4 DEF StreamErrors
<1>8. CASE StreamCloses(r)
  <2>1. /\ pos[r] \in 1..Len(Candidates) /\ TrackerOK(states')
        /\ view[r].n \in 0..MaxEvents
    BY <1>0, <1>8, CurrentIsPair, SuccessTyped DEF StreamCloses, ReportSuccess, TypeOK, Views
  <2>2. Session!Stream(pos[r], view[r].n, "completed") \in Views
    BY <2>1, ViewTypes DEF Session!StreamEnds
  <2>. QED
    BY <1>8, <2>1, <2>2, FinishIInv DEF StreamCloses, ReportSuccess, Session!Stream
<1>. QED
  BY <1>1, <1>2, <1>3, <1>4, <1>5, <1>6, <1>7, <1>8 DEF Serve

\* Every step keeps the invariant.
LEMMA NextIInv == IInv /\ [Next]_vars => IInv'
<1>. SUFFICES ASSUME IInv, [Next]_vars PROVE IInv'
  OBVIOUS
<1>0. TypeOK
  BY DEF IInv
<1>1. ASSUME NEW r \in Requests, Arrive(r) PROVE IInv'
  <2>1. Others(r)
    BY <1>0, <1>1 DEF Arrive, Goto, Others, outcome, log, history, TypeOK
  <2>2. TypeOK'
    BY <1>0, <1>1 DEF Arrive, Goto, TypeOK, tracker, outcome, log, history, Labels
  <2>3. Local(r)'
    BY <1>0, <1>1 DEF IInv, Arrive, Goto, TypeOK, outcome, log, history,
                      Local, ViewAgrees, Reported, Recorded, ListAgrees
  <2>. QED  BY <2>1, <2>2, <2>3, FrameIInv
<1>2. ASSUME NEW r \in Requests, Leave(r) PROVE IInv'
  <2>1. Others(r)
    BY <1>0, <1>2 DEF Leave, handler, Others, outcome, log, history, TypeOK
  <2>2. TypeOK'
    BY <1>0, <1>2 DEF Leave, handler, TypeOK, tracker, outcome, log, history
  <2>3. Local(r)'
    BY <1>0, <1>2 DEF IInv, Leave, handler, TypeOK, outcome, log, history,
                      Local, ViewAgrees, Reported, Recorded, ListAgrees
  <2>. QED  BY <2>1, <2>2, <2>3, FrameIInv
<1>3. ASSUME NEW r \in Requests, Serve(r) PROVE IInv'
  BY <1>3, ServeIInv
<1>4. CASE Tick
  <2>1. TypeOK'
    BY <1>0, <1>4, DispatchAssumption DEF Tick, TypeOK, handler, outcome, log, history
  <2>. QED
    BY <1>4, <2>1 DEF Tick, IInv, handler, outcome, log, history,
                      Local, ViewAgrees, Reported, Recorded, Tells, ListAgrees
<1>5. CASE UNCHANGED vars
  <2>1. TypeOK'
    BY <1>0, <1>5 DEF vars, TypeOK, tracker, handler, outcome, log, history
  <2>. QED
    BY <1>5, <2>1 DEF vars, IInv, tracker, handler, outcome, log, history,
                      Local, ViewAgrees, Reported, Recorded, Tells, ListAgrees
<1>. QED
  BY <1>1, <1>2, <1>3, <1>4, <1>5 DEF Next

\* The inductive invariant of Dispatch: what a handler has sent, reported and recorded
\* follows from where it is in its loop over the candidates.
THEOREM Invariance == Spec => []IInv
  BY InitIInv, NextIInv, PTL DEF Spec

-----------------------------------------------------------------------------
(***************************************************************************)
(* The properties the runs check.                                          *)
(***************************************************************************)

\* All variables have their types, and the candidate loop never runs off its
\* list.
THEOREM TypeCorrect == Spec => []TypeOK
  BY Invariance, PTL DEF IInv

\* Every candidate called is reported once and in order, and the last report
\* agrees with what the client got.
THEOREM AllReported == Spec => []OutcomesReported
<1>1. IInv => OutcomesReported
  BY DEF IInv, Local, Reported, OutcomesReported
<1>. QED  BY <1>1, Invariance, PTL

\* A handler that returned has written one record, which tells what it reported and what
\* its client got, unless logging is off, the client left or the record was lost.
THEOREM AllRecorded == Spec => []LogTellsTruth
<1>1. IInv => LogTellsTruth
  BY DEF IInv, TypeOK, Labels, Local, Recorded, LogTellsTruth
<1>. QED  BY <1>1, Invariance, PTL

-----------------------------------------------------------------------------
(***************************************************************************)
(* Dispatch implements ClientSession.                                      *)
(***************************************************************************)

\* The list of candidates a request works through is never longer than the
\* alias', so every answer comes from one of its sources.
LEMMA ServeIsSessionStep ==
  ASSUME IInv, NEW r \in Requests, Serve(r)
  PROVE  [Session!Next]_view
<1>. DEFINE V(src, n, end) == Session!Stream(src, n, end)
<1>0. TypeOK /\ Local(r) /\ MaxEvents \in Nat \ {0}
  BY DispatchAssumption DEF IInv
<1>1. ASSUME view[r] = Session!Nothing, Finish(r, Session!ErrorJSON) PROVE Session!Next
  BY <1>1 DEF Finish, Session!Next, Session!Answer, Session!Becomes
<1>2. ASSUME pc[r] \in {"calling", "streaming"} PROVE pos[r] \in 1..Len(Candidates)
  BY <1>0, <1>2, CurrentIsPair
<1>3. CASE Resolve(r)
  <2>1. pc[r] \in {"arrived", "resolving"} /\ view[r] = Session!Nothing
    BY <1>0, <1>3 DEF Resolve, ResolveCancelled, ResolveBegins, Consider, ResolveFails,
                      ResolveReturns, Local, ViewAgrees
  <2>. QED
    BY <1>1, <1>3, <2>1 DEF Resolve, ResolveCancelled, ResolveBegins, Consider, ResolveFails,
                            ResolveReturns, outcome
<1>4. CASE CallFails(r)
  <2>1. view[r] = Session!Nothing
    BY <1>0, <1>4 DEF CallFails, Local, ViewAgrees
  <2>. QED
    BY <1>1, <1>4, <2>1 DEF CallFails, NextCandidate, outcome
<1>5. CASE CallSucceeds(r)
  <2>1. view[r] = Session!Nothing /\ pos[r] \in 1..Len(Candidates)
    BY <1>0, <1>2, <1>5 DEF CallSucceeds, Local, ViewAgrees
  <2>. QED
    BY <1>5, <2>1 DEF CallSucceeds, Finish, Session!Next, Session!Answer, Session!Becomes
<1>6. CASE StreamOpens(r)
  BY <1>6 DEF StreamOpens, outcome
<1>7. CASE StreamData(r)
  <2>0. pc[r] = "streaming" /\ pos[r] \in 1..Len(Candidates)
    BY <1>2, <1>7 DEF StreamData
  <2>1. CASE view[r] = Session!Nothing
    <3>1. view[r].n + 1 = 1
      BY <2>1 DEF Session!Nothing
    <3>2. Session!Becomes(r, V(pos[r], 1, "open"))
      BY <1>7, <3>1 DEF StreamData, Session!Becomes
    <3>. QED  BY <2>0, <2>1, <3>2 DEF Session!Next, Session!Begin
  <2>2. ASSUME NEW n \in 1..MaxEvents, view[r] = V(pos[r], n, "open") PROVE Session!Next
    <3>1. view[r].n = n
      BY <2>2 DEF Session!Stream
    <3>2. n \in 1..MaxEvents - 1
      BY <1>0, <1>7, <3>1 DEF StreamData
    <3>3. Session!Becomes(r, V(pos[r], n + 1, "open"))
      BY <1>7, <3>1 DEF StreamData, Session!Becomes
    <3>. QED  BY <2>0, <2>2, <3>2, <3>3 DEF Session!Next, Session!Continue
  <2>. QED  BY <1>0, <2>0, <2>1, <2>2 DEF Local, ViewAgrees
<1>8. ASSUME pc[r] = "streaming", NEW end \in Session!StreamEnds,
             Finish(r, V(pos[r], view[r].n, end)),
             view[r] = Session!Nothing => end # "interrupted"
      PROVE  Session!Next
  <2>0. pos[r] \in 1..Len(Candidates)
    BY <1>2, <1>8
  <2>1. CASE view[r] = Session!Nothing
    <3>1. view[r].n = 0
      BY <2>1 DEF Session!Nothing
    <3>2. Session!Becomes(r, V(pos[r], 0, end))
      BY <1>8, <3>1 DEF Finish, Session!Becomes
    <3>3. end \in {"completed", "cut"}
      BY <1>8, <2>1 DEF Session!StreamEnds
    <3>. QED  BY <2>0, <2>1, <3>2, <3>3 DEF Session!Next, Session!Begin
  <2>2. ASSUME NEW n \in 1..MaxEvents, view[r] = V(pos[r], n, "open") PROVE Session!Next
    <3>1. view[r].n = n
      BY <2>2 DEF Session!Stream
    <3>2. Session!Becomes(r, V(pos[r], n, end))
      BY <1>8, <3>1 DEF Finish, Session!Becomes
    <3>. QED  BY <1>8, <2>0, <2>2, <3>2 DEF Session!Next, Session!Close
  <2>. QED  BY <1>0, <1>8, <2>1, <2>2 DEF Local, ViewAgrees
<1>9. CASE WriteFails(r)
  BY <1>8, <1>9 DEF WriteFails, Session!StreamEnds
<1>10. CASE StreamErrors(r)
  <2>1. CASE Emitted(r)
    <3>1. view[r] # Session!Nothing
      BY <2>1 DEF Emitted, Session!Nothing
    <3>2. PICK end \in {"interrupted", "cut"} : Finish(r, V(pos[r], view[r].n, end))
      BY <1>10, <2>1 DEF StreamErrors
    <3>. QED  BY <1>8, <1>10, <3>1, <3>2 DEF StreamErrors, Session!StreamEnds
  <2>2. CASE ~Emitted(r)
    <3>1. pc[r] = "streaming" /\ view[r].kind # "stream"
      BY <1>10, <2>2 DEF StreamErrors, Emitted
    <3>2. \A n \in 1..MaxEvents : V(pos[r], n, "open").kind = "stream"
      BY DEF Session!Stream
    <3>3. view[r] = Session!Nothing
      BY <1>0, <3>1, <3>2 DEF Local, ViewAgrees
    <3>. QED
      BY <1>1, <1>10, <2>2, <3>3 DEF StreamErrors, NextCandidate, outcome
  <2>. QED  BY <2>1, <2>2
<1>11. CASE StreamCloses(r)
  BY <1>8, <1>11 DEF StreamCloses, Session!StreamEnds
<1>. QED
  BY <1>3, <1>4, <1>5, <1>6, <1>7, <1>9, <1>10, <1>11 DEF Serve

\* The client of each request sees one document, or one stream from one
\* candidate, and nothing after its end.
THEOREM ImplementsSession == Spec => ClientSeesOneAnswer
<1>1. Init => Session!Init
  BY DEF Init, Session!Init
<1>2. IInv /\ [Next]_vars => [Session!Next]_view
  <2>. SUFFICES ASSUME IInv, [Next]_vars PROVE [Session!Next]_view
    OBVIOUS
  <2>1. ASSUME NEW r \in Requests, Arrive(r) \/ Leave(r) PROVE view' = view
    BY <2>1 DEF Arrive, Leave, outcome
  <2>2. ASSUME NEW r \in Requests, Serve(r) PROVE [Session!Next]_view
    BY <2>2, ServeIsSessionStep
  <2>3. CASE Tick
    BY <2>3 DEF Tick, outcome
  <2>4. CASE UNCHANGED vars
    BY <2>4 DEF vars, outcome
  <2>. QED  BY <2>1, <2>2, <2>3, <2>4 DEF Next
<1>. QED
  BY <1>1, <1>2, Invariance, PTL DEF Spec, ClientSeesOneAnswer, Session!Spec

=============================================================================
