---------------------------- MODULE AttemptProofs ----------------------------
(***************************************************************************)
(* An attempt and what it leaves behind: BufferedAnswer, the request of an *)
(* attempt and its answer or error, and Availability, what is remembered   *)
(* of it.  Proved for every set of pairs, documents and rejections, every  *)
(* backoff schedule that satisfies BackoffAssumption and every bound; and  *)
(* the schedule of the code satisfies it.                                  *)
(***************************************************************************)
EXTENDS Availability, BufferedAnswer, SequenceTheorems, FiniteSetTheorems,
        WellFoundedInduction, TLAPS

-----------------------------------------------------------------------------
(***************************************************************************)
(* Lemmas about the operators of Tracker.                                  *)
(***************************************************************************)

\* Get returns a well-formed record, also for a pair the map does not hold.
LEMMA GetType ==
  ASSUME TypeOK, NEW k
  PROVE  Get(states, k) \in States
<1>1. CASE k \in DOMAIN states
  BY <1>1 DEF Get, TypeOK
<1>2. CASE k \notin DOMAIN states
  BY <1>2, BackoffAssumption DEF Get, Unseen, States
<1>. QED  BY <1>1, <1>2

\* Put keeps the type of a tracker.
LEMMA PutType ==
  ASSUME TypeOK, NEW k \in Pairs, NEW s \in States
  PROVE  /\ DOMAIN Put(states, k, s) \subseteq Pairs
         /\ Put(states, k, s) \in [DOMAIN Put(states, k, s) -> States]
  BY DEF TypeOK, Put

\* The record a failure stores: unhealthy, counted, and with a window only for
\* an exhaustion error; a window without Retry-After has the length of the
\* backoff.
LEMMA FailureRecord ==
  ASSUME TypeOK, NEW k \in Pairs, NEW err \in Errors,
         Get(states, k).failures < MaxFailures
  PROVE  \E s \in States :
           /\ AfterFailure(states, k, err, now) = Put(states, k, s)
           /\ ~s.healthy
           /\ s.failures = Get(states, k).failures + 1
           /\ s.code # NoCode
           /\ s.until # NoWindow => s.code \in ExhaustionCodes
           /\ \/ s.until = NoWindow
              \/ s.until \in RetryInstants
              \/ s.until = now + Backoff(s.failures)
<1> DEFINE n == Get(states, k).failures + 1
           c == FailureCode(err)
           u == ExhaustedUntil(c, n, err, now)
           s == [healthy |-> FALSE, until |-> u, code |-> c, failures |-> n]
<1>1. n \in 1..MaxFailures
  BY GetType, BackoffAssumption DEF States
<1>2. c \in ErrorCodes
  BY DEF FailureCode, Errors, ErrorCodes
<1>3. c # NoCode
  BY DEF FailureCode, Errors, ErrorCodes, ExhaustionCodes, NoCode, RateLimited, Exhausted, Upstream
<1>4. now \in Int /\ Backoff(n) \in Nat
  BY <1>1, BackoffAssumption DEF TypeOK, Horizon
<1>5. u \in Int \cup {NoWindow}
  <2>1. err.retryAfter \in Int \cup {NoWindow}
    BY BackoffAssumption DEF Errors
  <2>2. now + Backoff(n) \in Int
    BY <1>4
  <2>. QED  BY <2>1, <2>2, Zenon DEF ExhaustedUntil
<1>6. u # NoWindow => c \in ExhaustionCodes
  BY DEF ExhaustedUntil
<1>7. u = NoWindow \/ u \in RetryInstants \/ u = now + Backoff(n)
  BY DEF ExhaustedUntil, Errors
<1>8. s \in States
  BY <1>1, <1>2, <1>5 DEF States
<1>. QED
  BY <1>3, <1>6, <1>7, <1>8 DEF AfterFailure

\* The record a success stores.
LEMMA SuccessRecord ==
  ASSUME NEW k
  PROVE  \E s \in States :
           /\ AfterSuccess(states, k) = Put(states, k, s)
           /\ s.healthy /\ s.failures = 0 /\ s.code = NoCode /\ s.until = NoWindow
<1> DEFINE s == [healthy |-> TRUE, until |-> NoWindow, code |-> NoCode, failures |-> 0]
<1>1. s \in States
  BY BackoffAssumption DEF States
<1>2. AfterSuccess(states, k) = Put(states, k, s)
  BY DEF AfterSuccess
<1>. QED  BY <1>1, <1>2

-----------------------------------------------------------------------------
(***************************************************************************)
(* The inductive invariant.  RecordCoherent and WindowBounded are          *)
(* inductive together with the types, because each mark rewrites a whole   *)
(* record and time only grows.                                             *)
(***************************************************************************)
IInv == TypeOK /\ RecordCoherent /\ WindowBounded

\* The initial state satisfies the invariant.
LEMMA InitIInv == Init => IInv
<1>. SUFFICES ASSUME Init PROVE IInv
  OBVIOUS
<1>1. DOMAIN states = {}
  BY DEF Init
<1>2. Horizon \in Nat
  BY BackoffAssumption DEF Horizon
<1>. QED
  BY <1>1, <1>2 DEF Init, IInv, TypeOK, RecordCoherent, WindowBounded

\* Storing a consistent record keeps the invariant.
LEMMA PutKeepsIInv ==
  ASSUME IInv, NEW k \in Pairs, NEW s \in States,
         Consistent(s), WithinBackoff(s, now),
         states' = Put(states, k, s), now' = now
  PROVE  IInv'
<1>1. TypeOK'
  BY PutType DEF IInv, TypeOK, Horizon
<1>2. /\ DOMAIN states' = DOMAIN states \cup {k}
      /\ states'[k] = s
      /\ \A j \in DOMAIN states : j # k => states'[j] = states[j]
  BY DEF Put
<1>3. ASSUME NEW j \in DOMAIN states'
      PROVE  Consistent(states'[j]) /\ WithinBackoff(states'[j], now)
  <2>1. CASE j = k
    BY <2>1, <1>2
  <2>2. CASE j # k
    BY <2>2, <1>2 DEF IInv, RecordCoherent, WindowBounded
  <2>. QED  BY <2>1, <2>2
<1>. QED
  BY <1>1, <1>3 DEF IInv, RecordCoherent, WindowBounded

\* A window that is within the backoff stays so as time passes.
LEMMA WithinBackoffLater ==
  ASSUME NEW s \in States, Consistent(s), NEW t \in Nat, WithinBackoff(s, t)
  PROVE  WithinBackoff(s, t + 1)
<1>1. CASE s.until = NoWindow
  BY <1>1 DEF WithinBackoff
<1>2. CASE s.until # NoWindow
  <2>1. s.failures # 0
    BY <1>2 DEF Consistent, NoCode, ExhaustionCodes, RateLimited, Exhausted
  <2>2. Backoff(s.failures) \in Nat
    BY <2>1, BackoffAssumption DEF States
  <2>3. s.until \in Int
    BY <1>2 DEF States
  <2>. QED  BY <2>2, <2>3 DEF WithinBackoff
<1>. QED  BY <1>1, <1>2

\* Every step keeps the invariant.
LEMMA NextIInv == IInv /\ [Next]_vars => IInv'
<1>. SUFFICES ASSUME IInv, [Next]_vars PROVE IInv'
  OBVIOUS
<1>1. ASSUME NEW k \in Pairs, MarkSuccess(k) PROVE IInv'
  <2>1. PICK s \in States : /\ states' = Put(states, k, s)
                            /\ s.healthy /\ s.failures = 0
                            /\ s.code = NoCode /\ s.until = NoWindow
    BY <1>1, SuccessRecord DEF MarkSuccess
  <2>2. Consistent(s) /\ WithinBackoff(s, now)
    BY <2>1 DEF Consistent, WithinBackoff
  <2>. QED  BY <1>1, <2>1, <2>2, PutKeepsIInv DEF MarkSuccess
<1>2. ASSUME NEW k \in Pairs, NEW err \in Errors, MarkFailure(k, err) PROVE IInv'
  <2>1. PICK s \in States :
           /\ states' = Put(states, k, s)
           /\ ~s.healthy
           /\ s.failures = Get(states, k).failures + 1
           /\ s.code # NoCode
           /\ s.until # NoWindow => s.code \in ExhaustionCodes
           /\ \/ s.until = NoWindow
              \/ s.until \in RetryInstants
              \/ s.until = now + Backoff(s.failures)
    BY <1>2, FailureRecord DEF MarkFailure, IInv
  <2>2. s.failures \in 1..MaxFailures
    BY <2>1, GetType, BackoffAssumption DEF States, IInv
  <2>3. Consistent(s)
    BY <2>1, <2>2 DEF Consistent
  <2>4. s.until = now + Backoff(s.failures) => s.until <= now + Backoff(s.failures)
    BY <2>2, BackoffAssumption DEF IInv, TypeOK, Horizon
  <2>5. WithinBackoff(s, now)
    BY <2>1, <2>4 DEF WithinBackoff
  <2>. QED  BY <1>2, <2>1, <2>3, <2>5, PutKeepsIInv DEF MarkFailure
<1>3. ASSUME NEW keep \in SUBSET Pairs, Restore(keep) PROVE IInv'
  BY <1>3 DEF Restore, Restored, IInv, TypeOK, Horizon, RecordCoherent, WindowBounded
<1>4. CASE Tick
  <2>1. now \in Nat /\ now' = now + 1 /\ states' = states /\ TypeOK'
    BY <1>4, BackoffAssumption DEF Tick, IInv, TypeOK, Horizon
  <2>2. ASSUME NEW k \in DOMAIN states
        PROVE  Consistent(states[k]) /\ WithinBackoff(states[k], now + 1)
    BY <2>1, WithinBackoffLater DEF IInv, TypeOK, RecordCoherent, WindowBounded
  <2>. QED
    BY <2>1, <2>2 DEF IInv, RecordCoherent, WindowBounded
<1>5. CASE UNCHANGED vars
  BY <1>5 DEF vars, IInv, TypeOK, Horizon, RecordCoherent, WindowBounded
<1>. QED
  BY <1>1, <1>2, <1>3, <1>4, <1>5 DEF Next

\* The inductive invariant of Availability: types, coherent records and bounded windows
\* hold whatever the order of marks, restores and ticks.
THEOREM Invariance == Spec => []IInv
  BY InitIInv, NextIInv, PTL DEF Spec

-----------------------------------------------------------------------------
(***************************************************************************)
(* The properties the runs check.                                          *)
(***************************************************************************)

\* The tracker holds well-formed records of known pairs only.
THEOREM TypeCorrect == Spec => []TypeOK
  BY Invariance, PTL DEF IInv

\* Whatever the order of marks and restores, the fields of a record agree.
THEOREM Coherent == Spec => []RecordCoherent
  BY Invariance, PTL DEF IInv

\* A window the proxy computes never exceeds the backoff of its failures.
THEOREM Bounded == Spec => []WindowBounded
  BY Invariance, PTL DEF IInv

\* One step never replaces a backoff window by an earlier one: the old window
\* is within the backoff of the failures counted so far, the new one adds the
\* backoff of more failures to the same instant, and the schedule is monotone.
LEMMA StepNeverRetreats ==
  ASSUME IInv, Next, NEW k \in DOMAIN states \cap DOMAIN states',
         {states[k].until, states'[k].until} \cap (RetryInstants \cup {NoWindow}) = {},
         states'[k].failures > states[k].failures
  PROVE  states'[k].until >= states[k].until
<1>1. states[k] \in States /\ k \in Pairs
  BY DEF IInv, TypeOK
<1>2. ASSUME NEW j \in Pairs, MarkSuccess(j) PROVE FALSE
  <2>1. PICK s \in States : states' = Put(states, j, s) /\ s.failures = 0
    BY <1>2, SuccessRecord DEF MarkSuccess
  <2>2. states'[k] = IF k = j THEN s ELSE states[k]
    BY <2>1 DEF Put
  <2>. QED  BY <1>1, <2>1, <2>2 DEF States
<1>3. ASSUME NEW j \in Pairs, NEW err \in Errors, MarkFailure(j, err)
      PROVE  states'[k].until >= states[k].until
  <2>1. PICK s \in States :
           /\ states' = Put(states, j, s)
           /\ s.failures = Get(states, j).failures + 1
           /\ \/ s.until = NoWindow
              \/ s.until \in RetryInstants
              \/ s.until = now + Backoff(s.failures)
    BY <1>3, FailureRecord DEF MarkFailure, IInv
  <2>2. states'[k] = IF k = j THEN s ELSE states[k]
    BY <2>1 DEF Put
  <2>3. k = j
    BY <1>1, <2>2 DEF States
  <2>4. s.until = now + Backoff(s.failures)
    BY <2>1, <2>2, <2>3
  <2>5. s.failures = states[k].failures + 1
    BY <2>1, <2>3 DEF Get
  <2>6. states[k].until <= now + Backoff(states[k].failures)
    BY DEF IInv, WindowBounded, WithinBackoff
  <2>7. states[k].failures # 0
    BY DEF IInv, RecordCoherent, Consistent, NoCode, ExhaustionCodes, RateLimited, Exhausted
  <2>8. /\ states[k].failures \in 1..MaxFailures
        /\ s.failures \in 1..MaxFailures
    BY <1>1, <2>1, <2>5, <2>7, BackoffAssumption DEF States
  <2>9. /\ Backoff(states[k].failures) \in Nat
        /\ Backoff(s.failures) \in Nat
        /\ Backoff(states[k].failures) <= Backoff(s.failures)
    BY <2>5, <2>8, BackoffAssumption
  <2>10. states[k].until \in Int /\ now \in Int
    BY <1>1 DEF States, IInv, TypeOK, Horizon
  <2>. QED  BY <2>2, <2>3, <2>4, <2>6, <2>9, <2>10
<1>4. ASSUME NEW keep \in SUBSET Pairs, Restore(keep) PROVE FALSE
  BY <1>1, <1>4 DEF Restore, Restored, States
<1>5. CASE Tick
  BY <1>1, <1>5 DEF Tick, States
<1>. QED
  BY <1>2, <1>3, <1>4, <1>5 DEF Next

\* Backoff windows escalate: no step of any request or reload replaces one by
\* a window that ends earlier.
THEOREM NeverRetreats == Spec => WindowNeverRetreats
<1>1. IInv /\ [Next]_vars
      => [\A k \in DOMAIN states \cap DOMAIN states' :
            LET old == states[k].until
                new == states'[k].until
            IN  (/\ {old, new} \cap (RetryInstants \cup {NoWindow}) = {}
                 /\ states'[k].failures > states[k].failures)
                => new >= old]_vars
  BY StepNeverRetreats
<1>. QED
  BY <1>1, Invariance, PTL DEF Spec, WindowNeverRetreats

-----------------------------------------------------------------------------
(***************************************************************************)
(* BufferedAnswer.  Below, s is what was sent so far, H the lines of it    *)
(* whose event has been read.                                              *)
(***************************************************************************)

Symbols == Lines \cup {"end", "end_in_comment", "end_in_data", "break"}

Grown(s, s2, x) ==
  /\ s2 \in Seq(Symbols) /\ Len(s2) = Len(s) + 1
  /\ \A i \in 1..Len(s) : s2[i] = s[i]
  /\ s2[Len(s) + 1] = x /\ Last(s2) = x

\* Lines of data whose event a blank line has ended, and those of the event being read.
Closed(s) ==
  {i \in 1..Len(s) : s[i] \in Items /\ \E k \in 1..Len(s) : k > i /\ s[k] = "blank"}
Open(s) ==
  {i \in 1..Len(s) : s[i] \in Items /\ \A k \in 1..Len(s) : k > i => s[k] # "blank"}

Together(s, i, j) ==
  \A k \in 1..Len(s) : (i < k /\ k < j) \/ (j < k /\ k < i) => s[k] # "blank"

\* Every event was one line of data, and none a failure.
Clean(H, s) ==
  \A i \in H : s[i] # "failed" /\ \A j \in H \ {i} : ~Together(s, i, j)

\* The pieces of t are those of the lines of H, in order.
Gathered(t, H, s) ==
  /\ t \in Seq(Nat)
  /\ \A i, j \in 1..Len(t) : i < j => t[i] < t[j]
  /\ \A i \in H : s[i] = "text" => \E k \in 1..Len(t) : t[k] = i
  /\ \A i \in H : s[i] = "text_done" => Len(t) > 0
  /\ \A k \in 1..Len(t) :
       t[k] \in H /\ (s[t[k]] = "text" \/ (k = 1 /\ s[t[k]] = "text_done"))

Ends(H, s) == {i \in H : s[i] \in {"completed", "incomplete"}}

UpTo(H, last) == {i \in H : i <= last}

ReasonOf(item) == IF item = "incomplete" THEN "length" ELSE "stop"

\* What the last completion says.
Completed(f, H, s) ==
  \/ Ends(H, s) = {} /\ f = NoFinal
  \/ \E last \in Ends(H, s) :
       /\ \A j \in Ends(H, s) : j <= last
       /\ f.reason = ReasonOf(s[last])
       /\ Gathered(f.text, UpTo(H, last), s)

Absorbed(t, f, H, s) ==
  H \subseteq 1..Len(s) /\ (\A i \in H : s[i] \in Items)
    /\ Clean(H, s) /\ Gathered(t, H, s) /\ Completed(f, H, s)

PendingOpen(p, s) ==
  /\ p \in Seq(Nat)
  /\ \A a, b \in 1..Len(p) : a < b => p[a] < p[b]
  /\ \A a \in 1..Len(p) : p[a] \in Open(s)
  /\ \A i \in Open(s) : \E a \in 1..Len(p) : p[a] = i

HeardLines == {i \in DOMAIN sent : Heard(i)}

AnswerTypes ==
  /\ adapter \in Adapters
  /\ document \in [endpoint : Endpoints, instructions : BOOLEAN, messages : Messages]
  /\ response \in Responses \cup {NoResponse}
  /\ sent \in Seq(Symbols)

\* Nothing has come from the upstream.
Untouched ==
  pc \in {"parsing", "preparing", "sending"} \/ (pc = "reading" /\ ~Streaming) =>
    sent = <<>> /\ pending = <<>> /\ text = <<>> /\ final = NoFinal

Asking ==
  /\ pc \in {"parsing", "preparing", "sending"} => response = NoResponse
  /\ pc \in {"reading", "ended"} => response \in Responses

Gathering ==
  Streaming => PendingOpen(pending, sent) /\ Absorbed(text, final, Closed(sent), sent)

Ended ==
  pc = "ended" =>
    /\ Codex /\ OK(response)
    /\ sent # <<>> /\ Last(sent) \in {"end", "end_in_comment"}
    /\ Absorbed(text, final, HeardLines, sent)

AnswerInv ==
  /\ AnswerTypes /\ Untouched /\ Asking /\ Gathering /\ Ended
  /\ WholeAnswer /\ RejectionUnderstood


-----------------------------------------------------------------------------
(***************************************************************************)
(* Lemmas about what was sent: an appended line, the events it ends.       *)
(***************************************************************************)

\* What Append does to what was sent.
LEMMA AppendGrows ==
  ASSUME NEW s \in Seq(Symbols), NEW x \in Symbols
  PROVE  Grown(s, Append(s, x), x)
<1>1. \A S : \A q \in Seq(S), e \in S :
        /\ Append(q, e) \in Seq(S) /\ Len(Append(q, e)) = Len(q) + 1
        /\ \A i \in 1..Len(q) : Append(q, e)[i] = q[i]
        /\ Append(q, e)[Len(q) + 1] = e
  BY AppendProperties
<1>2. /\ Append(s, x) \in Seq(Symbols) /\ Len(Append(s, x)) = Len(s) + 1
      /\ \A i \in 1..Len(s) : Append(s, x)[i] = s[i]
      /\ Append(s, x)[Len(s) + 1] = x
  BY <1>1, Zenon
<1>3. Last(Append(s, x)) = x
  BY <1>2, Zenon DEF Last
<1>. QED  BY <1>2, <1>3, Zenon DEF Grown

\* A line of data belongs to the event being read.
LEMMA DataOpens ==
  ASSUME NEW s \in Seq(Symbols), NEW s2, NEW x \in Items, Grown(s, s2, x)
  PROVE  Closed(s2) = Closed(s) /\ Open(s2) = Open(s) \cup {Len(s) + 1}
<1>1. x # "blank"
  BY DEF Items
<1>2. 1..Len(s2) = 1..Len(s) \cup {Len(s) + 1} /\ Len(s) \in Nat
  BY DEF Grown
<1>. QED  BY <1>1, <1>2, SMTT(40) DEF Closed, Open, Grown

\* A line that is neither data nor blank changes nothing.
LEMMA OthersSkipped ==
  ASSUME NEW s \in Seq(Symbols), NEW s2, NEW x \in Symbols \ (Items \cup {"blank"}), Grown(s, s2, x)
  PROVE  Closed(s2) = Closed(s) /\ Open(s2) = Open(s)
<1>2. 1..Len(s2) = 1..Len(s) \cup {Len(s) + 1} /\ Len(s) \in Nat
  BY DEF Grown
<1>. QED  BY <1>2 DEF Closed, Open, Grown

\* A blank line ends the event being read.
LEMMA BlankCloses ==
  ASSUME NEW s \in Seq(Symbols), NEW s2, Grown(s, s2, "blank")
  PROVE  Closed(s2) = Closed(s) \cup Open(s) /\ Open(s2) = {}
<1>1. "blank" \notin Items
  BY DEF Items
<1>2. 1..Len(s2) = 1..Len(s) \cup {Len(s) + 1} /\ Len(s) \in Nat
  BY DEF Grown
<1>. QED  BY <1>1, <1>2 DEF Closed, Open, Grown

\* What was heard stays so when a line is appended.
LEMMA AbsorbedLater ==
  ASSUME NEW s \in Seq(Symbols), NEW s2, NEW x, Grown(s, s2, x),
         NEW t, NEW f, NEW H, Absorbed(t, f, H, s)
  PROVE  Absorbed(t, f, H, s2)
<1>1. 1..Len(s2) = 1..Len(s) \cup {Len(s) + 1} /\ Len(s) \in Nat
  BY DEF Grown
<1>2. \A i \in H : i \in 1..Len(s) /\ i \in 1..Len(s2) /\ s2[i] = s[i] /\ s2[i] \in Items
  BY <1>1 DEF Absorbed, Grown
<1>3. \A i, j \in H : Together(s2, i, j) <=> Together(s, i, j)
  BY <1>1, <1>2 DEF Together, Grown
<1>4. Clean(H, s2)
  BY <1>2, <1>3 DEF Clean, Absorbed
<1>5. ASSUME NEW u, NEW G \in SUBSET H, Gathered(u, G, s)
      PROVE  Gathered(u, G, s2)
  <2>1. \A k \in 1..Len(u) : u[k] \in H /\ s2[u[k]] = s[u[k]]
    BY <1>2, <1>5 DEF Gathered
  <2>. QED  BY <2>1, <1>2, <1>5 DEF Gathered
<1>6. Gathered(t, H, s2)
  BY <1>5 DEF Absorbed
<1>7. Ends(H, s2) = Ends(H, s)
  BY <1>2 DEF Ends
<1>8. \A last : UpTo(H, last) \in SUBSET H
  BY DEF UpTo
<1>9. Completed(f, H, s2)
  <2>1. CASE Ends(H, s) = {} /\ f = NoFinal
    BY <2>1, <1>7 DEF Completed
  <2>2. CASE \E last \in Ends(H, s) :
               /\ \A j \in Ends(H, s) : j <= last
               /\ f.reason = ReasonOf(s[last])
               /\ Gathered(f.text, UpTo(H, last), s)
    <3>1. PICK last \in Ends(H, s) :
               /\ \A j \in Ends(H, s) : j <= last
               /\ f.reason = ReasonOf(s[last])
               /\ Gathered(f.text, UpTo(H, last), s)
      BY <2>2
    <3>2. s2[last] = s[last]
      BY <1>2 DEF Ends
    <3>3. Gathered(f.text, UpTo(H, last), s2)
      BY <3>1, <1>5, <1>8
    <3>. QED  BY <3>1, <3>2, <3>3, <1>7 DEF Completed
  <2>. QED  BY <2>1, <2>2 DEF Completed, Absorbed
<1>. QED  BY <1>2, <1>4, <1>6, <1>9 DEF Absorbed

\* The line of the event being read comes behind every line that was heard, and a
\* blank line lies between.
LEMMA OpenBehind ==
  ASSUME NEW s \in Seq(Symbols), NEW i \in Closed(s), NEW p \in Open(s)
  PROVE  i < p /\ ~Together(s, i, p) /\ ~Together(s, p, i)
<1>1. PICK k \in 1..Len(s) : k > i /\ s[k] = "blank"
  BY DEF Closed
<1>2. i \in Nat /\ p \in Nat /\ k \in Nat /\ Len(s) \in Nat
  BY DEF Closed, Open
<1>3. k < p
  <2>1. ~(k > p)
    BY <1>1 DEF Open
  <2>2. s[p] # "blank"
    BY DEF Open, Items
  <2>. QED  BY <2>1, <2>2, <1>1, <1>2
<1>. QED  BY <1>1, <1>2, <1>3 DEF Together

\* One line of data, consumed: the pieces and the last completion take it in.
LEMMA Takes ==
  ASSUME NEW s \in Seq(Symbols), NEW t, NEW f, NEW H, Absorbed(t, f, H, s),
         NEW p \in 1..Len(s), s[p] \in Items \ {"failed"},
         \A i \in H : i < p /\ ~Together(s, i, p) /\ ~Together(s, p, i),
         NEW t2, NEW f2,
         t2 = IF s[p] = "text" \/ (s[p] = "text_done" /\ t = <<>>) THEN Append(t, p) ELSE t,
         f2 = IF s[p] \in {"completed", "incomplete"}
              THEN [text |-> t, reason |-> ReasonOf(s[p])] ELSE f
  PROVE  Absorbed(t2, f2, H \cup {p}, s)
<1>. DEFINE G == H \cup {p}
<1>1. G \subseteq 1..Len(s) /\ \A i \in G : s[i] \in Items
  BY DEF Absorbed
<1>2. Clean(G, s)
  <2>1. \A i \in H : s[i] # "failed" /\ \A j \in H \ {i} : ~Together(s, i, j)
    BY DEF Absorbed, Clean
  <2>. QED  BY <2>1 DEF Clean
<1>3. p \in Nat /\ t \in Seq(Nat) /\ Gathered(t, H, s) /\ Len(t) \in Nat
  BY DEF Absorbed, Gathered
<1>4. Gathered(t2, G, s)
  <2>1. CASE s[p] = "text" \/ (s[p] = "text_done" /\ t = <<>>)
    <3>1. t2 = Append(t, p)
      BY <2>1
    <3>2. /\ t2 \in Seq(Nat) /\ Len(t2) = Len(t) + 1
          /\ \A k \in 1..Len(t) : t2[k] = t[k]
          /\ t2[Len(t) + 1] = p
      BY <3>1, <1>3, AppendProperties
    <3>3. 1..Len(t2) = 1..Len(t) \cup {Len(t) + 1}
      BY <3>2, <1>3
    <3>4. \A i, j \in 1..Len(t2) : i < j => t2[i] < t2[j]
      BY <3>2, <3>3, <1>3 DEF Gathered
    <3>5. \A i \in G : s[i] = "text" => \E k \in 1..Len(t2) : t2[k] = i
      <4>1. \A i \in H : s[i] = "text" => \E k \in 1..Len(t2) : t2[k] = i
        BY <3>2, <3>3, <1>3 DEF Gathered
      <4>2. \E k \in 1..Len(t2) : t2[k] = p
        BY <3>2, <3>3
      <4>. QED  BY <4>1, <4>2
    <3>6. t = <<>> => Len(t) = 0
      OBVIOUS
    <3>7. \A k \in 1..Len(t2) :
            t2[k] \in G /\ (s[t2[k]] = "text" \/ (k = 1 /\ s[t2[k]] = "text_done"))
      <4>1. \A k \in 1..Len(t) :
              t2[k] \in G /\ (s[t2[k]] = "text" \/ (k = 1 /\ s[t2[k]] = "text_done"))
        BY <3>2, <1>3 DEF Gathered
      <4>2. s[p] = "text" \/ (Len(t) + 1 = 1 /\ s[p] = "text_done")
        BY <2>1, <3>6
      <4>. QED  BY <4>1, <4>2, <3>2, <3>3
    <3>. HIDE DEF G
    <3>. QED  BY <3>2, <3>4, <3>5, <3>7, <1>3, SMTT(40) DEF Gathered
  <2>2. CASE ~(s[p] = "text" \/ (s[p] = "text_done" /\ t = <<>>))
    <3>1. t2 = t
      BY <2>2
    <3>2. s[p] = "text_done" => Len(t) > 0
      BY <2>2, <1>3, EmptySeq
    <3>. QED  BY <2>2, <3>1, <3>2, <1>3 DEF Gathered
  <2>. QED  BY <2>1, <2>2
<1>5. Completed(f2, G, s)
  <2>1. \A i \in H : i \in Nat /\ i < p
    BY <1>1
  <2>2. CASE s[p] \in {"completed", "incomplete"}
    <3>1. p \in Ends(G, s) /\ \A j \in Ends(G, s) : j <= p
      BY <2>1, <2>2, <1>3 DEF Ends
    <3>2. f2.text = t /\ f2.reason = ReasonOf(s[p])
      BY <2>2
    <3>3. UpTo(G, p) = G
      BY <2>1, <1>3 DEF UpTo
    <3>4. Gathered(t, G, s)
      BY <1>4, <2>2
    <3>. QED  BY <3>1, <3>2, <3>3, <3>4 DEF Completed
  <2>3. CASE s[p] \notin {"completed", "incomplete"}
    <3>1. f2 = f /\ Ends(G, s) = Ends(H, s)
      BY <2>3 DEF Ends
    <3>2. \A last \in Ends(H, s) : UpTo(G, last) = UpTo(H, last)
      BY <2>1, <1>3 DEF UpTo, Ends
    <3>3. Completed(f, H, s)
      BY DEF Absorbed
    <3>. QED  BY <3>1, <3>2, <3>3 DEF Completed
  <2>. QED  BY <2>2, <2>3
<1>. QED  BY <1>1, <1>2, <1>4, <1>5 DEF Absorbed


-----------------------------------------------------------------------------
(***************************************************************************)
(* Lemmas about the state.                                                 *)
(***************************************************************************)

HeardIn(s) == IF Last(s) = "end" THEN Closed(s) \cup Open(s) ELSE Closed(s)

\* Heard, in terms of the events that ended.
LEMMA HeardLinesAre ==
  ASSUME sent \in Seq(Symbols)
  PROVE  HeardLines = HeardIn(sent)
<1>1. DOMAIN sent = 1..Len(sent) /\ Len(sent) \in Nat
  OBVIOUS
<1>2. \A i \in 1..Len(sent) :
        sent[i] \in Items => (i \in Open(sent) <=> i \notin Closed(sent))
  BY DEF Open, Closed
<1>. QED  BY <1>1, <1>2 DEF HeardLines, Heard, HeardIn, Open, Closed

\* The same, of the next state.
LEMMA HeardLinesNext ==
  ASSUME sent' \in Seq(Symbols)
  PROVE  HeardLines' = HeardIn(sent')
<1>1. DOMAIN sent' = 1..Len(sent') /\ Len(sent') \in Nat
  OBVIOUS
<1>2. \A i \in 1..Len(sent') :
        sent'[i] \in Items => (i \in Open(sent') <=> i \notin Closed(sent'))
  BY DEF Open, Closed
<1>. QED  BY <1>1, <1>2 DEF HeardLines, Heard, HeardIn, Open, Closed

\* What is pending tells how many lines the event being read has.
LEMMA PendingTells ==
  ASSUME NEW p, NEW s \in Seq(Symbols), PendingOpen(p, s)
  PROVE  /\ p = <<>> => Open(s) = {}
         /\ Len(p) = 1 => Open(s) = {p[1]} /\ p[1] \in 1..Len(s)
         /\ p # <<>> /\ Len(p) # 1 =>
              \E i, j \in Open(s) : i # j /\ Together(s, i, j)
<1>1. p \in Seq(Nat) /\ Len(p) \in Nat
  BY DEF PendingOpen
<1>2. p = <<>> => Open(s) = {}
  BY DEF PendingOpen
<1>3. Len(p) = 1 => Open(s) = {p[1]} /\ p[1] \in 1..Len(s)
  BY <1>1 DEF PendingOpen, Open
<1>4. ASSUME p # <<>>, Len(p) # 1
      PROVE  \E i, j \in Open(s) : i # j /\ Together(s, i, j)
  <2>1. Len(p) > 1
    <3>1. Len(p) \in Nat \ {0}
      BY <1>1, <1>4, EmptySeq, Zenon
    <3>2. Len(p) # 1
      BY <1>4, Zenon
    <3>3. \A n \in Nat \ {0} : n # 1 => n > 1
      OBVIOUS
    <3>. QED  BY <3>1, <3>2, <3>3, Zenon
  <2>2. 1 \in 1..Len(p) /\ 2 \in 1..Len(p)
    BY <1>1, <2>1
  <2>3. p[1] \in Open(s) /\ p[2] \in Open(s) /\ p[1] < p[2] /\ p[1] \in Nat /\ p[2] \in Nat
    BY <2>2, <1>1 DEF PendingOpen
  <2>4. Together(s, p[1], p[2])
    <3>1. \A k \in 1..Len(s) : p[1] < k => s[k] # "blank"
      BY <2>3 DEF Open
    <3>. QED  BY <2>3, <3>1 DEF Together
  <2>. QED  BY <2>3, <2>4
<1>. QED  BY <1>2, <1>3, <1>4

\* An error is what the client is answered when the upstream did not end in order,
\* completed nothing, or sent an event that cannot be used.
LEMMA ErrorWhole ==
  ASSUME sent' \in Seq(Symbols), result'.kind = "error",
         \/ Last(sent') \notin {"end", "end_in_comment"}
         \/ Ends(HeardIn(sent'), sent') = {}
         \/ \E i \in HeardIn(sent') : sent'[i] = "failed"
         \/ \E i, j \in HeardIn(sent') : i # j /\ Together(sent', i, j)
  PROVE  WholeAnswer'
<1>. DEFINE H == {i \in DOMAIN sent' : Heard(i)'}
            E == {i \in H : sent'[i] \in {"completed", "incomplete"}}
<1>1. H = HeardIn(sent')
  BY HeardLinesNext DEF HeardLines
<1>2. E = Ends(HeardIn(sent'), sent')
  BY <1>1 DEF Ends
<1>3. \A i \in H : sent'[i] \in Items
  BY DEF Heard
<1>4. \A i, j \in H : Together(sent', i, j) => SameEvent(i, j)'
  <2>1. DOMAIN sent' = 1..Len(sent')
    OBVIOUS
  <2>. QED  BY <1>3, <2>1 DEF SameEvent, Together
<1>5. ~(/\ E # {} /\ Last(sent') \in {"end", "end_in_comment"}
        /\ \A i \in H : sent'[i] # "failed" /\ \A j \in H \ {i} : ~SameEvent(i, j)')
  BY <1>1, <1>2, <1>4
<1>6. result'.kind # "answer"
  OBVIOUS
<1>. QED  BY <1>5, <1>6 DEF WholeAnswer

\* The event that a blank line, or the end, completes is taken in.
LEMMA Delivered ==
  ASSUME sent \in Seq(Symbols), NEW s2, NEW x, Grown(sent, s2, x),
         PendingOpen(pending, sent), Absorbed(text, final, Closed(sent), sent),
         Item # "failed", Consume(Item)
  PROVE  Absorbed(text', final', Closed(sent) \cup Open(sent), s2)
<1>. DEFINE p == pending[1]
<1>1. Len(pending) = 1 /\ Item = sent[p]
  BY DEF Item
<1>2. Open(sent) = {p} /\ p \in 1..Len(sent)
  BY <1>1, PendingTells
<1>3. sent[p] \in Items \ {"failed"}
  BY <1>1, <1>2 DEF Open
<1>4. \A i \in Closed(sent) : i < p /\ ~Together(sent, i, p) /\ ~Together(sent, p, i)
  BY <1>2, OpenBehind
<1>5. text' = IF sent[p] = "text" \/ (sent[p] = "text_done" /\ text = <<>>)
              THEN Append(text, p) ELSE text
  BY <1>1 DEF Consume, Grows
<1>6. final' = IF sent[p] \in {"completed", "incomplete"}
               THEN [text |-> text, reason |-> ReasonOf(sent[p])] ELSE final
  BY <1>1 DEF Consume, ReasonOf
<1>7. Absorbed(text', final', Closed(sent) \cup {p}, sent)
  <2>. HIDE DEF p
  <2>. QED  BY <1>2, <1>3, <1>4, <1>5, <1>6, Takes
<1>. QED  BY <1>2, <1>7, AbsorbedLater


-----------------------------------------------------------------------------
(***************************************************************************)
(* The steps.                                                              *)
(***************************************************************************)

\* What the actions append.
LEMMA SymbolsSent ==
  /\ Lines \subseteq Symbols
  /\ {"end", "end_in_comment", "end_in_data", "break", "completed", "incomplete", "other"}
       \subseteq Symbols
  BY DEF Symbols, Lines, Items

\* The bookkeeping of a step keeps its types.
LEMMA AnswerTypesKept ==
  AnswerTypes /\ [AnswerNext]_answerVars => AnswerTypes'
<1>. SUFFICES ASSUME AnswerTypes, [AnswerNext]_answerVars PROVE AnswerTypes'
  OBVIOUS
<1>1. \A x \in Symbols : Append(sent, x) \in Seq(Symbols)
  BY AppendGrows, Zenon DEF AnswerTypes, Grown
<1>2. Forget => document' \in [endpoint : Endpoints, instructions : BOOLEAN, messages : Messages]
  <2>1. <<>> \in Messages
    BY DEF Messages
  <2>. QED  BY <2>1 DEF AnswerTypes, Forget
<1>3. CASE Parse
  BY <1>3, SymbolsSent DEF Parse, AnswerTypes, asked, Return
<1>4. CASE BodyUnread
  BY <1>1, <1>4, SymbolsSent DEF BodyUnread, AnswerTypes, asked, Return
<1>5. CASE CannotSend
  BY <1>2, <1>5 DEF CannotSend, AnswerTypes
<1>6. CASE Encode
  BY <1>6 DEF Encode, AnswerTypes
<1>7. CASE SendFails
  BY <1>2, <1>7 DEF SendFails, AnswerTypes
<1>8. CASE Responds
  BY <1>2, <1>8 DEF Responds, AnswerTypes
<1>9. CASE Rejected
  BY <1>1, <1>9, SymbolsSent DEF Rejected, AnswerTypes, asked, Return
<1>10. CASE RejectionBreaks
  BY <1>1, <1>10, SymbolsSent DEF RejectionBreaks, AnswerTypes, asked, Return
<1>11. CASE DocumentArrives
  <2>1. \A x, y \in Symbols : <<x, y>> \in Seq(Symbols) /\ <<x>> \in Seq(Symbols)
    OBVIOUS
  <2>2. sent' \in Seq(Symbols)
    BY <2>1, <1>11, SymbolsSent DEF DocumentArrives
  <2>. QED  BY <2>2, <1>11 DEF DocumentArrives, AnswerTypes, asked
<1>12. ASSUME NEW line \in Lines, LineArrives(line) PROVE AnswerTypes'
  BY <1>1, <1>12, SymbolsSent DEF LineArrives, AnswerTypes, asked
<1>13. CASE StreamEnds
  BY <1>1, <1>13, SymbolsSent DEF StreamEnds, AnswerTypes, asked, Return
<1>14. CASE StreamEndsInData
  BY <1>1, <1>14, SymbolsSent DEF StreamEndsInData, AnswerTypes, asked, Return
<1>15. CASE Finish
  BY <1>15 DEF Finish, AnswerTypes, asked
<1>16. CASE StreamBreaks
  BY <1>1, <1>16, SymbolsSent DEF StreamBreaks, AnswerTypes, asked, Return
<1>17. CASE UNCHANGED answerVars
  BY <1>17 DEF answerVars, AnswerTypes
<1>. QED  BY <1>3, <1>4, <1>5, <1>6, <1>7, <1>8, <1>9, <1>10, <1>11, <1>12, <1>13, <1>14,
             <1>15, <1>16, <1>17 DEF AnswerNext

\* What a rejection says, and the window it asks for.
Word(r) == IF r.object.code # "" THEN r.object.code ELSE r.object.type

Limited(r) == IF Word(r) \in PayloadCodes THEN Word(r) \in ExhaustionCodes ELSE r.status = 429

WindowFor(r) ==
  CASE ~Limited(r) -> NoWindow
    [] Limited(r) /\ r.header.form = "seconds" ->
         IF r.header.value >= 0 THEN Now + r.header.value ELSE Now
    [] Limited(r) /\ r.header.form = "date" -> r.header.value
    [] OTHER -> Now + Backoff(1)

Understood(r, err) ==
  /\ \A k \in Pairs : AfterFailure([p \in {} |-> Unseen], k, err, Now)[k].until = WindowFor(r)
  /\ Word(r) \notin PayloadCodes =>
       StatusForErrorCode(ProxyCode(err)) =
         IF r.status \in {400, 403, 413, 422, 429} THEN r.status ELSE 502

\* The codes of the proxy carry both through, to the tracker and to the client.
LEMMA RejectionClassified ==
  ASSUME NEW r \in Responses
  PROVE  Understood(r, ClassifyHTTPStatus(r, Now))
<1>. DEFINE word    == Word(r)
            limited == Limited(r)
            err     == ClassifyHTTPStatus(r, Now)
            none    == [p \in {} |-> Unseen]
            code    == IF word \in PayloadCodes THEN word ELSE CodeFromStatus(r.status)
<1>1. r.status \in Nat /\ r.header \in Headers /\ r.header.value \in Int /\ Now \in Int
  BY BufferedAssumption DEF Headers
<1>2. CodeFromPayload(r.object) = IF word \in PayloadCodes THEN word ELSE NoCode
  BY DEF CodeFromPayload, Word
<1>3. NoCode \notin PayloadCodes
  BY DEF NoCode, PayloadCodes, InvalidRequest, UnsupportedModality, InputTooLarge, RateLimited,
         Exhausted, AuthFailed, PolicyDenied
<1>4. err.code = code /\ err.retryAfter = ParseRetryAfter(r.header, Now)
  BY <1>2, <1>3 DEF ClassifyHTTPStatus, Error
<1>5. CodeFromStatus(r.status) # NoCode
  BY <1>1 DEF CodeFromStatus, NoCode, Upstream, InvalidRequest, UnsupportedModality,
     InputTooLarge, RateLimited, AuthFailed, PolicyDenied
<1>6. FailureCode(err) = code
  BY <1>3, <1>4, <1>5 DEF FailureCode
<1>7. CodeFromStatus(r.status) \in ExhaustionCodes <=> r.status = 429
  BY <1>1 DEF CodeFromStatus, ExhaustionCodes, Exhausted, Upstream, InvalidRequest,
     UnsupportedModality, InputTooLarge, RateLimited, AuthFailed, PolicyDenied
<1>8. code \in ExhaustionCodes <=> limited
  BY <1>7 DEF Limited
<1>9. \A k \in Pairs : Get(none, k).failures + 1 = 1
  BY DEF Get, Unseen
<1>10. \A k \in Pairs : AfterFailure(none, k, err, Now)[k].until = ExhaustedUntil(code, 1, err, Now)
  <2>. HIDE DEF err, code, none
  <2>. QED  BY <1>6, <1>9 DEF AfterFailure, Put
<1>11. ExhaustedUntil(code, 1, err, Now) = WindowFor(r)
  <2>. HIDE DEF err, code
  <2>1. r.header.form = "seconds" =>
          /\ ParseRetryAfter(r.header, Now) =
               IF r.header.value >= 0 THEN Now + r.header.value ELSE Now
          /\ ParseRetryAfter(r.header, Now) \in Int
    BY <1>1 DEF ParseRetryAfter
  <2>2. r.header.form = "date" =>
          /\ ParseRetryAfter(r.header, Now) = r.header.value
          /\ ParseRetryAfter(r.header, Now) \in Int
    BY <1>1 DEF ParseRetryAfter
  <2>3. r.header.form \notin {"seconds", "date"} => ParseRetryAfter(r.header, Now) = NoWindow
    BY DEF ParseRetryAfter
  <2>. QED  BY <1>4, <1>8, <2>1, <2>2, <2>3, NoWindowIsNoInstant DEF ExhaustedUntil, WindowFor
<1>12. ASSUME word \notin PayloadCodes
       PROVE  StatusForErrorCode(ProxyCode(err)) =
                IF r.status \in {400, 403, 413, 422, 429} THEN r.status ELSE 502
  <2>1. err.code = CodeFromStatus(r.status)
    BY <1>4, <1>12
  <2>. HIDE DEF err
  <2>. QED
    BY <2>1, <1>1 DEF ProxyCode, StatusForErrorCode, CodeFromStatus, PayloadCodes, Exhausted,
       Upstream, InvalidRequest, UnsupportedModality, InputTooLarge, RateLimited, AuthFailed,
       PolicyDenied
<1>13. ASSUME NEW k \in Pairs
       PROVE  AfterFailure([p \in {} |-> Unseen], k, ClassifyHTTPStatus(r, Now), Now)[k].until
                = WindowFor(r)
  <2>. HIDE DEF code
  <2>. QED  BY <1>10, <1>11, Zenon
<1>. QED  BY <1>12, <1>13, Zenon DEF Understood

\* Until the upstream answers nothing has come from it.
LEMMA UntouchedKept ==
  Untouched /\ Asking /\ [AnswerNext]_answerVars => Untouched' /\ Asking'
<1>. SUFFICES ASSUME Untouched, Asking, [AnswerNext]_answerVars PROVE Untouched' /\ Asking'
  OBVIOUS
<1>. USE DEF Untouched, Asking, Streaming, Codex, OK
<1>1. CASE Parse
  BY <1>1 DEF Parse, asked, Return
<1>2. CASE BodyUnread
  BY <1>2 DEF BodyUnread, Return
<1>3. CASE CannotSend
  BY <1>3 DEF CannotSend, Return
<1>4. CASE Encode
  BY <1>4 DEF Encode, Return
<1>5. CASE SendFails
  BY <1>5 DEF SendFails, Return
<1>6. CASE Responds
  BY <1>6 DEF Responds
<1>7. CASE Rejected
  BY <1>7 DEF Rejected, Return
<1>8. CASE RejectionBreaks
  BY <1>8 DEF RejectionBreaks, Return
<1>9. CASE DocumentArrives
  BY <1>9 DEF DocumentArrives, Return
<1>10. ASSUME NEW line \in Lines, LineArrives(line) PROVE Untouched' /\ Asking'
  BY <1>10 DEF LineArrives, Deliver, Return, asked
<1>11. CASE StreamEnds
  BY <1>11 DEF StreamEnds, Deliver, Return, asked
<1>12. CASE StreamEndsInData
  BY <1>12 DEF StreamEndsInData, Return
<1>13. CASE Finish
  BY <1>13 DEF Finish, Return
<1>14. CASE StreamBreaks
  BY <1>14 DEF StreamBreaks, Return
<1>15. CASE UNCHANGED answerVars
  BY <1>15 DEF answerVars
<1>. QED  BY <1>1, <1>2, <1>3, <1>4, <1>5, <1>6, <1>7, <1>8, <1>9, <1>10, <1>11, <1>12, <1>13,
             <1>14, <1>15 DEF AnswerNext

\* Only a rejection with its explanation ends like one.
LEMMA UnderstoodKept ==
  AnswerInv /\ [AnswerNext]_answerVars => RejectionUnderstood'
<1>. SUFFICES ASSUME AnswerInv, [AnswerNext]_answerVars PROVE RejectionUnderstood'
  OBVIOUS
<1>a. pc = "returned" /\ ~OK(response) /\ sent = <<"end">> => Understood(response, result.error)
  BY Zenon DEF AnswerInv, RejectionUnderstood, Understood, Word, Limited, WindowFor
<1>b. (pc' = "returned" /\ ~OK(response') /\ sent' = <<"end">>
         => Understood(response', result'.error))
        => RejectionUnderstood'
  BY Zenon DEF RejectionUnderstood, Understood, Word, Limited, WindowFor
<1>1. CASE Rejected
  <2>1. /\ response \in Responses /\ response' = response
        /\ result'.error = ClassifyHTTPStatus(response, Now)
    BY <1>1 DEF Rejected, AnswerInv, Asking, Return, Failed
  <2>. QED  BY <2>1, <1>b, RejectionClassified, Zenon
<1>2. CASE UNCHANGED answerVars
  BY <1>2, <1>a, <1>b DEF answerVars, OK
<1>3. CASE ~Rejected /\ ~UNCHANGED answerVars
  <2>1. ~(pc' = "returned" /\ ~OK(response') /\ sent' = <<"end">>)
    <3>. USE DEF AnswerInv, Untouched, Return
    <3>1. Append(<<>>, "break") # <<"end">>
      OBVIOUS
    <3>2. <<>> # <<"end">>
      OBVIOUS
    <3>3. CASE Parse
      BY <1>3, <3>2, <3>3 DEF Parse
    <3>4. CASE BodyUnread
      BY <1>3, <3>1, <3>4 DEF BodyUnread
    <3>5. CASE CannotSend
      BY <1>3, <3>2, <3>5 DEF CannotSend
    <3>6. CASE Encode
      BY <1>3, <3>2, <3>6 DEF Encode
    <3>7. CASE SendFails
      BY <1>3, <3>2, <3>7 DEF SendFails
    <3>8. CASE Responds
      BY <3>8 DEF Responds
    <3>9. CASE RejectionBreaks
      BY <3>1, <3>9 DEF RejectionBreaks, Streaming
    <3>10. CASE DocumentArrives
      BY <3>10 DEF DocumentArrives
    <3>11. ASSUME NEW line \in Lines, LineArrives(line)
           PROVE  ~(pc' = "returned" /\ ~OK(response') /\ sent' = <<"end">>)
      BY <3>11 DEF LineArrives, Streaming
    <3>12. CASE StreamEnds
      BY <3>12 DEF StreamEnds, Streaming
    <3>13. CASE StreamEndsInData
      BY <3>13 DEF StreamEndsInData, Streaming
    <3>14. CASE Finish
      BY <3>14 DEF Finish, Ended
    <3>15. CASE StreamBreaks
      BY <3>15 DEF StreamBreaks, Streaming
    <3>. QED  BY <1>3, <3>3, <3>4, <3>5, <3>6, <3>7, <3>8, <3>9, <3>10, <3>11, <3>12, <3>13,
                 <3>14, <3>15 DEF AnswerNext
  <2>. QED  BY <2>1, <1>b
<1>. QED  BY <1>1, <1>2, <1>3


\* What is heard when the stream ends with x.
LEMMA HeardAtEnd ==
  ASSUME NEW s \in Seq(Symbols), NEW s2,
         NEW x \in {"end", "end_in_comment", "end_in_data", "break"}, Grown(s, s2, x)
  PROVE  HeardIn(s2) = IF x = "end" THEN Closed(s) \cup Open(s) ELSE Closed(s)
<1>1. x \in Symbols \ (Items \cup {"blank"})
  BY DEF Symbols, Items
<1>2. Closed(s2) = Closed(s) /\ Open(s2) = Open(s)
  BY <1>1, OthersSkipped
<1>. QED  BY <1>2 DEF HeardIn, Grown

\* An event that cannot be used ends the attempt.
LEMMA UnusableEnds ==
  ASSUME sent \in Seq(Symbols), PendingOpen(pending, sent), pending # <<>>, Item = "failed",
         NEW s2, NEW x, Grown(sent, s2, x)
  PROVE  \/ \E i \in Open(sent) : s2[i] = "failed"
         \/ \E i, j \in Open(sent) : i # j /\ Together(s2, i, j)
<1>1. \A i \in Open(sent) : i \in 1..Len(sent) /\ s2[i] = sent[i]
  BY DEF Open, Grown
<1>2. CASE Len(pending) = 1
  BY <1>1, <1>2, PendingTells DEF Item
<1>3. CASE Len(pending) # 1
  <2>1. PICK i, j \in Open(sent) : i # j /\ Together(sent, i, j)
    BY <1>3, PendingTells
  <2>2. 1..Len(s2) = 1..Len(sent) \cup {Len(sent) + 1} /\ Len(sent) \in Nat
    BY DEF Grown
  <2>3. Together(s2, i, j)
    <3>1. i \in 1..Len(sent) /\ j \in 1..Len(sent)
      BY <1>1
    <3>. QED  BY <2>1, <2>2, <3>1 DEF Together, Grown
  <2>. QED  BY <2>1, <2>3
<1>. QED  BY <1>2, <1>3

\* A line of the codex upstream.
LEMMA LineKept ==
  ASSUME AnswerInv, NEW line \in Lines, LineArrives(line), AnswerTypes'
  PROVE  Gathering' /\ Ended' /\ WholeAnswer'
<1>1. /\ sent \in Seq(Symbols) /\ sent' = Append(sent, line) /\ line \in Symbols
      /\ pc = "reading" /\ UNCHANGED <<adapter, document, response>>
  BY SymbolsSent DEF AnswerInv, AnswerTypes, LineArrives, Streaming, asked
<1>2. Grown(sent, sent', line)
  BY <1>1, AppendGrows
<1>3. PendingOpen(pending, sent) /\ Absorbed(text, final, Closed(sent), sent)
  BY DEF AnswerInv, Gathering, LineArrives
<1>4. CASE line = "blank" /\ pending # <<>>
  <2>1. Deliver("reading")
    BY <1>4 DEF LineArrives
  <2>2. CASE Item = "failed"
    <3>1. pc' = "returned" /\ result'.kind = "error"
      BY <2>1, <2>2 DEF Deliver, Return, Failed
    <3>2. Last(sent') \notin {"end", "end_in_comment"}
      BY <1>2, <1>4 DEF Grown
    <3>3. WholeAnswer'
      BY <3>1, <3>2, ErrorWhole DEF AnswerTypes
    <3>. QED  BY <3>1, <3>3 DEF Gathering, Ended, Streaming
  <2>3. CASE Item # "failed"
    <3>1. pc' = "reading" /\ Consume(Item) /\ pending' = <<>>
      BY <2>1, <2>3 DEF Deliver
    <3>2. Absorbed(text', final', Closed(sent) \cup Open(sent), sent')
      BY <1>1, <1>2, <1>3, <2>3, <3>1, Delivered
    <3>3. Closed(sent') = Closed(sent) \cup Open(sent) /\ Open(sent') = {}
      BY <1>1, <1>2, <1>4, BlankCloses
    <3>4. PendingOpen(<<>>, sent')
      BY <3>3 DEF PendingOpen
    <3>. QED  BY <3>1, <3>2, <3>3, <3>4 DEF Gathering, Ended, WholeAnswer
  <2>. QED  BY <2>2, <2>3
<1>5. CASE ~(line = "blank" /\ pending # <<>>)
  <2>1. /\ pending' = IF line \in Items THEN Append(pending, Len(sent) + 1) ELSE pending
        /\ pc' = pc /\ text' = text /\ final' = final
    BY <1>5 DEF LineArrives
  <2>2. Absorbed(text, final, Closed(sent), sent')
    BY <1>1, <1>2, <1>3, AbsorbedLater
  <2>3. CASE line \in Items
    <3>1. Closed(sent') = Closed(sent) /\ Open(sent') = Open(sent) \cup {Len(sent) + 1}
      BY <1>1, <1>2, <2>3, DataOpens
    <3>2. PendingOpen(pending', sent')
      <4>. DEFINE n == Len(sent) + 1
      <4>1. n \in Nat /\ pending \in Seq(Nat) /\ Len(pending) \in Nat
        BY <1>1, <1>3 DEF PendingOpen
      <4>2. \A a \in 1..Len(pending) : pending[a] < n
        BY <1>1, <1>3 DEF PendingOpen, Open
      <4>3. pending' = Append(pending, n)
        BY <2>1, <2>3
      <4>. HIDE DEF n
      <4>4. /\ pending' \in Seq(Nat) /\ Len(pending') = Len(pending) + 1
            /\ \A a \in 1..Len(pending) : pending'[a] = pending[a]
            /\ pending'[Len(pending) + 1] = n
        BY <4>1, <4>3, AppendProperties
      <4>5. 1..Len(pending') = 1..Len(pending) \cup {Len(pending) + 1}
        BY <4>1, <4>4
      <4>6. \A a, b \in 1..Len(pending') : a < b => pending'[a] < pending'[b]
        <5>1. \A a, b \in 1..Len(pending) : a < b => pending'[a] < pending'[b]
          BY <1>3, <4>4 DEF PendingOpen
        <5>2. \A a \in 1..Len(pending) : pending'[a] < pending'[Len(pending) + 1]
          BY <4>2, <4>4
        <5>. QED  BY <4>1, <4>5, <5>1, <5>2, SMTT(40)
      <4>7. Open(sent') = Open(sent) \cup {n}
        BY <3>1 DEF n
      <4>8. \A a \in 1..Len(pending') : pending'[a] \in Open(sent')
        BY <1>3, <4>4, <4>5, <4>7 DEF PendingOpen
      <4>9. \A i \in Open(sent') : \E a \in 1..Len(pending') : pending'[a] = i
        BY <1>3, <4>4, <4>5, <4>7 DEF PendingOpen
      <4>. QED  BY <4>4, <4>6, <4>8, <4>9 DEF PendingOpen
    <3>. QED  BY <1>1, <2>1, <2>2, <3>1, <3>2 DEF Gathering, Ended, WholeAnswer
  <2>4. CASE line \notin Items
    <3>1. Closed(sent') = Closed(sent) /\ Open(sent') = Open(sent)
      <4>1. CASE line = "blank"
        <5>1. Open(sent) = {}
          BY <1>1, <1>3, <1>5, <4>1, PendingTells
        <5>. QED  BY <1>1, <1>2, <4>1, <5>1, BlankCloses, ZenonT(40)
      <4>2. CASE line # "blank"
        BY <1>1, <1>2, <2>4, <4>2, OthersSkipped
      <4>. QED  BY <4>1, <4>2
    <3>2. PendingOpen(pending', sent')
      BY <1>3, <2>1, <2>4, <3>1 DEF PendingOpen
    <3>. QED  BY <1>1, <2>1, <2>2, <3>1, <3>2 DEF Gathering, Ended, WholeAnswer
  <2>. QED  BY <2>3, <2>4
<1>. QED  BY <1>4, <1>5

\* The end of the stream of the codex upstream.
LEMMA EndKept ==
  ASSUME AnswerInv, StreamEnds, AnswerTypes'
  PROVE  Gathering' /\ Ended' /\ WholeAnswer'
<1>1. PICK how \in {"end", "end_in_comment"} :
        /\ sent' = Append(sent, how)
        /\ IF how = "end" /\ pending # <<>>
           THEN Deliver("ended")
           ELSE pc' = "ended" /\ pending' = <<>> /\ UNCHANGED <<result, text, final>>
  BY DEF StreamEnds
<1>2. /\ sent \in Seq(Symbols) /\ how \in Symbols
      /\ Codex /\ OK(response) /\ UNCHANGED <<adapter, document, response>>
  BY SymbolsSent DEF AnswerInv, AnswerTypes, StreamEnds, Streaming, asked
<1>3. Grown(sent, sent', how)
  BY <1>1, <1>2, AppendGrows
<1>4. PendingOpen(pending, sent) /\ Absorbed(text, final, Closed(sent), sent)
  BY DEF AnswerInv, Gathering, StreamEnds
<1>5. HeardLines' = IF how = "end" THEN Closed(sent) \cup Open(sent) ELSE Closed(sent)
  BY <1>2, <1>3, HeardAtEnd, HeardLinesNext DEF AnswerTypes
<1>6. sent' # <<>> /\ Last(sent') = how
  BY <1>1, <1>2, <1>3 DEF Grown
<1>7. CASE how = "end" /\ pending # <<>> /\ Item = "failed"
  <2>1. pc' = "returned" /\ result'.kind = "error"
    BY <1>1, <1>7 DEF Deliver, Return, Failed
  <2>2. HeardIn(sent') = Closed(sent) \cup Open(sent)
    BY <1>2, <1>3, <1>7, HeardAtEnd
  <2>3. WholeAnswer'
    BY <1>2, <1>3, <1>4, <1>7, <2>1, <2>2, UnusableEnds, ErrorWhole DEF AnswerTypes
  <2>. QED  BY <2>1, <2>3 DEF Gathering, Ended, Streaming
<1>8. CASE how = "end" /\ pending # <<>> /\ Item # "failed"
  <2>1. pc' = "ended" /\ Consume(Item)
    BY <1>1, <1>8 DEF Deliver
  <2>2. Absorbed(text', final', HeardLines', sent')
    BY <1>2, <1>3, <1>4, <1>5, <1>8, <2>1, Delivered
  <2>. QED  BY <1>1, <1>2, <1>6, <2>1, <2>2 DEF Gathering, Ended, WholeAnswer, Streaming, Codex
<1>9. CASE ~(how = "end" /\ pending # <<>>)
  <2>1. pc' = "ended" /\ text' = text /\ final' = final
    BY <1>1, <1>9
  <2>2. HeardLines' = Closed(sent)
    BY <1>2, <1>4, <1>5, <1>9, PendingTells
  <2>3. Absorbed(text', final', HeardLines', sent')
    BY <1>2, <1>3, <1>4, <2>1, <2>2, AbsorbedLater
  <2>. QED  BY <1>1, <1>2, <1>6, <2>1, <2>3 DEF Gathering, Ended, WholeAnswer, Streaming, Codex
<1>. QED  BY <1>7, <1>8, <1>9


\* An answer that gathers what was heard up to the last completion is the whole one.
LEMMA AnswerIsWhole ==
  ASSUME AnswerTypes', NEW t, NEW reason, NEW last \in Ends(HeardLines', sent'),
         result' = Answer(t, reason), document' = document,
         HeardLines' \subseteq Nat,
         \A j \in Ends(HeardLines', sent') : j <= last,
         reason = ReasonOf(sent'[last]),
         Clean(HeardLines', sent'),
         Last(sent') \in {"end", "end_in_comment"},
         Codex' => Gathered(t, UpTo(HeardLines', last), sent')
  PROVE  WholeAnswer'
<1>. DEFINE H == {i \in DOMAIN sent' : Heard(i)'}
            E == {i \in H : sent'[i] \in {"completed", "incomplete"}}
            top == CHOOSE i \in E : \A j \in E : j <= i
            pieces == {i \in H : i <= top /\ sent'[i] = "text"}
            wholes == {i \in H : i <= top /\ sent'[i] = "text_done"}
            shown  == result'.shown
<1>1. H = HeardLines'
  BY DEF HeardLines
<1>2. E = Ends(HeardLines', sent')
  BY <1>1 DEF Ends
<1>3. top = last
  <2>1. top \in E /\ \A j \in E : j <= top
    BY <1>2
  <2>2. last \in E /\ \A j \in E : j <= last
    BY <1>2
  <2>3. top \in Nat /\ last \in Nat
    BY <2>1, <2>2, <1>1
  <2>. HIDE DEF top, E
  <2>. QED  BY <2>1, <2>2, <2>3
<1>4. \A i, j \in H : SameEvent(i, j)' => Together(sent', i, j)
  <2>1. DOMAIN sent' = 1..Len(sent')
    BY DEF AnswerTypes
  <2>. QED  BY <2>1 DEF SameEvent, Together
<1>5. result'.kind = "answer"
  BY DEF Answer
<1>6. /\ E # {} /\ Last(sent') \in {"end", "end_in_comment"}
      /\ \A i \in H : sent'[i] # "failed" /\ \A j \in H \ {i} : ~SameEvent(i, j)'
  BY <1>1, <1>2, <1>4 DEF Clean
<1>7. /\ shown.text = t
      /\ shown.verdict = IF document.endpoint = "responses" THEN StatusForFinishReason(reason)
                         ELSE reason
  BY DEF Answer, ClientAnswer
<1>8. sent'[top] \in {"completed", "incomplete"}
  BY <1>2, <1>3 DEF Ends
<1>9. document'.endpoint \in Endpoints
  BY DEF AnswerTypes
<1>10. shown.verdict \in {"length", "incomplete"} <=> sent'[top] = "incomplete"
  <2>. HIDE DEF top, shown
  <2>. QED  BY <1>3, <1>7, <1>8 DEF ReasonOf, StatusForFinishReason
<1>11. shown.verdict \in FinishReasons <=> document'.endpoint = "chat"
  <2>. HIDE DEF top, shown
  <2>. QED
    BY <1>3, <1>7, <1>8, <1>9 DEF ReasonOf, StatusForFinishReason, FinishReasons, Endpoints
<1>12. ASSUME Codex'
       PROVE  /\ \A i, j \in DOMAIN shown.text : i < j => shown.text[i] < shown.text[j]
              /\ pieces \subseteq Range(shown.text)
              /\ \A i \in DOMAIN shown.text :
                   \/ shown.text[i] \in pieces
                   \/ i = 1 /\ shown.text[i] \in wholes
              /\ wholes # {} => shown.text # <<>>
  <2>1. Gathered(t, UpTo(H, last), sent')
    BY <1>1, <1>12
  <2>2. DOMAIN t = 1..Len(t) /\ t \in Seq(Nat)
    BY <2>1 DEF Gathered
  <2>3. pieces = {i \in UpTo(H, last) : sent'[i] = "text"}
    BY <1>3 DEF UpTo
  <2>4. wholes = {i \in UpTo(H, last) : sent'[i] = "text_done"}
    BY <1>3 DEF UpTo
  <2>. HIDE DEF H, pieces, wholes, shown
  <2>5. pieces \subseteq Range(t)
    BY <2>1, <2>2, <2>3 DEF Gathered, Range
  <2>6. wholes # {} => t # <<>>
    <3>1. wholes # {} => Len(t) > 0
      BY <2>1, <2>4 DEF Gathered
    <3>. QED  BY <3>1, EmptySeq
  <2>7. \A i \in DOMAIN t : t[i] \in pieces \/ (i = 1 /\ t[i] \in wholes)
    BY <2>1, <2>2, <2>3, <2>4 DEF Gathered
  <2>8. \A i, j \in DOMAIN t : i < j => t[i] < t[j]
    BY <2>1, <2>2 DEF Gathered
  <2>. QED  BY <1>7, <2>5, <2>6, <2>7, <2>8
<1>. HIDE DEF H
<1>. QED  BY <1>5, <1>6, <1>10, <1>11, <1>12, Zenon DEF WholeAnswer, H

\* One document.
LEMMA DocumentWhole ==
  ASSUME AnswerInv, DocumentArrives, AnswerTypes'
  PROVE  WholeAnswer'
<1>1. ~Codex' /\ document' = document
  BY DEF DocumentArrives, asked, Codex
<1>2. CASE \E item \in {"completed", "incomplete"} :
             /\ Return(Answer(<<1>>, IF item = "incomplete" THEN "length" ELSE "stop"))
             /\ sent' = <<item, "end">>
  <2>1. PICK item \in {"completed", "incomplete"} :
             /\ Return(Answer(<<1>>, IF item = "incomplete" THEN "length" ELSE "stop"))
             /\ sent' = <<item, "end">>
    BY <1>2
  <2>2. Len(sent') = 2 /\ sent'[1] = item /\ sent'[2] = "end" /\ Last(sent') = "end"
    BY <2>1 DEF Last
  <2>3. HeardLines' = {1}
    <3>1. item \in Items /\ "end" \notin Items
      BY DEF Items
    <3>. QED  BY <2>2, <3>1, HeardLinesNext DEF AnswerTypes, HeardIn, Open, Closed
  <2>4. 1 \in Ends(HeardLines', sent') /\ \A j \in Ends(HeardLines', sent') : j <= 1
    BY <2>2, <2>3 DEF Ends
  <2>5. Clean(HeardLines', sent')
    BY <2>2, <2>3 DEF Clean
  <2>6. result' = Answer(<<1>>, ReasonOf(sent'[1]))
    BY <2>1, <2>2 DEF Return, ReasonOf
  <2>. QED  BY <1>1, <2>2, <2>3, <2>4, <2>5, <2>6, AnswerIsWhole
<1>3. CASE Return(Failed(LocalError(NoCode))) /\ sent' \in {<<"other", "end">>, <<"break">>}
  <2>1. result'.kind = "error"
    BY <1>3 DEF Return, Failed
  <2>2. CASE sent' = <<"break">>
    <3>1. Last(sent') = "break"
      BY <2>2 DEF Last
    <3>. QED  BY <2>1, <3>1, ErrorWhole DEF AnswerTypes
  <2>3. CASE sent' = <<"other", "end">>
    <3>1. \A i \in 1..Len(sent') : sent'[i] \notin {"completed", "incomplete"}
      BY <2>3
    <3>2. HeardIn(sent') \subseteq 1..Len(sent')
      BY DEF HeardIn, Open, Closed
    <3>3. Ends(HeardIn(sent'), sent') = {}
      BY <3>1, <3>2 DEF Ends
    <3>. QED  BY <2>1, <3>3, ErrorWhole DEF AnswerTypes
  <2>. QED  BY <1>3, <2>2, <2>3
<1>. QED  BY <1>2, <1>3 DEF DocumentArrives

\* The end of the codex upstream's stream is turned into an answer.
LEMMA FinishWhole ==
  ASSUME AnswerInv, Finish, AnswerTypes'
  PROVE  WholeAnswer'
<1>1. /\ Last(sent) \in {"end", "end_in_comment"} /\ Absorbed(text, final, HeardLines, sent)
      /\ sent' = sent /\ document' = document /\ sent \in Seq(Symbols)
  BY DEF AnswerInv, AnswerTypes, Ended, Finish, asked
<1>2. HeardLines' = HeardLines
  BY <1>1 DEF HeardLines, Heard
<1>3. HeardLines = HeardIn(sent)
  BY <1>1, HeardLinesAre
<1>4. CASE Ends(HeardLines, sent) = {} /\ final = NoFinal
  <2>1. result'.kind = "error"
    BY <1>4 DEF Finish, Return, Failed
  <2>. QED  BY <1>1, <1>3, <1>4, <2>1, ErrorWhole
<1>5. CASE \E last \in Ends(HeardLines, sent) :
             /\ \A j \in Ends(HeardLines, sent) : j <= last
             /\ final.reason = ReasonOf(sent[last])
             /\ Gathered(final.text, UpTo(HeardLines, last), sent)
  <2>1. PICK last \in Ends(HeardLines, sent) :
             /\ \A j \in Ends(HeardLines, sent) : j <= last
             /\ final.reason = ReasonOf(sent[last])
             /\ Gathered(final.text, UpTo(HeardLines, last), sent)
    BY <1>5
  <2>2. final # NoFinal
    BY <2>1 DEF ReasonOf, NoFinal
  <2>3. result' = Answer(final.text, final.reason)
    BY <2>2 DEF Finish, Return
  <2>4. HeardLines \subseteq Nat /\ Clean(HeardLines, sent)
    BY <1>1 DEF Absorbed
  <2>. HIDE DEF HeardLines
  <2>. QED  BY <1>1, <1>2, <2>1, <2>3, <2>4, AnswerIsWhole
<1>. QED  BY <1>1, <1>4, <1>5 DEF Absorbed, Completed


\* Nothing is known of an attempt that has not begun.
LEMMA AnswerInitInv == AnswerInit => AnswerInv
<1>. SUFFICES ASSUME AnswerInit PROVE AnswerInv
  OBVIOUS
<1>1. AnswerTypes
  BY BufferedAssumption DEF AnswerInit, AnswerTypes
<1>2. pc = "parsing" /\ response = NoResponse
  BY DEF AnswerInit
<1>3. Untouched
  BY DEF AnswerInit, Untouched
<1>. QED  BY <1>1, <1>2, <1>3 DEF AnswerInv, Asking, Gathering, Ended, Streaming, WholeAnswer,
             RejectionUnderstood

\* What is gathered, and the answer made of it, behind every step.
LEMMA WholeKept ==
  AnswerInv /\ [AnswerNext]_answerVars /\ AnswerTypes' => Gathering' /\ Ended' /\ WholeAnswer'
<1>. SUFFICES ASSUME AnswerInv, [AnswerNext]_answerVars, AnswerTypes'
              PROVE  Gathering' /\ Ended' /\ WholeAnswer'
  OBVIOUS
<1>1. \/ pc' \notin {"reading", "ended", "returned"}
      \/ pc' = "returned" /\ (sent' = <<>> \/ ~OK(response'))
      => Gathering' /\ Ended' /\ WholeAnswer'
  BY DEF Gathering, Streaming, Ended, WholeAnswer
<1>2. pc \in {"parsing", "preparing", "sending"} =>
        /\ sent = <<>> /\ pending = <<>> /\ text = <<>> /\ final = NoFinal
        /\ response = NoResponse
  BY DEF AnswerInv, Untouched, Asking
<1>3. ~OK(NoResponse)
  BY DEF OK, NoResponse
<1>4. CASE Parse
  BY <1>1, <1>2, <1>4 DEF Parse, Return
<1>5. CASE BodyUnread
  BY <1>1, <1>2, <1>3, <1>5 DEF BodyUnread, Return
<1>6. CASE CannotSend
  BY <1>1, <1>2, <1>6 DEF CannotSend, Return
<1>7. CASE Encode
  BY <1>1, <1>2, <1>7 DEF Encode, Return
<1>8. CASE SendFails
  BY <1>1, <1>2, <1>8 DEF SendFails, Return
<1>9. CASE Responds
  <2>1. pc' = "reading" /\ sent' = <<>> /\ pending' = <<>> /\ text' = <<>> /\ final' = NoFinal
    BY <1>2, <1>9 DEF Responds
  <2>2. PendingOpen(<<>>, <<>>) /\ Closed(<<>>) = {}
    BY DEF PendingOpen, Open, Closed
  <2>3. Absorbed(<<>>, NoFinal, {}, <<>>)
    BY DEF Absorbed, Clean, Gathered, Completed, Ends
  <2>. QED  BY <2>1, <2>2, <2>3 DEF Gathering, Ended, WholeAnswer
<1>10. CASE Rejected
  BY <1>1, <1>10 DEF Rejected, Return
<1>11. CASE RejectionBreaks
  BY <1>1, <1>11 DEF RejectionBreaks, Return
<1>12. CASE DocumentArrives
  <2>1. pc' = "returned"
    BY <1>12 DEF DocumentArrives, Return
  <2>. QED  BY <1>12, <2>1, DocumentWhole DEF Gathering, Streaming, Ended
<1>13. ASSUME NEW line \in Lines, LineArrives(line)
       PROVE  Gathering' /\ Ended' /\ WholeAnswer'
  BY <1>13, LineKept
<1>14. CASE StreamEnds
  BY <1>14, EndKept
<1>15. ASSUME NEW how \in {"end_in_data", "break"}, sent' = Append(sent, how),
              pc' = "returned", result'.kind = "error"
       PROVE  Gathering' /\ Ended' /\ WholeAnswer'
  <2>1. Last(sent') = how
    BY <1>15, AppendGrows, SymbolsSent DEF AnswerInv, AnswerTypes, Grown
  <2>2. WholeAnswer'
    BY <1>15, <2>1, ErrorWhole DEF AnswerTypes
  <2>. QED  BY <1>15, <2>2 DEF Gathering, Streaming, Ended
<1>16. CASE StreamEndsInData
  BY <1>15, <1>16 DEF StreamEndsInData, Return, Failed
<1>17. CASE Finish
  <2>1. pc' = "returned"
    BY <1>17 DEF Finish, Return
  <2>. QED  BY <1>17, <2>1, FinishWhole DEF Gathering, Streaming, Ended
<1>18. CASE StreamBreaks
  BY <1>15, <1>18 DEF StreamBreaks, Return, Failed
<1>19. CASE UNCHANGED answerVars
  <2>1. Gathering' /\ Ended'
    BY <1>19 DEF answerVars, AnswerInv, Gathering, Ended, Streaming, Codex, OK, HeardLines, Heard
  <2>2. /\ pc' = pc /\ sent' = sent /\ response' = response /\ result' = result
        /\ adapter' = adapter /\ document' = document
    BY <1>19 DEF answerVars
  <2>3. WholeAnswer'
    <3>1. \A i : Heard(i)' = Heard(i)
      BY <2>2 DEF Heard
    <3>2. \A i, j : SameEvent(i, j)' = SameEvent(i, j)
      BY <2>2 DEF SameEvent
    <3>3. Codex' = Codex /\ OK(response)' = OK(response)
      BY <2>2 DEF Codex, OK
    <3>. QED  BY <2>2, <3>1, <3>2, <3>3, Zenon DEF AnswerInv, WholeAnswer
  <2>. QED  BY <2>1, <2>3
<1>. QED  BY <1>4, <1>5, <1>6, <1>7, <1>8, <1>9, <1>10, <1>11, <1>12, <1>13, <1>14, <1>16,
             <1>17, <1>18, <1>19 DEF AnswerNext

\* Every step keeps the invariant.
LEMMA AnswerNextInv == AnswerInv /\ [AnswerNext]_answerVars => AnswerInv'
  BY AnswerTypesKept, UntouchedKept, UnderstoodKept, WholeKept DEF AnswerInv

\* The inductive invariant of BufferedAnswer: what the adapter has gathered so far is
\* what the lines sent so far say.
THEOREM AnswerInvariance == AnswerSpec => []AnswerInv
<1>. QED  BY AnswerInitInv, AnswerNextInv, PTL DEF AnswerSpec

\* Whatever an upstream sends, in however many lines, events and breaks: the client is
\* answered exactly when it completed something and ended in order, with every piece of
\* the text, once and in order (codexStreamState.consume, sse.Reader.Read).
THEOREM AnswersWhole == AnswerSpec => []WholeAnswer
<1>. QED  BY AnswerInvariance, PTL DEF AnswerInv

\* Whatever status, error object and Retry-After header a rejection has, the window it
\* opens and the status the client gets are those it asks for (classifyHTTPStatus).
THEOREM RejectionsUnderstood == AnswerSpec => []RejectionUnderstood
<1>. QED  BY AnswerInvariance, PTL DEF AnswerInv

-----------------------------------------------------------------------------
(***************************************************************************)
(* Induction, from the well-foundedness of the naturals.                   *)
(***************************************************************************)

\* A set of naturals that is not empty has a least element.
LEMMA LeastNatural ==
  ASSUME NEW S \in SUBSET Nat, S # {}
  PROVE  \E i \in S : \A j \in S : i <= j
<1>. DEFINE R == OpToRel(<, Nat)
<1>1. IsWellFoundedOn(R, Nat)
  BY NatLessThanWellFounded
<1>2. \A i, j \in Nat : <<i, j>> \in R <=> i < j
  BY DEF OpToRel
<1>. HIDE DEF R
<1>3. PICK i \in S : \A j \in S : ~(<<j, i>> \in R)
  BY <1>1, WFMin
<1>4. ASSUME NEW j \in S PROVE i <= j
  <2>1. i \in Nat /\ j \in Nat /\ ~(j < i)
    BY <1>2, <1>3
  <2>. QED  BY <2>1
<1>. QED  BY <1>4

\* Induction up to n, for a property given as the set of the numbers that have it.
LEMMA InductionTo ==
  ASSUME NEW n \in Nat, NEW P, 0 \in P,
         \A i \in 1..n : i - 1 \in P => i \in P
  PROVE  0..n \subseteq P
<1>. DEFINE Out == {i \in 0..n : i \notin P}
<1>. SUFFICES ASSUME Out # {} PROVE FALSE
  OBVIOUS
<1>1. Out \in SUBSET Nat
  OBVIOUS
<1>2. PICK i \in Out : \A j \in Out : i <= j
  <2>. HIDE DEF Out
  <2>. QED  BY <1>1, LeastNatural
<1>3. i \in 1..n /\ i - 1 \in 0..n /\ ~(i <= i - 1) /\ i \notin P
  BY <1>2
<1>4. i - 1 \in P
  BY <1>2, <1>3
<1>. QED  BY <1>3, <1>4

-----------------------------------------------------------------------------
(***************************************************************************)
(* The schedule of the code (exponentialBackoff) fits the assumption about *)
(* Backoff that the theorems on Availability rest on, and doubles.         *)
(***************************************************************************)

\* A set has twice as many subsets as it has without one of its elements.
LEMMA PowerDoubles ==
  ASSUME NEW n \in Nat
  PROVE  2 ^ n \in Nat \ {0} /\ 2 ^ (n + 1) = 2 * 2 ^ n
<1>. DEFINE S == 1..n
            T == 1..(n + 1)
            A == SUBSET S
            B == {t \in SUBSET T : n + 1 \in t}
            f == [t \in A |-> t \cup {n + 1}]
<1>1. IsFiniteSet(S) /\ Cardinality(S) = n /\ IsFiniteSet(T) /\ Cardinality(T) = n + 1
  BY FS_Interval
<1>2. IsFiniteSet(A) /\ Cardinality(A) = 2 ^ n
  BY <1>1, FS_SUBSET
<1>3. Cardinality(SUBSET T) = 2 ^ (n + 1)
  BY <1>1, FS_SUBSET
<1>4. f \in Bijection(A, B)
  <2>1. \A t \in A : t \cup {n + 1} \in B /\ n + 1 \notin t
    OBVIOUS
  <2>2. f \in [A -> B]
    BY <2>1
  <2>3. \A t, u \in A : f[t] = f[u] => t = u
    <3>1. \A t, u \in A : t \cup {n + 1} = u \cup {n + 1} => t = u
      BY <2>1
    <3>. QED  BY <3>1
  <2>4. \A u \in B : \E t \in A : f[t] = u
    <3>. SUFFICES ASSUME NEW u \in B PROVE \E t \in A : f[t] = u
      OBVIOUS
    <3>1. (u \ {n + 1}) \cup {n + 1} = u /\ u \subseteq T
      OBVIOUS
    <3>2. u \ {n + 1} \subseteq S
      BY <3>1
    <3>3. f[u \ {n + 1}] = u
      BY <3>1, <3>2
    <3>. QED  BY <3>2, <3>3
  <2>. HIDE DEF f, A, B
  <2>5. f \in Injection(A, B)
    BY <2>2, <2>3 DEF Injection, IsInjective
  <2>6. f \in Surjection(A, B)
    BY <2>2, <2>4 DEF Surjection
  <2>. QED  BY <2>5, <2>6 DEF Bijection
<1>5. IsFiniteSet(B) /\ Cardinality(B) = 2 ^ n
  BY <1>2, <1>4, FS_Bijection DEF ExistsBijection
<1>6. A \cup B = SUBSET T /\ A \cap B = {}
  <2>1. \A x : x \in T <=> x \in S \/ x = n + 1
    OBVIOUS
  <2>2. n + 1 \notin S
    OBVIOUS
  <2>. HIDE DEF S, T
  <2>. QED  BY <2>1, <2>2
<1>7. Cardinality(A \cup B) = Cardinality(A) + Cardinality(B) - Cardinality(A \cap B)
  <2>. HIDE DEF A, B
  <2>. QED  BY <1>2, <1>5, FS_Union
<1>8. Cardinality(A) \in Nat /\ Cardinality(A \cap B) = 0
  <2>. HIDE DEF A, B
  <2>. QED  BY <1>2, <1>6, FS_EmptySet, FS_CardinalityType
<1>9. PICK c \in Nat \ {0} : c = 2 ^ n
  <2>1. {} \in A
    OBVIOUS
  <2>. HIDE DEF A
  <2>. QED  BY <1>2, <1>8, <2>1, FS_EmptySet
<1>10. PICK d : d = 2 ^ (n + 1)
  OBVIOUS
<1>11. d = c + c - 0
  <2>. HIDE DEF A, B
  <2>. QED  BY <1>2, <1>3, <1>5, <1>6, <1>7, <1>8, <1>9, <1>10, Zenon
<1>12. c + c - 0 = 2 * c
  OBVIOUS
<1>. QED  BY <1>9, <1>10, <1>11, <1>12, Zenon

\* Doubling, as the schedule is meant to.
LEMMA Doubling ==
  ASSUME NEW n \in Nat
  PROVE  /\ BackoffBase * 2 ^ n \in Nat \ {0}
         /\ BackoffBase * 2 ^ (n + 1) = 2 * (BackoffBase * 2 ^ n)
<1>1. BackoffBase \in Nat \ {0}
  BY BackoffDurations
<1>2. PICK c \in Nat \ {0} : c = 2 ^ n /\ 2 ^ (n + 1) = 2 * c
  BY PowerDoubles
<1>3. BackoffBase * c \in Nat \ {0} /\ BackoffBase * (2 * c) = 2 * (BackoffBase * c)
  BY <1>1
<1>. QED  BY <1>2, <1>3, Zenon

\* exponentialBackoff is the capped doubling it is meant to be, whatever the two durations
\* and the number of failures: halving the cap in the loop neither rounds nor returns early.
LEMMA ScheduleIs ==
  ASSUME NEW failures \in Nat \ {0}
  PROVE  ExponentialBackoff(failures) = CappedDoubling(failures)
<1>. DEFINE Turn[i \in 0..failures] ==
              IF i = 0 THEN BackoffBase
              ELSE IF Turn[i - 1] >= BackoffMax \div 2 THEN BackoffMax
              ELSE 2 * Turn[i - 1]
            D == [i \in 0..failures |-> BackoffBase * 2 ^ i]
            g == [i \in 0..failures |-> IF D[i] > BackoffMax THEN BackoffMax ELSE D[i]]
<1>1. /\ BackoffBase \in Nat \ {0} /\ BackoffMax \in Nat /\ BackoffBase <= BackoffMax
      /\ BackoffMax % 2 = 0
  BY BackoffDurations
<1>2. /\ D[0] = BackoffBase
      /\ \A i \in 0..failures : D[i] \in Nat \ {0}
      /\ \A i \in 1..failures : D[i] = 2 * D[i - 1]
  <2>1. D[0] = BackoffBase
    BY <1>1
  <2>2. ASSUME NEW i \in 0..failures PROVE D[i] \in Nat \ {0}
    BY Doubling
  <2>3. ASSUME NEW i \in 1..failures PROVE D[i] = 2 * D[i - 1]
    <3>1. i - 1 \in Nat /\ i - 1 \in 0..failures /\ i \in 0..failures /\ (i - 1) + 1 = i
      OBVIOUS
    <3>2. D[i] = BackoffBase * 2 ^ i /\ D[i - 1] = BackoffBase * 2 ^ (i - 1)
      BY <3>1, Zenon
    <3>. HIDE DEF D
    <3>. QED  BY <3>1, <3>2, Doubling, Zenon
  <2>. HIDE DEF D
  <2>. QED  BY <2>1, <2>2, <2>3
<1>. HIDE DEF D
<1>3. g = [i \in 0..failures |-> IF i = 0 THEN BackoffBase
                                 ELSE IF g[i - 1] >= BackoffMax \div 2 THEN BackoffMax
                                 ELSE 2 * g[i - 1]]
  <2>. SUFFICES ASSUME NEW i \in 0..failures
                PROVE  g[i] = IF i = 0 THEN BackoffBase
                              ELSE IF g[i - 1] >= BackoffMax \div 2 THEN BackoffMax
                              ELSE 2 * g[i - 1]
    BY Zenon
  <2>1. CASE i = 0
    BY <1>1, <1>2, <2>1
  <2>2. CASE i # 0
    <3>1. i \in 1..failures /\ i - 1 \in 0..failures
      BY <2>2
    <3>2. PICK d \in Nat : d = D[i - 1] /\ D[i] = 2 * d
      BY <1>2, <3>1
    <3>3. /\ g[i - 1] = IF d > BackoffMax THEN BackoffMax ELSE d
          /\ g[i] = IF 2 * d > BackoffMax THEN BackoffMax ELSE 2 * d
      BY <3>1, <3>2
    <3>. HIDE DEF g
    <3>. QED  BY <1>1, <2>2, <3>3
  <2>. QED  BY <2>1, <2>2
<1>4. Turn = [i \in 0..failures |-> IF i = 0 THEN BackoffBase
                                    ELSE IF Turn[i - 1] >= BackoffMax \div 2 THEN BackoffMax
                                    ELSE 2 * Turn[i - 1]]
  <2>. HIDE DEF g
  <2>. QED  BY <1>3, Zenon DEF Turn
<1>. HIDE DEF Turn
<1>5. \A i \in 0..failures : Turn[i] = g[i]
  <2>. DEFINE P == {i \in Nat : i \in 0..failures => Turn[i] = g[i]}
  <2>. HIDE DEF g
  <2>1. 0 \in P
    <3>1. Turn[0] = BackoffBase
      BY <1>4
    <3>2. g[0] = BackoffBase
      BY <1>3
    <3>. QED  BY <3>1, <3>2
  <2>2. ASSUME NEW i \in 1..failures, i - 1 \in P PROVE i \in P
    <3>1. i # 0 /\ i \in 0..failures /\ i - 1 \in 0..failures
      OBVIOUS
    <3>2. Turn[i - 1] = g[i - 1]
      BY <2>2, <3>1
    <3>3. Turn[i] = IF Turn[i - 1] >= BackoffMax \div 2 THEN BackoffMax ELSE 2 * Turn[i - 1]
      BY <1>4, <3>1
    <3>4. g[i] = IF g[i - 1] >= BackoffMax \div 2 THEN BackoffMax ELSE 2 * g[i - 1]
      BY <1>3, <3>1
    <3>. QED  BY <3>1, <3>2, <3>3, <3>4
  <2>3. 0..failures \subseteq P
    <3>. HIDE DEF P
    <3>. QED  BY <2>1, <2>2, InductionTo
  <2>. QED  BY <2>3
<1>6. ExponentialBackoff(failures) = IF failures <= 1 THEN BackoffBase ELSE Turn[failures - 1]
  BY Zenon DEF ExponentialBackoff, Turn
<1>7. CappedDoubling(failures) = g[failures - 1]
  <2>1. failures - 1 \in 0..failures
    OBVIOUS
  <2>2. D[failures - 1] = BackoffBase * 2 ^ (failures - 1)
    BY <2>1, Zenon DEF D
  <2>3. g[failures - 1] = IF D[failures - 1] > BackoffMax THEN BackoffMax ELSE D[failures - 1]
    BY <2>1
  <2>. QED  BY <2>2, <2>3, Zenon DEF CappedDoubling
<1>8. CASE failures = 1
  <2>1. g[0] = BackoffBase
    BY <1>1, <1>2
  <2>. HIDE DEF g
  <2>. QED  BY <1>6, <1>7, <1>8, <2>1
<1>9. CASE failures # 1
  <2>1. ~(failures <= 1) /\ failures - 1 \in 0..failures
    BY <1>9
  <2>. HIDE DEF g
  <2>. QED  BY <1>5, <1>6, <1>7, <2>1, Zenon
<1>. QED  BY <1>8, <1>9

\* Any number of failures has a backoff of at most the cap, and more failures never have
\* a shorter one: the code's schedule is as BackoffAssumption asks.
THEOREM ScheduleFits ==
  /\ \A f \in Nat \ {0} : ExponentialBackoff(f) \in 0..BackoffMax
  /\ \A f, g \in Nat \ {0} : f <= g => ExponentialBackoff(f) <= ExponentialBackoff(g)
<1>. DEFINE D(i) == BackoffBase * 2 ^ i
            C(i) == IF D(i) > BackoffMax THEN BackoffMax ELSE D(i)
<1>1. \A i \in Nat : D(i) \in Nat /\ D(i + 1) = 2 * D(i)
  BY Doubling
<1>2. \A f \in Nat \ {0} : ExponentialBackoff(f) = C(f - 1)
  <2>. TAKE f \in Nat \ {0}
  <2>. QED  BY ScheduleIs, Zenon DEF CappedDoubling
<1>. HIDE DEF D
<1>3. \A i \in Nat : C(i) \in 0..BackoffMax /\ C(i) <= C(i + 1)
  <2>. TAKE i \in Nat
  <2>1. i + 1 \in Nat
    OBVIOUS
  <2>2. D(i) \in Nat /\ D(i + 1) = 2 * D(i)
    BY <1>1
  <2>3. PICK d \in Nat : d = D(i) /\ D(i + 1) = 2 * d
    BY <2>2
  <2>4. /\ C(i) = IF d > BackoffMax THEN BackoffMax ELSE d
        /\ C(i + 1) = IF 2 * d > BackoffMax THEN BackoffMax ELSE 2 * d
    BY <2>3, Zenon
  <2>. HIDE DEF C
  <2>. QED  BY <2>4, BackoffDurations
<1>. HIDE DEF C
<1>4. ASSUME NEW i \in Nat, NEW j \in Nat PROVE C(i) <= C(i + j)
  <2>. DEFINE P == {k \in Nat : C(i) <= C(i + k)}
  <2>1. 0 \in P
    <3>1. i + 0 = i /\ C(i) \in Int
      BY <1>3
    <3>. QED  BY <3>1
  <2>2. ASSUME NEW k \in 1..j, k - 1 \in P PROVE k \in P
    <3>1. i + (k - 1) \in Nat /\ (i + (k - 1)) + 1 = i + k
      OBVIOUS
    <3>2. C(i) <= C(i + (k - 1)) /\ C(i + (k - 1)) <= C(i + k)
      BY <1>3, <2>2, <3>1
    <3>3. C(i) \in Int /\ C(i + (k - 1)) \in Int /\ C(i + k) \in Int
      BY <1>3, <3>1
    <3>. QED  BY <3>2, <3>3
  <2>3. 0..j \subseteq P
    <3>. HIDE DEF P
    <3>. QED  BY <2>1, <2>2, InductionTo
  <2>. QED  BY <2>3
<1>5. ASSUME NEW f \in Nat \ {0}, NEW g \in Nat \ {0}, f <= g
      PROVE  ExponentialBackoff(f) <= ExponentialBackoff(g)
  <2>1. f - 1 \in Nat /\ g - f \in Nat /\ (f - 1) + (g - f) = g - 1
    BY <1>5
  <2>2. C(f - 1) <= C((f - 1) + (g - f))
    BY <1>4, <2>1
  <2>. QED  BY <1>2, <2>1, <2>2
<1>6. ASSUME NEW f \in Nat \ {0} PROVE ExponentialBackoff(f) \in 0..BackoffMax
  <2>1. f - 1 \in Nat
    OBVIOUS
  <2>. QED  BY <1>2, <1>3, <2>1
<1>. QED  BY <1>5, <1>6

\* A window opened by an exhaustion error without a Retry-After has the length of the
\* backoff that belongs to the failures counted.
LEMMA WindowIsBackoff ==
  ASSUME IInv, NEW k \in Pairs, NEW c \in ExhaustionCodes,
         MarkFailure(k, [code |-> c, retryAfter |-> NoWindow])
  PROVE  /\ states'[k].failures \in 1..MaxFailures
         /\ states'[k].until = now + Backoff(states'[k].failures)
<1>. DEFINE err == [code |-> c, retryAfter |-> NoWindow]
            n == Get(states, k).failures + 1
<1>1. n \in 1..MaxFailures
  BY GetType, BackoffAssumption DEF States, IInv, MarkFailure
<1>2. FailureCode(err) = c
  BY DEF FailureCode, ExhaustionCodes, NoCode, RateLimited, Exhausted
<1>3. ExhaustedUntil(c, n, err, now) = now + Backoff(n)
  BY Zenon DEF ExhaustedUntil
<1>4. states' = Put(states, k, [healthy |-> FALSE, until |-> now + Backoff(n), code |-> c,
                               failures |-> n])
  BY <1>2, <1>3, Zenon DEF MarkFailure, AfterFailure
<1>5. states'[k].failures = n /\ states'[k].until = now + Backoff(n)
  BY <1>4 DEF Put
<1>. QED  BY <1>1, <1>5, Zenon

\* With the schedule of the code a window that the proxy computes has exactly the capped
\* doubling of the base as its length.
THEOREM WindowsDouble ==
  ASSUME \A f \in 1..MaxFailures : Backoff(f) = ExponentialBackoff(f)
  PROVE  Spec => WindowLength
<1>1. ASSUME IInv, NEW k \in Pairs, NEW c \in ExhaustionCodes,
             MarkFailure(k, [code |-> c, retryAfter |-> NoWindow])
      PROVE  states'[k].until = now + CappedDoubling(states'[k].failures)
  <2>1. /\ states'[k].failures \in 1..MaxFailures
        /\ states'[k].until = now + Backoff(states'[k].failures)
    BY <1>1, WindowIsBackoff
  <2>2. states'[k].failures \in Nat \ {0}
    BY <2>1, BackoffAssumption
  <2>3. CappedDoubling(states'[k].failures) = Backoff(states'[k].failures)
    BY <2>1, <2>2, ScheduleIs, Zenon
  <2>. QED  BY <2>1, <2>3, Zenon
<1>2. IInv /\ [Next]_vars => [\A k \in Pairs, c \in ExhaustionCodes :
         MarkFailure(k, [code |-> c, retryAfter |-> NoWindow])
         => states'[k].until = now + CappedDoubling(states'[k].failures)]_vars
  BY <1>1
<1>. QED  BY <1>2, Invariance, PTL DEF Spec, WindowLength

-----------------------------------------------------------------------------
(***************************************************************************)
(* Sequences that FlattenSeq builds.                                       *)
(***************************************************************************)

\* One element stands before another whenever R says so of the two.
Ascends(t, R) == \A i, j \in DOMAIN t : i < j => <<t[i], t[j]>> \in R

\* The function that FlattenSeq defines: element i joins the first i sequences.
LEMMA Flattens ==
  ASSUME NEW S, NEW s \in Seq(Seq(S)), s # <<>>
  PROVE  \E f : /\ f \in [1..Len(s) -> Seq(S)]
                /\ f[1] = s[1]
                /\ \A i \in 2..Len(s) : f[i] = f[i - 1] \o s[i]
                /\ FlattenSeq(s) = f[Len(s)]
<1>. DEFINE n == Len(s)
            flatten[i \in 1..Len(s)] == IF i = 1 THEN s[i] ELSE flatten[i - 1] \o s[i]
            Upto(k) == \E f : f = [i \in 1..k |-> IF i = 1 THEN s[i] ELSE f[i - 1] \o s[i]]
            P == {k \in Nat : Upto(k)}
<1>1. n \in Nat /\ n # 0 /\ s \in [1..n -> Seq(S)]
  OBVIOUS
<1>2. Upto(0)
  <2>1. <<>> = [i \in 1..0 |-> IF i = 1 THEN s[i] ELSE <<>>[i - 1] \o s[i]]
    OBVIOUS
  <2>. QED  BY <2>1, Zenon
<1>3. ASSUME NEW k \in 1..n, Upto(k - 1) PROVE Upto(k)
  <2>1. PICK f : f = [i \in 1..k - 1 |-> IF i = 1 THEN s[i] ELSE f[i - 1] \o s[i]]
    BY <1>3
  <2>. DEFINE h == [i \in 1..k |-> IF i = 1 THEN s[i] ELSE f[i - 1] \o s[i]]
  <2>2. ASSUME NEW i \in 1..k, i # 1 PROVE h[i - 1] = f[i - 1]
    <3>1. i - 1 \in 1..k - 1 /\ i - 1 \in 1..k
      BY <2>2
    <3>. QED  BY <2>1, <3>1
  <2>3. h = [i \in 1..k |-> IF i = 1 THEN s[i] ELSE h[i - 1] \o s[i]]
    <3>1. \A i \in 1..k : h[i] = IF i = 1 THEN s[i] ELSE h[i - 1] \o s[i]
      <4>. TAKE i \in 1..k
      <4>1. h[i] = IF i = 1 THEN s[i] ELSE f[i - 1] \o s[i]
        OBVIOUS
      <4>. HIDE DEF h
      <4>. QED  BY <2>2, <4>1
    <3>2. h = [i \in 1..k |-> h[i]]
      OBVIOUS
    <3>. HIDE DEF h
    <3>. QED  BY <3>1, <3>2, Zenon
  <2>. HIDE DEF h
  <2>. QED  BY <2>3, Zenon
<1>4. n \in P
  <2>1. 0 \in P
    BY <1>2
  <2>2. \A k \in 1..n : k - 1 \in P => k \in P
    <3>. HIDE DEF Upto
    <3>. QED  BY <1>3
  <2>3. 0..n \subseteq P
    <3>. HIDE DEF P, n
    <3>. QED  BY <1>1, <2>1, <2>2, InductionTo
  <2>. HIDE DEF P
  <2>. QED  BY <1>1, <2>3
<1>5. flatten = [i \in 1..n |-> IF i = 1 THEN s[i] ELSE flatten[i - 1] \o s[i]]
  BY <1>4, Zenon DEF flatten
<1>6. FlattenSeq(s) = flatten[n]
  BY <1>1, Zenon DEF FlattenSeq, flatten
<1>. HIDE DEF flatten
<1>7. flatten[1] = s[1] /\ \A i \in 2..n : flatten[i] = flatten[i - 1] \o s[i]
  <2>1. flatten[1] = s[1]
    BY <1>1, <1>5
  <2>2. ASSUME NEW i \in 2..n PROVE flatten[i] = flatten[i - 1] \o s[i]
    <3>1. i \in 1..n /\ i # 1
      OBVIOUS
    <3>. QED  BY <1>5, <3>1
  <2>. QED  BY <2>1, <2>2
<1>8. flatten \in [1..n -> Seq(S)]
  <2>. DEFINE Q == {k \in Nat : k # 0 => flatten[k] \in Seq(S)}
  <2>1. 0 \in Q
    OBVIOUS
  <2>2. ASSUME NEW k \in 1..n, k - 1 \in Q PROVE k \in Q
    <3>1. s[k] \in Seq(S)
      BY <1>1
    <3>2. CASE k = 1
      BY <1>7, <3>1, <3>2
    <3>3. CASE k # 1
      <4>1. k \in 2..n /\ k - 1 # 0
        BY <3>3
      <4>2. flatten[k - 1] \in Seq(S)
        BY <2>2, <4>1
      <4>3. flatten[k - 1] \o s[k] \in Seq(S)
        BY <3>1, <4>2, ConcatProperties
      <4>4. flatten[k] \in Seq(S)
        BY <1>7, <4>1, <4>3, Zenon
      <4>. QED  BY <4>4
    <3>. QED  BY <3>2, <3>3
  <2>3. 0..n \subseteq Q
    <3>. HIDE DEF Q, n
    <3>. QED  BY <1>1, <2>1, <2>2, InductionTo
  <2>4. \A k \in 1..n : flatten[k] \in Seq(S)
    BY <2>3
  <2>. QED  BY <1>5, <2>4
<1>. QED  BY <1>6, <1>7, <1>8

\* What is in one of two sequences is in their concatenation, in the order of the two.
LEMMA JoinedElements ==
  ASSUME NEW S, NEW t \in Seq(S), NEW u \in Seq(S)
  PROVE  /\ \A i \in DOMAIN (t \o u) :
              \/ i \in DOMAIN t /\ (t \o u)[i] = t[i]
              \/ /\ \A j \in DOMAIN t : j < i
                 /\ \E j \in DOMAIN u : i = Len(t) + j /\ (t \o u)[i] = u[j]
         /\ Range(t \o u) = Range(t) \cup Range(u)
<1>1. /\ Len(t) \in Nat /\ Len(u) \in Nat
      /\ DOMAIN t = 1..Len(t) /\ DOMAIN u = 1..Len(u)
      /\ DOMAIN (t \o u) = 1..Len(t) + Len(u)
      /\ \A i \in 1..Len(t) + Len(u) :
           (t \o u)[i] = IF i <= Len(t) THEN t[i] ELSE u[i - Len(t)]
  OBVIOUS
<1>. DEFINE c == t \o u
<1>2. ASSUME NEW i \in DOMAIN c
      PROVE  \/ i \in DOMAIN t /\ c[i] = t[i]
             \/ /\ \A j \in DOMAIN t : j < i
                /\ \E j \in DOMAIN u : i = Len(t) + j /\ c[i] = u[j]
  <2>1. i \in 1..Len(t) + Len(u)
    BY <1>1
  <2>2. CASE i <= Len(t)
    BY <1>1, <2>1, <2>2
  <2>3. CASE ~(i <= Len(t))
    <3>1. i - Len(t) \in DOMAIN u /\ i = Len(t) + (i - Len(t)) /\ \A j \in DOMAIN t : j < i
      BY <1>1, <2>1, <2>3
    <3>2. c[i] = u[i - Len(t)]
      BY <1>1, <2>1, <2>3
    <3>. QED  BY <3>1, <3>2
  <2>. QED  BY <2>2, <2>3
<1>3. \A i \in DOMAIN t : i \in DOMAIN c /\ c[i] = t[i]
  BY <1>1
<1>4. \A i \in DOMAIN u : i + Len(t) \in DOMAIN c /\ c[i + Len(t)] = u[i]
  <2>. TAKE i \in DOMAIN u
  <2>1. i \in 1..Len(u)
    BY <1>1
  <2>2. i + Len(t) \in 1..Len(t) + Len(u) /\ ~(i + Len(t) <= Len(t)) /\ (i + Len(t)) - Len(t) = i
    BY <1>1, <2>1
  <2>. QED  BY <1>1, <2>2
<1>. HIDE DEF c
<1>5. Range(c) = Range(t) \cup Range(u)
  BY <1>2, <1>3, <1>4 DEF Range
<1>. QED  BY <1>2, <1>5 DEF c

\* If two sequences ascend and the first stands before the second, the concatenation ascends.
LEMMA JoinedAscends ==
  ASSUME NEW S, NEW t \in Seq(S), NEW u \in Seq(S), NEW R,
         Ascends(t, R), Ascends(u, R), \A x \in Range(t), y \in Range(u) : <<x, y>> \in R
  PROVE  Ascends(t \o u, R)
<1>. DEFINE c == t \o u
<1>1. \A i \in DOMAIN c : \/ i \in DOMAIN t /\ c[i] = t[i]
                          \/ /\ \A j \in DOMAIN t : j < i
                             /\ \E j \in DOMAIN u : i = Len(t) + j /\ c[i] = u[j]
  BY JoinedElements
<1>2. /\ Len(t) \in Nat /\ DOMAIN c \subseteq Int /\ DOMAIN t \subseteq Int
      /\ DOMAIN u \subseteq Int
  OBVIOUS
<1>. HIDE DEF c
<1>3. ASSUME NEW i \in DOMAIN c, NEW j \in DOMAIN c, i < j PROVE <<c[i], c[j]>> \in R
  <2>1. CASE i \in DOMAIN t /\ c[i] = t[i]
    <3>1. CASE j \in DOMAIN t /\ c[j] = t[j]
      BY <1>3, <2>1, <3>1 DEF Ascends
    <3>2. CASE \E k \in DOMAIN u : j = Len(t) + k /\ c[j] = u[k]
      BY <2>1, <3>2 DEF Range
    <3>. QED  BY <1>1, <3>1, <3>2
  <2>2. CASE /\ \A k \in DOMAIN t : k < i
             /\ \E k \in DOMAIN u : i = Len(t) + k /\ c[i] = u[k]
    <3>1. PICK k \in DOMAIN u : i = Len(t) + k /\ c[i] = u[k]
      BY <2>2
    <3>2. j \notin DOMAIN t
      BY <1>2, <1>3, <2>2
    <3>3. PICK m \in DOMAIN u : j = Len(t) + m /\ c[j] = u[m]
      BY <1>1, <3>2
    <3>4. k < m
      BY <1>2, <1>3, <3>1, <3>3
    <3>. QED  BY <3>1, <3>3, <3>4 DEF Ascends
  <2>. QED  BY <1>1, <2>1, <2>2
<1>. QED  BY <1>3 DEF Ascends, c

\* A flattened sequence has what its members have, and ascends if each of them does and
\* each stands before the later ones.
LEMMA Flattened ==
  ASSUME NEW S, NEW s \in Seq(Seq(S)), NEW R
  PROVE  /\ FlattenSeq(s) \in Seq(S)
         /\ \A x : x \in Range(FlattenSeq(s)) <=> \E i \in DOMAIN s : x \in Range(s[i])
         /\ /\ \A i \in DOMAIN s : Ascends(s[i], R)
            /\ \A i, j \in DOMAIN s : i < j =>
                 \A x \in Range(s[i]), y \in Range(s[j]) : <<x, y>> \in R
            => Ascends(FlattenSeq(s), R)
<1>1. CASE s = <<>>
  <2>1. FlattenSeq(s) = <<>>
    BY <1>1 DEF FlattenSeq
  <2>2. DOMAIN s = {} /\ DOMAIN <<>> = {} /\ <<>> \in Seq(S)
    BY <1>1
  <2>. QED  BY <2>1, <2>2 DEF Range, Ascends
<1>2. CASE s # <<>>
  <2>. DEFINE n == Len(s)
              Below(k) == {x \in S : \E i \in 1..k : x \in Range(s[i])}
              Ordered == /\ \A i \in DOMAIN s : Ascends(s[i], R)
                         /\ \A i, j \in DOMAIN s : i < j =>
                              \A x \in Range(s[i]), y \in Range(s[j]) : <<x, y>> \in R
  <2>1. PICK f : /\ f \in [1..n -> Seq(S)]
                 /\ f[1] = s[1]
                 /\ \A i \in 2..n : f[i] = f[i - 1] \o s[i]
                 /\ FlattenSeq(s) = f[n]
    BY <1>2, Flattens
  <2>2. n \in Nat /\ n # 0 /\ DOMAIN s = 1..n /\ s \in [1..n -> Seq(S)]
    BY <1>2
  <2>3. \A i \in 1..n : Range(s[i]) \subseteq S
    <3>. TAKE i \in 1..n
    <3>1. s[i] \in Seq(S)
      BY <2>2
    <3>. QED  BY <3>1 DEF Range
  <2>. DEFINE P == {k \in Nat : k # 0 => /\ Range(f[k]) = Below(k)
                                         /\ Ordered => Ascends(f[k], R)}
  <2>4. 0 \in P
    OBVIOUS
  <2>5. ASSUME NEW k \in 1..n, k - 1 \in P PROVE k \in P
    <3>1. CASE k = 1
      <4>1. Below(1) = Range(s[1])
        BY <2>2, <2>3
      <4>2. Ordered => Ascends(s[1], R)
        BY <2>2
      <4>. HIDE DEF Ordered, Below
      <4>. QED  BY <2>1, <3>1, <4>1, <4>2
    <3>2. CASE k # 1
      <4>1. k \in 2..n /\ k - 1 # 0 /\ k - 1 \in 1..n
        BY <3>2
      <4>2. Range(f[k - 1]) = Below(k - 1) /\ (Ordered => Ascends(f[k - 1], R))
        BY <2>5, <4>1
      <4>3. f[k] = f[k - 1] \o s[k] /\ f[k - 1] \in Seq(S) /\ s[k] \in Seq(S)
        BY <2>1, <2>2, <4>1
      <4>4. Below(k) = Below(k - 1) \cup Range(s[k])
        <5>1. \A i : i \in 1..k <=> i \in 1..k - 1 \/ i = k
          BY <4>1
        <5>2. Range(s[k]) \subseteq S
          BY <2>3
        <5>. QED  BY <5>1, <5>2
      <4>5. Range(f[k]) = Below(k)
        <5>1. Range(f[k - 1] \o s[k]) = Range(f[k - 1]) \cup Range(s[k])
          BY <4>3, JoinedElements
        <5>. HIDE DEF Below
        <5>. QED  BY <4>2, <4>3, <4>4, <5>1, Zenon
      <4>6. ASSUME Ordered PROVE Ascends(f[k], R)
        <5>1. Ascends(s[k], R)
          BY <2>2, <4>6
        <5>2. \A x \in Range(f[k - 1]), y \in Range(s[k]) : <<x, y>> \in R
          <6>. SUFFICES ASSUME NEW x \in Below(k - 1), NEW y \in Range(s[k])
                        PROVE  <<x, y>> \in R
            BY <4>2
          <6>1. PICK i \in 1..k - 1 : x \in Range(s[i])
            OBVIOUS
          <6>2. i \in DOMAIN s /\ k \in DOMAIN s /\ i < k
            BY <2>2, <4>1
          <6>. QED  BY <4>6, <6>1, <6>2
        <5>3. Ascends(f[k - 1], R)
          BY <4>2, <4>6
        <5>. HIDE DEF Ordered, Below
        <5>. QED  BY <4>3, <5>1, <5>2, <5>3, JoinedAscends
      <4>. HIDE DEF Ordered, Below
      <4>. QED  BY <4>5, <4>6
    <3>. QED  BY <3>1, <3>2
  <2>6. n \in P
    <3>1. 0..n \subseteq P
      <4>. HIDE DEF P, n
      <4>. QED  BY <2>2, <2>4, <2>5, InductionTo
    <3>. HIDE DEF P
    <3>. QED  BY <2>2, <3>1
  <2>7. Range(f[n]) = Below(n) /\ (Ordered => Ascends(f[n], R)) /\ f[n] \in Seq(S)
    <3>1. n \in 1..n
      BY <2>2
    <3>2. f[n] \in Seq(S)
      BY <2>1, <3>1
    <3>. HIDE DEF Ordered, Below
    <3>. QED  BY <2>2, <2>6, <3>2
  <2>8. \A x : x \in Below(n) <=> \E i \in DOMAIN s : x \in Range(s[i])
    BY <2>2, <2>3
  <2>. HIDE DEF Below
  <2>. QED  BY <2>1, <2>7, <2>8
<1>. QED  BY <1>1, <1>2

-----------------------------------------------------------------------------
(***************************************************************************)
(* Conversations.                                                          *)
(***************************************************************************)

AllDocuments == [endpoint : Endpoints, instructions : BOOLEAN, messages : Messages]

IRParts    == [type : {"text", "image_url", "input_image"}, filled : BOOLEAN, place : Int \X Int]
IRMessages == [role : Roles, content : Seq(IRParts)]

Earlier(a, b) == a[1] < b[1] \/ (a[1] = b[1] /\ a[2] < b[2])

\* Parts that stand before others, and messages whose parts all do.
PartsBefore(S)    == {p \in S \X S : Earlier(p[1].place, p[2].place)}
MessagesBefore(S) ==
  {p \in S \X S : \A x \in Range(p[1].content), y \in Range(p[2].content) :
                    Earlier(x.place, y.place)}

\* What is picked out of a sequence is what was in it, in the same order.
LEMMA Picked ==
  ASSUME NEW S, NEW c \in Seq(S), NEW K, NEW s \in [DOMAIN c -> Seq(S)],
         \A i \in DOMAIN c : s[i] = IF c[i] \in K THEN <<c[i]>> ELSE <<>>,
         NEW R
  PROVE  /\ FlattenSeq(s) \in Seq(S)
         /\ \A x : x \in Range(FlattenSeq(s)) <=> x \in Range(c) /\ x \in K
         /\ Ascends(c, R) => Ascends(FlattenSeq(s), R)
<1>1. DOMAIN c = 1..Len(c) /\ Len(c) \in Nat /\ \A i \in DOMAIN c : c[i] \in S
  OBVIOUS
<1>2. \A i \in DOMAIN s : /\ s[i] = IF c[i] \in K THEN <<c[i]>> ELSE <<>>
                          /\ s[i] \in Seq(S) /\ DOMAIN s = DOMAIN c
  BY <1>1
<1>3. s \in Seq(Seq(S)) /\ DOMAIN s = DOMAIN c
  BY <1>1, <1>2
<1>4. \A i \in DOMAIN s : \A x : x \in Range(s[i]) <=> x = c[i] /\ c[i] \in K
  <2>. TAKE i \in DOMAIN s
  <2>1. CASE c[i] \in K
    <3>1. s[i] = <<c[i]>>
      BY <1>2, <2>1
    <3>2. Range(<<c[i]>>) = {c[i]}
      BY DEF Range
    <3>. QED  BY <2>1, <3>1, <3>2
  <2>2. CASE c[i] \notin K
    <3>1. s[i] = <<>>
      BY <1>2, <2>2
    <3>2. Range(<<>>) = {}
      BY DEF Range
    <3>. QED  BY <2>2, <3>1, <3>2
  <2>. QED  BY <2>1, <2>2
<1>5. \A i \in DOMAIN s : Ascends(s[i], R)
  <2>. TAKE i \in DOMAIN s
  <2>1. s[i] = <<c[i]>> \/ s[i] = <<>>
    BY <1>2
  <2>2. Ascends(<<c[i]>>, R) /\ Ascends(<<>>, R)
    BY DEF Ascends
  <2>. QED  BY <2>1, <2>2
<1>6. FlattenSeq(s) \in Seq(S)
  BY <1>3, Flattened
<1>7. \A x : x \in Range(FlattenSeq(s)) <=> x \in Range(c) /\ x \in K
  <2>1. \A x : x \in Range(FlattenSeq(s)) <=> \E i \in DOMAIN s : x \in Range(s[i])
    BY <1>3, Flattened
  <2>2. \A x : x \in Range(c) <=> \E i \in DOMAIN c : x = c[i]
    BY DEF Range
  <2>. QED  BY <1>3, <1>4, <2>1, <2>2
<1>8. ASSUME Ascends(c, R) PROVE Ascends(FlattenSeq(s), R)
  <2>1. \A i, j \in DOMAIN s : i < j => \A x \in Range(s[i]), y \in Range(s[j]) : <<x, y>> \in R
    BY <1>3, <1>4, <1>8 DEF Ascends
  <2>. QED  BY <1>3, <1>5, <2>1, Flattened
<1>. QED  BY <1>6, <1>7, <1>8

\* Filled keeps the parts that are not empty.
LEMMA FilledKeeps ==
  ASSUME NEW c \in Seq(IRParts)
  PROVE  /\ Filled(c) \in Seq(IRParts)
         /\ \A x : x \in Range(Filled(c)) <=> x \in Range(c) /\ x.filled
         /\ Ascends(c, PartsBefore(IRParts)) => Ascends(Filled(c), PartsBefore(IRParts))
<1>. DEFINE K == {x \in IRParts : x.filled}
            s == [i \in DOMAIN c |-> IF c[i].filled THEN <<c[i]>> ELSE <<>>]
            R == PartsBefore(IRParts)
<1>1. \A i \in DOMAIN c : c[i] \in IRParts
  OBVIOUS
<1>2. \A x \in Range(c) : x \in IRParts
  BY <1>1 DEF Range
<1>3. s \in [DOMAIN c -> Seq(IRParts)]
  BY <1>1
<1>4. \A i \in DOMAIN c : s[i] = IF c[i] \in K THEN <<c[i]>> ELSE <<>>
  BY <1>1
<1>5. \A x : x \in Range(c) /\ x \in K <=> x \in Range(c) /\ x.filled
  BY <1>2
<1>6. Filled(c) = FlattenSeq(s)
  BY Zenon DEF Filled
<1>. HIDE DEF K, s, R
<1>7. /\ FlattenSeq(s) \in Seq(IRParts)
      /\ \A x : x \in Range(FlattenSeq(s)) <=> x \in Range(c) /\ x \in K
      /\ Ascends(c, R) => Ascends(FlattenSeq(s), R)
  BY <1>3, <1>4, Picked
<1>. QED  BY <1>5, <1>6, <1>7 DEF R

\* The order of places, as the property states it.
LEMMA OrderIs ==
  ASSUME NEW S, NEW t \in Seq(S), Ascends(t, PartsBefore(S))
  PROVE  InOrder(t)
  BY DEF Ascends, PartsBefore, InOrder, Earlier

SpokenParts == [place : Int \X Int, role : Roles]

\* What a list of messages says: every part that is not empty, in order if the parts are.
LEMMA SpokenIs ==
  ASSUME NEW ms, NEW n \in Nat, DOMAIN ms = 1..n,
         \A i \in 1..n : /\ ms[i].role \in Roles /\ ms[i].content \in Seq(IRParts)
                         /\ Ascends(ms[i].content, PartsBefore(IRParts)),
         \A i, j \in 1..n : i < j =>
           \A x \in Range(ms[i].content), y \in Range(ms[j].content) : Earlier(x.place, y.place)
  PROVE  /\ InOrder(Spoken(ms))
         /\ \A z : z \in Range(Spoken(ms)) <=>
              \E i \in 1..n : \E x \in Range(ms[i].content) :
                x.filled /\ z = [place |-> x.place, role |-> ms[i].role]
<1>. DEFINE parts(m) == Filled(ms[m].content)
            said(m)  == [p \in DOMAIN parts(m) |-> [place |-> parts(m)[p].place,
                                                    role |-> ms[m].role]]
            s == [m \in DOMAIN ms |-> said(m)]
            R == PartsBefore(SpokenParts)
<1>1. ASSUME NEW m \in 1..n
      PROVE  /\ said(m) \in Seq(SpokenParts)
             /\ \A z : z \in Range(said(m)) <=>
                  \E x \in Range(ms[m].content) :
                    x.filled /\ z = [place |-> x.place, role |-> ms[m].role]
             /\ Ascends(said(m), R)
  <2>. DEFINE q == parts(m)
  <2>1. /\ q \in Seq(IRParts)
        /\ \A x : x \in Range(q) <=> x \in Range(ms[m].content) /\ x.filled
        /\ Ascends(q, PartsBefore(IRParts))
    BY FilledKeeps
  <2>2. /\ DOMAIN q = 1..Len(q) /\ Len(q) \in Nat
        /\ \A p \in DOMAIN q : q[p] \in IRParts
    BY <2>1
  <2>3. said(m) = [p \in DOMAIN q |-> [place |-> q[p].place, role |-> ms[m].role]]
    BY Zenon
  <2>. HIDE DEF q, said
  <2>4. DOMAIN said(m) = DOMAIN q
        /\ \A p \in DOMAIN q : /\ said(m)[p] = [place |-> q[p].place, role |-> ms[m].role]
                               /\ said(m)[p] \in SpokenParts
    BY <2>2, <2>3 DEF IRParts, SpokenParts
  <2>5. said(m) \in Seq(SpokenParts)
    BY <2>2, <2>3, <2>4
  <2>6. ASSUME NEW z
        PROVE  z \in Range(said(m)) <=>
                 \E x \in Range(ms[m].content) :
                   x.filled /\ z = [place |-> x.place, role |-> ms[m].role]
    <3>1. z \in Range(said(m)) <=> \E p \in DOMAIN q : z = said(m)[p]
      BY <2>4 DEF Range
    <3>2. \A x : x \in Range(q) <=> \E p \in DOMAIN q : x = q[p]
      BY DEF Range
    <3>3. z \in Range(said(m)) <=>
            \E p \in DOMAIN q : z = [place |-> q[p].place, role |-> ms[m].role]
      BY <2>4, <3>1
    <3>. QED  BY <2>1, <3>2, <3>3
  <2>7. Ascends(said(m), R)
    <3>. SUFFICES ASSUME NEW i \in DOMAIN q, NEW j \in DOMAIN q, i < j
                  PROVE  <<said(m)[i], said(m)[j]>> \in R
      BY <2>4 DEF Ascends
    <3>1. <<q[i], q[j]>> \in PartsBefore(IRParts)
      BY <2>1 DEF Ascends
    <3>2. Earlier(q[i].place, q[j].place)
      BY <3>1 DEF PartsBefore
    <3>3. Earlier(said(m)[i].place, said(m)[j].place)
      BY <2>4, <3>2
    <3>. QED  BY <2>4, <3>3 DEF PartsBefore
  <2>. QED  BY <2>5, <2>6, <2>7
<1>2. Spoken(ms) = FlattenSeq(s)
  BY Zenon DEF Spoken
<1>3. DOMAIN s = 1..n /\ \A m \in 1..n : s[m] = said(m)
  BY Zenon
<1>. HIDE DEF s, said
<1>4. s \in Seq(Seq(SpokenParts))
  <2>1. s = [m \in 1..n |-> s[m]]
    BY Zenon DEF s
  <2>2. \A m \in 1..n : s[m] \in Seq(SpokenParts)
    BY <1>1, <1>3
  <2>. QED  BY <2>1, <2>2
<1>5. \A i, j \in DOMAIN s : i < j =>
        \A x \in Range(s[i]), y \in Range(s[j]) : <<x, y>> \in R
  <2>. SUFFICES ASSUME NEW i \in 1..n, NEW j \in 1..n, i < j,
                       NEW x \in Range(said(i)), NEW y \in Range(said(j))
                PROVE  <<x, y>> \in R
    BY <1>3
  <2>1. x \in SpokenParts /\ y \in SpokenParts
    <3>1. said(i) \in Seq(SpokenParts) /\ said(j) \in Seq(SpokenParts)
      BY <1>1
    <3>. QED  BY <3>1 DEF Range
  <2>2. PICK v \in Range(ms[i].content) : x = [place |-> v.place, role |-> ms[i].role]
    BY <1>1
  <2>3. PICK w \in Range(ms[j].content) : y = [place |-> w.place, role |-> ms[j].role]
    BY <1>1
  <2>4. Earlier(x.place, y.place)
    BY <2>2, <2>3
  <2>. QED  BY <2>1, <2>4 DEF PartsBefore
<1>. HIDE DEF R
<1>6. Ascends(FlattenSeq(s), R) /\ FlattenSeq(s) \in Seq(SpokenParts)
  BY <1>1, <1>3, <1>4, <1>5, Flattened
<1>7. InOrder(Spoken(ms))
  BY <1>2, <1>6, OrderIs DEF R
<1>8. \A z : z \in Range(FlattenSeq(s)) <=> \E i \in DOMAIN s : z \in Range(s[i])
  BY <1>4, Flattened
<1>9. \A z : z \in Range(Spoken(ms)) <=>
        \E i \in 1..n : \E x \in Range(ms[i].content) :
          x.filled /\ z = [place |-> x.place, role |-> ms[i].role]
  <2>. TAKE z
  <2>1. z \in Range(Spoken(ms)) <=> \E i \in 1..n : z \in Range(said(i))
    BY <1>2, <1>3, <1>8
  <2>. QED  BY <1>1, <2>1
<1>. QED  BY <1>7, <1>9

\* Every message of the neutral form, and where its parts stood in the document.
LEMMA ToIRIs ==
  ASSUME NEW d \in AllDocuments
  PROVE  \E k \in {0, 1} :
           /\ ToIR(d) \in Seq(IRMessages)
           /\ Len(ToIR(d)) = k + Len(d.messages)
           /\ k = 1 <=> d.instructions
           /\ \A i \in DOMAIN ToIR(d) :
                /\ i = k \/ i - k \in DOMAIN d.messages
                /\ ToIR(d)[i] =
                     IF i = k
                     THEN [role |-> "developer",
                           content |-> <<Part("responses", "text", InstructionPlace)>>]
                     ELSE [role |-> d.messages[i - k].role,
                           content |-> [p \in DOMAIN d.messages[i - k].parts |->
                             Part(d.endpoint, d.messages[i - k].parts[p], <<i - k, p>>)]]
<1>. DEFINE ms == d.messages
            k == IF d.instructions THEN 1 ELSE 0
            said(m) == [role |-> ms[m].role,
                        content |-> [p \in DOMAIN ms[m].parts |->
                                      Part(d.endpoint, ms[m].parts[p], <<m, p>>)]]
            body == [m \in DOMAIN ms |-> said(m)]
            head == [role |-> "developer",
                     content |-> <<Part("responses", "text", InstructionPlace)>>]
<1>1. /\ ms \in Seq([role : Roles, parts : Seq(PartKinds)])
      /\ d.endpoint \in Endpoints /\ d.instructions \in BOOLEAN
  BY DEF AllDocuments, Messages
<1>2. /\ DOMAIN ms = 1..Len(ms) /\ Len(ms) \in Nat
      /\ \A m \in DOMAIN ms : ms[m].role \in Roles /\ ms[m].parts \in Seq(PartKinds)
  <2>. DEFINE M == [role : Roles, parts : Seq(PartKinds)]
  <2>1. ms \in Seq(M)
    BY <1>1
  <2>2. DOMAIN ms = 1..Len(ms) /\ Len(ms) \in Nat /\ \A m \in DOMAIN ms : ms[m] \in M
    <3>. HIDE DEF M, ms
    <3>. QED  BY <2>1
  <2>3. \A m \in M : m.role \in Roles /\ m.parts \in Seq(PartKinds)
    OBVIOUS
  <2>. HIDE DEF M, ms
  <2>. QED  BY <2>2, <2>3
<1>3. \A kind \in PartKinds, e \in Endpoints, place \in Int \X Int : Part(e, kind, place) \in IRParts
  BY DEF Part, IRParts
<1>4. ASSUME NEW m \in DOMAIN ms PROVE said(m) \in IRMessages
  <2>. DEFINE parts == ms[m].parts
              c == [p \in DOMAIN parts |-> Part(d.endpoint, parts[p], <<m, p>>)]
  <2>1. parts \in Seq(PartKinds) /\ m \in Int
    BY <1>2
  <2>2. DOMAIN parts = 1..Len(parts) /\ Len(parts) \in Nat /\ \A p \in DOMAIN parts : parts[p] \in PartKinds
    BY <2>1
  <2>. HIDE DEF parts
  <2>3. \A p \in DOMAIN parts : Part(d.endpoint, parts[p], <<m, p>>) \in IRParts
    BY <1>1, <1>3, <2>1, <2>2
  <2>4. c \in Seq(IRParts)
    BY <2>2, <2>3
  <2>5. said(m) = [role |-> ms[m].role, content |-> c]
    BY Zenon DEF parts
  <2>. HIDE DEF c, said
  <2>. QED  BY <1>2, <2>4, <2>5 DEF IRMessages
<1>. HIDE DEF said
<1>5. body \in Seq(IRMessages) /\ Len(body) = Len(ms) /\ \A m \in DOMAIN ms : body[m] = said(m)
  BY <1>2, <1>4
<1>6. head \in IRMessages
  <2>1. Part("responses", "text", InstructionPlace) \in IRParts
    BY DEF Part, IRParts, InstructionPlace
  <2>2. <<Part("responses", "text", InstructionPlace)>> \in Seq(IRParts)
    BY <2>1
  <2>. QED  BY <2>2 DEF IRMessages, Roles
<1>7. ToIR(d) = Instructions(d) \o body
  BY Zenon DEF ToIR, said
<1>8. Instructions(d) = IF d.instructions THEN <<head>> ELSE <<>>
  BY Zenon DEF Instructions
<1>. HIDE DEF body, head, ms
<1>9. /\ ToIR(d) \in Seq(IRMessages)
      /\ Len(ToIR(d)) = k + Len(ms)
      /\ \A i \in 1..k + Len(ms) : ToIR(d)[i] = IF i = k THEN head ELSE said(i - k)
  <2>1. CASE d.instructions
    <3>1. <<head>> \in Seq(IRMessages) /\ Len(<<head>>) = 1 /\ <<head>>[1] = head
      BY <1>6
    <3>2. ToIR(d) = <<head>> \o body
      BY <1>7, <1>8, <2>1
    <3>3. /\ ToIR(d) \in Seq(IRMessages)
          /\ Len(ToIR(d)) = 1 + Len(ms)
          /\ \A i \in 1..1 + Len(ms) : ToIR(d)[i] = IF i <= 1 THEN <<head>>[i] ELSE body[i - 1]
      BY <1>5, <3>1, <3>2, ConcatProperties
    <3>4. \A i \in 1..1 + Len(ms) : ToIR(d)[i] = IF i = 1 THEN head ELSE said(i - 1)
      <4>. TAKE i \in 1..1 + Len(ms)
      <4>1. i = 1 \/ (~(i <= 1) /\ i # 1 /\ i - 1 \in DOMAIN ms)
        BY <1>2
      <4>. QED  BY <1>5, <3>1, <3>3, <4>1
    <3>. QED  BY <2>1, <3>3, <3>4
  <2>2. CASE ~d.instructions
    <3>1. ToIR(d) = body
      BY <1>5, <1>7, <1>8, <2>2
    <3>2. \A i \in 1..0 + Len(ms) : i # 0 /\ i - 0 = i /\ i \in DOMAIN ms
      BY <1>2
    <3>. QED  BY <1>2, <1>5, <2>2, <3>1, <3>2
  <2>. QED  BY <2>1, <2>2
<1>10. DOMAIN ToIR(d) = 1..k + Len(ms)
  BY <1>2, <1>9
<1>11. \A i \in DOMAIN ToIR(d) : i = k \/ i - k \in DOMAIN ms
  BY <1>2, <1>10
<1>12. k \in {0, 1} /\ (k = 1 <=> d.instructions)
  BY <1>1
<1>13. \A i \in DOMAIN ToIR(d) :
         /\ i = k \/ i - k \in DOMAIN ms
         /\ ToIR(d)[i] = IF i = k THEN head ELSE said(i - k)
  BY <1>9, <1>10, <1>11
<1>14. ToIR(d) \in Seq(IRMessages) /\ Len(ToIR(d)) = k + Len(ms)
  BY <1>9
<1>. HIDE DEF k
<1>. QED  BY <1>12, <1>13, <1>14, Zenon DEF ms, head, said

\* The type of a part of the neutral form, by its kind in the document.
TypeFor(d, kind) ==
  IF kind \in {"text", "blank"} THEN "text"
  ELSE IF d.endpoint = "chat" THEN "image_url" ELSE "input_image"

\* Each part of the neutral form is that of a place, said in the role the place has, and
\* each place has a part.
LEMMA PlacesKept ==
  ASSUME NEW d \in AllDocuments
  PROVE  \E k \in {0, 1} :
           /\ \A i \in DOMAIN ToIR(d) : \A p \in DOMAIN ToIR(d)[i].content :
                /\ <<i - k, p>> \in Places(d)
                /\ ToIR(d)[i].role = RoleAt(d, <<i - k, p>>)
                /\ ToIR(d)[i].content[p].place = <<i - k, p>>
                /\ ToIR(d)[i].content[p].filled <=> KindAt(d, <<i - k, p>>) \in {"text", "image"}
                /\ ToIR(d)[i].content[p].type = TypeFor(d, KindAt(d, <<i - k, p>>))
           /\ \A place \in Places(d) :
                \E i \in DOMAIN ToIR(d) : \E p \in DOMAIN ToIR(d)[i].content : place = <<i - k, p>>
<1>1. PICK k \in {0, 1} :
           /\ ToIR(d) \in Seq(IRMessages)
           /\ Len(ToIR(d)) = k + Len(d.messages)
           /\ k = 1 <=> d.instructions
           /\ \A i \in DOMAIN ToIR(d) :
                /\ i = k \/ i - k \in DOMAIN d.messages
                /\ ToIR(d)[i] =
                     IF i = k
                     THEN [role |-> "developer",
                           content |-> <<Part("responses", "text", InstructionPlace)>>]
                     ELSE [role |-> d.messages[i - k].role,
                           content |-> [p \in DOMAIN d.messages[i - k].parts |->
                             Part(d.endpoint, d.messages[i - k].parts[p], <<i - k, p>>)]]
  BY ToIRIs
<1>2. /\ d.messages \in Seq([role : Roles, parts : Seq(PartKinds)])
      /\ DOMAIN d.messages = 1..Len(d.messages) /\ Len(d.messages) \in Nat
      /\ DOMAIN ToIR(d) = 1..k + Len(d.messages)
  <2>1. d.messages \in Seq([role : Roles, parts : Seq(PartKinds)])
    BY DEF AllDocuments, Messages
  <2>. QED  BY <1>1, <2>1
<1>. DEFINE irs == ToIR(d)
<1>3. ASSUME NEW i \in DOMAIN irs, NEW p \in DOMAIN irs[i].content
      PROVE  /\ <<i - k, p>> \in Places(d)
             /\ irs[i].role = RoleAt(d, <<i - k, p>>)
             /\ irs[i].content[p] = Part(IF i = k THEN "responses" ELSE d.endpoint,
                                         KindAt(d, <<i - k, p>>), <<i - k, p>>)
             /\ i = k => KindAt(d, <<i - k, p>>) = "text"
  <2>0. i \in Int /\ i >= 1
    BY <1>2
  <2>1. CASE i = k
    <3>1. k = 1 /\ i - k = 0 /\ d.instructions
      BY <1>1, <2>0, <2>1
    <3>2. irs[i] = [role |-> "developer",
                    content |-> <<Part("responses", "text", InstructionPlace)>>]
      BY <1>1, <2>1
    <3>. HIDE DEF irs
    <3>3. p = 1
      BY <3>2
    <3>4. <<i - k, p>> = InstructionPlace
      BY <3>1, <3>3 DEF InstructionPlace
    <3>5. irs[i].role = "developer" /\ irs[i].content[p] = Part("responses", "text", InstructionPlace)
      BY <3>2, <3>3
    <3>6. InstructionPlace \in Places(d)
      BY <3>1 DEF Places
    <3>. QED  BY <2>1, <3>4, <3>5, <3>6 DEF RoleAt, KindAt
  <2>2. CASE i # k
    <3>. DEFINE m == i - k
    <3>1. m \in DOMAIN d.messages /\ m \in Int /\ m >= 1
      BY <1>1, <1>2, <2>2
    <3>2. irs[i] = [role |-> d.messages[m].role,
                    content |-> [q \in DOMAIN d.messages[m].parts |->
                                  Part(d.endpoint, d.messages[m].parts[q], <<m, q>>)]]
      BY <1>1, <2>2, Zenon
    <3>. HIDE DEF m, irs
    <3>3. p \in DOMAIN d.messages[m].parts
      BY <3>2
    <3>4. /\ irs[i].role = d.messages[m].role
          /\ irs[i].content[p] = Part(d.endpoint, d.messages[m].parts[p], <<m, p>>)
      BY <3>2, <3>3
    <3>5. <<m, p>> # InstructionPlace /\ <<m, p>>[1] = m /\ <<m, p>>[2] = p
      BY <3>1 DEF InstructionPlace
    <3>6. <<m, p>> \in Places(d)
      <4>1. <<m, p>> \in {<<m, q>> : q \in DOMAIN d.messages[m].parts}
        BY <3>3
      <4>. QED  BY <3>1, <4>1 DEF Places
    <3>7. RoleAt(d, <<m, p>>) = d.messages[m].role /\ KindAt(d, <<m, p>>) = d.messages[m].parts[p]
      BY <3>5 DEF RoleAt, KindAt
    <3>8. /\ <<m, p>> \in Places(d)
          /\ irs[i].role = RoleAt(d, <<m, p>>)
          /\ irs[i].content[p] = Part(d.endpoint, KindAt(d, <<m, p>>), <<m, p>>)
      BY <3>4, <3>6, <3>7, Zenon
    <3>. QED  BY <2>2, <3>8, Zenon DEF m
  <2>. QED  BY <2>1, <2>2
<1>4. ASSUME NEW place \in Places(d)
      PROVE  \E i \in DOMAIN irs : \E p \in DOMAIN irs[i].content : place = <<i - k, p>>
  <2>1. CASE d.instructions /\ place = InstructionPlace
    <3>1. k = 1 /\ 1 \in DOMAIN irs
      BY <1>1, <1>2, <2>1
    <3>2. irs[1] = [role |-> "developer",
                    content |-> <<Part("responses", "text", InstructionPlace)>>]
      BY <1>1, <3>1
    <3>. HIDE DEF irs
    <3>3. 1 \in DOMAIN irs[1].content
      BY <3>2
    <3>4. place = <<1 - k, 1>>
      BY <2>1, <3>1 DEF InstructionPlace
    <3>. QED  BY <3>1, <3>3, <3>4
  <2>2. ASSUME NEW m \in DOMAIN d.messages, NEW p \in DOMAIN d.messages[m].parts, place = <<m, p>>
        PROVE  \E i \in DOMAIN irs : \E q \in DOMAIN irs[i].content : place = <<i - k, q>>
    <3>1. PICK i \in DOMAIN irs : i # k /\ i - k = m
      <4>1. m + k \in DOMAIN irs /\ m + k # k /\ (m + k) - k = m
        BY <1>2
      <4>. QED  BY <4>1
    <3>2. irs[i] = [role |-> d.messages[i - k].role,
                    content |-> [q \in DOMAIN d.messages[i - k].parts |->
                                  Part(d.endpoint, d.messages[i - k].parts[q], <<i - k, q>>)]]
      BY <1>1, <3>1, Zenon
    <3>. HIDE DEF irs
    <3>3. DOMAIN irs[i].content = DOMAIN d.messages[i - k].parts
      BY <3>2
    <3>4. p \in DOMAIN irs[i].content
      BY <3>1, <3>3
    <3>. QED  BY <2>2, <3>1, <3>4
  <2>. QED  BY <2>1, <2>2 DEF Places
<1>5. \A i \in DOMAIN irs : \A p \in DOMAIN irs[i].content :
        /\ irs[i].content[p].place = <<i - k, p>>
        /\ irs[i].content[p].filled <=> KindAt(d, <<i - k, p>>) \in {"text", "image"}
        /\ irs[i].content[p].type = TypeFor(d, KindAt(d, <<i - k, p>>))
  <2>. HIDE DEF irs
  <2>. TAKE i \in DOMAIN irs
  <2>. TAKE p \in DOMAIN irs[i].content
  <2>. DEFINE kind == KindAt(d, <<i - k, p>>)
              e == IF i = k THEN "responses" ELSE d.endpoint
  <2>1. irs[i].content[p] = Part(e, kind, <<i - k, p>>) /\ (i = k => kind = "text")
    BY <1>3, Zenon
  <2>. HIDE DEF kind
  <2>2. Part(e, kind, <<i - k, p>>).place = <<i - k, p>>
        /\ (Part(e, kind, <<i - k, p>>).filled <=> kind \in {"text", "image"})
    BY DEF Part
  <2>3. Part(e, kind, <<i - k, p>>).type = TypeFor(d, kind)
    BY <2>1 DEF Part, TypeFor
  <2>. HIDE DEF e
  <2>. QED  BY <2>1, <2>2, <2>3 DEF kind
<1>. QED  BY <1>3, <1>4, <1>5


\* A document in the neutral form: its parts stand in order, each with its place, its role
\* and its type, and no place is missing.
Keeps(d, irs) ==
  /\ Len(irs) \in Nat /\ DOMAIN irs = 1..Len(irs)
  /\ \A i \in DOMAIN irs :
       /\ irs[i] \in IRMessages
       /\ Ascends(irs[i].content, PartsBefore(IRParts))
       /\ \A x \in Range(irs[i].content) :
            /\ x.place \in Places(d) /\ irs[i].role = RoleAt(d, x.place)
            /\ x.filled <=> KindAt(d, x.place) \in {"text", "image"}
            /\ x.type = TypeFor(d, KindAt(d, x.place))
  /\ \A i, j \in DOMAIN irs : i < j =>
       \A x \in Range(irs[i].content), y \in Range(irs[j].content) : Earlier(x.place, y.place)
  /\ \A place \in Places(d) :
       \E i \in DOMAIN irs : \E x \in Range(irs[i].content) : x.place = place

LEMMA NeutralFormKeeps ==
  ASSUME NEW d \in AllDocuments
  PROVE  Keeps(d, ToIR(d)) /\ ToIR(d) \in Seq(IRMessages)
<1>. DEFINE irs == ToIR(d)
<1>1. irs \in Seq(IRMessages)
  BY ToIRIs
<1>2. PICK k \in {0, 1} :
           /\ \A i \in DOMAIN irs : \A p \in DOMAIN irs[i].content :
                /\ <<i - k, p>> \in Places(d)
                /\ irs[i].role = RoleAt(d, <<i - k, p>>)
                /\ irs[i].content[p].place = <<i - k, p>>
                /\ irs[i].content[p].filled <=> KindAt(d, <<i - k, p>>) \in {"text", "image"}
                /\ irs[i].content[p].type = TypeFor(d, KindAt(d, <<i - k, p>>))
           /\ \A place \in Places(d) :
                \E i \in DOMAIN irs : \E p \in DOMAIN irs[i].content : place = <<i - k, p>>
  BY PlacesKept
<1>. HIDE DEF irs
<1>3. Len(irs) \in Nat /\ DOMAIN irs = 1..Len(irs) /\ \A i \in DOMAIN irs : irs[i] \in IRMessages
  BY <1>1
<1>4. ASSUME NEW i \in DOMAIN irs
      PROVE  /\ DOMAIN irs[i].content \subseteq Int
             /\ \A p \in DOMAIN irs[i].content : irs[i].content[p] \in IRParts
  <2>1. irs[i].content \in Seq(IRParts)
    BY <1>3 DEF IRMessages
  <2>. DEFINE c == irs[i].content
  <2>. HIDE DEF c
  <2>2. c \in Seq(IRParts)
    BY <2>1 DEF c
  <2>3. DOMAIN c \subseteq Int /\ \A p \in DOMAIN c : c[p] \in IRParts
    BY <2>2
  <2>. QED  BY <2>3 DEF c
<1>5. ASSUME NEW i \in DOMAIN irs PROVE Ascends(irs[i].content, PartsBefore(IRParts))
  <2>. SUFFICES ASSUME NEW p \in DOMAIN irs[i].content, NEW q \in DOMAIN irs[i].content, p < q
                PROVE  <<irs[i].content[p], irs[i].content[q]>> \in PartsBefore(IRParts)
    BY DEF Ascends
  <2>1. irs[i].content[p].place = <<i - k, p>> /\ irs[i].content[q].place = <<i - k, q>>
    BY <1>2
  <2>2. Earlier(<<i - k, p>>, <<i - k, q>>)
    BY DEF Earlier
  <2>. QED  BY <1>4, <2>1, <2>2 DEF PartsBefore
<1>6. ASSUME NEW i \in DOMAIN irs, NEW x \in Range(irs[i].content)
      PROVE  /\ x.place \in Places(d) /\ irs[i].role = RoleAt(d, x.place)
             /\ x.filled <=> KindAt(d, x.place) \in {"text", "image"}
             /\ x.type = TypeFor(d, KindAt(d, x.place))
  <2>1. PICK p \in DOMAIN irs[i].content : x = irs[i].content[p]
    BY DEF Range
  <2>2. x.place = <<i - k, p>>
    BY <1>2, <2>1
  <2>. QED  BY <1>2, <2>1, <2>2, Zenon
<1>7. ASSUME NEW i \in DOMAIN irs, NEW j \in DOMAIN irs, i < j,
             NEW x \in Range(irs[i].content), NEW y \in Range(irs[j].content)
      PROVE  Earlier(x.place, y.place)
  <2>1. PICK p \in DOMAIN irs[i].content : x = irs[i].content[p]
    BY DEF Range
  <2>2. PICK q \in DOMAIN irs[j].content : y = irs[j].content[q]
    BY DEF Range
  <2>3. x.place = <<i - k, p>> /\ y.place = <<j - k, q>>
    BY <1>2, <2>1, <2>2
  <2>4. i - k < j - k
    BY <1>3, <1>7
  <2>. QED  BY <2>3, <2>4 DEF Earlier
<1>8. ASSUME NEW place \in Places(d)
      PROVE  \E i \in DOMAIN irs : \E x \in Range(irs[i].content) : x.place = place
  <2>0. PICK i \in DOMAIN irs : \E p \in DOMAIN irs[i].content : place = <<i - k, p>>
    BY <1>2
  <2>1. PICK p \in DOMAIN irs[i].content : place = <<i - k, p>>
    BY <2>0
  <2>2. irs[i].content[p].place = place /\ irs[i].content[p] \in Range(irs[i].content)
    BY <1>2, <2>1 DEF Range
  <2>. QED  BY <2>2
<1>9. Keeps(d, irs)
  BY <1>3, <1>5, <1>6, <1>7, <1>8 DEF Keeps
<1>. QED  BY <1>1, <1>9 DEF irs

\* In a conversation that is sent, a part is empty exactly where the document has an empty
\* text: an image without a URL is refused.
LEMMA NothingElseIsEmpty ==
  ASSUME NEW d \in AllDocuments, Accepted(d), NEW irs, Keeps(d, irs),
         NEW a \in {"openai_compatible", "codex_responses"}, Convertible(a, irs),
         NEW i \in DOMAIN irs, NEW x \in Range(irs[i].content)
  PROVE  x.filled <=> KindAt(d, x.place) # "blank"
<1>. DEFINE kind == KindAt(d, x.place)
<1>1. /\ x.place \in Places(d)
      /\ x.filled <=> kind \in {"text", "image"}
      /\ x.type = TypeFor(d, kind)
  BY DEF Keeps
<1>2. kind = "text" \/ kind \in KnownKinds(d.endpoint)
  <2>1. CASE x.place = InstructionPlace
    BY <2>1 DEF KindAt
  <2>2. CASE x.place # InstructionPlace
    <3>0. PICK m \in DOMAIN d.messages : \E p \in DOMAIN d.messages[m].parts : x.place = <<m, p>>
      BY <1>1, <2>2 DEF Places
    <3>1. PICK p \in DOMAIN d.messages[m].parts : x.place = <<m, p>>
      BY <3>0
    <3>2. kind = d.messages[m].parts[p]
      BY <2>2, <3>1 DEF KindAt
    <3>3. d.messages[m] \in Range(d.messages) /\ kind \in Range(d.messages[m].parts)
      BY <3>2 DEF Range
    <3>. HIDE DEF kind
    <3>. QED  BY <3>3 DEF Accepted
  <2>. QED  BY <2>1, <2>2
<1>. HIDE DEF kind
<1>3. ASSUME kind = "file" PROVE FALSE
  <2>1. d.endpoint = "responses"
    BY <1>2, <1>3 DEF KnownKinds
  <2>2. x.type = "input_image" /\ ~x.filled
    BY <1>1, <1>3, <2>1 DEF TypeFor
  <2>3. irs[i] \in Range(irs)
    BY DEF Range
  <2>4. CASE a = "codex_responses"
    <3>1. CodexConvertible(irs)
      BY <2>4 DEF Convertible
    <3>. QED  BY <2>2, <2>3, <3>1 DEF CodexConvertible
  <2>5. CASE a = "openai_compatible"
    <3>1. ChatConvertible(irs)
      BY <2>5 DEF Convertible
    <3>. QED  BY <2>2, <2>3, <3>1 DEF ChatConvertible, ChatPartTypes
  <2>. QED  BY <2>4, <2>5
<1>4. kind \in {"text", "blank", "image"}
  BY <1>2, <1>3 DEF KnownKinds
<1>. QED  BY <1>1, <1>4 DEF kind

\* The places a conversation has something to say at.
SubstanceOf(d) == {place \in Places(d) : KindAt(d, place) # "blank"}

\* An OpenAI-compatible upstream is said everything.
LEMMA ChatCarries ==
  ASSUME NEW d \in AllDocuments, NEW irs \in Seq(IRMessages), Keeps(d, irs),
         \A i \in DOMAIN irs : \A x \in Range(irs[i].content) :
           x.filled <=> KindAt(d, x.place) # "blank"
  PROVE  /\ Filled(ChatRequest(irs).instructions) = <<>>
         /\ InOrder(Spoken(ChatRequest(irs).input))
         /\ Range(Spoken(ChatRequest(irs).input)) =
              {[place |-> place, role |-> RoleAt(d, place)] : place \in SubstanceOf(d)}
<1>. DEFINE ms == [m \in DOMAIN irs |-> ChatMessage(irs[m])]
            n  == Len(irs)
<1>1. ChatRequest(irs).instructions = <<>> /\ ChatRequest(irs).input = ms
  BY DEF ChatRequest
<1>2. Filled(<<>>) = <<>>
  <2>1. Filled(<<>>) = FlattenSeq([p \in DOMAIN <<>> |->
                                   IF <<>>[p].filled THEN <<<<>>[p]>> ELSE <<>>])
    BY Zenon DEF Filled
  <2>2. [p \in DOMAIN <<>> |-> IF <<>>[p].filled THEN <<<<>>[p]>> ELSE <<>>] = <<>>
    OBVIOUS
  <2>3. FlattenSeq(<<>>) = <<>>
    BY DEF FlattenSeq
  <2>. QED  BY <2>1, <2>2, <2>3
<1>3. n \in Nat /\ DOMAIN irs = 1..n
  BY DEF Keeps
<1>4. DOMAIN ms = 1..n
  BY <1>3
<1>5. ASSUME NEW i \in 1..n
      PROVE  /\ ms[i].role = irs[i].role /\ ms[i].role \in Roles
             /\ ms[i].content \in Seq(IRParts)
             /\ Ascends(ms[i].content, PartsBefore(IRParts))
             /\ Range(ms[i].content) \subseteq Range(irs[i].content)
             /\ \A x \in Range(irs[i].content) : x.filled => x \in Range(ms[i].content)
  <2>1. ms[i] = ChatMessage(irs[i])
    BY <1>3
  <2>2. irs[i] \in IRMessages /\ Ascends(irs[i].content, PartsBefore(IRParts))
    BY <1>3 DEF Keeps
  <2>. HIDE DEF ms
  <2>3. irs[i].role \in Roles /\ irs[i].content \in Seq(IRParts)
    BY <2>2 DEF IRMessages
  <2>4. ms[i].role = irs[i].role
    BY <2>1 DEF ChatMessage
  <2>5. CASE HasImages(irs[i])
    <3>1. ms[i].content = irs[i].content
      BY <2>1, <2>5 DEF ChatMessage
    <3>. QED  BY <2>2, <2>3, <2>4, <3>1
  <2>6. CASE ~HasImages(irs[i])
    <3>1. ms[i].content = Filled(irs[i].content)
      BY <2>1, <2>6 DEF ChatMessage
    <3>2. /\ Filled(irs[i].content) \in Seq(IRParts)
          /\ \A x : x \in Range(Filled(irs[i].content)) <=> x \in Range(irs[i].content) /\ x.filled
          /\ Ascends(Filled(irs[i].content), PartsBefore(IRParts))
      BY <2>2, <2>3, FilledKeeps
    <3>. QED  BY <2>3, <2>4, <3>1, <3>2
  <2>. QED  BY <2>5, <2>6
<1>. HIDE DEF ms, n
<1>6. \A i, j \in 1..n : i < j =>
        \A x \in Range(ms[i].content), y \in Range(ms[j].content) : Earlier(x.place, y.place)
  BY <1>3, <1>5 DEF Keeps
<1>7. /\ InOrder(Spoken(ms))
      /\ \A z : z \in Range(Spoken(ms)) <=>
           \E i \in 1..n : \E x \in Range(ms[i].content) :
             x.filled /\ z = [place |-> x.place, role |-> ms[i].role]
  <2>1. \A i \in 1..n : /\ ms[i].role \in Roles /\ ms[i].content \in Seq(IRParts)
                        /\ Ascends(ms[i].content, PartsBefore(IRParts))
    BY <1>5
  <2>2. n \in Nat
    BY <1>3
  <2>. QED  BY <1>4, <1>6, <2>1, <2>2, SpokenIs, ZenonT(60)
<1>8. ASSUME NEW z
      PROVE  z \in Range(Spoken(ms)) <=>
               \E place \in SubstanceOf(d) : z = [place |-> place, role |-> RoleAt(d, place)]
  <2>1. ASSUME NEW i \in 1..n, NEW x \in Range(ms[i].content), x.filled,
               z = [place |-> x.place, role |-> ms[i].role]
        PROVE  \E place \in SubstanceOf(d) : z = [place |-> place, role |-> RoleAt(d, place)]
    <3>1. x \in Range(irs[i].content) /\ i \in DOMAIN irs
      BY <1>3, <1>5
    <3>2. x.place \in Places(d) /\ irs[i].role = RoleAt(d, x.place)
      BY <3>1 DEF Keeps
    <3>3. x.place \in SubstanceOf(d)
      BY <2>1, <3>1, <3>2 DEF SubstanceOf
    <3>4. ms[i].role = RoleAt(d, x.place)
      BY <1>5, <3>2
    <3>. QED  BY <2>1, <3>3, <3>4
  <2>2. ASSUME NEW place \in SubstanceOf(d), z = [place |-> place, role |-> RoleAt(d, place)]
        PROVE  \E i \in 1..n : \E x \in Range(ms[i].content) :
                 x.filled /\ z = [place |-> x.place, role |-> ms[i].role]
    <3>1. place \in Places(d) /\ KindAt(d, place) # "blank"
      BY DEF SubstanceOf
    <3>0. PICK i \in DOMAIN irs : \E x \in Range(irs[i].content) : x.place = place
      BY <3>1 DEF Keeps
    <3>2. PICK x \in Range(irs[i].content) : x.place = place
      BY <3>0
    <3>3. x.filled /\ i \in 1..n
      BY <1>3, <3>1, <3>2
    <3>4. irs[i].role = RoleAt(d, place)
      BY <3>2 DEF Keeps
    <3>5. x \in Range(ms[i].content) /\ ms[i].role = RoleAt(d, place)
      BY <1>5, <3>3, <3>4
    <3>. QED  BY <2>2, <3>2, <3>3, <3>5
  <2>. QED  BY <1>7, <2>1, <2>2
<1>. QED  BY <1>1, <1>2, <1>7, <1>8

\* The codex upstream is told its instructions apart, and said everything else.
LEMMA CodexCarries ==
  ASSUME NEW d \in AllDocuments, NEW irs \in Seq(IRMessages), Keeps(d, irs),
         \A i \in DOMAIN irs : \A x \in Range(irs[i].content) :
           x.filled <=> KindAt(d, x.place) # "blank"
  PROVE  LET request0    == CodexRequest(irs)
             instructive == {place \in SubstanceOf(d) : RoleAt(d, place) \in InstructionRoles}
         IN  /\ InOrder(Filled(request0.instructions)) /\ InOrder(Spoken(request0.input))
             /\ {part.place : part \in Range(Filled(request0.instructions))} = instructive
             /\ Range(Spoken(request0.input)) =
                  {[place |-> place, role |-> RoleAt(d, place)] :
                    place \in SubstanceOf(d) \ instructive}
<1>. DEFINE n  == Len(irs)
            so == [m \in DOMAIN irs |-> IF IsInstruction(irs[m]) THEN <<>> ELSE <<irs[m]>>]
            others == FlattenSeq(so)
            si == [m \in DOMAIN irs |-> IF IsInstruction(irs[m]) THEN Filled(irs[m].content)
                                        ELSE <<>>]
            told == FlattenSeq(si)
            ms == [m \in DOMAIN others |->
                    [role |-> others[m].role, form |-> "parts", content |-> others[m].content]]
            instructive == {place \in SubstanceOf(d) : RoleAt(d, place) \in InstructionRoles}
            R == PartsBefore(IRParts)
            Q == MessagesBefore(IRMessages)
<1>1. CodexRequest(irs) = [instructions |-> told, input |-> ms]
  BY Zenon DEF CodexRequest
<1>2. n \in Nat /\ DOMAIN irs = 1..n
  BY DEF Keeps
<1>3. \A i \in 1..n : /\ irs[i] \in IRMessages
                      /\ irs[i].role \in Roles /\ irs[i].content \in Seq(IRParts)
                      /\ Ascends(irs[i].content, R)
  BY <1>2 DEF Keeps, IRMessages
<1>4. \A i \in 1..n : IsInstruction(irs[i]) <=> irs[i].role \in InstructionRoles
  BY DEF IsInstruction
<1>5. /\ others \in Seq(IRMessages)
      /\ \A x : x \in Range(others) <=> x \in Range(irs) /\ ~IsInstruction(x)
      /\ Ascends(others, Q)
  <2>. DEFINE K == {x \in IRMessages : ~IsInstruction(x)}
  <2>1. so \in [DOMAIN irs -> Seq(IRMessages)]
    BY <1>2, <1>3
  <2>2. \A i \in DOMAIN irs : so[i] = IF irs[i] \in K THEN <<irs[i]>> ELSE <<>>
    BY <1>2, <1>3
  <2>3. Ascends(irs, Q)
    BY <1>2, <1>3 DEF Ascends, Keeps, MessagesBefore
  <2>4. \A x \in Range(irs) : x \in IRMessages
    BY <1>2, <1>3 DEF Range
  <2>5. \A x : x \in Range(irs) /\ x \in K <=> x \in Range(irs) /\ ~IsInstruction(x)
    BY <2>4
  <2>. HIDE DEF so, K, Q
  <2>6. /\ FlattenSeq(so) \in Seq(IRMessages)
        /\ \A x : x \in Range(FlattenSeq(so)) <=> x \in Range(irs) /\ x \in K
        /\ Ascends(irs, Q) => Ascends(FlattenSeq(so), Q)
    BY <2>1, <2>2, Picked
  <2>. QED  BY <2>3, <2>5, <2>6, Zenon
<1>6. /\ told \in Seq(IRParts)
      /\ \A x : x \in Range(told) <=>
           \E i \in 1..n : IsInstruction(irs[i]) /\ x \in Range(irs[i].content) /\ x.filled
      /\ Ascends(told, R)
  <2>1. ASSUME NEW i \in 1..n
        PROVE  /\ si[i] \in Seq(IRParts)
               /\ \A x : x \in Range(si[i]) <=>
                    IsInstruction(irs[i]) /\ x \in Range(irs[i].content) /\ x.filled
               /\ Ascends(si[i], R)
    <3>1. CASE IsInstruction(irs[i])
      <4>1. si[i] = Filled(irs[i].content)
        BY <1>2, <3>1
      <4>. HIDE DEF si
      <4>. QED  BY <1>3, <3>1, <4>1, FilledKeeps
    <3>2. CASE ~IsInstruction(irs[i])
      <4>1. si[i] = <<>>
        BY <1>2, <3>2
      <4>2. <<>> \in Seq(IRParts) /\ Range(<<>>) = {} /\ Ascends(<<>>, R)
        BY DEF Range, Ascends
      <4>. HIDE DEF si
      <4>. QED  BY <3>2, <4>1, <4>2
    <3>. QED  BY <3>1, <3>2
  <2>2. DOMAIN si = 1..n
    BY <1>2
  <2>3. si \in Seq(Seq(IRParts))
    <3>1. si = [m \in 1..n |-> si[m]]
      BY <1>2
    <3>. HIDE DEF si
    <3>. QED  BY <1>2, <2>1, <3>1
  <2>. HIDE DEF si
  <2>4. \A i, j \in DOMAIN si : i < j =>
          \A x \in Range(si[i]), y \in Range(si[j]) : <<x, y>> \in R
    <3>. SUFFICES ASSUME NEW i \in 1..n, NEW j \in 1..n, i < j,
                         NEW x \in Range(si[i]), NEW y \in Range(si[j])
                  PROVE  <<x, y>> \in R
      BY <2>2
    <3>1. x \in Range(irs[i].content) /\ y \in Range(irs[j].content)
      BY <2>1
    <3>2. Earlier(x.place, y.place)
      BY <1>2, <3>1 DEF Keeps
    <3>3. x \in IRParts /\ y \in IRParts
      <4>1. si[i] \in Seq(IRParts) /\ si[j] \in Seq(IRParts)
        BY <2>1
      <4>. QED  BY <4>1 DEF Range
    <3>. QED  BY <3>2, <3>3 DEF PartsBefore
  <2>. HIDE DEF R
  <2>5. \A i \in DOMAIN si : Ascends(si[i], R)
    BY <2>1, <2>2
  <2>6. /\ FlattenSeq(si) \in Seq(IRParts)
        /\ \A x : x \in Range(FlattenSeq(si)) <=> \E i \in DOMAIN si : x \in Range(si[i])
        /\ Ascends(FlattenSeq(si), R)
    BY <2>3, <2>4, <2>5, Flattened
  <2>. QED  BY <2>1, <2>2, <2>6
<1>. HIDE DEF told, others, si, so, n
<1>7. /\ InOrder(Filled(told))
      /\ \A x : x \in Range(Filled(told)) <=> x \in Range(told) /\ x.filled
  <2>1. /\ Filled(told) \in Seq(IRParts)
        /\ \A x : x \in Range(Filled(told)) <=> x \in Range(told) /\ x.filled
        /\ Ascends(Filled(told), R)
    BY <1>6, FilledKeeps
  <2>. QED  BY <2>1, OrderIs
<1>8. {part.place : part \in Range(Filled(told))} = instructive
  <2>1. ASSUME NEW x \in Range(Filled(told)) PROVE x.place \in instructive
    <3>1. PICK i \in 1..n : IsInstruction(irs[i]) /\ x \in Range(irs[i].content) /\ x.filled
      BY <1>6, <1>7
    <3>2. x.place \in Places(d) /\ irs[i].role = RoleAt(d, x.place)
      BY <1>2, <3>1 DEF Keeps
    <3>3. KindAt(d, x.place) # "blank"
      BY <1>2, <3>1
    <3>. QED  BY <1>4, <3>1, <3>2, <3>3 DEF SubstanceOf
  <2>2. ASSUME NEW place \in instructive
        PROVE  \E part \in Range(Filled(told)) : place = part.place
    <3>1. place \in Places(d) /\ KindAt(d, place) # "blank" /\ RoleAt(d, place) \in InstructionRoles
      BY DEF SubstanceOf
    <3>0. PICK i \in DOMAIN irs : \E x \in Range(irs[i].content) : x.place = place
      BY <3>1 DEF Keeps
    <3>2. PICK x \in Range(irs[i].content) : x.place = place
      BY <3>0
    <3>3. irs[i].role = RoleAt(d, place)
      BY <3>2 DEF Keeps
    <3>4. IsInstruction(irs[i]) /\ x.filled /\ i \in 1..n
      BY <1>2, <1>4, <3>1, <3>2, <3>3
    <3>. QED  BY <1>6, <1>7, <3>2, <3>4
  <2>. HIDE DEF instructive
  <2>. QED  BY <2>1, <2>2
<1>9. /\ Len(others) \in Nat /\ DOMAIN ms = 1..Len(others) /\ DOMAIN others = 1..Len(others)
      /\ \A i \in 1..Len(others) :
           /\ ms[i].role = others[i].role /\ ms[i].content = others[i].content
           /\ others[i] \in IRMessages /\ others[i] \in Range(others)
  <2>1. Len(others) \in Nat /\ DOMAIN others = 1..Len(others)
        /\ \A i \in 1..Len(others) : others[i] \in IRMessages
    BY <1>5
  <2>. QED  BY <2>1 DEF Range
<1>. HIDE DEF ms
<1>10. \A i \in 1..Len(others) : \E j \in 1..n : others[i] = irs[j] /\ ~IsInstruction(irs[j])
  <2>. TAKE i \in 1..Len(others)
  <2>1. others[i] \in Range(irs) /\ ~IsInstruction(others[i])
    BY <1>5, <1>9
  <2>. QED  BY <1>2, <2>1 DEF Range
<1>11. \A i \in 1..Len(others) : /\ ms[i].role \in Roles /\ ms[i].content \in Seq(IRParts)
                                 /\ Ascends(ms[i].content, PartsBefore(IRParts))
  BY <1>3, <1>9, <1>10
<1>12. \A i, j \in 1..Len(others) : i < j =>
         \A x \in Range(ms[i].content), y \in Range(ms[j].content) : Earlier(x.place, y.place)
  <2>. SUFFICES ASSUME NEW i \in 1..Len(others), NEW j \in 1..Len(others), i < j
                PROVE  \A x \in Range(ms[i].content), y \in Range(ms[j].content) :
                         Earlier(x.place, y.place)
    OBVIOUS
  <2>1. <<others[i], others[j]>> \in Q
    BY <1>5, <1>9 DEF Ascends
  <2>. QED  BY <1>9, <2>1 DEF MessagesBefore
<1>13. /\ InOrder(Spoken(ms))
       /\ \A z : z \in Range(Spoken(ms)) <=>
            \E i \in 1..Len(others) : \E x \in Range(ms[i].content) :
              x.filled /\ z = [place |-> x.place, role |-> ms[i].role]
  <2>1. Len(others) \in Nat /\ DOMAIN ms = 1..Len(others)
    BY <1>9
  <2>. QED  BY <1>11, <1>12, <2>1, SpokenIs, Zenon
<1>14. ASSUME NEW z
       PROVE  z \in Range(Spoken(ms)) <=>
                \E place \in SubstanceOf(d) \ instructive :
                  z = [place |-> place, role |-> RoleAt(d, place)]
  <2>1. ASSUME NEW i \in 1..Len(others), NEW x \in Range(ms[i].content), x.filled,
               z = [place |-> x.place, role |-> ms[i].role]
        PROVE  \E place \in SubstanceOf(d) \ instructive :
                 z = [place |-> place, role |-> RoleAt(d, place)]
    <3>1. PICK j \in 1..n : others[i] = irs[j] /\ ~IsInstruction(irs[j])
      BY <1>10
    <3>2. x \in Range(irs[j].content) /\ j \in DOMAIN irs /\ ms[i].role = irs[j].role
      BY <1>2, <1>9, <3>1
    <3>3. x.place \in Places(d) /\ irs[j].role = RoleAt(d, x.place)
      BY <3>2 DEF Keeps
    <3>4. x.place \in SubstanceOf(d) \ instructive
      BY <1>4, <2>1, <3>1, <3>2, <3>3 DEF SubstanceOf
    <3>. HIDE DEF instructive
    <3>. QED  BY <2>1, <3>2, <3>3, <3>4
  <2>2. ASSUME NEW place \in SubstanceOf(d) \ instructive,
               z = [place |-> place, role |-> RoleAt(d, place)]
        PROVE  \E i \in 1..Len(others) : \E x \in Range(ms[i].content) :
                 x.filled /\ z = [place |-> x.place, role |-> ms[i].role]
    <3>1. place \in Places(d) /\ KindAt(d, place) # "blank" /\ RoleAt(d, place) \notin InstructionRoles
      BY DEF SubstanceOf
    <3>0. PICK j \in DOMAIN irs : \E x \in Range(irs[j].content) : x.place = place
      BY <3>1 DEF Keeps
    <3>2. PICK x \in Range(irs[j].content) : x.place = place
      BY <3>0
    <3>3. irs[j].role = RoleAt(d, place)
      BY <3>2 DEF Keeps
    <3>4. x.filled /\ ~IsInstruction(irs[j])
      BY <1>2, <1>4, <3>1, <3>2, <3>3
    <3>5. irs[j] \in Range(others)
      <4>1. irs[j] \in Range(irs)
        BY DEF Range
      <4>. QED  BY <1>5, <3>4, <4>1
    <3>6. PICK i \in 1..Len(others) : others[i] = irs[j]
      BY <1>9, <3>5 DEF Range
    <3>7. x \in Range(ms[i].content) /\ ms[i].role = RoleAt(d, place)
      BY <1>9, <3>3, <3>6
    <3>. QED  BY <2>2, <3>2, <3>4, <3>7
  <2>. QED  BY <1>13, <2>1, <2>2
<1>15. Range(Spoken(ms)) = {[place |-> place, role |-> RoleAt(d, place)] :
                             place \in SubstanceOf(d) \ instructive}
  <2>. HIDE DEF instructive
  <2>. QED  BY <1>14
<1>. QED  BY <1>1, <1>7, <1>8, <1>13, <1>15

\* A plain conversation passes the handler and both adapters.
LEMMA PlainPasses ==
  ASSUME document \in AllDocuments, adapter \in {"openai_compatible", "codex_responses"},
         Plain(document)
  PROVE  Accepted(document) /\ Convertible(adapter, ToIR(document))
<1>. DEFINE d == document
            irs == ToIR(d)
            Allowed == {"text", "blank"}
                         \cup (IF Codex \/ d.endpoint = "chat" THEN {"image"} ELSE {})
<1>1. /\ d.messages # <<>>
      /\ \A m \in Range(d.messages) :
           m.role \in {"user", "assistant"} /\ Range(m.parts) \subseteq Allowed
  BY DEF Plain
<1>2. Accepted(d)
  <2>1. Allowed \subseteq KnownKinds(d.endpoint)
    BY DEF KnownKinds
  <2>. HIDE DEF Allowed, d
  <2>2. \A m \in Range(d.messages) :
          m.role # "" /\ Range(m.parts) \subseteq KnownKinds(d.endpoint)
    BY <1>1, <2>1
  <2>. QED  BY <1>1, <2>2 DEF Accepted
<1>3. PICK k \in {0, 1} :
           /\ irs \in Seq(IRMessages)
           /\ Len(irs) = k + Len(d.messages)
           /\ \A i \in DOMAIN irs :
                /\ i = k \/ i - k \in DOMAIN d.messages
                /\ irs[i] =
                     IF i = k
                     THEN [role |-> "developer",
                           content |-> <<Part("responses", "text", InstructionPlace)>>]
                     ELSE [role |-> d.messages[i - k].role,
                           content |-> [p \in DOMAIN d.messages[i - k].parts |->
                             Part(d.endpoint, d.messages[i - k].parts[p], <<i - k, p>>)]]
  BY ToIRIs
<1>4. /\ DOMAIN d.messages = 1..Len(d.messages) /\ Len(d.messages) \in Nat
      /\ Len(d.messages) # 0 /\ d.endpoint \in Endpoints
  BY <1>1 DEF AllDocuments, Messages
<1>. HIDE DEF irs, d, Allowed
<1>5. ASSUME NEW i \in DOMAIN irs
      PROVE  \/ /\ IsInstruction(irs[i])
                /\ \A part \in Range(irs[i].content) : part.type = "text"
             \/ /\ irs[i].role \in {"user", "assistant"} /\ i # k
                /\ \A part \in Range(irs[i].content) :
                     \/ part.type = "text"
                     \/ /\ part.filled
                        /\ ~Codex => part.type = "image_url"
  <2>1. CASE i = k
    <3>1. irs[i] = [role |-> "developer",
                    content |-> <<Part("responses", "text", InstructionPlace)>>]
      BY <1>3, <2>1
    <3>2. Part("responses", "text", InstructionPlace).type = "text"
      BY DEF Part
    <3>3. Range(<<Part("responses", "text", InstructionPlace)>>)
            = {Part("responses", "text", InstructionPlace)}
      BY DEF Range
    <3>4. IsInstruction(irs[i])
      BY <3>1 DEF IsInstruction, InstructionRoles
    <3>. QED  BY <3>1, <3>2, <3>3, <3>4
  <2>2. CASE i # k
    <3>. DEFINE m == d.messages[i - k]
    <3>1. i - k \in DOMAIN d.messages
      BY <1>3, <2>2
    <3>2. m \in Range(d.messages)
      BY <3>1 DEF Range
    <3>3. irs[i] = [role |-> m.role, content |-> [p \in DOMAIN m.parts |->
                                       Part(d.endpoint, m.parts[p], <<i - k, p>>)]]
      BY <1>3, <2>2, Zenon
    <3>. HIDE DEF m
    <3>4. m.role \in {"user", "assistant"} /\ Range(m.parts) \subseteq Allowed
      BY <1>1, <3>2
    <3>5. ASSUME NEW part \in Range(irs[i].content)
          PROVE  part.type = "text" \/ (part.filled /\ (~Codex => part.type = "image_url"))
      <4>0. DOMAIN irs[i].content = DOMAIN m.parts
            /\ \A p \in DOMAIN m.parts :
                 irs[i].content[p] = Part(d.endpoint, m.parts[p], <<i - k, p>>)
        BY <3>3
      <4>1. PICK p \in DOMAIN m.parts : part = Part(d.endpoint, m.parts[p], <<i - k, p>>)
        BY <4>0 DEF Range
      <4>2. m.parts[p] \in Allowed
        BY <3>4 DEF Range
      <4>. QED  BY <1>4, <4>1, <4>2 DEF Part, Allowed, Endpoints
    <3>6. irs[i].role = m.role
      BY <3>3
    <3>. QED  BY <2>2, <3>4, <3>5, <3>6
  <2>. QED  BY <2>1, <2>2
<1>6. \A message \in Range(irs) : \E i \in DOMAIN irs : message = irs[i]
  BY DEF Range
<1>7. CASE adapter = "codex_responses"
  <2>1. ASSUME NEW message \in Range(irs)
        PROVE  IF IsInstruction(message)
               THEN \A part \in Range(message.content) : part.type = "text"
               ELSE /\ message.role \in {"user", "assistant"}
                    /\ \A part \in Range(message.content) : part.type = "text" \/ part.filled
    <3>1. \A x : x.role \in {"user", "assistant"} => ~IsInstruction(x)
      BY DEF IsInstruction, InstructionRoles
    <3>. QED  BY <1>5, <1>6, <3>1
  <2>2. \E message \in Range(irs) : ~IsInstruction(message)
    <3>1. k + 1 \in DOMAIN irs /\ k + 1 # k
      BY <1>3, <1>4
    <3>2. irs[k + 1] \in Range(irs)
      BY <3>1 DEF Range
    <3>3. irs[k + 1] = [role |-> d.messages[(k + 1) - k].role,
                        content |-> [p \in DOMAIN d.messages[(k + 1) - k].parts |->
                          Part(d.endpoint, d.messages[(k + 1) - k].parts[p], <<(k + 1) - k, p>>)]]
      BY <1>3, <3>1, Zenon
    <3>4. (k + 1) - k \in DOMAIN d.messages
      BY <1>3, <3>1
    <3>5. d.messages[(k + 1) - k].role \in {"user", "assistant"}
      BY <1>1, <3>4 DEF Range
    <3>6. irs[k + 1].role \in {"user", "assistant"}
      BY <3>3, <3>5
    <3>. QED  BY <3>2, <3>6 DEF IsInstruction, InstructionRoles
  <2>3. CodexConvertible(irs)
    BY <2>1, <2>2 DEF CodexConvertible
  <2>. QED  BY <1>2, <1>7, <2>3 DEF Convertible, d, irs
<1>8. CASE adapter = "openai_compatible"
  <2>1. ~Codex
    BY <1>8 DEF Codex
  <2>2. ASSUME NEW message \in Range(irs), NEW part \in Range(message.content)
        PROVE  part.type \in ChatPartTypes(message)
    <3>1. part.type = "text" \/ part.type = "image_url"
      BY <1>5, <1>6, <2>1
    <3>2. part.type = "image_url" => HasImages(message)
      BY DEF HasImages
    <3>. QED  BY <3>1, <3>2 DEF ChatPartTypes
  <2>3. ChatConvertible(irs)
    BY <2>2 DEF ChatConvertible
  <2>. QED  BY <1>2, <1>8, <2>3 DEF Convertible, d, irs
<1>. QED  BY <1>7, <1>8

\* What BufferedAnswer knows of a conversation until its request is out: the request is
\* the conversion of the document, and afterwards no conversation is left.
Carrying ==
  /\ adapter \in Adapters /\ document \in AllDocuments
  /\ pc \in {"preparing", "sending"} => Accepted(document)
  /\ pc = "sending" => /\ Convertible(adapter, ToIR(document))
                       /\ request = UpstreamRequest(adapter, ToIR(document))
  /\ pc \in {"reading", "ended"} => document.messages = <<>>
  /\ Refused => ~Plain(document)

\* The conversions carry the conversation of every document they accept.
LEMMA CarryingCarries == Carrying => ConversationCarried
<1>. SUFFICES ASSUME Carrying, pc = "sending"
              PROVE  LET substance    == {place \in Places(document) :
                                            KindAt(document, place) # "blank"}
                         instructive  == {place \in substance :
                              Codex /\ RoleAt(document, place) \in InstructionRoles}
                         instructions == Filled(request.instructions)
                         spoken       == Spoken(request.input)
                     IN  /\ InOrder(instructions) /\ InOrder(spoken)
                         /\ {part.place : part \in Range(instructions)} = instructive
                         /\ Range(spoken) =
                              {[place |-> place, role |-> RoleAt(document, place)] :
                                place \in substance \ instructive}
  BY DEF Carrying, ConversationCarried
<1>. DEFINE irs == ToIR(document)
            told == Filled(request.instructions)
            spoken == Spoken(request.input)
            substance == {place \in Places(document) : KindAt(document, place) # "blank"}
            instructive == {place \in substance :
                              Codex /\ RoleAt(document, place) \in InstructionRoles}
            roles(S) == {[place |-> place, role |-> RoleAt(document, place)] : place \in S}
<1>1. /\ document \in AllDocuments /\ Accepted(document)
      /\ adapter \in {"openai_compatible", "codex_responses"}
      /\ Convertible(adapter, irs) /\ request = UpstreamRequest(adapter, irs)
  BY BufferedAssumption DEF Carrying
<1>2. Keeps(document, irs) /\ irs \in Seq(IRMessages)
  BY <1>1, NeutralFormKeeps
<1>3. substance = SubstanceOf(document)
  BY DEF SubstanceOf
<1>. HIDE DEF irs, substance, roles
<1>4. \A i \in DOMAIN irs : \A x \in Range(irs[i].content) :
        x.filled <=> KindAt(document, x.place) # "blank"
  BY <1>1, <1>2, NothingElseIsEmpty
<1>5. /\ InOrder(told) /\ InOrder(spoken)
      /\ {part.place : part \in Range(told)} = instructive
      /\ Range(spoken) = roles(substance \ instructive)
  <2>1. CASE adapter = "openai_compatible"
    <3>1. instructive = {}
      BY <2>1 DEF Codex
    <3>2. request = ChatRequest(irs)
      BY <1>1, <2>1 DEF UpstreamRequest
    <3>3. /\ Filled(ChatRequest(irs).instructions) = <<>>
          /\ InOrder(Spoken(ChatRequest(irs).input))
          /\ Range(Spoken(ChatRequest(irs).input)) = roles(SubstanceOf(document))
      BY <1>1, <1>2, <1>4, ChatCarries DEF roles
    <3>4. told = <<>> /\ InOrder(<<>>) /\ Range(<<>>) = {}
      BY <3>2, <3>3 DEF InOrder, Range
    <3>5. substance \ instructive = SubstanceOf(document)
      BY <1>3, <3>1
    <3>6. {part.place : part \in Range(told)} = instructive
      BY <3>1, <3>4
    <3>. HIDE DEF instructive
    <3>. QED  BY <3>2, <3>3, <3>4, <3>5, <3>6
  <2>2. CASE adapter = "codex_responses"
    <3>1. instructive = {place \in SubstanceOf(document) :
                           RoleAt(document, place) \in InstructionRoles}
      BY <1>3, <2>2 DEF Codex
    <3>2. request = CodexRequest(irs)
      BY <1>1, <2>2 DEF UpstreamRequest
    <3>. HIDE DEF instructive
    <3>. QED  BY <1>1, <1>2, <1>3, <1>4, <3>1, <3>2, CodexCarries DEF roles
  <2>. QED  BY <1>1, <2>1, <2>2
<1>. HIDE DEF told, spoken, instructive
<1>. QED  BY <1>5, Zenon DEF roles, substance, told, spoken, instructive

LEMMA CarryingKept == Carrying /\ [AnswerNext]_answerVars => Carrying'
<1>. SUFFICES ASSUME Carrying, [AnswerNext]_answerVars PROVE Carrying'
  OBVIOUS
<1>. USE DEF asked
<1>1. adapter \in {"openai_compatible", "codex_responses"}
  BY BufferedAssumption DEF Carrying
<1>2. ASSUME document'.messages = <<>> PROVE (Refused => ~Plain(document))'
  BY <1>2 DEF Plain
<1>3. ASSUME Forget
      PROVE  document' \in AllDocuments /\ document'.messages = <<>>
  <2>1. document \in AllDocuments /\ <<>> \in Messages
    BY DEF Carrying, Messages
  <2>. QED  BY <1>3, <2>1 DEF Forget, AllDocuments
<1>4. CASE Parse
  <2>1. CASE Accepted(document)
    BY <1>4, <2>1 DEF Parse, Carrying, Refused
  <2>2. CASE ~Accepted(document)
    <3>1. ~Plain(document)
      BY <1>1, <2>2, PlainPasses DEF Carrying
    <3>2. ~Plain(document)'
      BY <1>4, <3>1 DEF Parse, Plain, Codex
    <3>. QED  BY <1>4, <2>2, <3>2 DEF Parse, Return, Carrying
  <2>. QED  BY <2>1, <2>2
<1>5. CASE BodyUnread
  <2>1. pc' = "returned" /\ UNCHANGED <<adapter, document>>
    BY <1>5 DEF BodyUnread, Return
  <2>2. ~Refused'
    BY <1>5 DEF BodyUnread, Refused
  <2>. QED  BY <2>1, <2>2 DEF Carrying
<1>6. CASE CannotSend
  <2>1. pc' = "returned" /\ UNCHANGED adapter /\ Forget
    BY <1>6 DEF CannotSend, Return
  <2>. QED  BY <1>2, <1>3, <2>1 DEF Carrying
<1>7. CASE Encode
  <2>. DEFINE irs == ToIR(document)
  <2>0. UNCHANGED <<adapter, document>> /\ pc = "preparing"
    BY <1>7 DEF Encode
  <2>1. CASE Convertible(adapter, irs)
    <3>1. pc' = "sending" /\ request' = UpstreamRequest(adapter, irs)
      BY <1>7, <2>1 DEF Encode
    <3>. QED  BY <2>0, <2>1, <3>1 DEF Carrying, Refused
  <2>2. CASE ~Convertible(adapter, irs)
    <3>1. ~Plain(document)
      BY <1>1, <2>2, PlainPasses DEF Carrying
    <3>2. ~Plain(document)'
      BY <2>0, <3>1 DEF Plain, Codex
    <3>3. pc' = "returned"
      BY <1>7, <2>2 DEF Encode, Return
    <3>. QED  BY <2>0, <3>2, <3>3 DEF Carrying
  <2>. QED  BY <2>1, <2>2
<1>8. CASE SendFails
  <2>1. pc' = "returned" /\ UNCHANGED adapter /\ Forget
    BY <1>8 DEF SendFails, Return
  <2>. QED  BY <1>2, <1>3, <2>1 DEF Carrying
<1>9. CASE Responds
  <2>1. pc' = "reading" /\ UNCHANGED adapter /\ Forget
    BY <1>9 DEF Responds
  <2>. QED  BY <1>2, <1>3, <2>1 DEF Carrying
<1>10. ASSUME pc \in {"reading", "ended"}, UNCHANGED <<adapter, document>>,
              pc' \in {"reading", "ended", "returned"}
       PROVE  Carrying'
  <2>1. document'.messages = <<>>
    BY <1>10 DEF Carrying
  <2>. QED  BY <1>2, <1>10, <2>1 DEF Carrying
<1>11. CASE Rejected \/ RejectionBreaks \/ DocumentArrives
  BY <1>10, <1>11 DEF Rejected, RejectionBreaks, DocumentArrives, Return
<1>12. CASE \/ \E line \in Lines : LineArrives(line)
            \/ StreamEnds \/ StreamEndsInData \/ StreamBreaks
  <2>1. ASSUME NEW next \in {"reading", "ended"}, Deliver(next)
        PROVE  pc' \in {"reading", "ended", "returned"}
    BY <2>1 DEF Deliver, Return
  <2>2. pc = "reading" /\ UNCHANGED <<adapter, document>>
    BY <1>12 DEF LineArrives, StreamEnds, StreamEndsInData, StreamBreaks, Streaming
  <2>3. pc' \in {"reading", "ended", "returned"}
    BY <1>12, <2>1, <2>2 DEF LineArrives, StreamEnds, StreamEndsInData, StreamBreaks, Return
  <2>. QED  BY <1>10, <2>2, <2>3
<1>13. CASE Finish
  BY <1>10, <1>13 DEF Finish, Return
<1>14. CASE UNCHANGED answerVars
  BY <1>14 DEF answerVars, Carrying, Refused, Plain, Codex
<1>. QED  BY <1>4, <1>5, <1>6, <1>7, <1>8, <1>9, <1>11, <1>12, <1>13, <1>14 DEF AnswerNext

LEMMA CarryingInit == AnswerInit => Carrying
  BY BufferedAssumption DEF AnswerInit, Carrying, AllDocuments, Refused

\* Whatever a client says, in however many messages and parts: the request behind each
\* adapter says all of it, once, in order and in its role, and a conversation of texts (and
\* images, where the upstream has a form for them) is never refused (ToIR, chatRequestFromIR,
\* codexRequestFromIR).
THEOREM ConversationsCarried == AnswerSpec => []ConversationCarried
<1>. QED  BY CarryingInit, CarryingKept, CarryingCarries, PTL DEF AnswerSpec

=============================================================================
