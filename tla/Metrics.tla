------------------------------- MODULE Metrics -------------------------------
(***************************************************************************)
(* Runtime metrics (internal/metrics/collector.go) and the middleware that *)
(* feeds them (internal/api/metrics.go): concurrent requests count the     *)
(* error they answer with when they answer, and themselves, with their     *)
(* latency, when they end; GET /metrics reads a snapshot in between.  The  *)
(* mutex of the collector makes each of these one step.                    *)
(***************************************************************************)
EXTENDS Integers, Sequences, FiniteSets

CONSTANTS
  Requests,
  Endpoints,
  Codes,        \* internal error codes
  ClassOf,      \* the status class each code is answered with
  Latencies,    \* how long requests may take
  Size,         \* size of a ring, 128 in the proxy
  Percents      \* percentiles asked for; 50, 95 and 99 in the proxy

ASSUME MetricsAssumption ==
  /\ IsFiniteSet(Requests)
  /\ Latencies \subseteq Nat
  /\ ClassOf \in [Codes -> {"4xx", "5xx"}]
  /\ Size \in Nat \ {0}
  /\ Percents \subseteq 1..100

VARIABLES
  pc,         \* "new", "serving", "answered" or "done"
  bucket,     \* the bucket of each request; its class is known when it answers
  requests,   \* counters by bucket
  errors,     \* counters by code
  summaries,  \* latencyByBucket
  rings,      \* recentByBucket
  history     \* history: the latencies recorded for each bucket

collected == <<requests, errors, summaries, rings>>
vars      == <<pc, bucket, collected, history>>

Classes == {"2xx", "4xx", "5xx"}
Bucket(endpoint, class) == [endpoint |-> endpoint, class |-> class]
Buckets == [endpoint : Endpoints, class : Classes]

NoMinimum == -1   \* math.MaxInt64, above every latency
Summary(count, sum, min, max) == [count |-> count, sum |-> sum, min |-> min, max |-> max]
NoSummary == Summary(0, 0, NoMinimum, 0)

Slots == 0..Size - 1
NewRing == [samples |-> [i \in Slots |-> 0], next |-> 0, full |-> FALSE]

\* Mutant of Add: the slot behind the last one counts as full already.
AddFullEarly(ring, latency) ==
  [samples |-> [ring.samples EXCEPT ![ring.next] = latency],
   next    |-> (ring.next + 1) % Size,
   full    |-> ring.full \/ ring.next + 1 >= Size - 1]

\* add
Add(ring, latency) ==
  [samples |-> [ring.samples EXCEPT ![ring.next] = latency],
   next    |-> (ring.next + 1) % Size,
   full    |-> ring.full \/ (ring.next + 1) % Size = 0]

\* values: what the ring holds, in the order of its slots.
Values(ring) ==
  [i \in 1..(IF ring.full THEN Size ELSE ring.next) |-> ring.samples[i - 1]]

\* Mutant of Summarized: the minimum starts at zero.
SummarizedFromZero(summary, latency) ==
  Summary(summary.count + 1, summary.sum + latency,
          IF summary.min = NoMinimum THEN 0 ELSE IF latency < summary.min THEN latency ELSE summary.min,
          IF latency > summary.max THEN latency ELSE summary.max)

Summarized(summary, latency) ==
  Summary(summary.count + 1, summary.sum + latency,
          IF summary.min = NoMinimum \/ latency < summary.min THEN latency ELSE summary.min,
          IF latency > summary.max THEN latency ELSE summary.max)

\* The element at this place of the values in order.
Ranked(values, rank) ==
  CHOOSE v \in {values[i] : i \in DOMAIN values} :
    /\ Cardinality({i \in DOMAIN values : values[i] < v}) < rank
    /\ rank <= Cardinality({i \in DOMAIN values : values[i] <= v})

\* Mutant of Percentile: the rank is rounded down.
PercentileBelow(values, p) ==
  LET rank == (p * Len(values)) \div 100
  IN  Ranked(values, IF rank < 1 THEN 1 ELSE rank)

\* percentile, nearest rank, for p in percent: math.Ceil(p * n), at least 1.
Percentile(values, p) ==
  LET rank == (p * Len(values) + 99) \div 100
  IN  Ranked(values, IF rank < 1 THEN 1 ELSE rank)

-----------------------------------------------------------------------------

Init ==
  /\ pc = [r \in Requests |-> "new"]
  /\ bucket \in [Requests -> {Bucket(e, "2xx") : e \in Endpoints}]
  /\ requests = [k \in Buckets |-> 0]
  /\ errors = [c \in Codes |-> 0]
  /\ summaries = [k \in Buckets |-> NoSummary]
  /\ rings = [k \in Buckets |-> NewRing]
  /\ history = [k \in Buckets |-> <<>>]

\* What Snapshot says of the latencies of a bucket.
LatencyMetric(k) ==
  LET summary == summaries[k]
      held    == Values(rings[k])
  IN  [count |-> summary.count,
       min   |-> IF summary.min = NoMinimum THEN 0 ELSE summary.min,
       max   |-> summary.max,
       mean  |-> IF summary.count > 0 THEN summary.sum \div summary.count ELSE 0,
       percentile |-> [p \in Percents |-> IF held = <<>> THEN 0 ELSE Percentile(held, p)]]

Goto(r, label) == pc' = [pc EXCEPT ![r] = label]

Arrive(r) ==
  /\ pc[r] = "new"
  /\ Goto(r, "serving")
  /\ UNCHANGED <<bucket, collected, history>>

\* WriteHeader with a status of this class; if nothing is written it is 200.
Answer(r, class) ==
  /\ pc[r] = "serving"
  /\ Goto(r, "answered")
  /\ bucket' = [bucket EXCEPT ![r].class = class]
  /\ UNCHANGED <<collected, history>>

\* writeLoggedOpenAIError: the answer, then the counter of its code.
AnswerError(r, code) ==
  /\ pc[r] = "serving"
  /\ Goto(r, "answered")
  /\ bucket' = [bucket EXCEPT ![r].class = ClassOf[code]]
  /\ errors' = [errors EXCEPT ![code] = @ + 1]
  /\ UNCHANGED <<requests, summaries, rings, history>>

\* ServeHTTP has returned: RecordRequest.
Finish(r, latency) ==
  /\ pc[r] \in {"serving", "answered"}
  /\ Goto(r, "done")
  /\ LET k == bucket[r]
     IN  /\ requests' = [requests EXCEPT ![k] = @ + 1]
         /\ summaries' = [summaries EXCEPT ![k] = Summarized(@, latency)]
         /\ rings' = [rings EXCEPT ![k] = Add(@, latency)]
         /\ history' = [history EXCEPT ![k] = Append(@, latency)]
  /\ UNCHANGED <<bucket, errors>>

Next ==
  \E r \in Requests :
    \/ Arrive(r)
    \/ \E class \in Classes : Answer(r, class)
    \/ \E code \in Codes : AnswerError(r, code)
    \/ \E latency \in Latencies : Finish(r, latency)

Spec == Init /\ [][Next]_vars

-----------------------------------------------------------------------------

TypeOK ==
  /\ pc \in [Requests -> {"new", "serving", "answered", "done"}]
  /\ bucket \in [Requests -> Buckets]
  /\ requests \in [Buckets -> Nat]
  /\ errors \in [Codes -> Nat]
  /\ summaries \in [Buckets -> [count : Nat, sum : Nat, min : Nat \cup {NoMinimum}, max : Nat]]
  /\ rings \in [Buckets -> [samples : [Slots -> Nat], next : Slots, full : BOOLEAN]]
  /\ history \in [Buckets -> Seq(Latencies)]

\* The ring of a bucket holds its latest latencies, each once, up to its size:
\* none is lost when it wraps, and no slot is reported that was never written.
RingHoldsLatest ==
  \A k \in Buckets :
    LET n    == Len(history[k])
        held == Values(rings[k])
        next == rings[k].next
    IN  /\ Len(held) = IF n < Size THEN n ELSE Size
        /\ \A i \in 1..Len(held) :
             held[i] = history[k][IF i <= next THEN n - next + i ELSE n - next - Size + i]

\* A percentile reported is the least of the latest latencies that is not below p
\* percent of them.
PercentilesRight ==
  \A k \in Buckets :
    LET held == Values(rings[k])
        AtMost(v) == Cardinality({i \in DOMAIN held : held[i] <= v})
    IN  held # <<>> =>
          \A p \in Percents :
            LET v == LatencyMetric(k).percentile[p]
            IN  /\ \E i \in DOMAIN held : held[i] = v
                /\ 100 * AtMost(v) >= p * Len(held)
                /\ \A i \in DOMAIN held :
                     held[i] < v => 100 * AtMost(held[i]) < p * Len(held)

\* Every request that ended is counted once, under the status its client saw,
\* and the summary reported for its bucket spans all its latencies.  Whenever a
\* snapshot is taken, an error counted is that of a request that ended with the
\* class of its status, or is about to.
CountedOnce ==
  /\ \A code \in Codes :
       errors[code] <= Cardinality({r \in Requests : /\ pc[r] \in {"answered", "done"}
                                                     /\ bucket[r].class = ClassOf[code]})
  /\ \A k \in Buckets :
       LET n == Len(history[k])
           reported == LatencyMetric(k)
       IN  /\ requests[k] = Cardinality({r \in Requests : pc[r] = "done" /\ bucket[r] = k})
           /\ requests[k] = n /\ reported.count = n
           /\ n > 0 => /\ \A j \in 1..n : reported.min <= history[k][j]
                       /\ \A j \in 1..n : history[k][j] <= reported.max
                       /\ \E i, j \in 1..n : /\ reported.min = history[k][i]
                                             /\ reported.max = history[k][j]
                       /\ reported.min <= reported.mean /\ reported.mean <= reported.max

=============================================================================
