---------------------------- MODULE MetricsProofs ----------------------------
(***************************************************************************)
(* The ring of recent latencies holds the latest ones for every size, and  *)
(* the counters agree with the requests that ended, for any number of      *)
(* requests and any latencies.                                             *)
(***************************************************************************)
EXTENDS Metrics, FiniteSetTheorems, WellFoundedInduction, TLAPS

USE MetricsAssumption

\* Where the latencies h of a bucket are in its ring.  While it is not full the
\* next slot is their number; behind that slot are those of the lap before.
Placed(ring, h) ==
  /\ ring.full => Size <= Len(h)
  /\ ~ring.full => ring.next = Len(h)
  /\ \A i \in Slots :
       /\ i < ring.next => ring.samples[i] = h[Len(h) - ring.next + i + 1]
       /\ ~(i < ring.next) /\ ring.full =>
            ring.samples[i] = h[Len(h) - ring.next - Size + i + 1]

RingsPlaced == \A k \in Buckets : Placed(rings[k], history[k])

IInv == TypeOK /\ RingsPlaced

Rings == [samples : [Slots -> Nat], next : Slots, full : BOOLEAN]

\* The position behind n, with the wrap spelled out.
LEMMA Wraps ==
  ASSUME NEW n \in Slots
  PROVE  /\ (n + 1) % Size = IF n + 1 = Size THEN 0 ELSE n + 1
         /\ n \in Int /\ 0 <= n /\ n < Size /\ Size \in Int
<1>1. n \in Int /\ 0 <= n /\ n + 1 <= Size /\ Size \in Int /\ Size > 0
  BY DEF Slots
<1>2. CASE n + 1 = Size
  BY <1>1, <1>2
<1>3. CASE n + 1 < Size
  BY <1>1, <1>3
<1>. QED  BY <1>1, <1>2, <1>3

\* recentRing.add keeps a ring well formed.
LEMMA AddKeepsType ==
  ASSUME NEW ring \in Rings, NEW d \in Latencies
  PROVE  Add(ring, d) \in Rings
<1>1. (ring.next + 1) % Size \in Slots
  BY Wraps DEF Rings, Slots
<1>. QED  BY <1>1 DEF Add, Rings

\* recentRing.add puts the latest latency where it belongs, also where the ring wraps.
LEMMA AddKeepsPlaced ==
  ASSUME NEW ring \in Rings, NEW h \in Seq(Latencies), NEW d \in Latencies, Placed(ring, h)
  PROVE  Placed(Add(ring, d), Append(h, d))
<1>. DEFINE m == Append(h, d)
            new == Add(ring, d)
<1>1. /\ Len(h) \in Nat /\ Len(m) = Len(h) + 1
      /\ m[Len(h) + 1] = d
      /\ \A j \in 1..Len(h) : m[j] = h[j]
  OBVIOUS
<1>2. /\ ring.next \in Slots /\ ring.next \in Int /\ 0 <= ring.next /\ ring.next < Size
      /\ Size \in Int
      /\ (ring.next + 1) % Size = IF ring.next + 1 = Size THEN 0 ELSE ring.next + 1
  BY Wraps DEF Rings
<1>3. /\ new.next = IF ring.next + 1 = Size THEN 0 ELSE ring.next + 1
      /\ new.full = (ring.full \/ ring.next + 1 = Size)
      /\ new.samples = [ring.samples EXCEPT ![ring.next] = d]
  BY <1>2 DEF Add
<1>4. /\ new.samples[ring.next] = d
      /\ \A i \in Slots : i # ring.next => new.samples[i] = ring.samples[i]
  BY <1>2, <1>3 DEF Rings
<1>5. ring.full \/ ring.next = Len(h)
  BY DEF Placed
<1>6. ring.full => Size <= Len(h)
  BY DEF Placed
<1>7. ASSUME NEW i \in Slots, i # ring.next, i < ring.next \/ ring.full
      PROVE  new.samples[i] = m[IF i < ring.next THEN Len(h) - ring.next + i + 1
                                ELSE Len(h) - ring.next - Size + i + 1]
  <2>1. i \in Int /\ 0 <= i /\ i < Size
    BY Wraps
  <2>2. CASE i < ring.next
    <3>1. Len(h) - ring.next + i + 1 \in 1..Len(h)
      BY <1>1, <1>2, <1>5, <1>6, <2>1, <2>2, SMTT(40)
    <3>. QED  BY <1>1, <1>4, <1>7, <2>2, <3>1 DEF Placed
  <2>3. CASE ~(i < ring.next)
    <3>0. Size <= Len(h)
      BY <1>6, <1>7, <2>3
    <3>1. Len(h) - ring.next - Size + i + 1 \in 1..Len(h)
      BY <1>1, <1>2, <2>1, <2>3, <3>0, SMTT(40)
    <3>. QED  BY <1>1, <1>4, <1>7, <2>3, <3>1 DEF Placed
  <2>. QED  BY <2>2, <2>3
<1>. HIDE DEF m, new
<1>8. ASSUME ring.next + 1 = Size PROVE Placed(new, m)
  <2>1. new.full /\ new.next = 0 /\ Size <= Len(m)
    <3>1. ring.next + 1 <= Len(m)
      BY <1>1, <1>2, <1>5, <1>6
    <3>. QED  BY <1>3, <1>8, <3>1
  <2>2. ASSUME NEW i \in Slots
        PROVE  new.samples[i] = m[Len(m) - Size + i + 1]
    <3>0. i \in Int /\ 0 <= i /\ i < Size
      BY Wraps
    <3>1. CASE i = ring.next
      <4>1. Len(m) - Size + i + 1 = Len(h) + 1
        BY <1>1, <1>2, <1>8, <3>0, <3>1, SMTT(40)
      <4>. QED  BY <1>1, <1>4, <3>1, <4>1
    <3>2. CASE i # ring.next
      <4>1. i < ring.next /\ Len(m) - Size + i + 1 = Len(h) - ring.next + i + 1
        BY <1>1, <1>2, <1>8, <3>0, <3>2, SMTT(40)
      <4>. QED  BY <1>7, <3>2, <4>1
    <3>. QED  BY <3>1, <3>2
  <2>3. ASSUME NEW i \in Slots
        PROVE  ~(i < 0) /\ Len(m) - 0 - Size + i + 1 = Len(m) - Size + i + 1
    <3>0. i \in Int /\ 0 <= i
      BY Wraps
    <3>. QED  BY <1>1, <1>2, <3>0
  <2>. QED  BY <2>1, <2>2, <2>3 DEF Placed
<1>9. ASSUME ring.next + 1 # Size PROVE Placed(new, m)
  <2>1. (new.full <=> ring.full) /\ new.next = ring.next + 1
    BY <1>3, <1>9
  <2>2. ring.full => Size <= Len(m)
    BY <1>1, <1>2, <1>6
  <2>3. ~ring.full => new.next = Len(m)
    BY <1>1, <1>2, <1>5, <2>1
  <2>4. ASSUME NEW i \in Slots, i < new.next
        PROVE  new.samples[i] = m[Len(m) - new.next + i + 1]
    <3>0. i \in Int /\ 0 <= i /\ i < Size
      BY Wraps
    <3>1. Len(m) - new.next + i + 1 = Len(h) - ring.next + i + 1
      BY <1>1, <1>2, <2>1, <3>0, SMTT(40)
    <3>2. CASE i = ring.next
      <4>1. Len(h) - ring.next + i + 1 = Len(h) + 1
        BY <1>1, <1>2, <3>0, <3>2
      <4>. QED  BY <1>1, <1>4, <3>1, <3>2, <4>1
    <3>3. CASE i # ring.next
      <4>1. i < ring.next
        BY <1>2, <2>1, <2>4, <3>0, <3>3
      <4>. QED  BY <1>7, <3>1, <3>3, <4>1
    <3>. QED  BY <3>2, <3>3
  <2>5. ASSUME NEW i \in Slots, ~(i < new.next), ring.full
        PROVE  new.samples[i] = m[Len(m) - new.next - Size + i + 1]
    <3>0. i \in Int /\ 0 <= i /\ i < Size
      BY Wraps
    <3>1. Len(m) - new.next - Size + i + 1 = Len(h) - ring.next - Size + i + 1
      <4>1. Len(h) \in Int /\ ring.next \in Int /\ Size \in Int
        BY <1>1, <1>2, Wraps
      <4>2. (Len(h) + 1) - (ring.next + 1) - Size + i + 1 = Len(h) - ring.next - Size + i + 1
        BY <3>0, <4>1, SMTT(40)
      <4>3. Len(m) = Len(h) + 1 /\ new.next = ring.next + 1
        BY <1>1, <2>1, Zenon
      <4>. QED  BY <4>2, <4>3, Zenon
    <3>2. i # ring.next /\ ~(i < ring.next)
      BY <1>2, <2>1, <2>5, <3>0
    <3>. QED  BY <1>7, <2>5, <3>1, <3>2
  <2>. QED  BY <2>1, <2>2, <2>3, <2>4, <2>5 DEF Placed
<1>. QED  BY <1>8, <1>9 DEF m, new

\* The initial state satisfies the invariant.
LEMMA InitIInv == Init => IInv
<1>. SUFFICES ASSUME Init PROVE IInv
  OBVIOUS
<1>1. 0 \in Slots
  BY DEF Slots
<1>2. NewRing \in Rings
  BY <1>1 DEF NewRing, Rings
<1>3. bucket \in [Requests -> Buckets]
  BY DEF Init, Bucket, Buckets, Classes
<1>4. TypeOK
  BY <1>2, <1>3 DEF Init, TypeOK, Rings, NoSummary, Summary, NoMinimum
<1>5. RingsPlaced
  BY <1>1 DEF Init, RingsPlaced, Placed, NewRing, Slots
<1>. QED  BY <1>4, <1>5 DEF IInv

\* A latency more keeps a summary well formed.
LEMMA SummarizedType ==
  ASSUME NEW s \in [count : Nat, sum : Nat, min : Nat \cup {NoMinimum}, max : Nat],
         NEW d \in Latencies
  PROVE  Summarized(s, d) \in [count : Nat, sum : Nat, min : Nat \cup {NoMinimum}, max : Nat]
<1>1. d \in Nat
  OBVIOUS
<1>. QED  BY <1>1 DEF Summarized, Summary, NoMinimum

\* Every step keeps the invariant.
LEMMA NextIInv == IInv /\ [Next]_vars => IInv'
<1>. SUFFICES ASSUME IInv, [Next]_vars PROVE IInv'
  OBVIOUS
<1>0. TypeOK /\ RingsPlaced
  BY DEF IInv
<1>1. ASSUME NEW r \in Requests, Arrive(r) PROVE IInv'
  BY <1>0, <1>1 DEF Arrive, Goto, collected, IInv, TypeOK, RingsPlaced
<1>2. ASSUME NEW r \in Requests, NEW class \in Classes, Answer(r, class) PROVE IInv'
  <2>1. bucket' \in [Requests -> Buckets]
    BY <1>0, <1>2, ZenonT(40) DEF Answer, TypeOK, Buckets
  <2>. QED  BY <1>0, <1>2, <2>1 DEF Answer, Goto, collected, IInv, TypeOK, RingsPlaced
<1>3. ASSUME NEW r \in Requests, NEW code \in Codes, AnswerError(r, code) PROVE IInv'
  <2>0. ClassOf[code] \in Classes
    BY DEF Classes
  <2>1. bucket' \in [Requests -> Buckets]
    BY <1>0, <1>3, <2>0, ZenonT(40) DEF AnswerError, TypeOK, Buckets
  <2>2. errors' \in [Codes -> Nat]
    BY <1>0, <1>3 DEF AnswerError, TypeOK
  <2>. QED  BY <1>0, <1>3, <2>1, <2>2 DEF AnswerError, Goto, IInv, TypeOK, RingsPlaced
<1>4. ASSUME NEW r \in Requests, NEW d \in Latencies, Finish(r, d) PROVE IInv'
  <2>. DEFINE k == bucket[r]
  <2>0. k \in Buckets
    BY <1>0 DEF TypeOK
  <2>1. requests' \in [Buckets -> Nat]
    BY <1>0, <1>4, <2>0 DEF Finish, TypeOK
  <2>2. summaries' \in [Buckets -> [count : Nat, sum : Nat, min : Nat \cup {NoMinimum}, max : Nat]]
    BY <1>0, <1>4, <2>0, SummarizedType DEF Finish, TypeOK
  <2>3. rings' = [rings EXCEPT ![k] = Add(rings[k], d)]
    BY <1>4 DEF Finish
  <2>4. history' = [history EXCEPT ![k] = Append(history[k], d)]
    BY <1>4 DEF Finish
  <2>5. rings \in [Buckets -> Rings] /\ history \in [Buckets -> Seq(Latencies)]
    BY <1>0 DEF TypeOK, Rings
  <2>6. rings' \in [Buckets -> Rings]
    BY <2>0, <2>3, <2>5, AddKeepsType
  <2>7. history' \in [Buckets -> Seq(Latencies)]
    BY <2>0, <2>4, <2>5
  <2>8. TypeOK'
    BY <1>0, <1>4, <2>1, <2>2, <2>6, <2>7 DEF Finish, Goto, TypeOK, Rings
  <2>9. ASSUME NEW j \in Buckets PROVE Placed(rings[j], history[j])'
    <3>1. Placed(rings[j], history[j])
      BY <1>0 DEF RingsPlaced
    <3>2. CASE j = k
      <4>1. Placed(Add(rings[k], d), Append(history[k], d))
        BY <2>0, <2>5, <3>1, <3>2, AddKeepsPlaced
      <4>2. rings'[j] = Add(rings[k], d) /\ history'[j] = Append(history[k], d)
        BY <2>0, <2>3, <2>4, <2>5, <3>2
      <4>. QED  BY <4>1, <4>2, ZenonT(40) DEF Placed
    <3>3. CASE j # k
      <4>1. rings'[j] = rings[j] /\ history'[j] = history[j]
        BY <2>3, <2>4, <2>5, <3>3
      <4>. QED  BY <3>1, <4>1 DEF Placed
    <3>. QED  BY <3>2, <3>3
  <2>. QED  BY <2>8, <2>9 DEF IInv, RingsPlaced
<1>5. CASE UNCHANGED vars
  BY <1>0, <1>5 DEF vars, collected, IInv, TypeOK, RingsPlaced
<1>. QED  BY <1>1, <1>2, <1>3, <1>4, <1>5 DEF Next

\* The inductive invariant of Metrics: each slot of each ring holds the latency that its
\* place and the position of the ring say.
THEOREM Inductive == Spec => []IInv
<1>. QED  BY InitIInv, NextIInv, PTL DEF Spec

\* Type correctness: no step leaves the ring's slots, whatever its size.
THEOREM TypeCorrect == Spec => []TypeOK
<1>1. IInv => TypeOK
  BY DEF IInv
<1>. QED  BY <1>1, Inductive, PTL

\* The ring reports the latest latencies of its bucket, each once, however often
\* it has wrapped.
THEOREM LatestHeld == Spec => []RingHoldsLatest
<1>1. IInv => RingHoldsLatest
  <2>. SUFFICES ASSUME IInv, NEW k \in Buckets
                PROVE LET n    == Len(history[k])
                          held == Values(rings[k])
                          next == rings[k].next
                      IN  /\ Len(held) = IF n < Size THEN n ELSE Size
                          /\ \A i \in 1..Len(held) :
                               held[i] = history[k][IF i <= next THEN n - next + i
                                                    ELSE n - next - Size + i]
    BY DEF RingHoldsLatest
  <2>. DEFINE n == Len(history[k])
              held == Values(rings[k])
              next == rings[k].next
              size == IF rings[k].full THEN Size ELSE next
  <2>1. Placed(rings[k], history[k]) /\ rings[k] \in Rings /\ n \in Nat
    BY DEF IInv, RingsPlaced, TypeOK, Rings
  <2>2. next \in Slots /\ next \in Int /\ 0 <= next /\ next < Size /\ Size \in Int
    BY <2>1, Wraps DEF Rings
  <2>3. held = [i \in 1..size |-> rings[k].samples[i - 1]] /\ size \in Nat
    BY <2>2 DEF Values
  <2>4. Len(held) = size /\ \A i \in 1..size : held[i] = rings[k].samples[i - 1]
    BY <2>3
  <2>5. size = IF n < Size THEN n ELSE Size
    BY <2>1, <2>2 DEF Placed
  <2>6. ASSUME NEW i \in 1..size
        PROVE  held[i] = history[k][IF i <= next THEN n - next + i ELSE n - next - Size + i]
    <3>1. i - 1 \in Slots /\ (i - 1 < next <=> i <= next)
          /\ (i - 1) + 1 = i /\ i \in Int /\ (i <= next \/ rings[k].full)
      BY <2>2, <2>3 DEF Slots
    <3>2. n - next + (i - 1) + 1 = n - next + i
          /\ n - next - Size + (i - 1) + 1 = n - next - Size + i
      BY <2>1, <2>2, <3>1
    <3>3. rings[k].samples[i - 1] = history[k][IF i <= next THEN n - next + i ELSE n - next - Size + i]
      BY <2>1, <3>1, <3>2 DEF Placed
    <3>. QED  BY <2>4, <3>3
  <2>. QED  BY <2>4, <2>5, <2>6
<1>. QED  BY <1>1, Inductive, PTL

-----------------------------------------------------------------------------
(***************************************************************************)
(* Counters.                                                               *)
(***************************************************************************)

\* What a summary says of the latencies h of its bucket; the mean is between the
\* extremes because the sum is.
Summed(s, h) ==
  /\ s.count = Len(h)
  /\ Len(h) = 0 => s.sum = 0 /\ s.min = NoMinimum /\ s.max = 0
  /\ Len(h) > 0 =>
       /\ s.min \in Nat
       /\ \A i \in 1..Len(h) : s.min <= h[i] /\ h[i] <= s.max
       /\ \E i \in 1..Len(h) : h[i] = s.min
       /\ \E i \in 1..Len(h) : h[i] = s.max
       /\ s.min * Len(h) <= s.sum /\ s.sum <= s.max * Len(h)

Ended(k)     == {r \in Requests : pc[r] = "done" /\ bucket[r] = k}
Failing(cls) == {r \in Requests : pc[r] \in {"answered", "done"} /\ bucket[r].class = cls}

Counted ==
  /\ \A code \in Codes : errors[code] <= Cardinality(Failing(ClassOf[code]))
  /\ \A k \in Buckets : /\ requests[k] = Len(history[k])
                        /\ requests[k] = Cardinality(Ended(k))
                        /\ Summed(summaries[k], history[k])

Summaries == [count : Nat, sum : Nat, min : Nat \cup {NoMinimum}, max : Nat]

\* Multiplication is monotone.
LEMMA TimesMonotone ==
  ASSUME NEW a \in Nat, NEW b \in Nat, NEW n \in Nat, a <= b
  PROVE  a * n <= b * n
<1>1. PICK c \in Nat : b = a + c
  BY b - a \in Nat /\ b = a + (b - a)
<1>2. (a + c) * n = a * n + c * n /\ c * n >= 0
  OBVIOUS
<1>. QED  BY <1>1, <1>2

\* A mean, rounded down, is between the least and the greatest.
LEMMA MeanWithin ==
  ASSUME NEW n \in Nat, n > 0, NEW low \in Nat, NEW high \in Nat, NEW sum \in Nat,
         low * n <= sum, sum <= high * n
  PROVE  low <= sum \div n /\ sum \div n <= high
<1>. DEFINE q == sum \div n
<1>1. q \in Nat /\ q * n <= sum /\ sum < (q + 1) * n
  OBVIOUS
<1>. HIDE DEF q
<1>2. low < q + 1
  <2>1. CASE q + 1 <= low
    BY <1>1, <2>1, TimesMonotone
  <2>. QED  BY <1>1, <2>1
<1>3. q <= high
  <2>1. CASE high + 1 <= q
    <3>1. (high + 1) * n <= q * n
      BY <1>1, <2>1, TimesMonotone
    <3>2. (high + 1) * n = high * n + n
      OBVIOUS
    <3>. QED  BY <1>1, <3>1, <3>2
  <2>. QED  BY <1>1, <2>1
<1>4. low <= q /\ q <= high
  BY <1>1, <1>2, <1>3
<1>. QED  BY <1>4 DEF q

\* One more latency keeps the sum between its bounds.
LEMMA SumGrows ==
  ASSUME NEW n \in Nat, NEW sum \in Nat, NEW d \in Nat,
         NEW low \in Nat, NEW lower \in Nat, lower <= low, lower <= d, low * n <= sum,
         NEW high \in Nat, NEW higher \in Nat, high <= higher, d <= higher, sum <= high * n
  PROVE  lower * (n + 1) <= sum + d /\ sum + d <= higher * (n + 1)
<1>1. lower * n <= low * n /\ high * n <= higher * n
  BY TimesMonotone
<1>2. lower * (n + 1) = lower * n + lower /\ higher * (n + 1) = higher * n + higher
  OBVIOUS
<1>3. lower * n \in Nat /\ low * n \in Nat /\ high * n \in Nat /\ higher * n \in Nat
  OBVIOUS
<1>. QED  BY <1>1, <1>2, <1>3

\* A latency recorded keeps the summary of its bucket.
LEMMA SummarizedSums ==
  ASSUME NEW s \in Summaries, NEW h \in Seq(Latencies), NEW d \in Latencies, Summed(s, h)
  PROVE  Summed(Summarized(s, d), Append(h, d))
<1>. DEFINE n == Len(h)
            m == Append(h, d)
            t == Summarized(s, d)
<1>1. /\ n \in Nat /\ Len(m) = n + 1 /\ m[n + 1] = d /\ d \in Nat
      /\ \A i \in 1..n : m[i] = h[i]
      /\ \A i \in 1..n + 1 : i \in 1..n \/ i = n + 1
  OBVIOUS
<1>6. \A i \in 1..n : h[i] \in Nat
  <2>1. \A i \in 1..n : h[i] \in Latencies
    OBVIOUS
  <2>. QED  BY <2>1
<1>2. s.count \in Nat /\ s.sum \in Nat /\ s.max \in Nat
  BY DEF Summaries
<1>3. t.count = n + 1 /\ t.sum = s.sum + d
  BY DEF Summarized, Summary, Summed
<1>4. CASE n = 0
  <2>1. t.min = d /\ t.sum = d /\ t.max = d
    BY <1>1, <1>2, <1>3, <1>4 DEF Summarized, Summary, Summed
  <2>2. d * 1 = d /\ Len(m) = 1 /\ m[1] = d
    BY <1>1, <1>4
  <2>. HIDE DEF m, t
  <2>3. t.count = Len(m) /\ t.min * Len(m) <= t.sum /\ t.sum <= t.max * Len(m)
    BY <1>1, <1>3, <1>4, <2>1, <2>2
  <2>4. /\ \A i \in 1..Len(m) : t.min <= m[i] /\ m[i] <= t.max
        /\ \E i \in 1..Len(m) : m[i] = t.min
        /\ \E i \in 1..Len(m) : m[i] = t.max
    <3>1. \A i \in 1..Len(m) : i = 1
      BY <2>2
    <3>2. 1 \in 1..Len(m) /\ d <= d
      BY <1>1, <2>2
    <3>. QED  BY <2>1, <2>2, <3>1, <3>2
  <2>5. t.min \in Nat /\ Len(m) # 0
    BY <1>1, <2>1, <2>2
  <2>6. Summed(t, m)
    BY <2>3, <2>4, <2>5 DEF Summed
  <2>. QED  BY <2>6 DEF t, m
<1>5. CASE n > 0
  <2>1. /\ s.min \in Nat /\ s.min * n <= s.sum /\ s.sum <= s.max * n
        /\ \A i \in 1..n : s.min <= h[i] /\ h[i] <= s.max
        /\ \E i \in 1..n : h[i] = s.min
        /\ \E i \in 1..n : h[i] = s.max
    BY <1>5 DEF Summed
  <2>2. /\ t.min = (IF d < s.min THEN d ELSE s.min)
        /\ t.max = (IF d > s.max THEN d ELSE s.max)
    BY <2>1 DEF Summarized, Summary, NoMinimum
  <2>3. t.min \in Nat /\ t.min <= s.min /\ t.min <= d
    BY <1>1, <2>1, <2>2
  <2>4. t.max \in Nat /\ s.max <= t.max /\ d <= t.max
    BY <1>1, <1>2, <2>2
  <2>. HIDE DEF n, m, t
  <2>5. t.min * (n + 1) <= s.sum + d /\ s.sum + d <= t.max * (n + 1)
    BY <1>1, <1>2, <2>1, <2>3, <2>4, SumGrows
  <2>6. \A i \in 1..n + 1 : t.min <= m[i] /\ m[i] <= t.max
    <3>. TAKE i \in 1..n + 1
    <3>1. CASE i \in 1..n
      <4>1. m[i] = h[i] /\ h[i] \in Nat /\ s.min <= h[i] /\ h[i] <= s.max
        BY <1>1, <1>6, <2>1, <3>1
      <4>. QED  BY <1>2, <2>1, <2>3, <2>4, <4>1, SMTT(40)
    <3>2. CASE i = n + 1
      BY <1>1, <2>3, <2>4, <3>2
    <3>. QED  BY <1>1, <3>1, <3>2
  <2>7. \E i \in 1..n + 1 : m[i] = t.min
    <3>1. CASE d < s.min
      BY <1>1, <2>2, <3>1
    <3>2. CASE ~(d < s.min)
      BY <1>1, <2>1, <2>2, <3>2
    <3>. QED  BY <3>1, <3>2
  <2>8. \E i \in 1..n + 1 : m[i] = t.max
    <3>1. CASE d > s.max
      BY <1>1, <2>2, <3>1
    <3>2. CASE ~(d > s.max)
      BY <1>1, <2>1, <2>2, <3>2
    <3>. QED  BY <3>1, <3>2
  <2>. QED  BY <1>1, <1>3, <2>3, <2>5, <2>6, <2>7, <2>8 DEF Summed, n, m, t
<1>. QED  BY <1>1, <1>4, <1>5

\* The requests that ended, and those that failed, can be counted.
LEMMA SetsFinite ==
  /\ \A k : IsFiniteSet(Ended(k)) /\ Cardinality(Ended(k)) \in Nat
  /\ \A cls : IsFiniteSet(Failing(cls)) /\ Cardinality(Failing(cls)) \in Nat
<1>1. \A k : Ended(k) \subseteq Requests
  BY DEF Ended
<1>2. \A cls : Failing(cls) \subseteq Requests
  BY DEF Failing
<1>. QED  BY <1>1, <1>2, FS_Subset, FS_CardinalityType

\* A new collector has counted nothing.
LEMMA CountedInit == Init => Counted
<1>. SUFFICES ASSUME Init PROVE Counted
  OBVIOUS
<1>1. ASSUME NEW code \in Codes PROVE errors[code] <= Cardinality(Failing(ClassOf[code]))
  <2>1. errors[code] = 0
    BY DEF Init
  <2>. QED  BY <2>1, SetsFinite
<1>2. ASSUME NEW k \in Buckets
      PROVE  /\ requests[k] = Len(history[k])
             /\ requests[k] = Cardinality(Ended(k))
             /\ Summed(summaries[k], history[k])
  <2>1. requests[k] = 0 /\ history[k] = <<>> /\ summaries[k] = NoSummary
    BY DEF Init
  <2>2. Ended(k) = {}
    BY DEF Init, Ended
  <2>3. Len(<<>>) = 0
    OBVIOUS
  <2>4. Summed(NoSummary, <<>>)
    BY <2>3 DEF Summed, NoSummary, Summary
  <2>. QED  BY <2>1, <2>2, <2>3, <2>4, FS_EmptySet
<1>. QED  BY <1>1, <1>2 DEF Counted

\* The counters of a bucket and of a code depend only on the sets they count.
LEMMA CountedStep ==
  ASSUME IInv, Counted, [Next]_vars
  PROVE  Counted'
<1>. USE DEF IInv
<1>1. ASSUME NEW r \in Requests, NEW d \in Latencies, Finish(r, d) PROVE Counted'
  <2>. DEFINE b == bucket[r]
  <2>1. /\ b \in Buckets /\ pc[r] # "done" /\ bucket' = bucket /\ errors' = errors
        /\ pc' = [pc EXCEPT ![r] = "done"]
    BY <1>1 DEF TypeOK, Finish, Goto
  <2>2. \A q \in Requests : pc'[q] = IF q = r THEN "done" ELSE pc[q]
    BY <2>1 DEF TypeOK
  <2>3. ASSUME NEW code \in Codes
        PROVE  errors'[code] <= Cardinality(Failing(ClassOf[code])')
    <3>1. Failing(ClassOf[code]) \subseteq Failing(ClassOf[code])'
      BY <2>1, <2>2 DEF Failing
    <3>2. IsFiniteSet(Failing(ClassOf[code])')
      BY FS_Subset DEF Failing
    <3>3. Cardinality(Failing(ClassOf[code])) <= Cardinality(Failing(ClassOf[code])')
      BY <3>1, <3>2, FS_Subset
    <3>4. errors[code] \in Nat /\ Cardinality(Failing(ClassOf[code])') \in Nat
      BY <3>2, FS_CardinalityType DEF TypeOK
    <3>. QED  BY <2>1, <3>3, <3>4, SetsFinite DEF Counted
  <2>4. ASSUME NEW k \in Buckets
        PROVE  /\ requests'[k] = Len(history'[k])
               /\ requests'[k] = Cardinality(Ended(k)')
               /\ Summed(summaries'[k], history'[k])
    <3>0. /\ requests[k] = Len(history[k]) /\ requests[k] = Cardinality(Ended(k))
          /\ Summed(summaries[k], history[k])
      BY DEF Counted
    <3>1. CASE k = b
      <4>1. /\ requests'[k] = requests[k] + 1
            /\ summaries'[k] = Summarized(summaries[k], d)
            /\ history'[k] = Append(history[k], d)
        BY <1>1, <3>1 DEF Finish, TypeOK
      <4>2. Ended(k)' = Ended(k) \cup {r} /\ r \notin Ended(k)
        BY <2>1, <2>2, <3>1 DEF Ended
      <4>3. Cardinality(Ended(k)') = Cardinality(Ended(k)) + 1
        BY <4>2, SetsFinite, FS_AddElement
      <4>4. summaries[k] \in Summaries /\ history[k] \in Seq(Latencies)
        BY DEF TypeOK, Summaries
      <4>5. Summed(summaries'[k], history'[k])
        BY <3>0, <4>1, <4>4, SummarizedSums
      <4>6. Len(history'[k]) = Len(history[k]) + 1
        BY <4>1, <4>4
      <4>. QED  BY <3>0, <4>1, <4>3, <4>5, <4>6
    <3>2. CASE k # b
      <4>1. /\ requests'[k] = requests[k] /\ summaries'[k] = summaries[k]
            /\ history'[k] = history[k]
        BY <1>1, <3>2 DEF Finish, TypeOK
      <4>2. Ended(k)' = Ended(k)
        BY <2>1, <2>2, <3>2 DEF Ended
      <4>. QED  BY <3>0, <4>1, <4>2
    <3>. QED  BY <3>1, <3>2
  <2>. QED  BY <2>3, <2>4 DEF Counted
<1>2. ASSUME NEW r \in Requests, NEW cls \in Classes, pc[r] = "serving",
             pc' = [pc EXCEPT ![r] = "answered"],
             bucket' = [bucket EXCEPT ![r].class = cls],
             UNCHANGED <<requests, summaries, rings, history>>
      PROVE  /\ \A k \in Buckets : /\ requests'[k] = Len(history'[k])
                                   /\ requests'[k] = Cardinality(Ended(k)')
                                   /\ Summed(summaries'[k], history'[k])
             /\ \A c : Failing(c)' = IF c = cls THEN Failing(c) \cup {r} ELSE Failing(c)
             /\ \A c : r \notin Failing(c)
  <2>1. \A q \in Requests : pc'[q] = IF q = r THEN "answered" ELSE pc[q]
    BY <1>2 DEF TypeOK
  <2>2. /\ bucket'[r].class = cls
        /\ \A q \in Requests : q # r => bucket'[q] = bucket[q]
    BY <1>2 DEF TypeOK, Buckets
  <2>3. \A k : Ended(k)' = Ended(k)
    BY <1>2, <2>1, <2>2 DEF Ended
  <2>4. \A c : r \notin Failing(c)
    BY <1>2 DEF Failing
  <2>5. \A c : Failing(c)' = IF c = cls THEN Failing(c) \cup {r} ELSE Failing(c)
    BY <2>1, <2>2, <2>4 DEF Failing
  <2>6. ASSUME NEW k \in Buckets
        PROVE  /\ requests'[k] = Len(history'[k])
               /\ requests'[k] = Cardinality(Ended(k)')
               /\ Summed(summaries'[k], history'[k])
    BY <1>2, <2>3 DEF Counted
  <2>. QED  BY <2>4, <2>5, <2>6
<1>3. ASSUME NEW r \in Requests, NEW class \in Classes, Answer(r, class) PROVE Counted'
  <2>1. errors' = errors /\ pc[r] = "serving" /\ pc' = [pc EXCEPT ![r] = "answered"]
        /\ bucket' = [bucket EXCEPT ![r].class = class]
        /\ UNCHANGED <<requests, summaries, rings, history>>
    BY <1>3 DEF Answer, Goto, collected
  <2>2. ASSUME NEW code \in Codes
        PROVE  errors'[code] <= Cardinality(Failing(ClassOf[code])')
    <3>. DEFINE F == Failing(ClassOf[code])
    <3>1. F' = F \/ (F' = F \cup {r} /\ r \notin F)
      BY <1>2, <2>1
    <3>2. IsFiniteSet(F) /\ Cardinality(F) \in Nat
      BY SetsFinite
    <3>3. Cardinality(F') = Cardinality(F) \/ Cardinality(F') = Cardinality(F) + 1
      BY <3>1, <3>2, FS_AddElement
    <3>4. errors[code] \in Nat /\ errors[code] <= Cardinality(F)
      BY DEF TypeOK, Counted
    <3>. QED  BY <2>1, <3>2, <3>3, <3>4
  <2>. QED  BY <1>2, <2>1, <2>2 DEF Counted
<1>4. ASSUME NEW r \in Requests, NEW failed \in Codes, AnswerError(r, failed) PROVE Counted'
  <2>1. /\ pc[r] = "serving" /\ pc' = [pc EXCEPT ![r] = "answered"]
        /\ bucket' = [bucket EXCEPT ![r].class = ClassOf[failed]]
        /\ errors' = [errors EXCEPT ![failed] = @ + 1]
        /\ UNCHANGED <<requests, summaries, rings, history>>
        /\ ClassOf[failed] \in Classes
    BY <1>4 DEF AnswerError, Goto, Classes
  <2>2. ASSUME NEW code \in Codes
        PROVE  errors'[code] <= Cardinality(Failing(ClassOf[code])')
    <3>. DEFINE F == Failing(ClassOf[code])
    <3>1. /\ r \notin F
          /\ F' = IF ClassOf[code] = ClassOf[failed] THEN F \cup {r} ELSE F
      BY <1>2, <2>1
    <3>2. IsFiniteSet(F) /\ Cardinality(F) \in Nat
      BY SetsFinite
    <3>3. errors[code] \in Nat /\ errors[code] <= Cardinality(F)
      BY DEF TypeOK, Counted
    <3>4. CASE ClassOf[code] = ClassOf[failed]
      <4>1. Cardinality(F') = Cardinality(F) + 1
        BY <3>1, <3>2, <3>4, FS_AddElement
      <4>2. errors'[code] = errors[code] \/ errors'[code] = errors[code] + 1
        BY <2>1 DEF TypeOK
      <4>. QED  BY <3>2, <3>3, <4>1, <4>2
    <3>5. CASE ClassOf[code] # ClassOf[failed]
      <4>1. F' = F /\ errors'[code] = errors[code]
        BY <2>1, <3>1, <3>5 DEF TypeOK
      <4>. QED  BY <3>3, <4>1
    <3>. QED  BY <3>4, <3>5
  <2>. QED  BY <1>2, <2>1, <2>2 DEF Counted
<1>5. ASSUME NEW r \in Requests, Arrive(r) PROVE Counted'
  <2>1. /\ pc[r] = "new" /\ pc' = [pc EXCEPT ![r] = "serving"]
        /\ UNCHANGED <<bucket, requests, errors, summaries, history>>
    BY <1>5 DEF Arrive, Goto, collected
  <2>2. \A q \in Requests : pc'[q] = IF q = r THEN "serving" ELSE pc[q]
    BY <2>1 DEF TypeOK
  <2>3. (\A k : Ended(k)' = Ended(k)) /\ (\A c : Failing(c)' = Failing(c))
    BY <2>1, <2>2 DEF Ended, Failing
  <2>. QED  BY <2>1, <2>3 DEF Counted
<1>6. ASSUME UNCHANGED vars PROVE Counted'
  <2>1. UNCHANGED <<pc, bucket, requests, errors, summaries, history>>
    BY <1>6 DEF vars, collected
  <2>2. (\A k : Ended(k)' = Ended(k)) /\ (\A c : Failing(c)' = Failing(c))
    BY <2>1 DEF Ended, Failing
  <2>. QED  BY <2>1, <2>2 DEF Counted
<1>. QED  BY <1>1, <1>3, <1>4, <1>5, <1>6 DEF Next

\* What is counted step by step is what CountedOnce says of a snapshot.
LEMMA CountedImplies == IInv /\ Counted => CountedOnce
<1>. SUFFICES ASSUME IInv, Counted PROVE CountedOnce
  OBVIOUS
<1>1. \A code \in Codes :
        errors[code] <= Cardinality({r \in Requests : /\ pc[r] \in {"answered", "done"}
                                                      /\ bucket[r].class = ClassOf[code]})
  BY DEF Counted, Failing
<1>2. ASSUME NEW k \in Buckets
      PROVE  LET n == Len(history[k])
                 reported == LatencyMetric(k)
             IN  /\ requests[k] = Cardinality({r \in Requests : pc[r] = "done" /\ bucket[r] = k})
                 /\ requests[k] = n /\ reported.count = n
                 /\ n > 0 => /\ \A j \in 1..n : reported.min <= history[k][j]
                             /\ \A j \in 1..n : history[k][j] <= reported.max
                             /\ \E i, j \in 1..n : /\ reported.min = history[k][i]
                                                   /\ reported.max = history[k][j]
                             /\ reported.min <= reported.mean /\ reported.mean <= reported.max
  <2>. DEFINE n == Len(history[k])
              s == summaries[k]
              reported == LatencyMetric(k)
  <2>1. /\ requests[k] = n /\ Summed(s, history[k])
        /\ requests[k] = Cardinality({r \in Requests : pc[r] = "done" /\ bucket[r] = k})
    BY DEF Counted, Ended
  <2>2. s \in Summaries /\ n \in Nat /\ history[k] \in Seq(Latencies)
    BY DEF IInv, TypeOK, Summaries
  <2>3. /\ reported.count = s.count /\ reported.max = s.max
        /\ reported.min = IF s.min = NoMinimum THEN 0 ELSE s.min
        /\ reported.mean = IF s.count > 0 THEN s.sum \div s.count ELSE 0
    BY DEF LatencyMetric
  <2>. HIDE DEF reported, n
  <2>4. reported.count = n
    BY <2>1, <2>3 DEF Summed, n
  <2>5. ASSUME n > 0
        PROVE  /\ \A j \in 1..n : reported.min <= history[k][j]
               /\ \A j \in 1..n : history[k][j] <= reported.max
               /\ \E i, j \in 1..n : /\ reported.min = history[k][i]
                                     /\ reported.max = history[k][j]
               /\ reported.min <= reported.mean /\ reported.mean <= reported.max
    <3>1. /\ s.min \in Nat
          /\ \A i \in 1..n : s.min <= history[k][i] /\ history[k][i] <= s.max
          /\ \E i \in 1..n : history[k][i] = s.min
          /\ \E i \in 1..n : history[k][i] = s.max
          /\ s.min * n <= s.sum /\ s.sum <= s.max * n
      BY <2>1, <2>5 DEF Summed, n
    <3>2. reported.min = s.min /\ reported.max = s.max /\ reported.mean = s.sum \div n
      BY <2>3, <2>4, <2>5, <3>1 DEF NoMinimum
    <3>3. s.min <= s.sum \div n /\ s.sum \div n <= s.max
      BY <2>2, <2>5, <3>1, MeanWithin DEF Summaries
    <3>. QED  BY <3>1, <3>2, <3>3
  <2>. QED  BY <2>1, <2>4, <2>5 DEF n, reported
<1>. QED  BY <1>1, <1>2 DEF CountedOnce

\* Every request that ended is counted once under the status its client saw, the
\* errors counted are of such requests, and a snapshot's summary of a bucket spans
\* all its latencies, its mean between the extremes (Collector.RecordRequest,
\* RecordError and Snapshot), for any finite number of requests.
THEOREM CountsAgree == Spec => []CountedOnce
<1>. QED  BY CountedInit, CountedStep, CountedImplies, Inductive, PTL DEF Spec

-----------------------------------------------------------------------------
(***************************************************************************)
(* Percentiles.                                                            *)
(***************************************************************************)

\* Some element of a finite set has the least value.
LEMMA Least ==
  ASSUME NEW D, IsFiniteSet(D), NEW f \in [D -> Int], NEW S \in SUBSET D, S # {}
  PROVE  \E j \in S : \A i \in S : f[j] <= f[i]
<1>. DEFINE Below(j) == {i \in S : f[i] < f[j]}
            T == {Below(j) : j \in S}
            R == StrictSubsetOrdering(S)
<1>1. IsFiniteSet(S)
  BY FS_Subset
<1>2. T \subseteq FiniteSubsetsOf(S) /\ T # {}
  <2>1. ASSUME NEW j \in S PROVE Below(j) \in FiniteSubsetsOf(S)
    <3>1. Below(j) \in SUBSET S
      OBVIOUS
    <3>2. IsFiniteSet(Below(j))
      BY <1>1, <3>1, FS_Subset
    <3>. QED  BY <3>1, <3>2 DEF FiniteSubsetsOf
  <2>2. PICK j \in S : TRUE
    OBVIOUS
  <2>3. Below(j) \in T
    OBVIOUS
  <2>4. \A x \in T : x \in FiniteSubsetsOf(S)
    <3>. HIDE DEF Below
    <3>. QED  BY <2>1
  <2>. HIDE DEF T, Below
  <2>. QED  BY <2>3, <2>4
<1>3. PICK x \in T : \A y \in T : ~(<<y, x>> \in R)
  <2>1. IsWellFoundedOn(R, FiniteSubsetsOf(S))
    BY FS_StrictSubsetOrderingWellFounded
  <2>. HIDE DEF T, R
  <2>. QED  BY <1>2, <2>1, WFMin
<1>4. PICK j \in S : x = Below(j)
  OBVIOUS
<1>5. ASSUME NEW i \in S, ~(f[j] <= f[i]) PROVE FALSE
  <2>1. f[i] < f[j] /\ f[i] \in Int /\ f[j] \in Int
    BY <1>5
  <2>2. Below(i) \subseteq Below(j) /\ i \in Below(j) /\ i \notin Below(i)
    <3>1. ASSUME NEW m \in S, f[m] < f[i] PROVE f[m] < f[j]
      BY <2>1, <3>1
    <3>. QED  BY <2>1, <3>1
  <2>3. <<Below(i), Below(j)>> \in R
    <3>1. Below(i) \subseteq S /\ Below(j) \subseteq S
      OBVIOUS
    <3>. HIDE DEF Below
    <3>. QED  BY <2>2, <3>1 DEF StrictSubsetOrdering
  <2>. QED  BY <1>3, <1>4, <2>3
<1>. QED  BY <1>5

\* A finite set that is not empty has a greatest element, in the order of f.
LEMMA Greatest ==
  ASSUME NEW D, IsFiniteSet(D), NEW f \in [D -> Int], NEW S \in SUBSET D, S # {}
  PROVE  \E j \in S : \A i \in S : f[i] <= f[j]
<1>1. PICK g : g = [i \in D |-> -f[i]]
  OBVIOUS
<1>2. g \in [D -> Int] /\ \A i \in D : g[i] = -f[i] /\ f[i] \in Int
  BY <1>1
<1>3. PICK j \in S : \A i \in S : g[j] <= g[i]
  BY <1>2, Least
<1>. QED  BY <1>2, <1>3

\* There is an element at every place between the first and the last.
LEMMA RankedIs ==
  ASSUME NEW n \in Nat, NEW values \in [1..n -> Nat], NEW rank \in 1..n
  PROVE  LET v == Ranked(values, rank)
         IN  /\ \E i \in 1..n : values[i] = v
             /\ Cardinality({i \in 1..n : values[i] < v}) < rank
             /\ rank <= Cardinality({i \in 1..n : values[i] <= v})
<1>. DEFINE Under(v)  == {i \in 1..n : values[i] < v}
            AtMost(v) == {i \in 1..n : values[i] <= v}
            S == {j \in 1..n : rank <= Cardinality(AtMost(values[j]))}
<1>1. /\ IsFiniteSet(1..n) /\ Cardinality(1..n) = n /\ 1..n # {} /\ 1..n \in SUBSET (1..n)
      /\ rank \in Nat /\ 1 <= rank /\ rank <= n
  <2>1. IsFiniteSet(1..n) /\ Cardinality(1..n) = IF 1 > n THEN 0 ELSE n - 1 + 1
    BY FS_Interval
  <2>2. 1 \in 1..n /\ rank \in Nat /\ 1 <= rank /\ rank <= n
    OBVIOUS
  <2>3. Cardinality(1..n) = n
    BY <2>1, <2>2
  <2>. QED  BY <2>1, <2>2, <2>3
<1>2. values \in [1..n -> Int] /\ \A i \in 1..n : values[i] \in Nat
  OBVIOUS
<1>3. \A v : /\ IsFiniteSet(Under(v)) /\ Cardinality(Under(v)) \in Nat
             /\ IsFiniteSet(AtMost(v)) /\ Cardinality(AtMost(v)) \in Nat
  <2>. TAKE v
  <2>1. Under(v) \in SUBSET (1..n) /\ AtMost(v) \in SUBSET (1..n)
    OBVIOUS
  <2>. HIDE DEF Under, AtMost
  <2>. QED  BY <1>1, <2>1, FS_Subset, FS_CardinalityType
<1>4. S # {}
  <2>1. PICK j \in 1..n : \A i \in 1..n : values[i] <= values[j]
    BY <1>1, <1>2, Greatest
  <2>2. AtMost(values[j]) = 1..n
    BY <2>1
  <2>. HIDE DEF AtMost
  <2>3. j \in S
    BY <1>1, <2>2
  <2>. QED  BY <2>3
<1>5. PICK j \in S : \A i \in S : values[j] <= values[i]
  <2>1. S \in SUBSET (1..n)
    OBVIOUS
  <2>. HIDE DEF S
  <2>. QED  BY <1>1, <1>2, <1>4, <2>1, Least
<1>6. Cardinality(Under(values[j])) < rank
  <2>. SUFFICES ASSUME rank <= Cardinality(Under(values[j])) PROVE FALSE
    <3>. HIDE DEF Under
    <3>1. PICK c \in Nat : c = Cardinality(Under(values[j]))
      BY <1>3
    <3>. QED  BY <1>1, <3>1
  <2>1. Under(values[j]) # {} /\ Under(values[j]) \in SUBSET (1..n)
    <3>1. Cardinality(Under(values[j])) # 0
      BY <1>1, <1>3
    <3>. QED  BY <3>1, FS_EmptySet
  <2>2. PICK m \in Under(values[j]) : \A i \in Under(values[j]) : values[i] <= values[m]
    <3>. HIDE DEF Under
    <3>. QED  BY <1>1, <1>2, <2>1, Greatest
  <2>3. AtMost(values[m]) = Under(values[j])
    BY <1>2, <2>2
  <2>4. m \in S /\ values[m] < values[j]
    BY <2>2, <2>3
  <2>. QED  BY <1>2, <1>5, <2>4
<1>7. values[j] \in {values[i] : i \in DOMAIN values} /\ DOMAIN values = 1..n
  OBVIOUS
<1>8. /\ Cardinality({i \in DOMAIN values : values[i] < values[j]}) < rank
      /\ rank <= Cardinality({i \in DOMAIN values : values[i] <= values[j]})
  BY <1>5, <1>6, <1>7
<1>9. LET v == Ranked(values, rank)
      IN  /\ v \in {values[i] : i \in DOMAIN values}
          /\ Cardinality({i \in DOMAIN values : values[i] < v}) < rank
          /\ rank <= Cardinality({i \in DOMAIN values : values[i] <= v})
  BY <1>7, <1>8 DEF Ranked
<1>. QED  BY <1>7, <1>9

\* Nearest rank: p percent of n, rounded up, is a place, and the one before is less.
LEMMA RankBetween ==
  ASSUME NEW n \in Nat, n > 0, NEW p \in 1..100
  PROVE  LET rank == (p * n + 99) \div 100
         IN  /\ rank \in 1..n /\ p * n <= 100 * rank /\ 100 * (rank - 1) < p * n
             /\ p * n \in Nat
<1>1. 1 * n <= p * n /\ p * n <= 100 * n /\ p * n \in Nat
  BY TimesMonotone
<1>2. PICK x \in Nat : x = p * n
  BY <1>1
<1>3. n <= x /\ x <= 100 * n
  BY <1>1, <1>2
<1>4. LET rank == (x + 99) \div 100
      IN  rank \in 1..n /\ x <= 100 * rank /\ 100 * (rank - 1) < x
  BY <1>3
<1>. QED  BY <1>2, <1>4

\* A percentile that a snapshot reports is nearest rank over what the ring holds:
\* the least of the latest latencies that is not below p percent of them
\* (percentile in Snapshot), for rings of any size.
THEOREM PercentilesNearest == Spec => []PercentilesRight
<1>1. IInv => PercentilesRight
  <2>. SUFFICES ASSUME IInv, NEW k \in Buckets, Values(rings[k]) # <<>>, NEW p \in Percents
                PROVE  LET held == Values(rings[k])
                           AtMost(v) == Cardinality({i \in DOMAIN held : held[i] <= v})
                           v == LatencyMetric(k).percentile[p]
                       IN  /\ \E i \in DOMAIN held : held[i] = v
                           /\ 100 * AtMost(v) >= p * Len(held)
                           /\ \A i \in DOMAIN held :
                                held[i] < v => 100 * AtMost(held[i]) < p * Len(held)
    BY DEF PercentilesRight
  <2>1. PICK held : held = Values(rings[k])
    OBVIOUS
  <2>2. PICK n \in Nat : held \in [1..n -> Nat]
    <3>1. rings[k] \in Rings
      BY DEF IInv, TypeOK, Rings
    <3>2. rings[k].next \in Slots /\ rings[k].next \in Nat
      BY <3>1 DEF Rings, Slots
    <3>3. PICK n \in Nat : /\ n = IF rings[k].full THEN Size ELSE rings[k].next
                           /\ \A i \in 1..n : i - 1 \in Slots
      <4>1. PICK n \in Nat : n <= Size /\ n = IF rings[k].full THEN Size ELSE rings[k].next
        BY <3>2 DEF Slots
      <4>. QED  BY <4>1 DEF Slots
    <3>4. held = [i \in 1..n |-> rings[k].samples[i - 1]]
      BY <2>1, <3>3 DEF Values
    <3>5. \A i \in 1..n : rings[k].samples[i - 1] \in Nat
      BY <3>1, <3>3 DEF Rings
    <3>. QED  BY <3>4, <3>5
  <2>3. Len(held) = n /\ DOMAIN held = 1..n /\ n > 0 /\ \A i \in 1..n : held[i] \in Nat
    <3>1. Len(held) = n /\ DOMAIN held = 1..n /\ held \in Seq(Nat)
      BY <2>2
    <3>2. n # 0
      BY <2>1, <3>1
    <3>. QED  BY <2>2, <3>1, <3>2
  <2>4. PICK rank : rank = (p * n + 99) \div 100
    OBVIOUS
  <2>5. rank \in 1..n /\ p * n <= 100 * rank /\ 100 * (rank - 1) < p * n /\ p * n \in Nat
    BY <2>3, <2>4, RankBetween
  <2>6. PICK v : v = LatencyMetric(k).percentile[p]
    OBVIOUS
  <2>7. v = Ranked(held, rank)
    <3>1. v = Percentile(held, p)
      BY <2>1, <2>6 DEF LatencyMetric
    <3>2. ~(rank < 1)
      BY <2>5
    <3>. QED  BY <2>3, <2>4, <3>1, <3>2 DEF Percentile
  <2>8. /\ \E i \in 1..n : held[i] = v
        /\ Cardinality({i \in 1..n : held[i] < v}) < rank
        /\ rank <= Cardinality({i \in 1..n : held[i] <= v})
    BY <2>2, <2>5, <2>7, RankedIs, ZenonT(40)
  <2>9. ASSUME NEW S \in SUBSET (1..n) PROVE IsFiniteSet(S) /\ Cardinality(S) \in Nat
    <3>1. IsFiniteSet(1..n)
      BY FS_Interval
    <3>. QED  BY <3>1, FS_Subset, FS_CardinalityType
  <2>10. 100 * Cardinality({i \in 1..n : held[i] <= v}) >= p * n
    <3>1. PICK c \in Nat : c = Cardinality({i \in 1..n : held[i] <= v})
      BY <2>9
    <3>. QED  BY <2>5, <2>8, <3>1
  <2>11. ASSUME NEW m \in 1..n, held[m] < v
         PROVE  100 * Cardinality({i \in 1..n : held[i] <= held[m]}) < p * n
    <3>1. {i \in 1..n : held[i] <= held[m]} \in SUBSET {i \in 1..n : held[i] < v}
      <4>1. v \in Nat
        BY <2>3, <2>8
      <4>2. ASSUME NEW i \in 1..n, held[i] <= held[m] PROVE held[i] < v
        BY <2>3, <2>11, <4>1, <4>2
      <4>. QED  BY <4>2
    <3>2. PICK c \in Nat : c = Cardinality({i \in 1..n : held[i] <= held[m]})
      BY <2>9
    <3>3. PICK d \in Nat : d = Cardinality({i \in 1..n : held[i] < v})
      BY <2>9
    <3>4. c <= d
      BY <2>9, <3>1, <3>2, <3>3, FS_Subset
    <3>. QED  BY <2>5, <2>8, <3>2, <3>3, <3>4
  <2>. QED  BY <2>1, <2>3, <2>6, <2>8, <2>10, <2>11, SMTT(40)
<1>. QED  BY <1>1, Inductive, PTL

=============================================================================
