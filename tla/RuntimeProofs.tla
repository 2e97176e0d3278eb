---------------------------- MODULE RuntimeProofs ----------------------------
(***************************************************************************)
(* Runtime, proved for every set of pairs, requests and discovered pairs,  *)
(* every backoff schedule and any number of edits, signals and reloads.    *)
(***************************************************************************)
EXTENDS Runtime, TLAPS

-----------------------------------------------------------------------------
(***************************************************************************)
(* The inductive invariant.  While the loop is about to swap, what it      *)
(* carries over is the ideal tracker cut down to the pairs it knows, again *)
(* for every pair that has not raced.                                      *)
(***************************************************************************)

\* trackers is a sequence, whatever its elements are.
TrackersListed == \E S : trackers \in Seq(S)

\* Only the loop stores the pointer, and it stores the snapshot it appended.
NewestServed == current = Len(gens)

KeptAgrees ==
  loop = "swapping" =>
    \A k \in Pairs \ raced :
      Get(kept, k) = IF k \in staged.known THEN Get(ideal, k) ELSE Unseen

IInv == TypeOK /\ TrackersListed /\ NewestServed /\ UnracedMarksKept /\ KeptAgrees

-----------------------------------------------------------------------------
(***************************************************************************)
(* Lemmas about trackers and sequences.                                    *)
(***************************************************************************)

\* Get after Put.
LEMMA GetPut ==
  ASSUME NEW s, NEW k, NEW j, NEW v
  PROVE  Get(Put(s, k, v), j) = IF j = k THEN v ELSE Get(s, j)
  BY DEF Get, Put

\* Get after Restored: what a reload keeps, it keeps unchanged.
LEMMA GetRestored ==
  ASSUME NEW s, NEW keep, NEW k
  PROVE  Get(Restored(s, keep), k) = IF k \in keep THEN Get(s, k) ELSE Unseen
  BY DEF Get, Restored

\* A mark changes one record, and what it writes depends on that record only.
LEMMA SuccessIsLocal ==
  ASSUME NEW s, NEW t, NEW k
  PROVE  /\ \A j : j # k => Get(AfterSuccess(s, k), j) = Get(s, j)
         /\ Get(AfterSuccess(s, k), k) = Get(AfterSuccess(t, k), k)
  BY GetPut DEF AfterSuccess

\* A failure changes the record of its pair only, and as that record says.
LEMMA FailureIsLocal ==
  ASSUME NEW s, NEW t, NEW k, NEW err
  PROVE  /\ \A j : j # k => Get(AfterFailure(s, k, err, Instant), j) = Get(s, j)
         /\ Get(s, k) = Get(t, k) =>
              Get(AfterFailure(s, k, err, Instant), k) = Get(AfterFailure(t, k, err, Instant), k)
<1>1. ASSUME NEW j, j # k
      PROVE  Get(AfterFailure(s, k, err, Instant), j) = Get(s, j)
  BY <1>1, GetPut DEF AfterFailure
<1>2. ASSUME Get(s, k) = Get(t, k)
      PROVE  Get(AfterFailure(s, k, err, Instant), k) = Get(AfterFailure(t, k, err, Instant), k)
  BY <1>2, GetPut DEF AfterFailure
<1>. QED  BY <1>1, <1>2

\* A mark adds no pair but its own.
LEMMA MarkDomain ==
  ASSUME NEW s, DOMAIN s \subseteq Pairs, NEW k \in Pairs, NEW err
  PROVE  /\ DOMAIN AfterSuccess(s, k) \subseteq Pairs
         /\ DOMAIN AfterFailure(s, k, err, Instant) \subseteq Pairs
  BY DEF AfterSuccess, AfterFailure, Put

\* What Append does to the list of snapshots.
LEMMA ListAppend ==
  ASSUME NEW S, NEW s \in Seq(S), NEW e
  PROVE  /\ Append(s, e) \in Seq(S \cup {e})
         /\ Len(Append(s, e)) = Len(s) + 1
         /\ Append(s, e)[Len(s) + 1] = e
         /\ \A i \in 1..Len(s) : Append(s, e)[i] = s[i]
<1>1. s \in Seq(S \cup {e})
  OBVIOUS
<1>. QED  BY <1>1

\* What a change of one snapshot does to the list.
LEMMA ListExcept ==
  ASSUME NEW S, NEW s \in Seq(S), NEW e, NEW h \in 1..Len(s)
  PROVE  /\ [s EXCEPT ![h] = e] \in Seq(S \cup {e})
         /\ Len([s EXCEPT ![h] = e]) = Len(s)
         /\ \A i \in 1..Len(s) : [s EXCEPT ![h] = e][i] = IF i = h THEN e ELSE s[i]
<1>1. s \in Seq(S \cup {e})
  OBVIOUS
<1>. QED  BY <1>1

-----------------------------------------------------------------------------
(***************************************************************************)
(* The initial states and the steps.                                       *)
(***************************************************************************)

\* The initial state satisfies the invariant.
LEMMA InitIInv ==
  ASSUME Init
  PROVE  IInv
<1>. USE RuntimeAssumption
<1>1. PICK discovery \in BOOLEAN :
        gens = <<[version |-> 0, pairs |-> Pairs, known |-> Known(Pairs, discovery)]>>
  BY DEF Init
<1>2. Known(Pairs, discovery) \subseteq Pairs
  BY DEF Known
<1>3. /\ gens \in Seq(Snapshots) /\ Len(gens) = 1
      /\ gens[1].known \subseteq gens[1].pairs
  BY <1>1, <1>2 DEF Snapshots
<1>4. trackers = <<Empty>> /\ Len(trackers) = 1 /\ trackers[1] = Empty
  BY DEF Init
<1>5. DOMAIN Empty = {}
  BY DEF Empty
<1>6. TypeOK
  BY <1>3, <1>4, <1>5 DEF Init, TypeOK, Snapshots, NoSnapshot
<1>7. TrackersListed
  <2>1. trackers \in Seq({Empty})
    BY <1>4
  <2>. QED  BY <2>1 DEF TrackersListed
<1>8. NewestServed /\ UnracedMarksKept /\ KeptAgrees
  BY <1>3, <1>4 DEF Init, NewestServed, UnracedMarksKept, KeptAgrees
<1>. QED  BY <1>6, <1>7, <1>8 DEF IInv

\* What the loop does before it carries state over disturbs nobody else.
LEMMA EarlyReloadIInv ==
  ASSUME IInv,
         Edit \/ Hup \/ TakeSignal \/ Load \/ LoadFails \/ Build \/ BuildFails
  PROVE  IInv'
<1>. USE RuntimeAssumption DEF IInv, TypeOK
<1>1. UNCHANGED <<snapshot, requests, history>>
  BY DEF Edit, Hup, TakeSignal, Load, LoadFails, Build, BuildFails
<1>2. TrackersListed' /\ NewestServed' /\ UnracedMarksKept'
  BY <1>1 DEF TrackersListed, NewestServed, UnracedMarksKept, snapshot, history
<1>3. KeptAgrees'
  BY <1>1 DEF Edit, Hup, TakeSignal, Load, LoadFails, Build, BuildFails,
              KeptAgrees, history, reload
<1>4. TypeOK'
  <2>. USE <1>1 DEF snapshot, requests, history, reload, file
  <2>1. CASE Edit
    BY <2>1 DEF Edit, Configs
  <2>2. CASE Hup
    BY <2>2 DEF Hup
  <2>3. CASE TakeSignal
    BY <2>3 DEF TakeSignal
  <2>4. CASE Load
    <3>1. staged' \in Snapshots /\ staged'.known = {}
      BY <2>4 DEF Load, Snapshots
    <3>. QED  BY <2>4, <3>1 DEF Load
  <2>5. CASE LoadFails
    BY <2>5 DEF LoadFails
  <2>6. CASE Build
    <3>1. PICK discovery \in BOOLEAN :
            staged' = [staged EXCEPT !.known = Known(staged.pairs, discovery)]
      BY <2>6 DEF Build
    <3>2. Known(staged.pairs, discovery) \subseteq staged.pairs
      BY DEF Known
    <3>3. staged' \in Snapshots /\ staged'.known \subseteq staged'.pairs
      BY <3>1, <3>2 DEF Snapshots
    <3>. QED  BY <2>6, <3>3 DEF Build
  <2>7. CASE BuildFails
    <3>1. staged' \in Snapshots /\ staged'.known = {}
      BY <2>7 DEF BuildFails, NoSnapshot, Snapshots
    <3>. QED  BY <2>7, <3>1 DEF BuildFails
  <2>. QED  BY <2>1, <2>2, <2>3, <2>4, <2>5, <2>6, <2>7
<1>. QED  BY <1>2, <1>3, <1>4

\* Copying the tracker into the new router keeps the invariant.
LEMMA ReconcileIInv ==
  ASSUME IInv, Reconcile
  PROVE  IInv'
<1>. USE DEF IInv
<1>1. /\ UNCHANGED <<file, signals, staged, loaded, snapshot, requests, history>>
      /\ kept' = Restored(trackers[current], staged.known)
      /\ loop' = "swapping"
  BY DEF Reconcile, Reconciled
<1>2. DOMAIN kept' \subseteq Pairs
  BY <1>1 DEF Restored, TypeOK, Snapshots
<1>3. TypeOK'
  BY <1>1, <1>2 DEF TypeOK, file, snapshot, requests, history
<1>4. TrackersListed' /\ NewestServed' /\ UnracedMarksKept'
  BY <1>1 DEF TrackersListed, NewestServed, UnracedMarksKept, snapshot, history
<1>5. KeptAgrees'
  <2>1. \A k : Get(kept', k) =
                 IF k \in staged.known THEN Get(trackers[current], k) ELSE Unseen
    BY <1>1, GetRestored
  <2>. QED  BY <1>1, <2>1 DEF KeptAgrees, UnracedMarksKept, snapshot, history
<1>. QED  BY <1>3, <1>4, <1>5

\* Storing the pointer keeps the invariant.
LEMMA SwapIInv ==
  ASSUME IInv, Swap
  PROVE  IInv'
<1>. USE DEF IInv
<1>1. /\ loop = "swapping" /\ loop' = "waiting"
      /\ gens' = Append(gens, staged)
      /\ trackers' = Append(trackers, kept)
      /\ current' = Len(gens) + 1
      /\ ideal' = Restored(ideal, staged.known)
      /\ staged' = NoSnapshot /\ kept' = Empty
      /\ UNCHANGED <<file, signals, loaded, requests, raced>>
  BY DEF Swap
<1>2. gens \in Seq(Snapshots) /\ staged \in Snapshots /\ Len(trackers) = Len(gens)
  BY DEF TypeOK
<1>3. gens' \in Seq(Snapshots)
  BY <1>1, <1>2
<1>4. /\ Len(gens') = Len(gens) + 1
      /\ gens'[Len(gens) + 1] = staged
      /\ \A g \in 1..Len(gens) : gens'[g] = gens[g]
  BY <1>1, <1>2, ListAppend
<1>5. PICK S : trackers \in Seq(S)
  BY DEF TrackersListed
<1>6. /\ trackers' \in Seq(S \cup {kept})
      /\ Len(trackers') = Len(gens) + 1
      /\ trackers'[Len(gens) + 1] = kept
      /\ \A g \in 1..Len(gens) : trackers'[g] = trackers[g]
  BY <1>1, <1>2, <1>5, ListAppend
<1>7. TypeOK'
  <2>1. \A g \in 1..Len(gens') :
          /\ gens'[g].known \subseteq gens'[g].pairs
          /\ DOMAIN trackers'[g] \subseteq Pairs
    <3>. SUFFICES ASSUME NEW g \in 1..Len(gens')
                  PROVE  /\ gens'[g].known \subseteq gens'[g].pairs
                         /\ DOMAIN trackers'[g] \subseteq Pairs
      OBVIOUS
    <3>1. CASE g \in 1..Len(gens)
      BY <3>1, <1>4, <1>6 DEF TypeOK
    <3>2. CASE g = Len(gens) + 1
      BY <3>2, <1>4, <1>6 DEF TypeOK
    <3>3. g \in 1..Len(gens) \/ g = Len(gens) + 1
      BY <1>2, <1>4
    <3>. QED  BY <3>1, <3>2, <3>3
  <2>2. staged' \in Snapshots /\ staged'.known \subseteq staged'.pairs
    BY <1>1, RuntimeAssumption DEF NoSnapshot, Snapshots
  <2>3. DOMAIN kept' \cup DOMAIN ideal' \cup raced' \subseteq Pairs
    BY <1>1 DEF TypeOK, Restored, Empty
  <2>4. current' \in 1..Len(gens') /\ Len(trackers') = Len(gens')
    BY <1>1, <1>2, <1>4, <1>6
  <2>5. held' \in [Requests -> 0..current']
    BY <1>1, <1>2 DEF TypeOK, NewestServed, requests
  <2>. QED  BY <1>1, <1>3, <2>1, <2>2, <2>3, <2>4, <2>5 DEF TypeOK, file, requests
<1>8. TrackersListed'
  BY <1>6 DEF TrackersListed
<1>9. NewestServed' /\ KeptAgrees'
  BY <1>1, <1>4 DEF NewestServed, KeptAgrees
<1>10. UnracedMarksKept'
  <2>1. \A k : Get(ideal', k) = IF k \in staged.known THEN Get(ideal, k) ELSE Unseen
    BY <1>1, GetRestored
  <2>2. trackers'[current'] = kept
    BY <1>1, <1>6
  <2>3. \A k \in Pairs \ raced : Get(kept, k) = Get(ideal', k)
    BY <1>1, <2>1 DEF KeptAgrees
  <2>. QED  BY <1>1, <2>2, <2>3 DEF UnracedMarksKept
<1>. QED  BY <1>7, <1>8, <1>9, <1>10

\* A discovery on behalf of a request keeps the invariant.
LEMMA LazyDiscoveryIInv ==
  ASSUME IInv, LazyDiscovery
  PROVE  IInv'
<1>. USE DEF IInv
<1>1. /\ gens' = [gens EXCEPT ![current].known = gens[current].pairs]
      /\ UNCHANGED <<file, reload, current, trackers, requests, history>>
  BY DEF LazyDiscovery
<1>2. gens \in Seq(Snapshots) /\ current \in 1..Len(gens)
  BY DEF TypeOK
<1>3. gens[current] \in Snapshots
  BY <1>2
<1> DEFINE learned == [gens[current] EXCEPT !.known = gens[current].pairs]
<1>4. learned \in Snapshots /\ learned.known \subseteq learned.pairs
  BY <1>3 DEF Snapshots
<1>5. gens' = [gens EXCEPT ![current] = learned]
  BY <1>1
<1>. HIDE DEF learned
<1>6. /\ gens' \in Seq(Snapshots)
      /\ Len(gens') = Len(gens)
      /\ \A g \in 1..Len(gens) : gens'[g] = IF g = current THEN learned ELSE gens[g]
  BY <1>2, <1>4, <1>5
<1>7. \A g \in 1..Len(gens') :
        /\ gens'[g].known \subseteq gens'[g].pairs
        /\ DOMAIN trackers'[g] \subseteq Pairs
  BY <1>1, <1>4, <1>6 DEF TypeOK
<1>8. TypeOK'
  BY <1>1, <1>6, <1>7 DEF TypeOK, file, reload, requests, history
<1>9. TrackersListed' /\ NewestServed' /\ UnracedMarksKept' /\ KeptAgrees'
  BY <1>1, <1>6 DEF TrackersListed, NewestServed, UnracedMarksKept, KeptAgrees, reload, history
<1>. QED  BY <1>8, <1>9

\* A request that resolves or reads the pointer marks nothing.
LEMMA ReadIInv ==
  ASSUME IInv, NEW r \in Requests, Resolve(r) \/ LoadCurrent(r)
  PROVE  IInv'
<1>. USE DEF IInv
<1>1. UNCHANGED <<file, reload, snapshot, target, history>>
  BY DEF Resolve, LoadCurrent
<1>2. TrackersListed' /\ NewestServed' /\ UnracedMarksKept' /\ KeptAgrees'
  BY <1>1 DEF TrackersListed, NewestServed, UnracedMarksKept, KeptAgrees,
              snapshot, reload, history
<1>3. current \in Nat /\ current # 0
  BY DEF TypeOK
<1>4. /\ req' \in [Requests -> {"idle", "calling", "marking", "done"}]
      /\ held' \in [Requests -> 0..current']
      /\ \A q \in Requests : req'[q] \in {"marking", "done"} => held'[q] # 0
  <2>1. CASE Resolve(r)
    BY <2>1, <1>1 DEF Resolve, TypeOK, snapshot
  <2>2. CASE LoadCurrent(r)
    BY <2>2, <1>1, <1>3 DEF LoadCurrent, TypeOK, snapshot
  <2>. QED  BY <2>1, <2>2
<1>5. TypeOK'
  BY <1>1, <1>4 DEF TypeOK, file, reload, snapshot, history
<1>. QED  BY <1>2, <1>5

\* What a mark must be for Update to keep the invariant: it changes the record
\* of its own pair only, and from equal records it makes equal records.
LEMMA UpdateIInv ==
  ASSUME IInv, NEW r \in Requests, NEW tracker, NEW idealTracker,
         Update(r, tracker, idealTracker),
         DOMAIN tracker \subseteq Pairs, DOMAIN idealTracker \subseteq Pairs,
         \A j \in Pairs \ {target[r]} : /\ Get(tracker, j) = Get(trackers[held[r]], j)
                                       /\ Get(idealTracker, j) = Get(ideal, j),
         Get(trackers[held[r]], target[r]) = Get(ideal, target[r])
           => Get(tracker, target[r]) = Get(idealTracker, target[r])
  PROVE  IInv'
<1>. USE DEF IInv
<1>1. /\ req[r] = "marking"
      /\ trackers' = [trackers EXCEPT ![held[r]] = tracker]
      /\ ideal' = idealTracker
      /\ raced' = IF held[r] # current \/ loop = "swapping"
                  THEN raced \cup {target[r]} ELSE raced
      /\ req' = [req EXCEPT ![r] = "done"]
      /\ UNCHANGED <<file, reload, current, gens, target, held>>
  BY DEF Update
<1>2. /\ current \in 1..Len(gens) /\ Len(trackers) = Len(gens)
      /\ held[r] \in 1..Len(gens) /\ target[r] \in Pairs
  BY <1>1 DEF TypeOK
<1>3. PICK S : trackers \in Seq(S)
  BY DEF TrackersListed
<1>4. /\ trackers' \in Seq(S \cup {tracker})
      /\ Len(trackers') = Len(trackers)
      /\ \A g \in 1..Len(trackers) :
           trackers'[g] = IF g = held[r] THEN tracker ELSE trackers[g]
  BY <1>1, <1>2, <1>3, ListExcept
<1>5. TypeOK'
  <2>1. \A g \in 1..Len(gens') :
          /\ gens'[g].known \subseteq gens'[g].pairs
          /\ DOMAIN trackers'[g] \subseteq Pairs
    BY <1>1, <1>2, <1>4 DEF TypeOK
  <2>2. DOMAIN kept' \cup DOMAIN ideal' \cup raced' \subseteq Pairs
    BY <1>1, <1>2 DEF TypeOK, reload
  <2>3. /\ req' \in [Requests -> {"idle", "calling", "marking", "done"}]
        /\ \A q \in Requests : req'[q] \in {"marking", "done"} => held'[q] # 0
    BY <1>1 DEF TypeOK
  <2>. QED  BY <1>1, <1>2, <1>4, <2>1, <2>2, <2>3 DEF TypeOK, file, reload
<1>6. TrackersListed'
  BY <1>4 DEF TrackersListed
<1>7. NewestServed'
  BY <1>1 DEF NewestServed
<1>8. \A k \in Pairs \ {target[r]} : Get(trackers'[current'], k) = Get(trackers[current], k)
  BY <1>1, <1>2, <1>4
<1>9. UnracedMarksKept'
  <2>. SUFFICES ASSUME NEW k \in Pairs \ raced'
                PROVE  Get(trackers'[current'], k) = Get(ideal', k)
    BY DEF UnracedMarksKept
  <2>1. Get(trackers[current], k) = Get(ideal, k)
    BY <1>1 DEF UnracedMarksKept
  <2>2. CASE k # target[r]
    BY <2>1, <2>2, <1>1, <1>8
  <2>3. CASE k = target[r]
    <3>1. held[r] = current
      BY <2>3, <1>1
    <3>2. trackers'[current'] = tracker
      BY <3>1, <1>1, <1>2, <1>4
    <3>. QED  BY <2>1, <2>3, <3>1, <3>2, <1>1
  <2>. QED  BY <2>2, <2>3
<1>10. KeptAgrees'
  <2>. SUFFICES ASSUME loop' = "swapping", NEW k \in Pairs \ raced'
                PROVE  Get(kept', k) =
                         IF k \in staged'.known THEN Get(ideal', k) ELSE Unseen
    BY DEF KeptAgrees
  <2>1. loop = "swapping" /\ kept' = kept /\ staged' = staged
    BY <1>1 DEF reload
  <2>2. k \in Pairs \ raced /\ k # target[r]
    BY <1>1, <2>1
  <2>. QED  BY <1>1, <2>1, <2>2 DEF KeptAgrees
<1>. QED  BY <1>5, <1>6, <1>7, <1>9, <1>10

\* A mark, through whatever pointer, keeps the invariant.
LEMMA MarkIInv ==
  ASSUME IInv, NEW r \in Requests, MarkSuccess(r) \/ MarkFailure(r)
  PROVE  IInv'
<1> DEFINE t   == target[r]
           err == [code |-> RateLimited, retryAfter |-> NoWindow]
           old == trackers[held[r]]
<1>1. /\ t \in Pairs /\ held[r] \in 1..Len(gens)
      /\ DOMAIN old \subseteq Pairs /\ DOMAIN ideal \subseteq Pairs
  <2>1. req[r] = "marking"
    BY DEF MarkSuccess, MarkFailure, Update
  <2>2. held[r] \in 1..Len(gens)
    BY <2>1 DEF IInv, TypeOK
  <2>. QED  BY <2>2 DEF IInv, TypeOK
<1>2. CASE MarkSuccess(r)
  <2>1. Update(r, AfterSuccess(old, t), AfterSuccess(ideal, t))
    BY <1>2 DEF MarkSuccess
  <2>2. DOMAIN AfterSuccess(old, t) \subseteq Pairs /\ DOMAIN AfterSuccess(ideal, t) \subseteq Pairs
    BY <1>1, MarkDomain
  <2>3. \A j \in Pairs \ {t} : /\ Get(AfterSuccess(old, t), j) = Get(old, j)
                             /\ Get(AfterSuccess(ideal, t), j) = Get(ideal, j)
    BY SuccessIsLocal
  <2>4. Get(AfterSuccess(old, t), t) = Get(AfterSuccess(ideal, t), t)
    BY SuccessIsLocal
  <2>. QED  BY <2>1, <2>2, <2>3, <2>4, UpdateIInv
<1>3. CASE MarkFailure(r)
  <2>1. Update(r, AfterFailure(old, t, err, Instant), AfterFailure(ideal, t, err, Instant))
    BY <1>3 DEF MarkFailure
  <2>2. /\ DOMAIN AfterFailure(old, t, err, Instant) \subseteq Pairs
        /\ DOMAIN AfterFailure(ideal, t, err, Instant) \subseteq Pairs
    BY <1>1, MarkDomain
  <2>3. \A j \in Pairs \ {t} : /\ Get(AfterFailure(old, t, err, Instant), j) = Get(old, j)
                             /\ Get(AfterFailure(ideal, t, err, Instant), j) = Get(ideal, j)
    BY FailureIsLocal
  <2>4. Get(old, t) = Get(ideal, t) =>
          Get(AfterFailure(old, t, err, Instant), t) = Get(AfterFailure(ideal, t, err, Instant), t)
    BY FailureIsLocal
  <2>. HIDE DEF err
  <2>. QED  BY <2>1, <2>2, <2>3, <2>4, UpdateIInv
<1>. QED  BY <1>2, <1>3

\* Every step keeps the invariant.
LEMMA NextIInv ==
  ASSUME IInv, [Next]_vars
  PROVE  IInv'
<1>1. CASE Edit \/ Hup \/ TakeSignal \/ Load \/ LoadFails \/ Build \/ BuildFails
  BY <1>1, EarlyReloadIInv
<1>2. CASE Reconcile
  BY <1>2, ReconcileIInv
<1>3. CASE Swap
  BY <1>3, SwapIInv
<1>4. CASE LazyDiscovery
  BY <1>4, LazyDiscoveryIInv
<1>5. ASSUME NEW r \in Requests, Resolve(r) \/ LoadCurrent(r) \/ MarkSuccess(r) \/ MarkFailure(r)
      PROVE  IInv'
  BY <1>5, ReadIInv, MarkIInv
<1>6. CASE UNCHANGED vars
  BY <1>6 DEF IInv, TypeOK, TrackersListed, NewestServed, UnracedMarksKept, KeptAgrees,
              vars, file, reload, snapshot, requests, history
<1>. QED  BY <1>1, <1>2, <1>3, <1>4, <1>5, <1>6 DEF Next, ReloadStep

-----------------------------------------------------------------------------

\* The inductive invariant holds in every reachable state.
THEOREM Invariance == Spec => []IInv
<1>1. Init => IInv
  BY InitIInv
<1>2. IInv /\ [Next]_vars => IInv'
  BY NextIInv
<1>. QED  BY <1>1, <1>2, PTL DEF Spec

\* Every pointer a request has loaded leads to a snapshot that still exists, and
\* what a snapshot knows is part of its configuration.
THEOREM TypeCorrect == Spec => []TypeOK
<1>1. IInv => TypeOK
  BY DEF IInv
<1>. QED  BY <1>1, Invariance, PTL

\* Manager.Reload loses no mark that does not race with it, however many
\* reloads, failed reloads and discoveries happen: see UnracedMarksKept.
THEOREM MarksSurviveReloads == Spec => []UnracedMarksKept
<1>1. IInv => UnracedMarksKept
  BY DEF IInv
<1>. QED  BY <1>1, Invariance, PTL

=============================================================================
