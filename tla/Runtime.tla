------------------------------- MODULE Runtime -------------------------------
(***************************************************************************)
(* runtime.Manager with the SIGHUP loop of cmd/llm-proxy/main.go: requests *)
(* mark outcomes through the current snapshot while the loop loads a new   *)
(* configuration, builds a snapshot, carries the availability state over   *)
(* and swaps the pointer.                                                  *)
(*                                                                         *)
(* A snapshot is a generation: gens[g] is what it knows, trackers[g] the   *)
(* state of its tracker, current the pointer.  Every tracker operation is  *)
(* taken at one instant: the module is not about time.                     *)
(***************************************************************************)
EXTENDS Tracker, Sequences

CONSTANTS
  Requests,      \* requests in flight; each marks one outcome
  Discovered,    \* pairs of providers without a models list: found upstream
  MaxEdits,      \* bound: times the file on disk is edited
  MaxHups        \* bound: SIGHUPs sent

ASSUME RuntimeAssumption ==
  /\ Discovered \subseteq Pairs
  /\ MaxEdits \in Nat
  /\ MaxHups \in Nat

VARIABLES
  disk,          \* the configuration file: version, pairs it offers, validity
  hups,          \* SIGHUPs sent
  signals,       \* signals in the channel of capacity 1
  loop,          \* where the reload loop is
  staged,        \* the snapshot the loop is building
  kept,          \* the states the loop carries over
  current,       \* Manager.current
  gens,          \* gens[g]: version and known pairs of snapshot g
  trackers,      \* trackers[g]: the tracker of snapshot g
  req,           \* where each request is
  target,        \* the pair its candidate names
  held,          \* the snapshot its mark goes to
  asked,         \* history: version on disk at the last SIGHUP
  loaded,        \* history: latest version the loop has read
  ideal,         \* history: one tracker that is never swapped
  raced          \* history: pairs marked while a reload was carrying state over

file     == <<disk, hups, asked>>
reload   == <<signals, loop, staged, kept, loaded>>
snapshot == <<current, gens, trackers>>
requests == <<req, target, held>>
history  == <<ideal, raced>>
vars     == <<file, reload, snapshot, requests, history>>

Instant == 0

Configs(version) ==
  [version : {version}, pairs : SUBSET Pairs, valid : BOOLEAN]

Empty == [k \in {} |-> Unseen]

\* Mutant of Known: discovery also offers what the configuration removed.
KnownWithRemoved(pairs, discovery) ==
  IF discovery THEN pairs \cup Discovered ELSE pairs \ Discovered

\* buildProviders: what a snapshot knows of its configuration's pairs depends
\* on whether the upstream answers the discovery request.
Known(pairs, discovery) == IF discovery THEN pairs ELSE pairs \ Discovered

\* Mutant of Reconciled: only the pairs in a window are carried over.
OnlyExhausted(states, known) ==
  Restored(states, {k \in known : Get(states, k).until # NoWindow})

\* reconcileAvailability.
Reconciled(states, known) == Restored(states, known)

NoSnapshot == [version |-> 0, pairs |-> {}, known |-> {}]

-----------------------------------------------------------------------------

\* NewManager has built the first snapshot.
Init ==
  /\ disk = [version |-> 0, pairs |-> Pairs, valid |-> TRUE]
  /\ hups = 0 /\ signals = 0
  /\ loop = "waiting" /\ staged = NoSnapshot /\ kept = Empty
  /\ current = 1
  /\ \E discovery \in BOOLEAN :
       gens = <<[version |-> 0, pairs |-> Pairs, known |-> Known(Pairs, discovery)]>>
  /\ trackers = <<Empty>>
  /\ req = [r \in Requests |-> "idle"]
  /\ target \in [Requests -> Pairs]
  /\ held = [r \in Requests |-> 0]
  /\ asked = 0 /\ loaded = 0
  /\ ideal = Empty /\ raced = {}

-----------------------------------------------------------------------------
(***************************************************************************)
(* The operator: edits the file, sends SIGHUP.                             *)
(***************************************************************************)

Edit ==
  /\ disk.version < MaxEdits
  /\ disk' \in Configs(disk.version + 1)
  /\ UNCHANGED <<hups, asked, reload, snapshot, requests, history>>

\* Mutant of Hup: the channel has no buffer, a signal during a reload is lost.
HupUnbuffered ==
  /\ hups < MaxHups
  /\ hups' = hups + 1
  /\ asked' = disk.version
  /\ signals' = IF loop = "waiting" THEN 1 ELSE signals
  /\ UNCHANGED <<disk, loop, staged, kept, loaded, snapshot, requests, history>>

\* signal.Notify never blocks: a signal that finds the channel full is dropped.
Hup ==
  /\ hups < MaxHups
  /\ hups' = hups + 1
  /\ asked' = disk.version
  /\ signals' = 1
  /\ UNCHANGED <<disk, loop, staged, kept, loaded, snapshot, requests, history>>

-----------------------------------------------------------------------------
(***************************************************************************)
(* runReloadLoop and Manager.Reload.                                       *)
(***************************************************************************)

TakeSignal ==
  /\ loop = "waiting"
  /\ signals = 1
  /\ signals' = 0
  /\ loop' = "loading"
  /\ UNCHANGED <<file, staged, kept, loaded, snapshot, requests, history>>

\* m.load() reads the file and validates it.
Load ==
  /\ loop = "loading"
  /\ disk.valid
  /\ loaded' = disk.version
  /\ staged' = [version |-> disk.version, pairs |-> disk.pairs, known |-> {}]
  /\ loop' = "building"
  /\ UNCHANGED <<file, signals, kept, snapshot, requests, history>>

\* A file that does not load ends the reload.
LoadFails ==
  /\ loop = "loading"
  /\ ~disk.valid
  /\ loaded' = disk.version
  /\ loop' = "waiting"
  /\ UNCHANGED <<file, signals, staged, kept, snapshot, requests, history>>

Build ==
  /\ loop = "building"
  /\ \E discovery \in BOOLEAN :
       staged' = [staged EXCEPT !.known = Known(staged.pairs, discovery)]
  /\ loop' = "reconciling"
  /\ UNCHANGED <<file, signals, kept, loaded, snapshot, requests, history>>

\* A provider or token source that cannot be built ends the reload.
BuildFails ==
  /\ loop = "building"
  /\ loop' = "waiting"
  /\ staged' = NoSnapshot
  /\ UNCHANGED <<file, signals, kept, loaded, snapshot, requests, history>>

\* The states of the old tracker are read and filtered.
Reconcile ==
  /\ loop = "reconciling"
  /\ kept' = Reconciled(trackers[current], staged.known)
  /\ loop' = "swapping"
  /\ UNCHANGED <<file, signals, staged, loaded, snapshot, requests, history>>

\* RestoreAvailability on the new router, which nobody else can reach yet, and
\* current.Store.
Swap ==
  /\ loop = "swapping"
  /\ gens' = Append(gens, staged)
  /\ trackers' = Append(trackers, kept)
  /\ current' = Len(gens) + 1
  /\ ideal' = Restored(ideal, staged.known)
  /\ staged' = NoSnapshot
  /\ kept' = Empty
  /\ loop' = "waiting"
  /\ UNCHANGED <<file, signals, loaded, requests, raced>>

-----------------------------------------------------------------------------
(***************************************************************************)
(* Requests.                                                               *)
(***************************************************************************)

\* refreshProviderModels: while a request resolves, a provider whose discovery
\* failed is asked again and its pairs become known.
LazyDiscovery ==
  /\ gens[current].known # gens[current].pairs
  /\ gens' = [gens EXCEPT ![current].known = gens[current].pairs]
  /\ UNCHANGED <<file, reload, current, trackers, requests, history>>

\* A request resolves to a candidate of the current snapshot and calls it.
Resolve(r) ==
  /\ req[r] = "idle"
  /\ target[r] \in gens[current].known
  /\ req' = [req EXCEPT ![r] = "calling"]
  /\ UNCHANGED <<file, reload, snapshot, target, held, history>>

\* Manager.MarkSuccess and MarkFailure: first the pointer is read, ...
LoadCurrent(r) ==
  /\ req[r] = "calling"
  /\ held' = [held EXCEPT ![r] = current]
  /\ req' = [req EXCEPT ![r] = "marking"]
  /\ UNCHANGED <<file, reload, snapshot, target, history>>

\* ... then the tracker of that snapshot is updated.
Update(r, tracker, idealTracker) ==
  /\ req[r] = "marking"
  /\ trackers' = [trackers EXCEPT ![held[r]] = tracker]
  /\ ideal' = idealTracker
  /\ raced' = IF held[r] # current \/ loop = "swapping"
              THEN raced \cup {target[r]} ELSE raced
  /\ req' = [req EXCEPT ![r] = "done"]
  /\ UNCHANGED <<file, reload, current, gens, target, held>>

MarkSuccess(r) ==
  Update(r, AfterSuccess(trackers[held[r]], target[r]), AfterSuccess(ideal, target[r]))

MarkFailure(r) ==
  LET err == [code |-> RateLimited, retryAfter |-> NoWindow]
  IN  Update(r, AfterFailure(trackers[held[r]], target[r], err, Instant),
                AfterFailure(ideal, target[r], err, Instant))

-----------------------------------------------------------------------------

ReloadStep ==
  \/ TakeSignal \/ Load \/ LoadFails \/ Build \/ BuildFails \/ Reconcile \/ Swap

Next ==
  \/ Edit \/ Hup
  \/ ReloadStep
  \/ LazyDiscovery
  \/ \E r \in Requests : Resolve(r) \/ LoadCurrent(r) \/ MarkSuccess(r) \/ MarkFailure(r)

\* The reload loop keeps running: loading and building come to an end.
Spec == Init /\ [][Next]_vars /\ WF_vars(ReloadStep)

-----------------------------------------------------------------------------

Snapshots == [version : 0..MaxEdits, pairs : SUBSET Pairs, known : SUBSET Pairs]

\* Type invariant; every pointer a request holds leads to a snapshot.
TypeOK ==
  /\ disk \in [version : 0..MaxEdits, pairs : SUBSET Pairs, valid : BOOLEAN]
  /\ hups \in 0..MaxHups
  /\ {asked, loaded} \subseteq 0..MaxEdits
  /\ signals \in 0..1
  /\ loop \in {"waiting", "loading", "building", "reconciling", "swapping"}
  /\ staged \in Snapshots
  /\ gens \in Seq(Snapshots)
  /\ current \in 1..Len(gens)
  /\ Len(trackers) = Len(gens)
  /\ \A g \in 1..Len(gens) :
       /\ gens[g].known \subseteq gens[g].pairs
       /\ DOMAIN trackers[g] \subseteq Pairs
  /\ staged.known \subseteq staged.pairs
  /\ DOMAIN kept \cup DOMAIN ideal \cup raced \subseteq Pairs
  /\ req \in [Requests -> {"idle", "calling", "marking", "done"}]
  /\ target \in [Requests -> Pairs]
  /\ held \in [Requests -> 0..current]
  /\ \A r \in Requests : req[r] \in {"marking", "done"} => held[r] # 0

\* The tracker behind Manager.current is what one tracker for the whole life of
\* the process would be, minus the pairs a reload removed, for every pair that
\* was not marked through an old pointer or between Reconcile and Swap: however
\* long loading, building and discovery take, and however many reloads fail in
\* between, they lose no mark.
UnracedMarksKept ==
  \A k \in Pairs \ raced : Get(trackers[current], k) = Get(ideal, k)

\* No SIGHUP is ignored: after one, the loop reads the file as it was then or
\* later, also when the signal arrives during a reload, or when several arrive
\* and the channel keeps one.
HupServed == \A v \in 0..MaxEdits : asked = v ~> loaded >= v

-----------------------------------------------------------------------------
(***************************************************************************)
(* Statements of comments and tests that the code does not keep.           *)
(***************************************************************************)

\* internal/runtime/manager.go:201: "unchanged pairs preserve their exhaustion
\* windows and failure counts".  At the instant of the swap the new tracker
\* knows of an unchanged pair what the old one does.
UnchangedPairsPreserved ==
  [][current' # current =>
       \A k \in gens[current].known \cap gens'[current'].known :
         Get(trackers'[current'], k) = Get(trackers[current], k)]_vars

=============================================================================
