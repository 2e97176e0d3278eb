---------------------------- MODULE Availability ----------------------------
(***************************************************************************)
(* AvailabilityTracker as a component: every request in flight may mark    *)
(* any pair at any time, in any order, and a reload may restore part of    *)
(* what was known.  Each method runs under the tracker's mutex, so each is *)
(* one action.                                                             *)
(***************************************************************************)
EXTENDS Tracker, BackoffSchedule

CONSTANTS
  RetryInstants,  \* instants providers name in Retry-After; some may be past
  MaxWindow,      \* the longest backoff
  MaxFailures,    \* bound: failures counted per pair
  LastMark        \* bound: no mark is made after this instant

\* What the component needs of its backoff schedule.
ASSUME BackoffAssumption ==
  /\ MaxFailures \in Nat
  /\ MaxWindow \in Nat
  /\ LastMark \in Nat
  /\ RetryInstants \subseteq Int
  /\ \A f \in 1..MaxFailures : Backoff(f) \in 0..MaxWindow
  /\ \A f, g \in 1..MaxFailures : f <= g => Backoff(f) <= Backoff(g)

VARIABLES
  states,   \* AvailabilityTracker.states
  now       \* the wall clock

vars == <<states, now>>

Errors == [code : ErrorCodes \cup {NoCode}, retryAfter : RetryInstants \cup {NoWindow}]

\* The clock runs on until every window the marks can open has ended.
Horizon == LastMark + MaxWindow

-----------------------------------------------------------------------------

Init ==
  /\ states = [k \in {} |-> Unseen]
  /\ now = 0

MarkSuccess(k) ==
  /\ now <= LastMark
  /\ states' = AfterSuccess(states, k)
  /\ UNCHANGED now

MarkFailure(k, err) ==
  /\ now <= LastMark
  /\ Get(states, k).failures < MaxFailures
  /\ states' = AfterFailure(states, k, err, now)
  /\ UNCHANGED now

\* A reload replaces the tracker by the states of the pairs it keeps.
Restore(keep) ==
  /\ states' = Restored(states, keep)
  /\ UNCHANGED now

Tick ==
  /\ now < Horizon
  /\ now' = now + 1
  /\ UNCHANGED states

Next ==
  \/ \E k \in Pairs : MarkSuccess(k)
  \/ \E k \in Pairs, err \in Errors : MarkFailure(k, err)
  \/ \E keep \in SUBSET Pairs : Restore(keep)
  \/ Tick

Spec == Init /\ [][Next]_vars

-----------------------------------------------------------------------------

States == [healthy : BOOLEAN, until : Int \cup {NoWindow},
           code : ErrorCodes \cup {NoCode}, failures : 0..MaxFailures]

\* Type invariant: the tracker holds records of known pairs only.
TypeOK ==
  /\ DOMAIN states \subseteq Pairs
  /\ states \in [DOMAIN states -> States]
  /\ now \in 0..Horizon

Consistent(s) ==
  /\ s.healthy <=> s.failures = 0
  /\ s.healthy <=> s.code = NoCode
  /\ s.until # NoWindow => s.code \in ExhaustionCodes

WithinBackoff(s, at) ==
  \/ s.until = NoWindow
  \/ s.until \in RetryInstants
  \/ s.until <= at + Backoff(s.failures)

\* The fields of a record tell one story, whatever order marks and restores
\* arrive in: a healthy pair carries no trace of earlier failures, an
\* unhealthy one carries the count and the code of the last, and only an
\* exhaustion error leaves a window open.
RecordCoherent == \A k \in DOMAIN states : Consistent(states[k])

\* A window the proxy computed itself is never longer than the backoff that
\* belongs to the failures counted, hence never longer than MaxWindow
\* (5 minutes in the code); only an instant named by the provider may lie
\* further away.
WindowBounded == \A k \in DOMAIN states : WithinBackoff(states[k], now)

\* exponentialBackoff escalates: when a pair that is in a backoff window fails
\* again with an exhaustion error, the window the proxy computes ends no
\* earlier than the one it replaces.
WindowNeverRetreats ==
  [][\A k \in DOMAIN states \cap DOMAIN states' :
       LET old == states[k].until
           new == states'[k].until
       IN  (/\ {old, new} \cap (RetryInstants \cup {NoWindow}) = {}
            /\ states'[k].failures > states[k].failures)
           => new >= old]_vars

\* exponentialBackoff is min(base * 2^(failures-1), max): every window opened
\* without a Retry-After has exactly that length, cap included.  (The loop of
\* the code returns early and halves the cap instead of multiplying.)
WindowLength ==
  [][\A k \in Pairs, c \in ExhaustionCodes :
       MarkFailure(k, [code |-> c, retryAfter |-> NoWindow])
       => states'[k].until = now + CappedDoubling(states'[k].failures)]_vars

=============================================================================
