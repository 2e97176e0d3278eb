------------------------------- MODULE Tracker -------------------------------
(***************************************************************************)
(* The data type behind AvailabilityTracker (internal/router/              *)
(* availability.go): what is remembered of each provider/model pair and    *)
(* how a success, a failure and a reload change it.                        *)
(*                                                                         *)
(* A tracker is a function whose domain is the set of pairs seen so far;   *)
(* the tracker's mutex makes each operator below one atomic step of the    *)
(* modules that use it.                                                    *)
(***************************************************************************)
EXTENDS Integers

CONSTANTS
  Pairs,          \* provider/model pairs (availabilityKey)
  Backoff(_),     \* exponentialBackoff: failures -> duration
  NoWindow        \* a nil *time.Time

ASSUME NoWindowIsNoInstant == NoWindow \notin Int

RateLimited == "provider_rate_limited"
Exhausted   == "provider_exhausted"
Upstream    == "upstream_error"
NoCode      == ""                      \* ErrorCode of an unclassified error

ExhaustionCodes == {RateLimited, Exhausted}
ErrorCodes      == ExhaustionCodes \cup {Upstream}

-----------------------------------------------------------------------------

\* The zero AvailabilityState of a pair the map does not hold.
Unseen == [healthy |-> FALSE, until |-> NoWindow, code |-> NoCode, failures |-> 0]

Get(states, k) == IF k \in DOMAIN states THEN states[k] ELSE Unseen

Put(states, k, state) ==
  [j \in DOMAIN states \cup {k} |-> IF j = k THEN state ELSE states[j]]

\* Mutants of ExhaustedUntil: every error opens a window; the failure is counted
\* twice; an exhausted quota always gets the shortest backoff.
WindowForAnyError(code, failures, err, at) ==
  IF err.retryAfter # NoWindow THEN err.retryAfter ELSE at + Backoff(failures)

WindowOneTooLong(code, failures, err, at) ==
  IF code \in ExhaustionCodes THEN at + Backoff(failures + 1) ELSE NoWindow

QuotaNotEscalated(code, failures, err, at) ==
  IF code \notin ExhaustionCodes THEN NoWindow
  ELSE IF err.retryAfter # NoWindow THEN err.retryAfter
  ELSE at + Backoff(IF code = Exhausted THEN 1 ELSE failures)

\* exhaustedUntil: only exhaustion errors open a window, and an instant the
\* provider names in Retry-After takes the place of the backoff.
ExhaustedUntil(code, failures, err, at) ==
  IF code \notin ExhaustionCodes THEN NoWindow
  ELSE IF err.retryAfter # NoWindow THEN err.retryAfter
  ELSE at + Backoff(failures)

FailureCode(err) == IF err.code = NoCode THEN Upstream ELSE err.code

AfterFailure(states, k, err, at) ==
  LET failures == Get(states, k).failures + 1
      code     == FailureCode(err)
  IN  Put(states, k, [healthy  |-> FALSE,
                      until    |-> ExhaustedUntil(code, failures, err, at),
                      code     |-> code,
                      failures |-> failures])

\* Mutant of AfterSuccess: a success takes back one failure only.
ForgivesOne(states, k) ==
  Put(states, k, [healthy |-> TRUE, until |-> NoWindow, code |-> NoCode,
                  failures |-> Get(states, k).failures - 1])

\* A success leaves no trace of earlier failures.
AfterSuccess(states, k) ==
  Put(states, k, [healthy |-> TRUE, until |-> NoWindow, code |-> NoCode, failures |-> 0])

\* Restore, applied to the states a reload keeps.
Restored(states, keep) == [k \in DOMAIN states \cap keep |-> states[k]]

IsAvailable(states, k, at) ==
  LET until == Get(states, k).until
  IN  until = NoWindow \/ until <= at

=============================================================================
