--------------------------- MODULE BackoffSchedule ---------------------------
(***************************************************************************)
(* The exhaustion backoff of internal/router/availability.go: 30 seconds,  *)
(* doubled per consecutive failure, capped at 5 minutes.  Time is counted  *)
(* in units of the caller's choice, so the two durations are constants.    *)
(***************************************************************************)
EXTENDS Integers

CONSTANTS
  BackoffBase,   \* exhaustionBackoffBase
  BackoffMax     \* exhaustionBackoffMax

\* The durations of the code are even numbers of nanoseconds: halving
\* BackoffMax is exact.
ASSUME BackoffDurations ==
  /\ BackoffBase \in Nat \ {0}
  /\ BackoffMax \in Nat
  /\ BackoffBase <= BackoffMax
  /\ BackoffMax % 2 = 0

\* Mutant: the loop turns once less than it should.
OneTurnLess(failures) ==
  LET Turn[i \in 0..failures] ==
        IF i = 0 THEN BackoffBase
        ELSE IF Turn[i - 1] >= BackoffMax \div 2 THEN BackoffMax
        ELSE 2 * Turn[i - 1]
  IN  IF failures <= 2 THEN BackoffBase ELSE Turn[failures - 2]

\* exponentialBackoff(failures).  The loop variable after i turns is Turn[i];
\* the early return of BackoffMax is a value the loop never leaves.
ExponentialBackoff(failures) ==
  LET Turn[i \in 0..failures] ==
        IF i = 0 THEN BackoffBase
        ELSE IF Turn[i - 1] >= BackoffMax \div 2 THEN BackoffMax
        ELSE 2 * Turn[i - 1]
  IN  IF failures <= 1 THEN BackoffBase ELSE Turn[failures - 1]

\* What the schedule promises, without the loop.
CappedDoubling(failures) ==
  LET doubled == BackoffBase * 2 ^ (failures - 1)
  IN  IF doubled > BackoffMax THEN BackoffMax ELSE doubled

=============================================================================
