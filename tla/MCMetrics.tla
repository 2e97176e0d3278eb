------------------------------ MODULE MCMetrics ------------------------------
(***************************************************************************)
(* Five requests, rings of three samples, so that one wraps and goes on;   *)
(* an error of each class.                                                 *)
(***************************************************************************)
EXTENDS Metrics, TLC

MCClassOf == [c \in Codes |-> IF c = "rate_limited" THEN "4xx" ELSE "5xx"]

Symmetry == Permutations(Requests)

=============================================================================
