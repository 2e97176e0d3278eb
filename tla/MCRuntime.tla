------------------------------ MODULE MCRuntime ------------------------------
(***************************************************************************)
(* Two pairs, one of them of a provider whose models are discovered.       *)
(***************************************************************************)
EXTENDS Runtime, BackoffSchedule

=============================================================================
