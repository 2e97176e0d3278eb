----------------------------- MODULE MCDispatch -----------------------------
(***************************************************************************)
(* Two concurrent requests for an alias with two candidates, the first     *)
(* behind Codex, the second behind an OpenAI-compatible upstream: the one  *)
(* whose streams can fail with an event comes first, so that a fallback    *)
(* before the first event happens.                                         *)
(***************************************************************************)
EXTENDS Dispatch, BackoffSchedule

CONSTANTS p1, p2

MCPairs      == {p1, p2}
MCCandidates == <<p1, p2>>
MCAdapter    == [k \in MCPairs |-> IF k = p1 THEN "codex_responses" ELSE "openai_compatible"]

=============================================================================
