---------------------------- MODULE MCResolution ----------------------------
(***************************************************************************)
(* Two providers in the order of their names: one with a vision model, one *)
(* whose models are discovered, which the alias prefers.  It may turn out  *)
(* to offer the model of the alias, another one, both or none.             *)
(***************************************************************************)
EXTENDS Resolution, TLC

CONSTANTS a, b, m

MCProviders  == <<a, b>>
MCConfigured == [p \in {a, b} |-> IF p = b THEN {} ELSE {m}]
MCVision     == {<<a, m>>}
MCAlias      == <<<<b, m>>, <<a, m>>>>

\* No property names a request, and no request is special.
Symmetry == Permutations(Requests)

=============================================================================
