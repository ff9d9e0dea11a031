----------------------- MODULE MC_AttributionPropagator -----------------------
(***************************************************************************)
(* Model of compute_attribution_via_matrix_chain for TLC: three token     *)
(* positions, three layers, attention weights in halves.                  *)
(***************************************************************************)
EXTENDS AttributionPropagator, TLC

CONSTANTS t0, t1, t2

\* context_tokens: three distinct labels at positions 0, 1, 2.
MCTokens == (0 :> t0) @@ (1 :> t1) @@ (2 :> t2)

=============================================================================
