\* Safety of one compute_attribution_via_matrix_chain call: 3 positions,
\* 3 layers, weights in halves (17496 inputs).
CONSTANTS
  SeqLen = 3
  NumLayers = 3
  Denom = 2
  LayerTopK = 5
  FinalTopK = 10
  t0 = t0
  t1 = t1
  t2 = t2
  Tokens <- MCTokens

SPECIFICATION Spec

INVARIANT TypeOK
INVARIANT MassConserved
INVARIANT CausalSupport
INVARIANT TopContributorsRanked

\* The function returns: pc = "done" has no successor.
CHECK_DEADLOCK FALSE
