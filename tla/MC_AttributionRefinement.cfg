\* Refinement of one compute_attribution_via_matrix_chain call: 3 positions,
\* 2 layers, weights in halves (972 inputs).
CONSTANTS
  SeqLen = 3
  NumLayers = 2
  Denom = 2
  LayerTopK = 5
  FinalTopK = 10
  t0 = t0
  t1 = t1
  t2 = t2
  Tokens <- MCTokens

SPECIFICATION Spec

PROPERTY AttributionRefinement

\* The function returns: pc = "done" has no successor.
CHECK_DEADLOCK FALSE
