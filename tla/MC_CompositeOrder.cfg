\* Method 2's composite row against method 1's layer-0 result: 3 positions,
\* 3 layers, weights in halves.
CONSTANTS
  SeqLen = 3
  NumLayers = 3
  Denom = 2
  LayerTopK = 5
  FinalTopK = 10
  t0 = t0
  t1 = t1
  t2 = t2
  Tokens <- MCTokens

SPECIFICATION Spec

INVARIANT FinalMatchesTrace

\* The function returns: pc = "done" has no successor.
CHECK_DEADLOCK FALSE
