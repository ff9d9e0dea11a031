\* investigate_bos_anomaly over a BOS and two context tokens, 2 layers,
\* 2 decoding steps, weights in halves.
CONSTANTS
  bos = bos
  c1 = c1
  c2 = c2
  w = w
  BOS = bos
  ContextTokens <- MCContextTokens
  Vocab <- MCVocab
  MaxNewTokens = 2
  NumLayers = 2
  Denom = 2

SPECIFICATION Spec

INVARIANT TypeOK
INVARIANT AnalysesAgreeOnLastPosition

\* investigate_bos_anomaly returns: pc = "done" has no successor.
CHECK_DEADLOCK FALSE
