\* analyze_attribution_patterns over four tokens and 2 layers, with the
\* default positions or up to 3 requested positions from -5 to 4.
CONSTANTS
  t0 = t0
  t1 = t1
  t2 = t2
  t3 = t3
  None = None
  Tokens <- MCTokens
  NumLayers = 2
  Candidates <- MCCandidates
  MaxPositions = 3

SPECIFICATION Spec

INVARIANT TypeOK
INVARIANT DefaultAnalysesLastTokens

\* The function returns or raises: those states have no successor.
CHECK_DEADLOCK FALSE
