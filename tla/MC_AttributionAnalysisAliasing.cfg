\* The returned results after the save, over the same inputs.
CONSTANTS
  t0 = t0
  t1 = t1
  t2 = t2
  t3 = t3
  None = None
  Tokens <- MCTokens
  NumLayers = 2
  Candidates <- MCCandidates
  MaxPositions = 3

SPECIFICATION Spec

INVARIANT ReturnedResultsUntouched

\* The function returns or raises: those states have no successor.
CHECK_DEADLOCK FALSE
