\* aggregate_attention_to_heatmap for the three methods and
\* simulate_concept_mapping of each: 3 tokens, 2 layers, one-hot rows.
CONSTANTS
  SeqLen = 3
  NumLayers = 2
  Denom = 1
  TokenTexts <- MCTokenTexts
  Concepts <- MCConcepts

SPECIFICATION Spec

INVARIANT TypeOK
INVARIANT WordTokensMapByText

\* Both loops of the driver are done: pc = "done" has no successor.
CHECK_DEADLOCK FALSE
