\* The generation loop of generation_attention_experiment.py and its
\* analyses: 3 context tokens, 3 steps, 2 layers, one-hot attention rows.
CONSTANTS
  c0 = c0
  c1 = c1
  c2 = c2
  w = w
  eos = eos
  ContextTokens <- MCContextTokens
  Vocab <- MCVocab
  EOS = eos
  MaxNewTokens = 3
  NumLayers = 2
  Denom = 1
  TopK = 5

SPECIFICATION Spec

INVARIANT TypeOK
INVARIANT EosEndsGeneration
INVARIANT RankingsOrdered

\* The driver returns after the analysis: pc = "analyzed" and pc = "raised" have no successor.
CHECK_DEADLOCK FALSE
