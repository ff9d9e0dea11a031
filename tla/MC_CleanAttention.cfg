\* run_comprehensive_test: a 5-token story context with 1 new token, then a
\* 3-token technical context with 2 new tokens; weights in halves.
CONSTANTS
  c0 = c0
  c1 = c1
  c2 = c2
  c3 = c3
  c4 = c4
  t0 = t0
  t1 = t1
  t2 = t2
  w = w
  eos = eos
  StoryContext <- MCStoryContext
  TechContext <- MCTechContext
  Vocab <- MCVocab
  EOS = eos
  StoryMaxNewTokens = 1
  TechMaxNewTokens = 2
  Denom = 2

SPECIFICATION Spec

INVARIANT TypeOK
INVARIANT TopThreeAreLargest
INVARIANT TopPositionsNameContextTokens

\* run_comprehensive_test has returned or raised: nothing follows.
CHECK_DEADLOCK FALSE
