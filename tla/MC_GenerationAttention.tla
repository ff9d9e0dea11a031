----------------------- MODULE MC_GenerationAttention -----------------------
\* Three context tokens, one ordinary token and EOS in the vocabulary.
EXTENDS GenerationAttention, TLC

CONSTANTS c0, c1, c2, w, eos

MCContextTokens == <<c0, c1, c2>>

MCVocab == {w, eos}
=============================================================================
