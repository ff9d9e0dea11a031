------------------------- MODULE MC_CleanAttention -------------------------
EXTENDS CleanAttention, TLC

CONSTANTS c0, c1, c2, c3, c4, t0, t1, t2, w, eos

\* A story context of five tokens, so that the clean vector has four
\* entries and the top 3 leaves one out.
MCStoryContext == <<c0, c1, c2, c3, c4>>

\* A technical context of three tokens: two clean entries, and a tie
\* between them in halves.
MCTechContext == <<t0, t1, t2>>

MCVocab == {w, eos}
=============================================================================
