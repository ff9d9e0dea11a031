------------------------ MODULE MC_AttributionAnalysis ------------------------
EXTENDS AttributionAnalysis

CONSTANTS t0, t1, t2, t3

\* Four tokens: the default window of three leaves token 0 out.
MCTokens == <<t0, t1, t2, t3>>

\* Positions below -4 raise IndexError, 4 is past the end.
MCCandidates == -5 .. 4

====
