----------------------------- MODULE MC_BosAnomaly -----------------------------
EXTENDS BosAnomaly

CONSTANTS bos, c1, c2, w

MCContextTokens == <<bos, c1, c2>>
MCVocab == {w}

====
