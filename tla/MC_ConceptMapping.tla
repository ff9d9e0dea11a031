------------------------- MODULE MC_ConceptMapping -------------------------
EXTENDS ConceptMapping, TLC

\* Token texts: a word with the SentencePiece marker, a bare word, the
\* marker alone (a standalone space) and a word ending in "_".
MCTokenTexts == {<<"sp", "b">>, <<"a", "b">>, <<"sp">>, <<"a", "_">>}

\* Two concepts: "b" is in the first, "ab" in neither.
MCConcepts == <<<<"b", "b">>, <<"a", "a">>>>
=============================================================================
