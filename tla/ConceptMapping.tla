---------------------------- MODULE ConceptMapping ----------------------------
(***************************************************************************)
(* AttentionHeatmapExtractor.aggregate_attention_to_heatmap and           *)
(* simulate_concept_mapping (attention_heatmap_experiment.py, repeated in *)
(* attention_heatmap_experiment_v1.py), called the way v1's run_experiment *)
(* calls them: one token heatmap per aggregation method, then one concept *)
(* heatmap per token heatmap.                                              *)
(*                                                                         *)
(* A heatmap maps the key f"token_{i}_{token}" to a float; the mapping    *)
(* recovers the token from the key with split("_")[-1], lower-cases it and *)
(* strips the SentencePiece marker, then adds the weight to every concept *)
(* it is a substring of, or that is a substring of it.  Token and concept *)
(* texts are sequences of characters from a small alphabet ("sp" is the   *)
(* marker U+2581, all letters lower case so lower() is the identity).     *)
(* Weights are exact: a heatmap is numerators over the one denominator it *)
(* was normalised by.                                                     *)
(***************************************************************************)
EXTENDS Integers, FiniteSets, Sequences, SequencesExt, Functions

CONSTANTS
  SeqLen,       \* number of tokens
  NumLayers,    \* number of attention layers
  Denom,        \* common denominator of attention weights
  TokenTexts,   \* texts a token may have
  Concepts      \* concept_nodes, a sequence of concept texts

ASSUME NumLayers \in Nat \ {0}

LOCAL Alg == INSTANCE AttentionAlgebra

VARIABLES
  tokens,             \* attention_data["tokens"]
  attentions,         \* attention_data["attentions"], head-averaged
  heatmaps,           \* method -> token heatmap
  concept_heatmaps,   \* method -> concept heatmap
  pc

vars == <<tokens, attentions, heatmaps, concept_heatmaps, pc>>

Pos == Alg!Pos

\* The three methods, in the order the driver's loop takes them.
Methods == <<"mean_last_layer", "max_across_layers", "weighted_layers">>

\* np.mean(att, axis=0).sum(axis=0): the attention each token receives.
Incoming(m) == [j \in Pos |-> SumFunction([i \in Pos |-> m[i][j]])]

\* np.linspace(0.1, 1.0, L)[l] is ((L-1) + 9l) / (10(L-1)); the common
\* factor 1/(10(L-1)) cancels in the normalisation, so only the
\* numerators are kept (a single layer gets weight 1).
LayerWeight(l) == IF NumLayers = 1 THEN 1 ELSE (NumLayers - 1) + 9 * l

Layers == 0 .. NumLayers - 1

\* token_attention for the three branches of aggregate_attention_to_heatmap.
TokenAttention(method, att) ==
  CASE method = "mean_last_layer" -> Incoming(att[NumLayers - 1])
    [] method = "max_across_layers" ->
         [j \in Pos |-> Max({Incoming(att[l])[j] : l \in Layers})]
    [] method = "weighted_layers" ->
         [j \in Pos |-> SumFunction([l \in Layers |->
                           Incoming(att[l])[j] * LayerWeight(l)])]

\* Mutant: the `if max > 0` guard dropped.
NormalisedUnguarded(v) ==
  [num |-> v, den |-> Max({v[j] : j \in DOMAIN v})]

\* Lines 101-102: divided by its maximum when that is positive.
Normalised(v) ==
  LET mx == Max({v[j] : j \in DOMAIN v}) IN
  [num |-> v, den |-> IF mx > 0 THEN mx ELSE 1]

\* The key f"token_{i}_{token}": the digits of i hold no "_", so one
\* symbol stands for them.
Key(i, tok) == <<"token", "_", "digits", "_">> \o tok

\* split("_")[-1]: what follows the last "_".
LastField(s) ==
  LET us == {k \in DOMAIN s : s[k] = "_"} IN
  IF us = {} THEN s ELSE SubSeq(s, Max(us) + 1, Len(s))

\* Mutant: the marker left in place.
StripNone(s) == s

\* strip("▁"): the marker removed from both ends.
Strip(s) ==
  LET kept == {k \in DOMAIN s : s[k] # "sp"} IN
  IF kept = {} THEN <<>> ELSE SubSeq(s, Min(kept), Max(kept))

\* Python's `t in c` for strings; the empty string is in every string.
IsSubstring(t, c) ==
  \E i \in 1 .. Len(c) - Len(t) + 1 : SubSeq(c, i, i + Len(t) - 1) = t

Matches(t, c) == IsSubstring(t, c) \/ IsSubstring(c, t)

ParsedToken(i) == Strip(LastField(Key(i, tokens[i + 1])))

\* Lines 118-126: every token's weight added to each concept it matches.
ConceptAttention(hm) ==
  [c \in DOMAIN Concepts |->
     SumFunction([i \in Pos |->
        IF Matches(ParsedToken(i), Concepts[c]) THEN hm.num[i] ELSE 0])]

Init ==
  /\ tokens \in [1 .. SeqLen -> TokenTexts]
  /\ attentions \in [Layers -> Alg!AttentionMatrix]
  /\ heatmaps = <<>>
  /\ concept_heatmaps = <<>>
  /\ pc = "aggregate"

\* aggregate_attention_to_heatmap(attention_data, method) for the next method.
AggregateAttention ==
  /\ pc = "aggregate"
  /\ heatmaps' = Append(heatmaps,
                   Normalised(TokenAttention(Methods[Len(heatmaps) + 1], attentions)))
  /\ pc' = IF Len(heatmaps) + 1 = Len(Methods) THEN "map" ELSE "aggregate"
  /\ UNCHANGED <<tokens, attentions, concept_heatmaps>>

\* simulate_concept_mapping(heatmap, concept_nodes) for the next heatmap;
\* its max() and normalisation are lines 128-131.
SimulateConceptMapping ==
  /\ pc = "map"
  /\ Len(concept_heatmaps) < Len(heatmaps)
  /\ concept_heatmaps' = Append(concept_heatmaps,
        Normalised(ConceptAttention(heatmaps[Len(concept_heatmaps) + 1])))
  /\ pc' = IF Len(concept_heatmaps) + 1 = Len(heatmaps) THEN "done" ELSE "map"
  /\ UNCHANGED <<tokens, attentions, heatmaps>>

Next == AggregateAttention \/ SimulateConceptMapping

Spec == Init /\ [][Next]_vars

-----------------------------------------------------------------------------
IsHeatmap(hm, D) ==
  /\ DOMAIN hm.num = D
  /\ hm.den \in Nat \ {0}
  /\ \A j \in D : hm.num[j] \in Nat

TypeOK ==
  /\ tokens \in [1 .. SeqLen -> TokenTexts]
  /\ \A m \in DOMAIN heatmaps : IsHeatmap(heatmaps[m], Pos)
  /\ \A m \in DOMAIN concept_heatmaps : IsHeatmap(concept_heatmaps[m], DOMAIN Concepts)
  /\ Len(concept_heatmaps) <= Len(heatmaps)
  /\ pc \in {"aggregate", "map", "done"}

(***************************************************************************)
(* The keyword matching the comments describe: a token counts for a       *)
(* concept when its own text, without the SentencePiece marker, is a      *)
(* non-empty substring of the concept or contains it.                     *)
(***************************************************************************)
\* A token's text: its characters other than the marker.
TokenText(tok) == SelectSeq(tok, LAMBDA ch : ch # "sp")

IntendedConceptAttention(hm) ==
  [c \in DOMAIN Concepts |->
     SumFunction([i \in Pos |->
        IF /\ TokenText(tokens[i + 1]) # <<>>
           /\ Matches(TokenText(tokens[i + 1]), Concepts[c])
        THEN hm.num[i] ELSE 0])]

MappedAsIntended(m) ==
  concept_heatmaps[m] = Normalised(IntendedConceptAttention(heatmaps[m]))

\* A token whose text is a word: no "_" and more than the marker.
IsWord(tok) == ~("_" \in ToSet(tok)) /\ TokenText(tok) # <<>>

\* For contexts whose tokens are all words, every concept heatmap is the
\* intended matching of its token heatmap: the key parse (split("_")[-1])
\* and strip("▁") give back each token's text.
WordTokensMapByText ==
  (\A i \in 1 .. SeqLen : IsWord(tokens[i])) =>
     \A m \in DOMAIN concept_heatmaps : MappedAsIntended(m)

=============================================================================
