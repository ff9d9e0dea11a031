------------------------- MODULE GenerationAttention -------------------------
(***************************************************************************)
(* GenerationAttentionExtractor (generation_attention_experiment.py): the *)
(* greedy decoding loop of extract_generation_attention, which keeps, for *)
(* every step and layer, the head-averaged attention of the last input    *)
(* position to the context; then the two analyses run_generation_experiment *)
(* applies to it: the spectrogram matrix of one layer and                  *)
(* analyze_dynamic_attention_patterns.                                     *)
(*                                                                         *)
(* The model's forward pass is the environment: at each step it returns a *)
(* next token and, for every layer, a last attention row over the current *)
(* input.  A row is a softmax over all current positions (the last query  *)
(* sees every earlier position), abstracted to integers summing to Denom. *)
(***************************************************************************)
EXTENDS Integers, FiniteSets, Sequences, SequencesExt, Functions

CONSTANTS
  ContextTokens,   \* the tokenized context, a sequence of tokens
  Vocab,           \* tokens the model may emit
  EOS,             \* tokenizer.eos_token_id, a member of Vocab
  MaxNewTokens,    \* max_new_tokens
  NumLayers,       \* number of decoder layers
  Denom,           \* common denominator of attention weights
  TopK             \* the [:5] of the two rankings

ASSUME EOS \in Vocab
ASSUME MaxNewTokens \in Nat
ASSUME NumLayers \in Nat \ {0}

VARIABLES
  input_ids,              \* the tokens fed to the model
  step,                   \* the loop variable of `for step in range(...)`
  generated_tokens,
  generation_attentions,  \* one record per step
  attention_matrix,       \* the spectrogram matrix the driver keeps
  pattern_analysis,       \* the result of analyze_dynamic_attention_patterns
  pc

vars == <<input_ids, step, generated_tokens, generation_attentions,
          attention_matrix, pattern_analysis, pc>>

context_length == Len(ContextTokens)

CtxPos == 0 .. context_length - 1

\* The last row of one layer's head-averaged attention over n positions.
LastRow(n) == {r \in [0 .. n - 1 -> 0 .. Denom] : SumFunction(r) = Denom}

\* Mutant: the whole last row, layer_att[:, -1, :], kept as the slice.
ContextSliceWholeRow(r) == r

\* layer_att[:, -1, :context_length], after the mean over heads.
ContextSlice(r) == [j \in CtxPos |-> r[j]]

\* A Python list index, negative indices counting from the end.
PyIndex(s, i) == IF i >= 0 THEN s[i + 1] ELSE s[Len(s) + i + 1]

Init ==
  /\ input_ids = ContextTokens
  /\ step = 0
  /\ generated_tokens = <<>>
  /\ generation_attentions = <<>>
  /\ attention_matrix = <<>>
  /\ pattern_analysis = <<>>
  /\ pc = "loop"

\* Mutant: the EOS check placed before the step is recorded.
GenerateStepBreakFirst ==
  /\ pc = "loop"
  /\ step < MaxNewTokens
  /\ \E next_token \in Vocab,
        rows \in [1 .. NumLayers -> LastRow(Len(input_ids))] :
       IF next_token = EOS
       THEN /\ pc' = "extracted"
            /\ UNCHANGED <<input_ids, step, generated_tokens, generation_attentions>>
       ELSE /\ generation_attentions' = Append(generation_attentions,
                  [step |-> step, generated_token |-> next_token,
                   context_attention |-> [l \in 1 .. NumLayers |-> ContextSlice(rows[l])]])
            /\ generated_tokens' = Append(generated_tokens, next_token)
            /\ input_ids' = Append(input_ids, next_token)
            /\ step' = step + 1
            /\ pc' = "loop"
  /\ UNCHANGED <<attention_matrix, pattern_analysis>>

(***************************************************************************)
(* One iteration of the loop: a forward pass over input_ids, the argmax   *)
(* token, the context slice of every layer's last row, both appends, the  *)
(* torch.cat of the token onto input_ids, and the EOS break.              *)
(***************************************************************************)
GenerateStep ==
  /\ pc = "loop"
  /\ step < MaxNewTokens
  /\ \E next_token \in Vocab,
        rows \in [1 .. NumLayers -> LastRow(Len(input_ids))] :
       /\ generation_attentions' = Append(generation_attentions,
             [step |-> step, generated_token |-> next_token,
              context_attention |-> [l \in 1 .. NumLayers |-> ContextSlice(rows[l])]])
       /\ generated_tokens' = Append(generated_tokens, next_token)
       /\ input_ids' = Append(input_ids, next_token)
       /\ step' = step + 1
       /\ pc' = IF next_token = EOS THEN "extracted" ELSE "loop"
  /\ UNCHANGED <<attention_matrix, pattern_analysis>>

\* range(max_new_tokens) is exhausted.
LoopExhausted ==
  /\ pc = "loop"
  /\ step = MaxNewTokens
  /\ pc' = "extracted"
  /\ UNCHANGED <<input_ids, step, generated_tokens, generation_attentions,
                 attention_matrix, pattern_analysis>>

(***************************************************************************)
(* visualize_generation_attention_spectrogram: row s of the matrix is the *)
(* context slice of step s in the requested layer; -1 and an index past   *)
(* the last layer both select the last layer.                             *)
(***************************************************************************)
SpectrogramRow(context_attention, layer_idx) ==
  IF layer_idx = -1 \/ layer_idx >= Len(context_attention)
  THEN context_attention[Len(context_attention)]
  ELSE PyIndex(context_attention, layer_idx)

Spectrogram(gen, layer_idx) ==
  [s \in 1 .. Len(gen) |-> SpectrogramRow(gen[s].context_attention, layer_idx)]

(***************************************************************************)
(* analyze_dynamic_attention_patterns: per context token, the series of   *)
(* its last-layer attention over the steps and its statistics.  np.var is *)
(* kept as n * sum(x^2) - sum(x)^2, which is n^2 times the variance and    *)
(* orders the tokens the same way (n is the same for every token).        *)
(***************************************************************************)
VarianceKey(series) ==
  Len(series) * SumFunction([s \in DOMAIN series |-> series[s] * series[s]])
    - SumFunction(series) * SumFunction(series)

Evolution(gen) ==
  [j \in CtxPos |->
     LET series == [s \in 1 .. Len(gen) |-> gen[s].context_attention[NumLayers][j]]
     IN  [attention_sequence |-> series,
          max_attention      |-> Max(ToSet(series)),
          min_attention      |-> Min(ToSet(series)),
          attention_variance |-> VarianceKey(series),
          final_attention    |-> series[Len(series)]]]

\* context_attention_evolution.items(): keys "token_{i}_{token}" kept as
\* the pair they are formatted from, in insertion (position) order.
EvolutionItems(evo) ==
  [k \in 1 .. context_length |->
     [key |-> <<k - 1, ContextTokens[k]>>, stats |-> evo[k - 1]]]

\* sorted(items, key=..., reverse=True)[:TopK]: Python's sort is stable, so
\* an item goes after every earlier item whose key is not smaller.
TopByKey(items, stat) ==
  LET sorted == FoldLeft(LAMBDA acc, e :
                   InsertAt(acc, Cardinality({i \in 1 .. Len(acc) :
                                     acc[i].stats[stat] >= e.stats[stat]}) + 1, e),
                   <<>>, items)
  IN  SubSeq(sorted, 1, IF TopK < Len(sorted) THEN TopK ELSE Len(sorted))

HighDynamicTokens(evo) ==
  TopByKey(EvolutionItems(evo), "attention_variance")

\* Mutant: the second ranking copies the first one's sort key.
HighAttentionTokensByVariance(evo) ==
  TopByKey(EvolutionItems(evo), "attention_variance")

HighAttentionTokens(evo) ==
  TopByKey(EvolutionItems(evo), "max_attention")

(***************************************************************************)
(* Steps 2 and 3 of run_generation_experiment: the spectrogram of the     *)
(* first layer (layer_idx=0; with no steps the method returns None, kept  *)
(* as the empty matrix), then the dynamic-pattern analysis.  With no      *)
(* steps every token's series is empty and max() raises ValueError.       *)
(***************************************************************************)
Analyze ==
  /\ pc = "extracted"
  /\ attention_matrix' = Spectrogram(generation_attentions, 0)
  /\ IF generation_attentions = <<>>
     THEN /\ pc' = "raised"
          /\ UNCHANGED pattern_analysis
     ELSE /\ LET evo == Evolution(generation_attentions) IN
               pattern_analysis' = [context_attention_evolution |-> evo,
                                    high_dynamic_tokens |-> HighDynamicTokens(evo),
                                    high_attention_tokens |-> HighAttentionTokens(evo)]
          /\ pc' = "analyzed"
  /\ UNCHANGED <<input_ids, step, generated_tokens, generation_attentions>>

Next == GenerateStep \/ LoopExhausted \/ Analyze

Spec == Init /\ [][Next]_vars

-----------------------------------------------------------------------------
Slice == [CtxPos -> 0 .. Denom]

TypeOK ==
  /\ input_ids \in Seq(Vocab \cup ToSet(ContextTokens))
  /\ step \in 0 .. MaxNewTokens
  /\ generated_tokens \in Seq(Vocab)
  /\ \A i \in DOMAIN generation_attentions :
        generation_attentions[i].context_attention \in [1 .. NumLayers -> Slice]
  /\ pc \in {"loop", "extracted", "analyzed", "raised"}

(***************************************************************************)
(* The EOS break: EOS is never followed by another generated token, and a *)
(* loop that ends before max_new_tokens steps ends on EOS, recorded with  *)
(* its attention like every other step.  The spectrogram's x labels and   *)
(* the evolution series count on one record per generated token.         *)
(***************************************************************************)
EosEndsGeneration ==
  /\ \A i \in 1 .. Len(generated_tokens) - 1 : generated_tokens[i] # EOS
  /\ pc # "loop" =>
        \/ Len(generated_tokens) = MaxNewTokens
        \/ Len(generated_tokens) > 0 /\ Last(generated_tokens) = EOS
  /\ Len(generation_attentions) = Len(generated_tokens)

(***************************************************************************)
(* Both rankings of analyze_dynamic_attention_patterns are the TopK       *)
(* context tokens by their own statistic (variance, maximum), in          *)
(* descending order with ties kept in context order, and no omitted token *)
(* beats the last one listed.  LOD decisions are read off the second.     *)
(***************************************************************************)
IsTopRanking(list, evo, stat) ==
  LET key(e) == e.stats[stat]
      listed == {list[i].key[1] : i \in DOMAIN list}
  IN  /\ Len(list) = IF TopK < context_length THEN TopK ELSE context_length
      /\ \A i \in DOMAIN list :
            /\ list[i].stats = evo[list[i].key[1]]
            /\ list[i].key[2] = ContextTokens[list[i].key[1] + 1]
      /\ \A i \in 1 .. Len(list) - 1 :
            \/ key(list[i]) > key(list[i + 1])
            \/ key(list[i]) = key(list[i + 1]) /\ list[i].key[1] < list[i + 1].key[1]
      /\ \A j \in CtxPos \ listed : evo[j][stat] <= key(list[Len(list)])

RankingsOrdered ==
  pc = "analyzed" =>
    LET evo == pattern_analysis.context_attention_evolution IN
      /\ IsTopRanking(pattern_analysis.high_dynamic_tokens, evo, "attention_variance")
      /\ IsTopRanking(pattern_analysis.high_attention_tokens, evo, "max_attention")

=============================================================================
