------------------------------ MODULE BosAnomaly ------------------------------
(***************************************************************************)
(* AttentionAnomalyAnalyzer (attention_anomaly_analyzer.py), run the way  *)
(* investigate_bos_anomaly runs it:                                        *)
(*   1. analyze_bos_token_attention decodes greedily for max_new_tokens   *)
(*      steps (it has no EOS stop) and records, per layer, the attention  *)
(*      of the last input position to index 0, the row's total and their *)
(*      ratio;                                                             *)
(*   2. analyze_attention_distribution_patterns runs one forward pass     *)
(*      over the context and records, per layer and position, the entropy *)
(*      of the causal row, its attention to index 0 and its maximum;       *)
(*   3. visualize_bos_attention_evolution fills a steps x layers matrix   *)
(*      of BOS ratios;                                                     *)
(*   4. the report keeps the mean and maximum last-layer BOS ratio.        *)
(*                                                                         *)
(* The forward pass is the environment.  It is deterministic: the pass    *)
(* over the context is chosen once (context_attentions), and the first    *)
(* decoding step, whose input is the context, sees the same matrices.     *)
(* Weights are integers whose rows sum to Denom.  The model runs in       *)
(* float16 and .cpu().numpy() keeps that dtype, so the entropy is         *)
(* computed in float16 (see Entropy).                                     *)
(***************************************************************************)
EXTENDS Integers, FiniteSets, Sequences, SequencesExt, Functions

CONSTANTS
  ContextTokens,   \* the tokenized context
  BOS,             \* the token '<|begin_of_text|>'
  Vocab,           \* tokens the model may emit
  MaxNewTokens,    \* max_new_tokens (investigate_bos_anomaly passes 8)
  NumLayers,       \* number of decoder layers
  Denom            \* common denominator of attention weights

\* visualize_bos_attention_evolution reads generation_steps[0], so the
\* investigation needs at least one step; the driver always makes 8.
ASSUME MaxNewTokens \in Nat \ {0}
ASSUME NumLayers \in Nat \ {0}

context_length == Len(ContextTokens)

LOCAL Alg == INSTANCE AttentionAlgebra WITH SeqLen <- context_length

VARIABLES
  context_attentions,   \* the head-averaged layers of the pass over the context
  input_ids,
  step,
  generation_steps,     \* bos_analysis["generation_steps"]
  layer_analysis,       \* distribution_analysis["layer_analysis"]
  bos_ratio_matrix,     \* the matrix visualize_bos_attention_evolution draws
  summary,              \* report["investigation_summary"]
  pc

vars == <<context_attentions, input_ids, step, generation_steps,
          layer_analysis, bos_ratio_matrix, summary, pc>>

Layers == 1 .. NumLayers

\* Line 53: index 0 when the first token starts with '<|begin_of_text|>'.
bos_token_index == IF ContextTokens[1] = BOS THEN 0 ELSE -1

\* The last row of a head-averaged layer over n positions.
LastRow(n) == {r \in [0 .. n - 1 -> 0 .. Denom] : SumFunction(r) = Denom}

\* The last rows of a forward pass over input_ids: those of the context
\* pass when the input is the context, any rows otherwise.
ForwardRows ==
  IF input_ids = ContextTokens
  THEN {[l \in Layers |-> context_attentions[l][context_length - 1]]}
  ELSE [Layers -> LastRow(Len(input_ids))]

\* Lines 90-92: bos_attention / total_attention, or 0.0 for a zero total.
Ratio(bos, total) ==
  IF total > 0 THEN [num |-> bos, den |-> total] ELSE [num |-> 0, den |-> 1]

\* Lines 87-96 for one layer's averaged last row.
LayerBos(avg) ==
  [bos |-> avg[0], total |-> SumFunction(avg),
   ratio |-> Ratio(avg[0], SumFunction(avg))]

Init ==
  /\ context_attentions \in [Layers -> Alg!AttentionMatrix]
  /\ input_ids = ContextTokens
  /\ step = 0
  /\ generation_steps = <<>>
  /\ layer_analysis = <<>>
  /\ bos_ratio_matrix = <<>>
  /\ summary = <<>>
  /\ pc = "bos_loop"

\* Mutant: input_ids not extended with the generated token.
BosStepWithoutCat ==
  /\ pc = "bos_loop"
  /\ step < MaxNewTokens
  /\ \E next_token \in Vocab, rows \in ForwardRows :
       /\ generation_steps' = Append(generation_steps,
             [step |-> step, generated_token |-> next_token,
              by_layer |-> [l \in Layers |-> LayerBos(rows[l])]])
       /\ step' = step + 1
  /\ UNCHANGED <<context_attentions, input_ids, layer_analysis, bos_ratio_matrix, summary, pc>>

\* One iteration of lines 59-103: forward pass, argmax token, the per-layer
\* BOS statistics, the append and the torch.cat.  There is no EOS break.
BosStep ==
  /\ pc = "bos_loop"
  /\ step < MaxNewTokens
  /\ \E next_token \in Vocab, rows \in ForwardRows :
       /\ generation_steps' = Append(generation_steps,
             [step |-> step, generated_token |-> next_token,
              by_layer |-> [l \in Layers |-> LayerBos(rows[l])]])
       /\ input_ids' = Append(input_ids, next_token)
       /\ step' = step + 1
  /\ UNCHANGED <<context_attentions, layer_analysis, bos_ratio_matrix, summary, pc>>

BosLoopDone ==
  /\ pc = "bos_loop"
  /\ step = MaxNewTokens
  /\ pc' = "distribution"
  /\ UNCHANGED <<context_attentions, input_ids, step, generation_steps,
                 layer_analysis, bos_ratio_matrix, summary>>

(***************************************************************************)
(* Line 147: -sum(p * log(p + 1e-10)) over the normalised causal row.     *)
(* The row is float16, and numpy keeps float16 when a Python float is     *)
(* added to it, so 1e-10 rounds to 0 (the smallest float16 is about       *)
(* 6e-8).  A zero weight then gives 0 * log(0) = 0 * -inf = NaN.  An      *)
(* entropy that is a number is a symmetric function of the normalised     *)
(* weights, so it is kept as their multiset over the row's sum.           *)
(***************************************************************************)
NaN == "NaN"

Entropy(p) ==
  IF \E j \in DOMAIN p : p[j] = 0 THEN NaN
  ELSE [den |-> SumFunction(p),
        weights |-> [x \in Range(p) |-> Cardinality({j \in DOMAIN p : p[j] = x})]]

\* Mutant: the slice :pos, which leaves out the position itself.
PosAttentionExclusive(m, pos) == [j \in 0 .. pos - 1 |-> m[pos][j]]

\* Line 142: the causal row of pos, np.mean(layer_att[:, pos, :pos+1], axis=0).
PosAttention(m, pos) == [j \in 0 .. pos |-> m[pos][j]]

\* Line 144: the positions whose row is non-empty with a positive sum.
KeptPositions(m) ==
  SelectSeq([k \in 1 .. context_length |-> k - 1],
            LAMBDA pos : DOMAIN PosAttention(m, pos) # {}
                         /\ SumFunction(PosAttention(m, pos)) > 0)

\* Lines 131-157 for one layer: the three lists, one entry per kept position.
LayerStats(m) ==
  LET kept == KeptPositions(m)
      row(k) == PosAttention(m, kept[k])
  IN  [attention_entropy       |-> [k \in DOMAIN kept |-> Entropy(row(k))],
       bos_attention_strength  |-> [k \in DOMAIN kept |-> row(k)[0]],
       attention_concentration |-> [k \in DOMAIN kept |-> Max(Range(row(k)))]]

\* analyze_attention_distribution_patterns (lines 107-161).
AnalyzeDistribution ==
  /\ pc = "distribution"
  /\ layer_analysis' = [l \in Layers |-> LayerStats(context_attentions[l])]
  /\ pc' = "visualize"
  /\ UNCHANGED <<context_attentions, input_ids, step, generation_steps, bos_ratio_matrix,
                 summary>>

(***************************************************************************)
(* visualize_bos_attention_evolution (lines 163-204): a steps x layers    *)
(* matrix, its width read from generation_steps[0], whose row s is step   *)
(* s's bos_attention_ratio_by_layer; the rest is drawing.  Reading        *)
(* generation_steps[0] needs a step, which max_new_tokens >= 1 gives.     *)
(***************************************************************************)
VisualizeEvolution ==
  /\ pc = "visualize"
  /\ bos_ratio_matrix' =
       [s \in DOMAIN generation_steps |->
          [l \in 1 .. Len(generation_steps[1].by_layer) |->
             generation_steps[s].by_layer[l].ratio]]
  /\ pc' = "report"
  /\ UNCHANGED <<context_attentions, input_ids, step, generation_steps, layer_analysis,
                 summary>>

\* np.mean and np.max of a list of ratios, kept exact.
Product(f) == FoldFunction(LAMBDA a, b : a * b, 1, f)

MeanRatio(rs) ==
  LET P == Product([s \in DOMAIN rs |-> rs[s].den]) IN
  [num |-> SumFunction([s \in DOMAIN rs |-> rs[s].num * (P \div rs[s].den)]),
   den |-> Len(rs) * P]

MaxRatio(rs) ==
  CHOOSE r \in Range(rs) : \A q \in Range(rs) : q.num * r.den <= r.num * q.den

(***************************************************************************)
(* Step 4 of investigate_bos_anomaly (lines 219-243): the summary keeps   *)
(* whether a BOS was detected and the mean and maximum of the last        *)
(* layer's ratios; json.dump then writes the report.                      *)
(***************************************************************************)
Report ==
  /\ pc = "report"
  /\ LET last == [s \in DOMAIN generation_steps |->
                    generation_steps[s].by_layer[NumLayers].ratio]
     IN  summary' = [bos_token_detected |-> bos_token_index >= 0,
                     avg_bos_ratio_last_layer |-> MeanRatio(last),
                     max_bos_ratio_last_layer |-> MaxRatio(last)]
  /\ pc' = "done"
  /\ UNCHANGED <<context_attentions, input_ids, step, generation_steps, layer_analysis,
                 bos_ratio_matrix>>

Next == BosStep \/ BosLoopDone \/ AnalyzeDistribution \/ VisualizeEvolution \/ Report

Spec == Init /\ [][Next]_vars

-----------------------------------------------------------------------------
TypeOK ==
  /\ context_attentions \in [Layers -> Alg!AttentionMatrix]
  /\ step \in 0 .. MaxNewTokens
  /\ Len(generation_steps) = step
  /\ Len(input_ids) = context_length + step
  /\ pc \in {"bos_loop", "distribution", "visualize", "report", "done"}

(***************************************************************************)
(* The two analyses describe the same forward pass over the context: the  *)
(* first decoding step's per-layer BOS attention is the BOS strength the  *)
(* distribution analysis lists for the last context position, which is    *)
(* the last entry of a list holding one entry per position.  The report   *)
(* sets the two side by side; an index or slice off by one in either     *)
(* loop would make them describe different positions.                    *)
(***************************************************************************)
AnalysesAgreeOnLastPosition ==
  layer_analysis # <<>> =>
    \A l \in Layers :
      LET strength == layer_analysis[l].bos_attention_strength IN
        /\ Len(strength) = context_length
        /\ strength[context_length] = generation_steps[1].by_layer[l].bos

====
