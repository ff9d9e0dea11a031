------------------------ MODULE AttributionPropagator ------------------------
(***************************************************************************)
(* AttentionAttributionAnalyzer.compute_attribution_via_matrix_chain      *)
(* (src/attention_heatmap/attention_attribution_analyzer.py), one run for *)
(* one target position over the head-averaged layer matrices produced by  *)
(* extract_layered_attention_matrices.                                    *)
(*                                                                         *)
(* pc follows the function's body:                                        *)
(*   "iterate"   the reversed(range(L)) loop of method 1, one step per    *)
(*               layer, then the trace reversal and np.eye of method 2;  *)
(*   "composite" the forward loop of method 2, one step per layer, then   *)
(*               the read of the target row and the final top-10;        *)
(*   "done"      the function has returned its result dict.               *)
(***************************************************************************)
EXTENDS Integers, FiniteSets, Sequences, SequencesExt, Functions

CONSTANTS
  SeqLen,      \* seq_len: number of context tokens
  NumLayers,   \* len(attention_matrices)
  Denom,       \* common denominator of the attention weights
  Tokens,      \* context_tokens, a function from positions to labels
  LayerTopK,   \* top_k of the per-layer top contributors (5)
  FinalTopK    \* top_k of the final top contributors (10)

ASSUME NumLayers \in Nat \ {0}
ASSUME LayerTopK \in Nat \ {0} /\ FinalTopK \in Nat \ {0}

INSTANCE AttentionAlgebra

ASSUME DOMAIN Tokens = Pos

VARIABLES
  attention_matrices,       \* attention_data["attention_matrices"]
  target_position,          \* target_position after the -1 default
  current_attribution,      \* current_attribution of method 1
  layer_idx,                \* loop variable of reversed(range(L)); -1 after
  layer_attributions,       \* the per-layer records of method 1
  composite_matrix,         \* composite_matrix of method 2 (<<>> before)
  composite_idx,            \* index of the next att_matrix of method 2
  final_attribution,        \* composite_matrix[target_position, :]
  final_top_contributors,   \* _get_top_contributors(final, top_k=10)
  pc

vars == <<attention_matrices, target_position, current_attribution, layer_idx,
          layer_attributions, composite_matrix, composite_idx,
          final_attribution, final_top_contributors, pc>>

Layers == 0 .. NumLayers - 1

(***************************************************************************)
(* _get_top_contributors: the (token, score, position) triples sorted by  *)
(* score with sorted(..., reverse=True), then cut to top_k.  Python's     *)
(* sort is stable also under reverse=True, so an entry goes after every   *)
(* entry already placed whose score is >= its own.                        *)
(***************************************************************************)
Entry(vec, i) == [token |-> Tokens[i], score |-> vec[i], pos |-> i]

\* Mutant: ties resolved against list order (an unstable or reversed sort).
InsertByScoreTiesLast(sorted, e) ==
  InsertAt(sorted,
           Cardinality({k \in 1 .. Len(sorted) : sorted[k].score > e.score}) + 1,
           e)

InsertByScore(sorted, e) ==
  InsertAt(sorted,
           Cardinality({k \in 1 .. Len(sorted) : sorted[k].score >= e.score}) + 1,
           e)

TopContributors(vec, top_k) ==
  LET indexed == [k \in 1 .. SeqLen |-> Entry(vec, k - 1)]
      sorted  == FoldLeft(InsertByScore, <<>>, indexed)
  IN  SubSeq(sorted, 1, IF top_k < SeqLen THEN top_k ELSE SeqLen)

\* Mutant: target_position = -1 passed on without the default (lines 77-78).
InitNoDefault ==
  /\ attention_matrices \in [Layers -> AttentionMatrix]
  /\ target_position \in {-1} \cup Pos
  /\ current_attribution = OneHot(target_position)
  /\ layer_idx = NumLayers - 1
  /\ layer_attributions = <<>>
  /\ composite_matrix = <<>>
  /\ composite_idx = 0
  /\ final_attribution = <<>>
  /\ final_top_contributors = <<>>
  /\ pc = "iterate"

(***************************************************************************)
(* Entry to the function: the attention data as extracted (lines 40-66),  *)
(* target_position -1 defaulting to the last token, and the one-hot start *)
(* of method 1.                                                           *)
(***************************************************************************)
Init ==
  /\ attention_matrices \in [Layers -> AttentionMatrix]
  /\ \E requested \in {-1} \cup Pos :
        target_position = IF requested = -1 THEN SeqLen - 1 ELSE requested
  /\ current_attribution = OneHot(target_position)
  /\ layer_idx = NumLayers - 1
  /\ layer_attributions = <<>>
  /\ composite_matrix = <<>>
  /\ composite_idx = 0
  /\ final_attribution = <<>>
  /\ final_top_contributors = <<>>
  /\ pc = "iterate"

\* Mutant: np.dot(att_matrix, current_attribution), the matrix on the left.
IterateLayerMatrixFirst ==
  /\ pc = "iterate"
  /\ layer_idx >= 0
  /\ LET A   == attention_matrices[layer_idx]
         new == [i \in Pos |->
                   SumFunction([j \in Pos |-> A[i][j] * current_attribution[j]])]
     IN  /\ layer_attributions' =
              Append(layer_attributions,
                     [layer |-> layer_idx,
                      attribution_vector |-> new,
                      top_contributors |-> TopContributors(new, LayerTopK)])
         /\ current_attribution' = new
  /\ layer_idx' = layer_idx - 1
  /\ UNCHANGED <<attention_matrices, target_position, composite_matrix,
                 composite_idx, final_attribution, final_top_contributors, pc>>

\* One iteration of method 1: new = current . A_layer_idx, recorded with
\* its top 5, then carried to the next (earlier) layer.
IterateLayer ==
  /\ pc = "iterate"
  /\ layer_idx >= 0
  /\ LET new == VecMat(current_attribution, attention_matrices[layer_idx])
     IN  /\ layer_attributions' =
              Append(layer_attributions,
                     [layer |-> layer_idx,
                      attribution_vector |-> new,
                      top_contributors |-> TopContributors(new, LayerTopK)])
         /\ current_attribution' = new
  /\ layer_idx' = layer_idx - 1
  /\ UNCHANGED <<attention_matrices, target_position, composite_matrix,
                 composite_idx, final_attribution, final_top_contributors, pc>>

\* Mutant: the list is left in loop order (reverse() dropped).
ReverseTraceDropped ==
  /\ pc = "iterate"
  /\ layer_idx = -1
  /\ composite_matrix' = Identity
  /\ composite_idx' = 0
  /\ pc' = "composite"
  /\ UNCHANGED <<attention_matrices, target_position, current_attribution,
                 layer_idx, layer_attributions, final_attribution,
                 final_top_contributors>>

\* After the loop: layer_attributions.reverse() and composite = np.eye.
ReverseTrace ==
  /\ pc = "iterate"
  /\ layer_idx = -1
  /\ layer_attributions' = Reverse(layer_attributions)
  /\ composite_matrix' = Identity
  /\ composite_idx' = 0
  /\ pc' = "composite"
  /\ UNCHANGED <<attention_matrices, target_position, current_attribution,
                 layer_idx, final_attribution, final_top_contributors>>

\* One iteration of method 2: composite = composite . att_matrix, layers
\* taken in list order 0, 1, .., L-1.
ComposeLayer ==
  /\ pc = "composite"
  /\ composite_idx < NumLayers
  /\ composite_matrix' =
        MatMul(composite_matrix, attention_matrices[composite_idx])
  /\ composite_idx' = composite_idx + 1
  /\ UNCHANGED <<attention_matrices, target_position, current_attribution,
                 layer_idx, layer_attributions, final_attribution,
                 final_top_contributors, pc>>

\* Mutant: composite_matrix[:, target_position], a column read as the row.
FinishColumn ==
  /\ pc = "composite"
  /\ composite_idx = NumLayers
  /\ final_attribution' = [j \in Pos |-> composite_matrix[j][target_position]]
  /\ final_top_contributors' =
        TopContributors(final_attribution', FinalTopK)
  /\ pc' = "done"
  /\ UNCHANGED <<attention_matrices, target_position, current_attribution,
                 layer_idx, layer_attributions, composite_matrix, composite_idx>>

\* The target row of the composite and the returned result dict.
Finish ==
  /\ pc = "composite"
  /\ composite_idx = NumLayers
  /\ final_attribution' = composite_matrix[target_position]
  /\ final_top_contributors' =
        TopContributors(composite_matrix[target_position], FinalTopK)
  /\ pc' = "done"
  /\ UNCHANGED <<attention_matrices, target_position, current_attribution,
                 layer_idx, layer_attributions, composite_matrix, composite_idx>>

\* pc = "done" has no successor: the function has returned.
Next == IterateLayer \/ ReverseTrace \/ ComposeLayer \/ Finish

Spec == Init /\ [][Next]_vars

(***************************************************************************)
(* visualize_attribution_evolution, lines 141-154: the (layers x tokens)  *)
(* matrix drawn as the heatmap.  Its column labels are the tokens of the  *)
(* final top contributors (cut to 20), its cell (l, c) is entry c of      *)
(* layer l's attribution vector.                                          *)
(***************************************************************************)
EvolutionLabels(final_top) ==
  LET labels == [k \in 1 .. Len(final_top) |-> final_top[k].token]
  IN  SubSeq(labels, 1, IF Len(labels) < 20 THEN Len(labels) ELSE 20)

EvolutionMatrix(trace, final_top) ==
  LET num_tokens == Len(EvolutionLabels(final_top))
  IN  [l \in 1 .. Len(trace) |->
         [c \in 1 .. num_tokens |->
            IF c - 1 < SeqLen THEN trace[l].attribution_vector[c - 1] ELSE 0]]

-----------------------------------------------------------------------------
(***************************************************************************)
(* Properties.                                                             *)
(***************************************************************************)
Vector == [Pos -> Nat]
TopEntry == [token : Range(Tokens), score : Nat, pos : Pos]

TypeOK ==
  /\ attention_matrices \in [Layers -> AttentionMatrix]
  /\ target_position \in Pos
  /\ current_attribution \in Vector
  /\ layer_idx \in -1 .. NumLayers - 1
  /\ layer_attributions \in
        Seq([layer : Layers, attribution_vector : Vector,
             top_contributors : Seq(TopEntry)])
  /\ composite_matrix \in {<<>>} \cup [Pos -> Vector]
  /\ composite_idx \in 0 .. NumLayers
  /\ final_attribution \in {<<>>} \cup Vector
  /\ final_top_contributors \in Seq(TopEntry)
  /\ pc \in {"iterate", "composite", "done"}

\* Layers already pushed through by method 1 and by method 2.
StepsDone == NumLayers - 1 - layer_idx

(***************************************************************************)
(* Mass conservation (spec section 3 and 8): every layer matrix is row-   *)
(* stochastic, so the row vector times matrix products of method 1 keep   *)
(* the one-hot's whole mass after each layer, and every row of method 2's *)
(* composite keeps it too.  Getting the side of np.dot wrong (A . v       *)
(* instead of v . A) spreads mass by column sums, which are not 1.        *)
(***************************************************************************)
MassConserved ==
  /\ SumFunction(current_attribution) = Denom ^ StepsDone
  /\ \A k \in 1 .. Len(layer_attributions) :
        SumFunction(layer_attributions[k].attribution_vector)
          = Denom ^ (IF pc = "iterate" THEN k ELSE NumLayers - k + 1)
  /\ composite_matrix # <<>> =>
        \A i \in Pos : SumFunction(composite_matrix[i]) = Denom ^ composite_idx

(***************************************************************************)
(* Causality: the matrices are causal, so attribution flowing back from   *)
(* the target can only reach it and earlier positions, in every recorded  *)
(* vector and in the final attribution; the composite stays lower         *)
(* triangular.                                                            *)
(***************************************************************************)
Causal(vec) == \A j \in Pos : j > target_position => vec[j] = 0

CausalSupport ==
  /\ Causal(current_attribution)
  /\ \A k \in 1 .. Len(layer_attributions) :
        Causal(layer_attributions[k].attribution_vector)
  /\ pc = "done" => Causal(final_attribution)
  /\ composite_matrix # <<>> =>
        \A i, j \in Pos : j > i => composite_matrix[i][j] = 0

(***************************************************************************)
(* The top contributors (spec 4.1 Output) are the positions ranked by     *)
(* descending score with ties broken by lower position, cut to top_k:    *)
(* stated declaratively, for every per-layer list and the final list.    *)
(***************************************************************************)
RankedBefore(a, b) == a.score > b.score \/ (a.score = b.score /\ a.pos < b.pos)

IsRanking(vec, top_k, top) ==
  /\ Len(top) = IF top_k < SeqLen THEN top_k ELSE SeqLen
  /\ \A k \in 1 .. Len(top) : top[k] = Entry(vec, top[k].pos)
  /\ \A k, m \in 1 .. Len(top) : k < m => RankedBefore(top[k], top[m])
  /\ \A p \in Pos \ {top[k].pos : k \in 1 .. Len(top)} :
        \A k \in 1 .. Len(top) : RankedBefore(top[k], Entry(vec, p))

TopContributorsRanked ==
  /\ \A k \in 1 .. Len(layer_attributions) :
        IsRanking(layer_attributions[k].attribution_vector, LayerTopK,
                  layer_attributions[k].top_contributors)
  /\ pc = "done" =>
        IsRanking(final_attribution, FinalTopK, final_top_contributors)

(***************************************************************************)
(* Refinement: once method 1 has reversed its records, the attribution    *)
(* vectors they hold, read from layer 0 to layer L-1, are the backward    *)
(* trace AttributionSpec promises, and they never change after that.      *)
(***************************************************************************)
Abstract == INSTANCE AttributionSpec WITH
  trace <- IF pc \in {"composite", "done"}
             THEN [k \in 1 .. Len(layer_attributions) |->
                     layer_attributions[k].attribution_vector]
             ELSE <<>>

AttributionRefinement == Abstract!Spec

(***************************************************************************)
(* The code's comment on method 2 ("直接矩阵链乘法 (所有层的复合效应)",     *)
(* the composite effect of all layers) presents final_attribution as the  *)
(* same end-to-end attribution method 1 reaches at layer 0.              *)
(***************************************************************************)
FinalMatchesTrace ==
  pc = "done" => final_attribution = layer_attributions[1].attribution_vector

=============================================================================
