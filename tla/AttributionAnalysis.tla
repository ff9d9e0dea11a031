------------------------- MODULE AttributionAnalysis -------------------------
(***************************************************************************)
(* AttentionAttributionAnalyzer.analyze_attribution_patterns              *)
(* (attention_attribution_analyzer.py): one compute_attribution_via_      *)
(* matrix_chain call per requested target position, the results keyed by *)
(* f"position_{pos}", then a JSON save that converts the numpy arrays.    *)
(*                                                                         *)
(* What one compute call calculates is modelled by AttributionPropagator; *)
(* here a result keeps what the analysis does with it: its target, its    *)
(* token, and which Python objects hold its vectors.  A vector is an      *)
(* ndarray or a list.  The per-layer dicts of layer_by_layer_attribution  *)
(* are objects on a heap, so that the shallow result.copy() of the save   *)
(* shares them with the returned results, as in Python.                  *)
(***************************************************************************)
EXTENDS Integers, FiniteSets, Sequences, SequencesExt, Functions

CONSTANTS
  Tokens,          \* attention_data["context_tokens"]
  NumLayers,       \* attention_data["num_layers"]
  Candidates,      \* integers a caller may put in target_positions
  MaxPositions,    \* bound on the length of target_positions
  None             \* Python None, the default of target_positions

ASSUME NumLayers \in Nat \ {0}

seq_len == Len(Tokens)

VARIABLES
  target_positions,
  i,          \* the loop's index into target_positions
  results,    \* key -> result record
  heap,       \* object id -> layer dict
  saved,      \* what json.dump wrote: key -> serialised result
  pc

vars == <<target_positions, i, results, heap, saved, pc>>

\* A Python list index; a negative one counts from the end.
PyIndex(s, k) == IF k >= 0 THEN s[k + 1] ELSE s[Len(s) + k + 1]

\* Mutant: a default window of two positions.
DefaultPositionsWindowTwo ==
  LET lo == IF seq_len - 2 > 0 THEN seq_len - 2 ELSE 0 IN
  [k \in 1 .. seq_len - lo |-> lo + k - 1]

\* Lines 194-196: list(range(max(0, seq_len-3), seq_len)).
DefaultPositions ==
  LET lo == IF seq_len - 3 > 0 THEN seq_len - 3 ELSE 0 IN
  [k \in 1 .. seq_len - lo |-> lo + k - 1]

Key(pos) == <<"position", pos>>

\* Mutant: the layer dicts numbered from 1.
ComputeLayerOneBased(pos, k) ==
  LET target == IF pos = -1 THEN seq_len - 1 ELSE pos IN
  [result |-> [target_position |-> target, target_token |-> PyIndex(Tokens, target),
               layers |-> [l \in 1 .. NumLayers |-> <<k, l>>],
               composite_matrix |-> "ndarray", final_attribution |-> "ndarray"],
   dicts  |-> [d \in {<<k, l>> : l \in 1 .. NumLayers} |->
                 [layer |-> d[2], attribution_vector |-> "ndarray"]]]

(***************************************************************************)
(* compute_attribution_via_matrix_chain(attention_data, pos) as the k-th  *)
(* call (lines 77-129): -1 becomes seq_len-1 and any other negative pos   *)
(* is used as Python indexes it; each call builds fresh layer dicts, one  *)
(* per layer from 0 up, whose vectors are .copy() ndarrays.              *)
(***************************************************************************)
Compute(pos, k) ==
  LET target == IF pos = -1 THEN seq_len - 1 ELSE pos IN
  [result |-> [target_position |-> target, target_token |-> PyIndex(Tokens, target),
               layers |-> [l \in 1 .. NumLayers |-> <<k, l>>],
               composite_matrix |-> "ndarray", final_attribution |-> "ndarray"],
   dicts  |-> [d \in {<<k, l>> : l \in 1 .. NumLayers} |->
                 [layer |-> d[2] - 1, attribution_vector |-> "ndarray"]]]

\* Lines 80 and 85 raise IndexError for a position below -seq_len.
IndexFails(pos) == pos < -seq_len

PositionLists ==
  {None} \cup UNION {[1 .. n -> Candidates] : n \in 0 .. MaxPositions}

Init ==
  /\ \E arg \in PositionLists :
       target_positions = IF arg = None THEN DefaultPositions ELSE arg
  /\ i = 1
  /\ results = <<>>
  /\ heap = <<>>
  /\ saved = <<>>
  /\ pc = "loop"

\* One iteration of lines 200-210 for a position the filter lets through:
\* the result is stored under its key (replacing an earlier one) and drawn.
AnalyzePosition ==
  /\ pc = "loop"
  /\ i <= Len(target_positions)
  /\ target_positions[i] < seq_len
  /\ LET pos == target_positions[i] IN
       IF IndexFails(pos)
       THEN /\ pc' = "index_error"
            /\ UNCHANGED <<i, results, heap>>
       ELSE LET c == Compute(pos, i) IN
            /\ results' = [key \in DOMAIN results \cup {Key(pos)} |->
                             IF key = Key(pos) THEN c.result ELSE results[key]]
            /\ heap' = c.dicts @@ heap
            /\ i' = i + 1
            /\ UNCHANGED pc
  /\ UNCHANGED <<target_positions, saved>>

\* The `if pos < seq_len` filter skips a position.
SkipPosition ==
  /\ pc = "loop"
  /\ i <= Len(target_positions)
  /\ target_positions[i] >= seq_len
  /\ i' = i + 1
  /\ UNCHANGED <<target_positions, results, heap, saved, pc>>

LoopDone ==
  /\ pc = "loop"
  /\ i > Len(target_positions)
  /\ pc' = "save"
  /\ UNCHANGED <<target_positions, i, results, heap, saved>>

\* The layer dicts of a result.
LayerDicts(r) == Range(r.layers)

(***************************************************************************)
(* The save (lines 212-226).  open(..., "w") truncates the file first.    *)
(* For every result, result.copy() makes a new dict whose                 *)
(* layer_by_layer_attribution is the same list of the same layer dicts;   *)
(* the two top-level arrays are replaced in the copy, but every layer     *)
(* dict's attribution_vector is replaced in place by .tolist().  Every    *)
(* compute call builds its own layer dicts, so no dict is reached twice   *)
(* and every .tolist() finds an ndarray.                                  *)
(***************************************************************************)
Save ==
  /\ pc = "save"
  /\ LET reached == UNION {LayerDicts(results[k]) : k \in DOMAIN results}
              converted == [d \in DOMAIN heap |->
                              IF d \in reached
                              THEN [heap[d] EXCEPT !.attribution_vector = "list"]
                              ELSE heap[d]]
          IN  /\ heap' = converted
              /\ saved' = [k \in DOMAIN results |->
                    [target_position |-> results[k].target_position,
                     target_token |-> results[k].target_token,
                     final_attribution |-> "list", composite_matrix |-> "list",
                     layer_by_layer_attribution |->
                        [l \in DOMAIN results[k].layers |-> converted[results[k].layers[l]]]]]
              /\ pc' = "returned"
  /\ UNCHANGED <<target_positions, i, results>>

Next == AnalyzePosition \/ SkipPosition \/ LoopDone \/ Save

Spec == Init /\ [][Next]_vars

-----------------------------------------------------------------------------
TypeOK ==
  /\ target_positions \in Seq(Int)
  /\ i \in 1 .. Len(target_positions) + 1
  /\ \A k \in DOMAIN results :
        /\ k[1] = "position"
        /\ LayerDicts(results[k]) \subseteq DOMAIN heap
  /\ \A d \in DOMAIN heap :
        /\ heap[d].layer \in 0 .. NumLayers - 1
        /\ heap[d].attribution_vector \in {"ndarray", "list"}
  /\ pc \in {"loop", "save", "returned", "index_error"}

(***************************************************************************)
(* With no positions given, as run_attribution_analysis calls it, the     *)
(* analysis returns one result for each of the last min(3, seq_len)       *)
(* tokens, keyed by its own position and analysing that token.            *)
(***************************************************************************)
LastPositions ==
  {p \in 0 .. seq_len - 1 : p >= seq_len - 3}

DefaultAnalysesLastTokens ==
  (pc = "returned" /\ target_positions = DefaultPositions) =>
    /\ DOMAIN results = {Key(p) : p \in LastPositions}
    /\ \A p \in LastPositions :
          /\ results[Key(p)].target_position = p
          /\ results[Key(p)].target_token = Tokens[p + 1]

(***************************************************************************)
(* analyze_attribution_patterns returns the results it computed: after    *)
(* the save, every layer vector the caller receives is still the ndarray *)
(* compute_attribution_via_matrix_chain returned.                          *)
(***************************************************************************)
ReturnedResultsUntouched ==
  pc = "returned" =>
    \A k \in DOMAIN results :
      \A d \in LayerDicts(results[k]) : heap[d].attribution_vector = "ndarray"

====
