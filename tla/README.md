# TLA+ models of the Atelia attention-analysis scripts

This directory holds TLA+ models of the programs under `src/`, with the TLC
configurations that check them. Each module is translated from the source,
and `PROJECT.json` maps every definition to the lines it models.

## The system

`src/` holds two groups of code.

* **Attention analysis** (`src/attention_heatmap/`): six scripts that load a causal
  language model, run it with `output_attentions=True`, and analyse the
  attention tensors it returns.
  * `attention_attribution_analyzer.py` averages each layer's heads into one
    `seq_len x seq_len` matrix. It then propagates the attribution of a target
    token back through the layers in two ways:
    * method 1 multiplies one layer at a time, starting from the last;
    * method 2 multiplies the layers into one composite matrix.
    It ranks the contributors by score, draws the layer-by-layer evolution,
    and saves a JSON summary.
  * `generation_attention_experiment.py` and `attention_heatmap_experiment_v1.py`
    decode greedily. At each step they keep the last layer's attention from
    the new token to the context, stopping at EOS. They then aggregate these
    slices into per-token heatmaps, concept maps and level-of-detail
    (LOD) suggestions.
  * `attention_heatmap_experiment.py` is a newer driver for the same pipeline.
    It calls `extract_generation_attention`, which its extractor class does
    not define, so it stops with `AttributeError` at its first step.
  * `improved_attention_analyzer.py` removes token 0 (the attention sink) from
    the first generated token's attention, renormalises the rest and reports
    the top 3 positions.
  * `attention_anomaly_analyzer.py` measures each layer's attention to BOS and
    its entropy.
* **Chat client** (`src/example/ref_code/example_openrouter.py`):
  `OpenRouterClient` keeps a chat history. Each `chat()` appends the user turn,
  posts the system message plus the whole history, and appends the answer when
  the status is 200.

The scripts do not talk to each other. Each one is a sequential pipeline from
the model's output tensors to files. Inside a script, the components interact
through the data they pass on. For example, the attribution result feeds the
evolution heatmap and the JSON summary. The chat client's only shared state is
its history, which every call reads and extends.

## Modules

| module | models | source |
|---|---|---|
| `AttentionAlgebra` | One-hot vectors, the identity, `np.dot` on vectors and matrices, and the set of head-averaged causal attention matrices | `attention_attribution_analyzer.py` 40-66, 84-117 |
| `AttributionSpec` | The abstract promise of layer-by-layer attribution: entry *l* of the trace is `e_t . A_{L-1} ... A_l`. It is produced in one step. | The docstring and comments of `compute_attribution_via_matrix_chain` |
| `AttributionPropagator` | `compute_attribution_via_matrix_chain`, `_get_top_contributors`, and the matrix built by `visualize_attribution_evolution` | `attention_attribution_analyzer.py` 68-154 |
| `MC_AttributionPropagator` | Model values for the tokens | |
| `GenerationAttention` | `extract_generation_attention`'s decoding loop with the EOS stop, the spectrogram matrix, and `analyze_dynamic_attention_patterns`, called in the order `run_generation_experiment` uses | `generation_attention_experiment.py` 44-297 |
| `MC_GenerationAttention` | Model values for the context tokens and the vocabulary | |
| `CleanAttention` | `extract_clean_generation_attention` (token 0 removed, renormalised, top 3 with positions), `visualize_clean_attention_flow`, and `run_comprehensive_test`: the story and technical tests, the report and the final JSON save | `improved_attention_analyzer.py` 41-273 |
| `MC_CleanAttention` | A five-token story context and a three-token technical context | |
| `ConceptMapping` | `aggregate_attention_to_heatmap` (three methods, normalisation, `token_{i}_{tok}` keys) and `simulate_concept_mapping` (key parse, marker strip, substring match, normalisation) | `attention_heatmap_experiment.py` 43-133; the driver order from v1 225-290 |
| `MC_ConceptMapping` | Token and concept texts over a small alphabet | |
| `OpenRouterClient` | `OpenRouterClient.__init__` and `chat()` with every outcome of the post, plus the caller assigning `tool_call_prompt` | `example_openrouter.py` 23-138 |
| `MC_OpenRouterClient` | The `__main__` driver's four calls | |
| `AttributionAnalysis` | `analyze_attribution_patterns`: default or requested target positions, the `pos < seq_len` filter, negative indexing, the results dict and the JSON save with its shallow `result.copy()` | `attention_attribution_analyzer.py` 77-129, 186-252 |
| `MC_AttributionAnalysis` | Four tokens, and candidate positions -5..4 | |
| `BosAnomaly` | `analyze_bos_token_attention` (decoding loop, per-layer BOS attention, total and ratio), `analyze_attention_distribution_patterns` (entropy, BOS strength and concentration per position) and the summary of `investigate_bos_anomaly` | `attention_anomaly_analyzer.py` 40-161, 206-265 |
| `MC_BosAnomaly` | A three-token context starting with BOS, one vocabulary token | |

**Abstraction of numbers.** Attention weights are floats that sum to 1 per row.
The model uses non-negative integers with rows summing to `Denom`, so after *k*
products a vector carries mass `Denom^k`. Under this scaling, products,
comparisons and sorting behave exactly as over the rationals, so every ordering
the code can see is reproduced without rounding. Rounding itself is not
modelled, with two exceptions where the code's outcome turns on it: a zero
denominator is NaN (`CleanAttention`), and the float16 epsilon of the
entropy is 0 (`BosAnomaly`).

**AttributionPropagator.**
* The state is the function's local variables plus a program counter `pc`:
  * `current_attribution`, `layer_idx` and `layer_attributions` belong to method 1;
  * `composite_matrix` and `composite_idx` belong to method 2;
  * `final_attribution` and `final_top_contributors` hold the result.
* `Init` chooses every input:
  * any list of `NumLayers` matrices from `AttentionMatrix`;
  * a target that is `-1` (the default, mapped to `seq_len-1` as on lines 77-78) or a position;
  * the one-hot vector.
* There is one action per loop body:
  * `IterateLayer` is lines 90-105, including the top-5 ranking of the new vector;
  * `ReverseTrace` is lines 107-114;
  * `ComposeLayer` is lines 116-117;
  * `Finish` is lines 119-129, including the top-10 ranking.
* `_get_top_contributors` is `TopContributors`. It models Python's stable
  `sorted(..., reverse=True)` as insertion after every entry of equal or higher
  score.
* The refinement mapping sends the detailed state to the abstract `trace`.
  `trace` is the sequence of `attribution_vector`s once the trace has been
  reversed, and `<<>>` before that.

**GenerationAttention and CleanAttention.**
* The decoding loop is one action per iteration, `GenerateStep`. The model
  is the environment: it chooses a next token from `Vocab` and, for each
  layer, a last attention row over the current input. The action then:
  * records the context slice (`[:, -1, :context_length]`);
  * appends the token;
  * feeds it back into `input_ids`;
  * stops after recording an `EOS`.
* `LoopExhausted` is the end of `range(max_new_tokens)`.
* `GenerationAttention.Analyze` is steps 2-3 of the driver: the layer-0
  spectrogram, then the per-token statistics and the two top-5 rankings.
  `np.var` is kept as `n*sum(x^2) - sum(x)^2`, which orders tokens the same way.
  With no recorded step, every series is empty and `max()` raises
  `ValueError` (line 222): `Analyze` then ends in `"raised"`.
* `CleanAttention` keeps a clean vector as numerators over the mass it was
  divided by. A zero denominator is the NaN vector that numpy's 0/0 gives.
* `np.argsort`'s order among ties is not promised, so every ascending order
  is allowed.
* `CleanAttention` also models the driver `run_comprehensive_test`. `test`
  says which of the two tests (`Tests`, the two prompts and their
  `max_new_tokens`) is running. `ReportAndStartTechnical` ends the story test
  and starts the technical one. `Save` is the final `json.dump`.
* The story's step data is kept only as what the save tells apart
  (`story_data`): `"json"` when every step's top-3 list is empty, `"numpy"`
  otherwise. A non-empty top 3 holds a numpy float16 weight and an int64
  position, and `json.dump` rejects both (`JsonSerialisable`). When it does,
  `Save` ends in `"save_raised"`.

**ConceptMapping.**
* `Init` is any output of `extract_attention_weights`: token texts, plus
  head-averaged causal matrices for each layer.
* `AggregateAttention` runs the next aggregation method.
* `SimulateConceptMapping` maps the next heatmap.
* Strings are sequences of characters over a small alphabet:
  * `"sp"` stands for the SentencePiece marker `▁`;
  * letters are lower case.
  The key `token_{i}_{tok}` is built exactly, so `split("_")[-1]` and
  `strip("▁")` act on it as in Python.
* The linspace weights keep only their numerators, because the common factor
  cancels in the normalisation.

**OpenRouterClient.**
* One `chat()` call is one step, because `requests.post` is synchronous and the
  client single-threaded.
* The step's outcome is chosen by the server and the network, and is one of three actions:
  * `ChatAnswered`: 200, with content or with null content;
  * `ChatRejected`: a status other than 200;
  * `ChatRaised`: the post or the body parsing raises.
* A reply is modelled by the request it answers. The server's answer is
  abstracted to a record that names the message list it was given, so a
  property can tell whether a stored reply answers the history before it.
* `failures` is a history variable that counts the failed calls.
* `chat()` is split at the blocking `requests.post`. `Chat` runs lines 31-61
  (`ChatSend`): it appends the user turn and records the request in
  `in_flight`. One of the three outcome actions then ends the wait. The
  split is what lets the model say that the wait may never end.

**AttributionAnalysis.**
* `Init` chooses `target_positions`: `None` (replaced by the default
  `range(max(0, seq_len-3), seq_len)`) or any list of up to `MaxPositions`
  integers from `Candidates`, negative ones included.
* `AnalyzePosition` is one iteration for a position that passes the filter.
  It either raises `IndexError` (a position below `-seq_len`) or stores the
  result of `compute_attribution_via_matrix_chain` under `position_{pos}`.
  `SkipPosition` is the filter's other branch.
* A result keeps its target, its token, and the ids of its layer dicts. The
  dicts live on `heap`, as Python objects do, so that the save's shallow
  `result.copy()` shares them with the returned results. The numerical
  content of a result is `AttributionPropagator`'s business.
* `Save` converts every reached layer vector to a list in place. Each
  compute call builds its own layer dicts, so no dict is converted twice.

**BosAnomaly.**
* `Init` chooses the forward pass over the context, one head-averaged causal
  matrix per layer. The model is deterministic, so the first decoding step,
  whose input is the context, sees the same last rows (`ForwardRows`). Later
  steps see any rows.
* `BosStep` is one iteration of the loop on lines 59-103, with no EOS stop.
  `AnalyzeDistribution` is the whole of lines 107-161.
  `VisualizeEvolution` builds the layers x steps ratio matrix of
  `visualize_bos_attention_evolution`; the drawing is left out. `Report` is
  the summary of `investigate_bos_anomaly`.
* Ratios are kept exact as numerator/denominator records.
* The model is loaded in float16 and `.cpu().numpy()` keeps that dtype, so
  the `1e-10` added before `np.log` rounds to 0. `Entropy` is therefore NaN
  for a row with a zero weight, and otherwise the multiset of the normalised
  weights, which is all the value depends on.

## Runs

| run | cfg | expect | what it shows |
|---|---|---|---|
| `attribution_safety` | `MC_AttributionPropagator.cfg` | pass | It covers every causal input of 3 tokens x 3 layers with weights in halves (157 464 states). Both methods conserve mass and never attribute to a later token (`MassConserved`, `CausalSupport`). Every top-k list is sorted by score with ties kept in position order (`TopContributorsRanked`). |
| `attribution_refinement` | `MC_AttributionRefinement.cfg` | pass | Method 1's reversed trace implements `AttributionSpec` (`AttributionRefinement`). It uses 2 layers to keep the temporal check short. |
| `composite_order` | `MC_CompositeOrder.cfg` | violation | Method 2 computes `e_t . A_0 ... A_{L-1}`, while method 1 and the trace compute `e_t . A_{L-1} ... A_0`. TLC finds three causal layers on which `final_attribution` = (0.25, 0.5, 0.25) but method 1 gives (0.5, 0.25, 0.25), so the final top contributor differs. |
| `generation_loop` | `MC_GenerationAttention.cfg` | pass | It covers every sequence of tokens and attention rows over 3 steps, 2 layers and 3 context tokens (11 980 states). Every generated token, EOS included, is recorded with its slices, and the loop ends exactly at EOS or at `max_new_tokens` (`EosEndsGeneration`). Both rankings order tokens by their own statistic, with ties in context order (`RankingsOrdered`). |
| `clean_attention` | `MC_CleanAttention.cfg` | pass | It runs both tests of the driver (1 298 states). The five-token story context makes the top 3 leave one token out. The k-th reported entry carries the k-th largest clean weight (`TopThreeAreLargest`). Each entry names the context position whose token and raw attention it shows (`TopPositionsNameContextTokens`). |
| `clean_results_unsaved` | `MC_CleanAttentionSave.cfg` | violation | The final `json.dump` raises on the numpy scalars in the first top-3 entry, so the results are never saved (`ResultsSaved`). |
| `concept_mapping` | `MC_ConceptMapping.cfg` | pass | It covers every choice of 3 token texts and two causal 3x3 layers (16 128 states). For word tokens, the key parse and strip give back the token's text (`WordTokensMapByText`). |
| `bos_anomaly` | `MC_BosAnomaly.cfg` | pass | It covers every pair of causal 3x3 layers in halves and every row of two decoding steps (15 228 states). The distribution analysis lists one entry per position, and its last entry's BOS strength is the first decoding step's BOS attention in every layer (`AnalysesAgreeOnLastPosition`). |
| `attribution_analysis` | `MC_AttributionAnalysis.cfg` | pass | It covers the default and every list of up to 3 positions from -5..4 over four tokens (5 661 states). The default analyses exactly the last three tokens, each under its own key, leaving token 0 out (`DefaultAnalysesLastTokens`). |
| `attribution_results_aliased` | `MC_AttributionAnalysisAliasing.cfg` | violation | After the save, the returned layer vectors are lists, not ndarrays (`ReturnedResultsUntouched`). |
| `openrouter_timeout` | `MC_OpenRouterTimeout.cfg` | violation | Under fairness of the caller only, a request in flight need never be answered (`ChatReturns`): nothing in the client ends the wait. |
| `openrouter_history` | `MC_OpenRouterClient.cfg` | pass | It covers four calls with any outcomes and tool-prompt assignments. Each stored reply answers exactly the system message plus the history up to its user turn (`RepliesAnswerWhatPrecedes`). The unanswered user turns, which later requests keep re-sending, are exactly the failed calls (`UnansweredTurnsAreFailures`). |

**Bounds.**
* Three positions is the smallest case where a token has both an earlier and a
  later neighbour, and where ranking ties and non-commuting causal matrices both
  occur.
* Three layers is the smallest case where reversing the trace differs from
  leaving it alone at every index. The order bug already shows with two layers,
  but three gives a middle layer.
* Halves (`Denom = 2`) already produce ties, unequal rows and matrices that do
  not commute.
* `LayerTopK = 5` and `FinalTopK = 10` are the code's values. They exceed 3, so
  the slice keeps every entry, as it does for any prompt shorter than k.
* Generation runs use three steps. That is enough for EOS to come first, in
  the middle or last, and for a loop that ends by exhaustion.
  * `GenerationAttention` uses one-hot rows (`Denom = 1`) and 2 layers, so that
    the first layer (spectrogram) and the last layer (statistics) differ. Ties
    and strict orders both occur in the rankings.
  * `CleanAttention` uses halves. The story test has one step over five
    context tokens, so the top 3 cut one entry and ties occur. The technical
    test has two steps over three tokens; its second step has a longer input
    than the context, which is where the `[:context_length]` slice matters.
    These already reach every branch of the driver.
* `ConceptMapping` covers four token texts:
  * a word with the marker;
  * a bare word;
  * the marker alone;
  * a word ending in `_`.
  The two concepts are chosen so that a token can match one concept, the
  other, or neither, and so that stripping the marker changes the result.
* `BosAnomaly` uses three context tokens, two layers, two decoding steps and
  halves. Two steps are enough for the first (context) step and a later
  one; halves give rows with and without a zero weight.
* `AttributionAnalysis` uses four tokens, one more than the default window
  of three, so a window of the wrong width or the whole range is told apart.
  The clamp at 0 for contexts shorter than three tokens is not exercised;
  the driver's context is far longer. Positions -5..4 cover a valid, a
  negative valid, an `IndexError` and a filtered position, and lists of up
  to 3 allow a position twice and `-1` next to `3`.
* Four chat calls is what the driver makes. That covers every ordering of two
  failures among answers, and a tool-prompt change between any two calls.

**Fairness.** The analysis modules have no fairness and no liveness
property. Their loops are bounded for-loops over finite lists, so every run
ends by the shape of the code; a termination property would say nothing a
mutant of the code could break. The chat client has no liveness property that
holds: `Spec` has weak fairness on `Chat` only (the driver
keeps calling), and none on the server's outcomes, because whether the server
ever answers is outside the code and the post has no timeout. The
`openrouter_timeout` run shows the consequence.

**Deadlock.** The propagator's cfgs set `CHECK_DEADLOCK FALSE`, because once
`pc = "done"` the function has returned and nothing follows. The chat run does
check deadlock: a caller can always assign the tool prompt.

## Findings

* **composite_order** (`attention_attribution_analyzer.py:117`). The composite
  product is taken in the wrong order for the target row, so method 2 and
  method 1 disagree. `final_top_contributors` and the saved summary are built
  from method 2.
* **attribution_results_aliased** (`attention_attribution_analyzer.py:221`).
  The serialisation rewrites the returned results' layer vectors into lists.
* **openrouter_timeout** (`example_openrouter.py:55`). `chat()` can block
  forever.
* **clean_results_unsaved** (`improved_attention_analyzer.py:262`). The
  top-3 tuples hold a numpy float16 weight and an int64 position, which
  `json.dump` rejects. The save raises `TypeError` after `open(..., 'w')` has
  emptied the file, and `main()` fails at its last step.

Other observations, which the models reproduce but no run states (the
project keeps its violation runs to the four above):
* `attention_heatmap_experiment.py:121` (repeated at v1 `:176`): a
  standalone-space token or one ending in `_` parses to `''`, which is a
  substring of every concept, so its attention is credited to all of them.
  The drivers never reach this code (see below).
* `attention_attribution_analyzer.py:141,154`: the evolution heatmap labels
  column *c* with the *c*-th top contributor but fills it with position *c*'s
  attribution, so values sit under the wrong tokens whenever the final
  ranking is not in position order.
* `improved_attention_analyzer.py:91,158`: with a one-token context the code
  keeps token 0 but still reports positions as `i+1` (past the context), and
  `visualize_clean_attention_flow` writes a one-entry vector into a
  zero-width row and raises `ValueError`.
* `improved_attention_analyzer.py:83`: the renormalisation has no zero
  guard; when a step's attention beyond token 0 is all zero the clean vector
  and its top 3 are NaN.
* `attention_anomaly_analyzer.py:147`: the `1e-10` meant to keep `np.log`
  finite is 0 in float16, so the saved entropy of a position with a zero
  weight is NaN.
* `attention_attribution_analyzer.py:201`: `spec.md` says a position outside
  `[0, N)` is an `InvalidPositionError`; the code analyses a negative
  position from the end (returning `target_position` -2 for -2) or raises
  `IndexError` below `-seq_len`.
* The two heatmap drivers each call the extraction method the *other* file
  defines, so both stop with `AttributeError` at their first step:
  * `attention_heatmap_experiment_v1.py:257` calls `extract_attention_weights`;
  * `attention_heatmap_experiment.py:275` calls `extract_generation_attention`.
  The LOD decisions after line 275 are therefore never reached.
* The error cases in `spec.md` (shape mismatch, invalid position, empty input)
  are not implemented. With no layers, the code returns the one-hot vector.
* A null `content` is stored and re-sent.

## Not modelled

* Model loading, tokenization and the forward pass are an external model. They
  appear only through the attention values they can produce.
* Plotting and `savefig` are pure output. `json.dump` is modelled only by
  whether it accepts the data (`CleanAttention.Save`).
* Float rounding other than the float16 underflow of the entropy's epsilon.
* The LOD decisions in `attention_heatmap_experiment.py` come after the
  call that fails, so they are never reached.
* Decoding tokens to readable text, the text report, and all plotting
  only format data the models already hold.

## Plan

Done in the first sitting, in order of importance:
1. AttributionPropagator, with its abstract spec.
2. OpenRouterClient.
3. GenerationAttention.
4. CleanAttention.
5. ConceptMapping.

Done in the second sitting: AttributionAnalysis, BosAnomaly, the in-flight
split of `chat()` with its liveness property.

Done in the third sitting: the `run_comprehensive_test` driver with its
save (and the `clean_results_unsaved` finding), and the BOS evolution
matrix. The token-text run was
dropped to keep the number of runs small; its observation is kept above.

Done in the fourth sitting: the failure branch of the dynamic-pattern
analysis. The properties that held by the shape of the model were removed:
the termination properties of the propagator and of the clean-attention
driver, the normalisation range of the heatmaps, the BOS summary against
the evolution matrix, the save's single conversion per layer dict, and the
non-empty series of the dynamic-pattern analysis (implied by
`EosEndsGeneration`). `DefaultAnalysesLastTokens` is now checked on four
tokens, where the window of three is a real cut.

Not pursued, and why:
* **A refinement for CleanAttention.** Its abstract spec would be "each step
  records the top 3 of the context minus token 0". `TopThreeAreLargest` and
  `TopPositionsNameContextTokens` already state exactly that, step by step.
* **Liveness of the generation loops.** Every loop is bounded by its
  `step < MaxNewTokens` guard, so every behaviour is finite by construction.
* **`max_new_tokens = 0`**, where the dynamic-pattern analysis raises on an
  empty series: the driver passes 15, and the value 0 would need its own
  violation run.
* **More violation runs** (the evolution heatmap's labels, the one-token
  context, the NaN clean vector and entropy, negative target positions).
  The project keeps to twelve runs, and these stay observations above.
