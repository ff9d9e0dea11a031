---------------------------- MODULE CleanAttention ----------------------------
(***************************************************************************)
(* ImprovedAttentionAnalyzer (improved_attention_analyzer.py).             *)
(* extract_clean_generation_attention decodes greedily.  At every step it *)
(* takes the first layer's head-averaged attention of the last input      *)
(* position to the context, drops token 0 and renormalises the rest when  *)
(* the context has more than one token, and keeps the top 3 of the result *)
(* with their positions in the context.  visualize_clean_attention_flow  *)
(* then draws the clean vectors as a steps x (context minus token 0)     *)
(* matrix.  run_comprehensive_test runs the two on a story context, then *)
(* writes the readable report, runs them again on a technical context and *)
(* saves both results with json.dump.                                     *)
(*                                                                         *)
(* The forward pass is the environment: a next token, and a last row that *)
(* is a distribution over the current input in integers summing to Denom. *)
(* A clean vector is kept as numerators over one denominator, the mass it *)
(* was divided by; a denominator 0 is the NaN vector numpy yields for 0/0 *)
(* (the rest of the row can be 0 in float16 when the first token takes    *)
(* all of the attention).                                                  *)
(***************************************************************************)
EXTENDS Integers, FiniteSets, Sequences, SequencesExt, Functions

CONSTANTS
  StoryContext,        \* the tokenized create_story_continuation_test()
  TechContext,         \* the tokenized create_technical_context_test()
  StoryMaxNewTokens,   \* max_new_tokens of the story test (12 in the code)
  TechMaxNewTokens,    \* max_new_tokens of the technical test (10)
  Vocab,               \* tokens the model may emit
  EOS,                 \* tokenizer.eos_token_id, a member of Vocab
  Denom                \* common denominator of attention weights

ASSUME EOS \in Vocab
ASSUME {StoryMaxNewTokens, TechMaxNewTokens} \subseteq Nat \ {0}
ASSUME Len(StoryContext) > 0 /\ Len(TechContext) > 0

VARIABLES
  test,               \* the test run_comprehensive_test is in
  story_data,         \* what the save needs of story_data (see StorySummary)
  input_ids,          \* the tokens fed to the model
  step,               \* the loop variable
  generated_tokens,   \* generation_data["generated_tokens"]
  generation_steps,   \* generation_data["generation_steps"]
  flow_matrix,        \* the matrix visualize_clean_attention_flow fills
  pc

vars == <<test, story_data, input_ids, step, generated_tokens, generation_steps,
          flow_matrix, pc>>

\* Lines 234 and 245: the two calls of extract_clean_generation_attention.
Tests ==
  [story     |-> [context |-> StoryContext, max_new_tokens |-> StoryMaxNewTokens],
   technical |-> [context |-> TechContext, max_new_tokens |-> TechMaxNewTokens]]

ContextTokens == Tests[test].context
MaxNewTokens  == Tests[test].max_new_tokens

context_length == Len(ContextTokens)

\* The last row of the first layer's head-averaged attention over n positions.
LastRow(n) == {r \in [0 .. n - 1 -> 0 .. Denom] : SumFunction(r) = Denom}

\* Mutant: the whole last row, first_layer_att[:, -1, :], kept as the slice.
ContextSliceWholeRow(r) == r

\* first_layer_att[:, -1, :context_length], after the mean over heads.
ContextSlice(r) == [j \in 0 .. context_length - 1 |-> r[j]]

(***************************************************************************)
(* Lines 81-87: avg_attention[1:] / np.sum(avg_attention[1:]) with the    *)
(* tokens context_tokens[1:], or the slice and tokens unchanged for a      *)
(* context of one token.                                                   *)
(***************************************************************************)
CleanAttention(avg) ==
  IF context_length > 1
  THEN LET rest == [i \in 0 .. context_length - 2 |-> avg[i + 1]]
       IN  [num |-> rest, den |-> SumFunction(rest)]
  ELSE [num |-> avg, den |-> Denom]

CleanContextTokens ==
  IF context_length > 1 THEN Tail(ContextTokens) ELSE ContextTokens

Width(clean) == Cardinality(DOMAIN clean.num)

\* The orders np.argsort can return: indices in ascending order of weight.
\* Ties come out in an order the sort does not promise; every entry is
\* NaN, and all orders are possible, when the denominator is 0.
ArgsortOrders(clean) ==
  {o \in [1 .. Width(clean) -> DOMAIN clean.num] :
     /\ ToSet(o) = DOMAIN clean.num
     /\ clean.den # 0 =>
          \A k \in 1 .. Width(clean) - 1 : clean.num[o[k]] <= clean.num[o[k + 1]]}

\* Mutant: np.argsort(clean)[:3], the three smallest.
Top3Smallest(clean, o) ==
  LET n == Width(clean)
      m == IF n < 3 THEN n ELSE 3
  IN  [k \in 1 .. m |->
         [token |-> CleanContextTokens[o[k] + 1], weight |-> clean.num[o[k]], pos |-> o[k] + 1]]

\* Mutant: the position reported as the index into the clean vector.
Top3Unshifted(clean, o) ==
  LET n == Width(clean)
      m == IF n < 3 THEN n ELSE 3
  IN  [k \in 1 .. m |->
         [token |-> CleanContextTokens[o[n - k + 1] + 1], weight |-> clean.num[o[n - k + 1]],
          pos |-> o[n - k + 1]]]

(***************************************************************************)
(* Lines 90-92: np.argsort(clean)[-3:][::-1], the three largest, largest  *)
(* first, each as (clean_context_tokens[i], clean_attention[i], i+1).      *)
(***************************************************************************)
Top3(clean, o) ==
  LET n == Width(clean)
      m == IF n < 3 THEN n ELSE 3
  IN  [k \in 1 .. m |->
         [token |-> CleanContextTokens[o[n - k + 1] + 1], weight |-> clean.num[o[n - k + 1]],
          pos |-> o[n - k + 1] + 1]]

\* The start of an extraction call (lines 45-60) on the test's context.
StartExtraction(t) ==
  /\ test' = t
  /\ input_ids' = Tests[t].context
  /\ step' = 0
  /\ generated_tokens' = <<>>
  /\ generation_steps' = <<>>
  /\ flow_matrix' = <<>>
  /\ pc' = "loop"

Init ==
  /\ test = "story"
  /\ story_data = "none"
  /\ input_ids = ContextTokens
  /\ step = 0
  /\ generated_tokens = <<>>
  /\ generation_steps = <<>>
  /\ flow_matrix = <<>>
  /\ pc = "loop"

(***************************************************************************)
(* One iteration of the loop (lines 62-127): the forward pass, the argmax *)
(* token, the clean attention and its top 3, both appends, the torch.cat *)
(* onto input_ids and the EOS break.  Decoding tokens to readable text    *)
(* (lines 95-105) only changes how they are printed and is left out.      *)
(***************************************************************************)
GenerateStep ==
  /\ pc = "loop"
  /\ step < MaxNewTokens
  /\ \E next_token \in Vocab, row \in LastRow(Len(input_ids)) :
       LET avg   == ContextSlice(row)
           clean == CleanAttention(avg)
       IN  \E o \in ArgsortOrders(clean) :
             /\ generation_steps' = Append(generation_steps,
                   [step |-> step, generated_token |-> next_token,
                    raw_attention |-> avg, clean_attention |-> clean,
                    top3_related_tokens |-> Top3(clean, o)])
             /\ generated_tokens' = Append(generated_tokens, next_token)
             /\ input_ids' = Append(input_ids, next_token)
             /\ step' = step + 1
             /\ pc' = IF next_token = EOS THEN "extracted" ELSE "loop"
  /\ UNCHANGED <<test, story_data, flow_matrix>>

LoopExhausted ==
  /\ pc = "loop"
  /\ step = MaxNewTokens
  /\ pc' = "extracted"
  /\ UNCHANGED <<test, story_data, input_ids, step, generated_tokens, generation_steps,
                 flow_matrix>>

(***************************************************************************)
(* visualize_clean_attention_flow (lines 143-158): a steps x              *)
(* len(context_tokens[1:]) matrix whose row s gets clean_attention of     *)
(* step s in its first len(clean_attention) columns.  numpy raises when   *)
(* the clean vector is wider than the row.                                *)
(***************************************************************************)
FlowWidth == context_length - 1

VisualizeFlow ==
  /\ pc = "extracted"
  /\ IF \A s \in DOMAIN generation_steps :
          Width(generation_steps[s].clean_attention) <= FlowWidth
     THEN /\ flow_matrix' = [s \in DOMAIN generation_steps |->
                               generation_steps[s].clean_attention]
          /\ pc' = "visualized"
     ELSE /\ pc' = "raised"
          /\ UNCHANGED flow_matrix
  /\ UNCHANGED <<test, story_data, input_ids, step, generated_tokens, generation_steps>>

(***************************************************************************)
(* json.dump (lines 251-262) encodes str, int, float, lists, tuples and    *)
(* dicts, and raises TypeError on anything else.  raw_attention and        *)
(* clean_attention went through .tolist(), but every top-3 entry is        *)
(* (token, clean_attention[i], i+1): a numpy float16 and a numpy int64,    *)
(* neither of which the encoder accepts.  A step's data is serialisable    *)
(* exactly when its top-3 list is empty.                                   *)
(***************************************************************************)
JsonSerialisable(steps) ==
  \A s \in DOMAIN steps : steps[s].top3_related_tokens = <<>>

\* Of story_data, the save only tells apart whether json.dump accepts it.
StorySummary == IF JsonSerialisable(generation_steps) THEN "json" ELSE "numpy"

\* Lines 239-245: the story report (a text file), then the technical test.
ReportAndStartTechnical ==
  /\ pc = "visualized"
  /\ test = "story"
  /\ story_data' = StorySummary
  /\ StartExtraction("technical")

\* Lines 250-265: open(..., "w"), then json.dump of both tests' data.
Save ==
  /\ pc = "visualized"
  /\ test = "technical"
  /\ pc' = IF story_data = "json" /\ JsonSerialisable(generation_steps)
            THEN "returned" ELSE "save_raised"
  /\ UNCHANGED <<test, story_data, input_ids, step, generated_tokens, generation_steps,
                 flow_matrix>>

Next == GenerateStep \/ LoopExhausted \/ VisualizeFlow \/ ReportAndStartTechnical \/ Save

Spec == Init /\ [][Next]_vars

-----------------------------------------------------------------------------
TypeOK ==
  /\ input_ids \in Seq(Vocab \cup ToSet(ContextTokens))
  /\ step \in 0 .. MaxNewTokens
  /\ generated_tokens \in Seq(Vocab)
  /\ \A s \in DOMAIN generation_steps :
        /\ generation_steps[s].raw_attention \in [0 .. context_length - 1 -> 0 .. Denom]
        /\ Len(generation_steps[s].top3_related_tokens) <= 3
  /\ test \in {"story", "technical"}
  /\ story_data \in {"none", "json", "numpy"}
  /\ pc \in {"loop", "extracted", "visualized", "raised", "returned", "save_raised"}

(***************************************************************************)
(* The report's "most related context tokens": at every step whose clean  *)
(* attention is a number, the k-th entry of the top-3 list carries the    *)
(* k-th largest clean weight, for as many entries as there are (up to 3). *)
(* np.argsort is ascending, so the code depends on taking its last three  *)
(* and reversing them.                                                    *)
(***************************************************************************)
TopThreeAreLargest ==
  \A s \in DOMAIN generation_steps :
    LET clean == generation_steps[s].clean_attention
        top   == generation_steps[s].top3_related_tokens
        Above(x)   == Cardinality({i \in DOMAIN clean.num : clean.num[i] > x})
        AtLeast(x) == Cardinality({i \in DOMAIN clean.num : clean.num[i] >= x})
    IN  clean.den # 0 =>
          /\ Len(top) = IF Width(clean) < 3 THEN Width(clean) ELSE 3
          /\ \A k \in DOMAIN top : Above(top[k].weight) < k /\ AtLeast(top[k].weight) >= k

(***************************************************************************)
(* Every (token, weight, pos) reported names a position of the context:   *)
(* the context token at pos is the token shown, and the weight is that    *)
(* position's raw first-layer attention scaled by the renormalisation.    *)
(* The i+1 is right only because token 0 was removed; a context of one    *)
(* token keeps it.                                                        *)
(***************************************************************************)
TopPositionsNameContextTokens ==
  \A s \in DOMAIN generation_steps :
    \A k \in DOMAIN generation_steps[s].top3_related_tokens :
      LET e == generation_steps[s].top3_related_tokens[k] IN
        /\ e.pos \in 0 .. context_length - 1
        /\ ContextTokens[e.pos + 1] = e.token
        /\ e.weight = generation_steps[s].raw_attention[e.pos]

(***************************************************************************)
(* run_comprehensive_test saves the results of both tests: the json.dump  *)
(* of line 262 does not raise.                                             *)
(***************************************************************************)
ResultsSaved == pc # "save_raised"

=============================================================================
