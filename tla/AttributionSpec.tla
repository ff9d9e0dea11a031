--------------------------- MODULE AttributionSpec ---------------------------
(***************************************************************************)
(* What the layer-by-layer attribution promises, stated without the loop: *)
(* for a target position t and layers A_0 .. A_{L-1}, the entry for layer *)
(* l of the trace is the attribution of t pushed back from the output     *)
(* through layers L-1, L-2, .. , l, that is                               *)
(*     OneHot(t) . A_{L-1} . A_{L-2} . ... . A_l                          *)
(* and the trace lists these entries from layer 0 to layer L-1.  The whole *)
(* trace appears in one step; the detailed AttributionPropagator is shown  *)
(* to implement this under a refinement mapping.                          *)
(***************************************************************************)
EXTENDS Integers, Sequences

CONSTANTS SeqLen, NumLayers, Denom

ASSUME NumLayers \in Nat \ {0}

LOCAL Alg == INSTANCE AttentionAlgebra

VARIABLES
  attention_matrices,   \* the L head-averaged layer matrices
  target_position,      \* the position whose attribution is traced
  trace                 \* <<>> until the result exists, then L vectors

vars == <<attention_matrices, target_position, trace>>

Layers == 0 .. NumLayers - 1

\* The attribution of t after pushing it back through layers L-1 .. l.
RECURSIVE PushedBack(_, _, _)
PushedBack(A, t, l) ==
  IF l = NumLayers THEN Alg!OneHot(t)
  ELSE Alg!VecMat(PushedBack(A, t, l + 1), A[l])

BackwardTrace(A, t) == [i \in 1 .. NumLayers |-> PushedBack(A, t, i - 1)]

Init ==
  /\ attention_matrices \in [Layers -> Alg!AttentionMatrix]
  /\ target_position \in Alg!Pos
  /\ trace = <<>>

Attribute ==
  /\ trace = <<>>
  /\ trace' = BackwardTrace(attention_matrices, target_position)
  /\ UNCHANGED <<attention_matrices, target_position>>

Spec == Init /\ [][Attribute]_vars

=============================================================================
