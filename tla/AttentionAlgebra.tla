-------------------------- MODULE AttentionAlgebra --------------------------
(***************************************************************************)
(* The numeric primitives the attention scripts apply to head-averaged    *)
(* attention matrices: one-hot and identity construction and the two     *)
(* numpy products (row vector times matrix, matrix times matrix).        *)
(*                                                                         *)
(* Floating point is abstracted to exact integers over a common           *)
(* denominator: a row-stochastic matrix has non-negative integer entries  *)
(* whose rows sum to Denom, so a vector after k products carries total    *)
(* mass Denom^k where the code's carries 1.                               *)
(***************************************************************************)
EXTENDS Integers, Functions

CONSTANTS
  SeqLen,   \* number of token positions (seq_len)
  Denom     \* common denominator of the attention weights

ASSUME SeqLen \in Nat \ {0}
ASSUME Denom \in Nat \ {0}

Pos == 0 .. SeqLen - 1

\* np.zeros(seq_len) with a 1.0 at position t.
OneHot(t) == [j \in Pos |-> IF j = t THEN 1 ELSE 0]

\* np.eye(seq_len).
Identity == [i \in Pos |-> OneHot(i)]

\* np.dot(v, A) for a 1-D v: the row vector v times the matrix A.
VecMat(v, A) == [j \in Pos |-> SumFunction([i \in Pos |-> v[i] * A[i][j]])]

\* np.dot(A, B) for two 2-D arrays.
MatMul(A, B) ==
  [i \in Pos |-> [j \in Pos |-> SumFunction([k \in Pos |-> A[i][k] * B[k][j]])]]

(***************************************************************************)
(* A head-averaged layer matrix, np.mean(layer_att, axis=0): the mean of   *)
(* causal softmax rows is again causal (zero above the diagonal) and      *)
(* row-stochastic, so these are exactly the matrices the model can hand   *)
(* the analyser, up to the denominator.                                   *)
(***************************************************************************)
CausalRow(i) ==
  {r \in [Pos -> 0 .. Denom] :
      /\ SumFunction(r) = Denom
      /\ \A j \in Pos : j > i => r[j] = 0}

AttentionMatrix ==
  {m \in [Pos -> CausalRow(SeqLen - 1)] :
      \A i \in Pos : m[i] \in CausalRow(i)}

=============================================================================
