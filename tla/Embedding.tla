------------------------------ MODULE Embedding ------------------------------
(***************************************************************************)
(* How a prompt becomes a vector (engine/src/embedder.cc) and two vectors  *)
(* a score (engine/include/avx_math.hh).                                   *)
(*                                                                         *)
(* The inference model is external: it turns the text of a prompt into a   *)
(* tensor, a row of numbers for each token.  Numbers are integers here, in *)
(* a unit of the reader's choice.  A vector is kept before it is divided   *)
(* by its length, which changes no angle, and the score of two vectors is  *)
(* the square of the cosine between them, with its sign and in units of    *)
(* 1 / SCALE: it orders vectors as the cosine does.                        *)
(***************************************************************************)
EXTENDS Integers

CONSTANTS
  AllPrompts,   \* what clients may send
  Text,         \* Text[p]: the bytes of p before its first NUL
  Model,        \* Model[t]: the tensor of a text: batch, length, dim and rows
  VECTOR_DIM,
  MIN_SUM_SQ,   \* 1e-9f
  SCALE,
  NoVector

ASSUME EmbeddingAssumption ==
  /\ \A p \in AllPrompts : Text[p] \in DOMAIN Model
  /\ VECTOR_DIM \in Nat \ {0} /\ VECTOR_DIM % 32 = 0
  /\ SCALE \in Nat \ {0}
  /\ \A t \in DOMAIN Model :
       /\ Model[t].length \in Nat /\ Model[t].dim \in Nat
       /\ \A i \in 0 .. Model[t].length - 1, j \in 0 .. Model[t].dim - 1 :
            Model[t].rows[i][j] \in Int

Dims == 0 .. VECTOR_DIM - 1

(* The sum of f[0] .. f[n - 1], as a loop adds it up.                      *)
Total(f, n) ==
  LET sum[i \in 0 .. n] == IF i = 0 THEN 0 ELSE sum[i - 1] + f[i - 1] IN sum[n]

-----------------------------------------------------------------------------
(* CosineSimilarity.                                                       *)

(* The last group of every accumulator is left out.                        *)
Accumulator_Short(query, node_vector, s) ==
  [lane \in 0 .. 7 |->
     LET At(i) == 32 * i + 8 * s + lane IN
     Total([i \in 0 .. (VECTOR_DIM \div 32) - 1 |->
              query[At(i)] * node_vector[At(i)]],
           (VECTOR_DIM \div 32) - 1)]

(* What accumulator s of four has in each of its eight lanes: every fourth *)
(* group of eight products.                                                *)
Accumulator(query, node_vector, s) ==
  [lane \in 0 .. 7 |->
     LET At(i) == 32 * i + 8 * s + lane IN
     Total([i \in 0 .. (VECTOR_DIM \div 32) - 1 |->
              query[At(i)] * node_vector[At(i)]],
           VECTOR_DIM \div 32)]

(* The halves of the register are added, then neighbours, twice.           *)
HorizontalSum(v) ==
  LET sum_128 == [k \in 0 .. 3 |-> v[k] + v[k + 4]]
  IN (sum_128[0] + sum_128[1]) + (sum_128[2] + sum_128[3])

CosineSimilarity(query, node_vector) ==
  LET sum == [s \in 0 .. 3 |-> Accumulator(query, node_vector, s)]
  IN HorizontalSum([lane \in 0 .. 7 |->
       (sum[0][lane] + sum[1][lane]) + (sum[2][lane] + sum[3][lane])])

(* Where there is no AVX.                                                  *)
CosineSimilarity_Scalar(query, node_vector) ==
  Total([i \in Dims |-> query[i] * node_vector[i]], VECTOR_DIM)

-----------------------------------------------------------------------------
(* Encode.                                                                 *)

SumSq(v) == Total([i \in Dims |-> v[i] * v[i]], VECTOR_DIM)

(* The mean over the tokens, times their number.                           *)
Pooled(tensor) ==
  [j \in Dims |->
     Total([i \in 0 .. tensor.length - 1 |-> tensor.rows[i][j]], tensor.length)]

(* Encode throws when the tensor is not one row of VECTOR_DIM for each     *)
(* token of one text, and when the mean is too short to be normalised.     *)
Encode(p) ==
  LET tensor == Model[Text[p]] IN
  IF \/ tensor.batch # 1
     \/ tensor.length = 0
     \/ tensor.dim # VECTOR_DIM
  THEN NoVector
  ELSE IF SumSq(Pooled(tensor)) < MIN_SUM_SQ * tensor.length * tensor.length
       THEN NoVector
       ELSE Pooled(tensor)

Encodable == {p \in AllPrompts : Encode(p) # NoVector}

(* The zero vector, which slots have before their first tenant, is not     *)
(* divided: its product with any vector is 0.                              *)
ScoreOf(u, v) ==
  LET dot == CosineSimilarity(u, v)
      cos_sq == (SCALE * dot * dot) \div (SumSq(u) * SumSq(v))
  IN IF dot = 0 THEN 0 ELSE IF dot > 0 THEN cos_sq ELSE -cos_sq

=============================================================================
