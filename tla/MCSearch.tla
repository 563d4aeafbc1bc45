------------------------------ MODULE MCSearch ------------------------------
(* Small instances of Search for TLC.  Prompts p and p2 are worded         *)
(* differently and mean the same (their cosine is 0.93), q means something *)
(* else, and the model makes no usable tensor of short and wide.           *)
EXTENDS Search, TLC

CONSTANTS r1, r2, p, p2, q, short, wide

Even(j) == j % 2 = 0

Dim(x) == IF x = wide THEN VECTOR_DIM + 1 ELSE VECTOR_DIM

Row(x) ==
  [j \in 0 .. Dim(x) - 1 |->
     CASE x = p  -> IF j >= 32 THEN 1 ELSE IF Even(j) THEN 3 ELSE 2
       [] x = p2 -> IF j >= 32 THEN 1 ELSE IF Even(j) THEN 2 ELSE 3
       [] x = q  -> IF j >= 32 THEN IF Even(j) THEN 1 ELSE -1
                    ELSE IF j < 16 THEN 3 ELSE -3
       [] OTHER  -> 0]

Tensor(x) ==
  [batch |-> 1, length |-> IF x = short THEN 0 ELSE IF x = p THEN 2 ELSE 1,
   dim |-> Dim(x),
   rows |-> [i \in 0 .. 1 |-> Row(x)]]

Sent == {p, p2, q, short, wide}
Texts == [x \in Sent |-> x]
Tensors == [x \in Sent |-> Tensor(x)]

MinusOne == -SCALE

(* The prompts that each request may be for.                               *)
Asked == local[r1].prompt # p2 /\ local[r2].prompt # p

(* The two requests are alike, each with its prompt: Scores gives p and p2 *)
(* the same.                                                               *)
Symmetry == {r1 :> r2 @@ r2 :> r1 @@ p :> p2 @@ p2 :> p}
=============================================================================
