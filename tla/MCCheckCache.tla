---------------------------- MODULE MCCheckCache ----------------------------
(* Small instances of CheckCache for TLC.  Prompts p and q mean different  *)
(* things; a vector is closest to the prompt it was made of.               *)
EXTENDS CheckCache, TLC

CONSTANTS r1, r2, p, q

Scores ==
  [x \in Prompts |-> [v \in Prompts \cup {NoPrompt} |->
    IF x = v THEN 1 ELSE 0]]

MinusOne == -1

(* Requests are alike, and so are prompts that Scores does not tell apart. *)
Symmetry ==
  Permutations(Requests) \cup
  {f \in Permutations(Prompts) :
     \A x, v \in Prompts : Scores[f[x]][f[v]] = Scores[x][v]}
=============================================================================
