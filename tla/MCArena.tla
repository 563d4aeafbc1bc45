------------------------------ MODULE MCArena ------------------------------
(* Small instances of Arena for TLC: two slots, one or two writers, at     *)
(* most one reader.                                                        *)
EXTENDS Torn, TLC

CONSTANTS n1, n2, w1, w2, r1

Symmetry == Permutations(Nodes) \cup Permutations(Writers)
=============================================================================
