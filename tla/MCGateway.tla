------------------------------ MODULE MCGateway ------------------------------
(* Small instances of Gateway for TLC.                                     *)
EXTENDS Gateway, TLC

CONSTANTS r1, r2, r3, s1, s2, p, q, w1

Symmetry == Permutations(Requests) \cup Permutations(Slots)
=============================================================================
