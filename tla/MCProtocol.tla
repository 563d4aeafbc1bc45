----------------------------- MODULE MCProtocol -----------------------------
(* Instance of Protocol: an int32 has 4 bits, a varint 6, in up to three   *)
(* groups of 2.  Another encoder sends fields twice, with their defaults,  *)
(* too wide, of a wrong wire type, or unknown ones.                        *)
EXTENDS Protocol, TLC

CONSTANTS a, b

Varint(k, u) == [number |-> k, wire |-> "varint", value |-> u]
Bytes(k, n)  == [number |-> k, wire |-> "bytes", value |-> n]

ForeignItems ==
  {Varint(1, 17), Varint(1, 0), Varint(2, 63), Varint(4, 2),
   Bytes(1, 5), Bytes(2, 0), Bytes(3, 5)}

SomeValues == {-1, 0}

Symmetry == Permutations(Objects)
=============================================================================
