-------------------------------- MODULE Torn --------------------------------
(***************************************************************************)
(* The garbage collector among bytes that are no header.  Nothing keeps it *)
(* from an entry that was reserved and is being written: the twelve bytes  *)
(* of its header are copied by a memcpy, so that the identifier may be     *)
(* there already and the slot and the length still be what lay there       *)
(* before.  And a text may hold the identifier's four bytes: a collector   *)
(* that has lost its place and goes byte by byte takes them for a header.  *)
(* Whatever follows is then a length, up to 2^32.                          *)
(*                                                                         *)
(* The code reads metadata[node_id] of any node_id.  Here it is a slot; a  *)
(* number beyond the slots names memory that is none, and almost any word  *)
(* there is stale, which a stale slot stands for.                          *)
(***************************************************************************)
EXTENDS Arena

CONSTANTS
  Garbage,  \* lengths that bytes which are no header may give
  MaxTail   \* bound: the last place of the tail

ASSUME GarbageAssumption == Garbage \subseteq Nat /\ MaxTail \in Nat

(* A writer is copying a header to where the collector stands.             *)
HeaderUnderWay ==
  \E w \in Writers : pc[w] = "header" /\ At(offset[w]) = At(read_tail)

GcReadGarbage ==
  /\ GcAtWork
  /\ Padding(read_tail) = 0
  /\ HeaderUnderWay \/ buffer[At(read_tail)].kind = "text"
  /\ \E n \in Nodes, len \in Garbage :
       /\ node' = [node EXCEPT ![GC] = n]
       /\ length' = [length EXCEPT ![GC] = len]
  /\ Goto(GC, "load")
  /\ UNCHANGED <<ring, control, curr_write, offset, seen, out>>

AnyHeader == Next \/ (Alive /\ GcReadGarbage)

TornNext == AnyHeader /\ read_tail <= MaxTail

TornSpec == Init /\ [][TornNext]_vars
=============================================================================
