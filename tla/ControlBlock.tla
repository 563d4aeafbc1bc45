---------------------------- MODULE ControlBlock ----------------------------
(***************************************************************************)
(* The 64-bit control block of a slot (engine/include/node.hh): state, ref *)
(* bit, payload length and virtual offset packed in one word, so that the  *)
(* four change together in one compare-and-swap.  A control word is a      *)
(* record here; the two fields that PackControl masks keep their widths,   *)
(* as moduli: LENMOD stands for 2^24 and OFFMOD for 2^37.                  *)
(***************************************************************************)
EXTENDS Integers

CONSTANTS LENMOD, OFFMOD

ASSUME WidthAssumption == LENMOD \in Nat \ {0} /\ OFFMOD \in Nat \ {0}

(* The longest payload whose length survives PackControl. *)
MAX_PAYLOAD_LENGTH == LENMOD - 1

NodeState == {"DEAD", "PENDING", "READY", "MIGRATING"}
EvictState == {"COLD", "HOT"}

UnpackedControl == [state  : NodeState,
                    ref    : EvictState,
                    length : 0 .. LENMOD - 1,
                    offset : 0 .. OFFMOD - 1]

(* The fields are shifted into place without their masks.                  *)
PackControl_Unmasked(state, ref_bit, length, offset) ==
  [state  |-> state,
   ref    |-> ref_bit,
   length |-> length,
   offset |-> offset]

PackControl(state, ref_bit, length, offset) ==
  [state  |-> state,
   ref    |-> ref_bit,
   length |-> length % LENMOD,
   offset |-> offset % OFFMOD]

(* control_block.store(0) in the constructor of the arena. *)
ZeroControl == PackControl("DEAD", "COLD", 0, 0)
=============================================================================
