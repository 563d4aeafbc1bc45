----------------------------- MODULE SlotStore -----------------------------
(***************************************************************************)
(* What the vector engine promises of its slots, whatever the arena does   *)
(* to keep the promise: a slot is free, reserved for one pioneer, or       *)
(* filled with a payload, and the payload of a filled slot is the one it   *)
(* was filled with until the slot is dropped.  Where the payload lies, and *)
(* whether it is hot, cannot be seen.                                      *)
(***************************************************************************)
CONSTANTS
  Slots,
  Values,
  NoValue  \* of a slot that is not filled

VARIABLE slot

Free == [state |-> "free", value |-> NoValue]
Reserved == [state |-> "reserved", value |-> NoValue]
Filled(v) == [state |-> "filled", value |-> v]

Init == slot = [s \in Slots |-> Free]

Becomes(s, from, to) == slot[s] = from /\ slot' = [slot EXCEPT ![s] = to]

Take(s) == Becomes(s, Free, Reserved)
Release(s) == Becomes(s, Reserved, Free)
Fill(s, v) == Becomes(s, Reserved, Filled(v))
Drop(s, v) == Becomes(s, Filled(v), Free)

Step == \E s \in Slots :
          \/ Take(s)
          \/ Release(s)
          \/ \E v \in Values : Fill(s, v) \/ Drop(s, v)

(* Said first, as most steps of what implements a store change none of it. *)
Next == slot' # slot /\ Step

Spec == Init /\ [][Next]_slot
=============================================================================
