---------------------------- MODULE ArenaProofs ----------------------------
(***************************************************************************)
(* The invariants of Arena that hold whatever the threads do, for every    *)
(* number of slots, writers and readers and every ring: TypeOK, RingBounds *)
(* and ReservationsDisjoint; the last also when the collector takes any    *)
(* bytes for a header (Torn).                                              *)
(***************************************************************************)
EXTENDS Torn, TLAPS

-----------------------------------------------------------------------------
(* Facts about the operators of the ring.                                  *)

(* A remainder is smaller than the modulus.                                *)
LEMMA ModRange ==
  ASSUME NEW a \in Int, NEW b \in Nat \ {0}
  PROVE  a % b \in 0 .. b - 1
  OBVIOUS

(* An index computed from a virtual offset lies in the buffer.             *)
LEMMA AtIndex ==
  ASSUME NEW v \in Int
  PROVE  At(v) \in Index
  BY ModRange, SizeAssumption DEF At, Index

(* PackControl makes a control word of any length and any offset.          *)
LEMMA PackControlType ==
  ASSUME NEW s \in NodeState, NEW r \in EvictState,
         NEW len \in Nat, NEW o \in Nat
  PROVE  PackControl(s, r, len, o) \in UnpackedControl
  <1>1. len % LENMOD \in 0 .. LENMOD - 1
    BY ModRange, WidthAssumption
  <1>2. o % OFFMOD \in 0 .. OFFMOD - 1
    BY ModRange, WidthAssumption
  <1> QED BY <1>1, <1>2 DEF PackControl, UnpackedControl

(* The padding is shorter than a header.                                   *)
LEMMA PaddingBound ==
  ASSUME NEW v \in Nat
  PROVE  Padding(v) \in 0 .. HDR - 1
  BY AtIndex, SizeAssumption DEF Padding, Index

(* Overwriting cells with cells leaves a buffer of cells.                  *)
LEMMA OverwrittenIn ==
  ASSUME NEW Cells, buffer \in [Index -> Cells],
         NEW v \in Int, NEW len \in Nat, NEW new \in [0 .. len - 1 -> Cells]
  PROVE  Overwritten(v, len, new) \in [Index -> Cells]
  <1> SUFFICES ASSUME NEW i \in Index, Steps(v, i) < len
               PROVE  new[Steps(v, i)] \in Cells
    BY DEF Overwritten
  <1>1. i - v \in Int
    BY SizeAssumption DEF Index
  <1>2. Steps(v, i) \in 0 .. BUFFER - 1
    BY <1>1, ModRange, SizeAssumption DEF Steps
  <1> QED BY <1>2, SizeAssumption

LEMMA OverwrittenType ==
  ASSUME buffer \in [Index -> Cell],
         NEW v \in Int, NEW len \in Nat, NEW new \in [0 .. len - 1 -> Cell]
  PROVE  Overwritten(v, len, new) \in [Index -> Cell]
  BY OverwrittenIn

(* Whatever is copied out of the buffer is cells.                          *)
LEMMA SliceIn ==
  ASSUME NEW Cells, buffer \in [Index -> Cells], NEW v \in Int, NEW len \in Nat
  PROVE  Slice(v, len) \in [0 .. len - 1 -> Cells]
  <1> SUFFICES ASSUME NEW k \in 0 .. len - 1
               PROVE  buffer[At(v + k)] \in Cells
    BY DEF Slice
  <1> QED BY AtIndex

LEMMA SliceType ==
  ASSUME buffer \in [Index -> Cell], NEW v \in Int, NEW len \in Nat
  PROVE  Slice(v, len) \in [0 .. len - 1 -> Cell]
  BY SliceIn

(* The header and the text of an entry are cells.                          *)
LEMMA EntryType ==
  ASSUME NEW n \in Nodes, NEW len \in 0 .. MAX_PAYLOAD_LENGTH
  PROVE  /\ HeaderOf(n, len) \in [0 .. HDR - 1 -> Cell]
         /\ TextOf(n, len) \in [0 .. len - 1 -> Cell]
  BY WidthAssumption, SizeAssumption
  DEF HeaderOf, TextOf, HeaderCell, TextCell, RestCell, Cell, MAX_PAYLOAD_LENGTH

-----------------------------------------------------------------------------
(* TypeOK.                                                                 *)

LEMMA ZeroControlType == ZeroControl \in UnpackedControl
  BY PackControlType DEF ZeroControl, NodeState, EvictState

(* A control word rebuilt from another one's length and offset.            *)
LEMMA RepackType ==
  ASSUME NEW c \in UnpackedControl, NEW s \in NodeState, NEW r \in EvictState
  PROVE  PackControl(s, r, c.length, c.offset) \in UnpackedControl
  <1>1. c.length \in Nat /\ c.offset \in Nat
    BY DEF UnpackedControl
  <1> QED BY <1>1, PackControlType

(* A compare-and-swap with a control word leaves control words.            *)
LEMMA CompareExchangeType ==
  ASSUME control \in [Nodes -> UnpackedControl],
         NEW n, NEW expected, NEW desired \in UnpackedControl,
         CompareExchange(n, expected, desired)
  PROVE  control' \in [Nodes -> UnpackedControl]
  BY DEF CompareExchange

(* A thread that returns leaves its locals well typed.                     *)
LEMMA ReturnType ==
  ASSUME TypeOK, NEW t \in Threads, Return(t)
  PROVE  /\ pc' \in [Threads -> {"idle", "allocate", "header", "text", "publish",
                                 "copy", "mark", "loop", "load", "evict",
                                 "demote", "advance", "terminated"}]
         /\ node' \in [Threads -> Nodes \cup {NoNode}]
         /\ length' \in [Allocators -> 0 .. MAX_PAYLOAD_LENGTH]
         /\ curr_write' \in [Allocators -> Nat]
         /\ offset' \in [Allocators -> Nat]
         /\ seen' \in [Observers -> UnpackedControl]
         /\ \A u \in Threads :
              pc'[u] \notin {"idle", "loop"} => node'[u] \in Nodes
  <1>1. 0 \in 0 .. MAX_PAYLOAD_LENGTH
    BY WidthAssumption DEF MAX_PAYLOAD_LENGTH
  <1>2. pc' = [pc EXCEPT ![t] = IF t = GC THEN "loop" ELSE "idle"]
    BY DEF Return, Goto
  <1>3. \A u \in Threads :
          pc'[u] \notin {"idle", "loop"} => node'[u] \in Nodes
    BY <1>2 DEF TypeOK, Return
  <1> QED BY <1>1, <1>2, <1>3, ZeroControlType DEF TypeOK, Return

LEMMA InitType == Init => TypeOK
  <1>1. 0 \in 0 .. MAX_PAYLOAD_LENGTH
    BY WidthAssumption DEF MAX_PAYLOAD_LENGTH
  <1> QED BY <1>1, ZeroControlType DEF Init, TypeOK, Cell

(* Every step of AllocatePayload, of the GC and of all threads keeps the types. *)
LEMMA AllocationType ==
  ASSUME TypeOK, NEW t \in Allocators, Allocation(t)
  PROVE  TypeOK'
  <1> USE DEF ring, locals, Goto
  <1>1. CASE Reserve(t)
    <2>1. /\ curr_write[t] \in Nat
          /\ EntrySize(t) \in Nat
      BY SizeAssumption, WidthAssumption DEF TypeOK, EntrySize, MAX_PAYLOAD_LENGTH
    <2>2. Padding(curr_write[t]) \in Nat
      BY <2>1, PaddingBound, SizeAssumption
    <2>3. /\ curr_write[t] + Padding(curr_write[t]) \in Nat
          /\ curr_write[t] + Padding(curr_write[t]) + EntrySize(t) \in Nat
      BY <2>1, <2>2
    <2> QED BY <1>1, <2>3 DEF Reserve, TypeOK, Threads, Allocators
  <1>2. CASE LoseReserve(t)
    BY <1>2 DEF LoseReserve, TypeOK
  <1>3. CASE WriteHeader(t)
    <2>1. /\ node[t] \in Nodes
          /\ length[t] \in 0 .. MAX_PAYLOAD_LENGTH
          /\ offset[t] \in Nat
      BY <1>3 DEF WriteHeader, TypeOK, Threads, Allocators
    <2>2. buffer' \in [Index -> Cell]
      BY <1>3, <2>1, EntryType, OverwrittenType, SizeAssumption
      DEF WriteHeader, TypeOK
    <2> QED BY <1>3, <2>1, <2>2 DEF WriteHeader, TypeOK
  <1> QED BY <1>1, <1>2, <1>3 DEF Allocation

LEMMA GcType ==
  ASSUME TypeOK, GcStep
  PROVE  TypeOK'
  <1> USE DEF ring, locals, Goto, AdvanceTail
  <1> GC \in Threads /\ GC \in Allocators /\ GC \in Observers
    BY DEF Threads, Allocators, Observers
  <1>1. CASE GcLeap
    <2>1. read_tail + Padding(read_tail) \in Nat
      BY PaddingBound, SizeAssumption DEF TypeOK
    <2> QED BY <1>1, <2>1 DEF GcLeap, TypeOK
  <1>2. CASE GcResync
    BY <1>2 DEF GcResync, TypeOK
  <1>3. CASE GcReadHeader
    <2> DEFINE header == buffer[At(read_tail)]
    <2>1. header \in Cell /\ header.kind = "header"
      BY <1>3, AtIndex DEF GcReadHeader, TypeOK
    <2>2. header.node \in Nodes /\ header.arg \in 0 .. MAX_PAYLOAD_LENGTH
      BY <2>1 DEF Cell, RestCell, ZeroCell
    <2> QED BY <1>3, <2>2 DEF GcReadHeader, TypeOK
  <1>4. EntrySize(GC) \in Nat
    BY SizeAssumption, WidthAssumption DEF TypeOK, EntrySize, MAX_PAYLOAD_LENGTH
  <1>5. CASE GcSkip
    BY <1>4, <1>5, ReturnType DEF GcSkip, TypeOK
  <1>6. CASE GcFindCold
    BY <1>6 DEF GcFindCold, TypeOK
  <1>7. CASE GcFindHot
    BY <1>7 DEF GcFindHot, BeginAllocate, TypeOK
  <1>8. CASE GcEvict
    <2>1. PackControl("DEAD", seen[GC].ref, seen[GC].length, seen[GC].offset)
            \in UnpackedControl
      BY RepackType DEF TypeOK, NodeState, UnpackedControl
    <2>2. control' \in [Nodes -> UnpackedControl]
      BY <1>8, <2>1, CompareExchangeType DEF GcEvict, TypeOK
    <2>3. node[GC] \in Nodes
      BY <1>8 DEF GcEvict, TypeOK
    <2> QED BY <1>8, <2>2, <2>3 DEF GcEvict, TypeOK
  <1>9. CASE Allocation(GC)
    BY <1>9, AllocationType
  <1>10. CASE ThrowInGC
    BY <1>10 DEF ThrowInGC, TypeOK
  <1>11. CASE GcCopyText
    <2>1. /\ node[GC] \in Nodes
          /\ length[GC] \in Nat
          /\ offset[GC] + HDR \in Int
          /\ read_tail + HDR \in Int
      BY <1>11, SizeAssumption, WidthAssumption
      DEF GcCopyText, TypeOK, MAX_PAYLOAD_LENGTH
    <2>2. buffer' \in [Index -> Cell]
      BY <1>11, <2>1, SliceType, OverwrittenType DEF GcCopyText, TypeOK
    <2> QED BY <1>11, <2>1, <2>2 DEF GcCopyText, TypeOK
  <1>12. CASE GcDemote
    <2>1. /\ seen[GC].state \in NodeState
          /\ seen[GC].length \in Nat
          /\ offset[GC] \in Nat
      BY DEF TypeOK, UnpackedControl
    <2>2. PackControl(seen[GC].state, "COLD", seen[GC].length, offset[GC])
            \in UnpackedControl
      BY <2>1, PackControlType DEF EvictState
    <2>3. control' \in [Nodes -> UnpackedControl]
      BY <1>12, <2>2, CompareExchangeType DEF GcDemote, TypeOK
    <2>4. node[GC] \in Nodes
      BY <1>12 DEF GcDemote, TypeOK
    <2> QED BY <1>12, <2>3, <2>4 DEF GcDemote, TypeOK
  <1>13. CASE GcAdvance
    BY <1>4, <1>13, ReturnType DEF GcAdvance, TypeOK
  <1> QED
    BY <1>1, <1>2, <1>3, <1>5, <1>6, <1>7, <1>8, <1>9, <1>10, <1>11, <1>12, <1>13
    DEF GcStep

LEMMA NextType == TypeOK /\ [Next]_vars => TypeOK'
  <1> SUFFICES ASSUME TypeOK, [Next]_vars
               PROVE  TypeOK'
    OBVIOUS
  <1> USE DEF ring, locals, Goto
  <1>1. ASSUME NEW n \in Nodes, Claim(n)
        PROVE  TypeOK'
    <2>1. PackControl("PENDING", "HOT", 0, 0) \in UnpackedControl
      BY PackControlType DEF NodeState, EvictState
    <2> QED BY <1>1, <2>1 DEF Claim, TypeOK
  <1>2. ASSUME NEW n \in Nodes, Expire(n)
        PROVE  TypeOK'
    <2>1. control[n] \in UnpackedControl
      BY DEF TypeOK
    <2>2. PackControl("DEAD", control[n].ref, control[n].length,
                      control[n].offset) \in UnpackedControl
      BY <2>1, RepackType DEF NodeState, UnpackedControl
    <2> QED BY <1>2, <2>2 DEF Expire, TypeOK
  <1>3. ASSUME NEW w \in Writers, NEW n \in Nodes,
               NEW len \in 1 .. MAX_PAYLOAD_LENGTH, SetCache(w, n, len)
        PROVE  TypeOK'
    BY <1>3, ThreadAssumption, WidthAssumption
    DEF SetCache, BeginAllocate, TypeOK, Threads, Allocators, MAX_PAYLOAD_LENGTH
  <1>4. ASSUME NEW t \in Allocators, Allocation(t)
        PROVE  TypeOK'
    BY <1>4, AllocationType
  <1>7. ASSUME NEW w \in Writers, ThrowInWriter(w)
        PROVE  TypeOK'
    BY <1>7, ReturnType DEF ThrowInWriter, TypeOK, Threads
  <1>8. ASSUME NEW w \in Writers, WriteText(w)
        PROVE  TypeOK'
    <2>1. /\ node[w] \in Nodes
          /\ length[w] \in 0 .. MAX_PAYLOAD_LENGTH
          /\ offset[w] \in Nat
      BY <1>8 DEF WriteText, TypeOK, Threads, Allocators
    <2>2. /\ offset[w] + HDR \in Int
          /\ length[w] \in Nat
      BY <2>1, SizeAssumption, WidthAssumption DEF MAX_PAYLOAD_LENGTH
    <2>3. buffer' \in [Index -> Cell]
      BY <1>8, <2>1, <2>2, EntryType, OverwrittenType DEF WriteText, TypeOK
    <2> QED BY <1>8, <2>1, <2>3 DEF WriteText, TypeOK
  <1>9. ASSUME NEW w \in Writers, Publish(w)
        PROVE  TypeOK'
    <2>1. length[w] \in Nat /\ offset[w] \in Nat
      BY WidthAssumption DEF TypeOK, Allocators, MAX_PAYLOAD_LENGTH
    <2>2. PackControl("READY", "HOT", length[w], offset[w]) \in UnpackedControl
      BY <2>1, PackControlType DEF NodeState, EvictState
    <2>3. control' \in [Nodes -> UnpackedControl]
      BY <1>9, <2>2 DEF Publish, TypeOK
    <2> QED BY <1>9, <2>3, ReturnType DEF Publish, TypeOK, Threads
  <1>10. ASSUME NEW r \in Readers, NEW n \in Nodes, LoadHit(r, n)
         PROVE  TypeOK'
    BY <1>10 DEF LoadHit, TypeOK, Threads, Observers
  <1>11. ASSUME NEW r \in Readers, ReadPayload(r)
         PROVE  TypeOK'
    <2>1. node[r] \in Nodes
      BY <1>11 DEF ReadPayload, TypeOK, Threads
    <2> QED BY <1>11, <2>1 DEF ReadPayload, TypeOK
  <1>12. ASSUME NEW r \in Readers, MarkHot(r)
         PROVE  TypeOK'
    <2>1. seen[r] \in UnpackedControl
      BY DEF TypeOK, Observers
    <2>2. PackControl(seen[r].state, "HOT", seen[r].length, seen[r].offset)
            \in UnpackedControl
      BY <2>1, RepackType DEF EvictState, UnpackedControl
    <2>3. control' \in [Nodes -> UnpackedControl]
      BY <1>12, <2>2, CompareExchangeType DEF MarkHot, TypeOK
    <2> QED BY <1>12, <2>3, ReturnType DEF MarkHot, TypeOK, Threads
  <1>13. CASE GcStep
    BY <1>13, GcType
  <1>14. CASE UNCHANGED vars
    BY <1>14 DEF vars, TypeOK
  <1> QED
    BY <1>1, <1>2, <1>3, <1>4, <1>7, <1>8, <1>9, <1>10, <1>11,
       <1>12, <1>13, <1>14
    DEF Next, Checks, WriterStep, ReaderStep, Allocators

THEOREM TypeCorrect == Spec => []TypeOK
  BY InitType, NextType, PTL DEF Spec

-----------------------------------------------------------------------------
(* RingBounds, inductive together with TypeOK.                             *)

(* Every entry is at least a header and at most the low watermark long, so *)
(* the GC, which works only above the watermark, cannot overtake the head. *)
LEMMA EntryFits ==
  ASSUME TypeOK, NEW t \in Allocators
  PROVE  EntrySize(t) \in HDR .. LOW
  BY SizeAssumption, WidthAssumption DEF TypeOK, EntrySize, MAX_PAYLOAD_LENGTH

(* A step that moves neither end of the ring and gives the GC no new entry *)
(* keeps the bounds.                                                       *)
LEMMA RingStill ==
  ASSUME RingBounds, UNCHANGED <<write_head, read_tail>>,
         length'[GC] = length[GC],
         pc'[GC] # "loop" => pc[GC] # "loop"
  PROVE  RingBounds'
  BY DEF RingBounds, EntrySize

(* Steps of other threads on their own locals.                             *)
LEMMA ReturnRing ==
  ASSUME TypeOK, RingBounds, NEW t \in Writers \cup Readers, Return(t),
         UNCHANGED <<write_head, read_tail>>
  PROVE  RingBounds'
  <1>1. length'[GC] = length[GC] /\ pc'[GC] = pc[GC]
    BY ThreadAssumption DEF Return, Goto, TypeOK, Threads, Allocators
  <1> QED BY <1>1, RingStill

(* Reserving moves the head by less than a ring, and a header's padding.   *)
LEMMA ReserveRing ==
  ASSUME TypeOK, RingBounds, NEW t \in Allocators, Reserve(t)
  PROVE  RingBounds'
  <1> DEFINE pad == Padding(write_head)
             size == EntrySize(t)
  <1>1. /\ pad \in 0 .. HDR - 1
        /\ size \in HDR .. LOW
        /\ write_head \in Nat /\ read_tail \in Nat
    BY PaddingBound, EntryFits DEF TypeOK
  <1>2. /\ write_head' = write_head + pad + size
        /\ read_tail' = read_tail
        /\ write_head + size - read_tail < BUFFER
    BY <1>1, SizeAssumption DEF Reserve, Exhausted, TypeOK
  <1>3. /\ EntrySize(GC)' = EntrySize(GC)
        /\ pc'[GC] # "loop" => pc[GC] # "loop"
    BY DEF Reserve, Goto, EntrySize, TypeOK, Threads, Allocators
  <1>4. EntrySize(GC) \in Nat
    BY EntryFits, SizeAssumption DEF Allocators
  <1> HIDE DEF pad, size
  <1> QED BY <1>1, <1>2, <1>3, <1>4, SizeAssumption DEF RingBounds

LEMMA AllocationRing ==
  ASSUME TypeOK, RingBounds, NEW t \in Allocators, Allocation(t)
  PROVE  RingBounds'
  <1>1. CASE Reserve(t)
    BY <1>1, ReserveRing
  <1>2. CASE LoseReserve(t)
    BY <1>2, RingStill DEF LoseReserve, ring
  <1>3. CASE WriteHeader(t)
    <2>1. pc'[GC] # "loop" => pc[GC] # "loop"
      BY <1>3 DEF WriteHeader, Goto, TypeOK, Threads, Allocators
    <2> QED BY <1>3, <2>1, RingStill DEF WriteHeader, locals
  <1> QED BY <1>1, <1>2, <1>3 DEF Allocation

LEMMA GcRing ==
  ASSUME TypeOK, RingBounds, GcStep
  PROVE  RingBounds'
  <1> GC \in Threads /\ GC \in Allocators
    BY DEF Threads, Allocators
  <1>1. /\ EntrySize(GC) \in HDR .. LOW
        /\ Padding(read_tail) \in 0 .. HDR - 1
        /\ write_head \in Nat /\ read_tail \in Nat
        /\ HDR \in Nat \ {0} /\ LOW \in Nat /\ HDR <= LOW /\ BUFFER \in Nat
    BY EntryFits, PaddingBound, SizeAssumption, WidthAssumption
    DEF TypeOK, MAX_PAYLOAD_LENGTH
  <1>0. GcAtWork => pc[GC] = "loop" /\ write_head - read_tail >= LOW
    BY <1>1 DEF RingBounds, GcAtWork, used_space
  <1>2. CASE GcLeap
    <2>1. /\ read_tail' = read_tail + Padding(read_tail)
          /\ write_head' = write_head /\ pc'[GC] = "loop"
          /\ write_head - read_tail >= LOW
      BY <1>0, <1>2 DEF GcLeap, AdvanceTail
    <2> QED BY <1>1, <2>1 DEF RingBounds
  <1>3. CASE GcResync
    <2>1. /\ read_tail' = read_tail + 1
          /\ write_head' = write_head /\ pc'[GC] = "loop"
          /\ write_head - read_tail >= LOW
      BY <1>0, <1>3 DEF GcResync, AdvanceTail
    <2> QED BY <1>1, <2>1 DEF RingBounds
  <1>4. CASE GcReadHeader
    <2>1. TypeOK'
      BY GcType
    <2>2. EntrySize(GC)' \in HDR .. LOW
      BY <2>1, SizeAssumption, WidthAssumption
      DEF TypeOK, EntrySize, MAX_PAYLOAD_LENGTH
    <2>3. /\ read_tail' = read_tail /\ write_head' = write_head
          /\ write_head - read_tail >= LOW
      BY <1>0, <1>4 DEF GcReadHeader, ring
    <2> QED BY <1>1, <2>2, <2>3 DEF RingBounds
  <1>5. ASSUME pc[GC] # "loop", AdvanceTail(EntrySize(GC)), Return(GC),
               UNCHANGED write_head
        PROVE  RingBounds'
    <2>1. pc'[GC] = "loop"
      BY <1>5 DEF Return, Goto, TypeOK
    <2> QED BY <1>1, <1>5, <2>1 DEF RingBounds, AdvanceTail
  <1>6. CASE GcSkip
    BY <1>5, <1>6 DEF GcSkip
  <1>7. CASE GcFindCold
    BY <1>7, RingStill DEF GcFindCold, ring
  <1>8. CASE GcFindHot
    BY <1>8, RingStill DEF GcFindHot, BeginAllocate, ring, TypeOK
  <1>9. CASE GcEvict
    BY <1>9, RingStill DEF GcEvict, ring, locals
  <1>10. CASE Allocation(GC)
    BY <1>10, AllocationRing
  <1>11. CASE ThrowInGC
    BY <1>11, RingStill DEF ThrowInGC, ring, locals
  <1>12. CASE GcCopyText
    BY <1>12, RingStill DEF GcCopyText, locals
  <1>13. CASE GcDemote
    BY <1>13, RingStill DEF GcDemote, ring, locals
  <1>14. CASE GcAdvance
    BY <1>5, <1>14 DEF GcAdvance
  <1> QED
    BY <1>2, <1>3, <1>4, <1>6, <1>7, <1>8, <1>9, <1>10, <1>11, <1>12, <1>13, <1>14
    DEF GcStep

LEMMA InitRing == Init => RingBounds
  BY SizeAssumption DEF Init, RingBounds, EntrySize, Threads

LEMMA NextRing == TypeOK /\ RingBounds /\ [Next]_vars => RingBounds'
  <1> SUFFICES ASSUME TypeOK, RingBounds, [Next]_vars
               PROVE  RingBounds'
    OBVIOUS
  <1>1. ASSUME NEW n \in Nodes, Claim(n) \/ Expire(n)
        PROVE  RingBounds'
    BY <1>1, RingStill DEF Claim, Expire, ring, locals
  <1>2. ASSUME NEW w \in Writers, NEW n \in Nodes,
               NEW len \in 1 .. MAX_PAYLOAD_LENGTH, SetCache(w, n, len)
        PROVE  RingBounds'
    <2>1. length'[GC] = length[GC] /\ pc'[GC] = pc[GC]
      BY <1>2, ThreadAssumption
      DEF SetCache, BeginAllocate, Goto, TypeOK, Threads, Allocators
    <2> QED BY <1>2, <2>1, RingStill DEF SetCache, ring
  <1>3. ASSUME NEW w \in Writers, WriterStep(w)
        PROVE  RingBounds'
    <2>1. CASE Allocation(w)
      BY <2>1, AllocationRing DEF Allocators
    <2>2. CASE ThrowInWriter(w)
      BY <2>2, ReturnRing DEF ThrowInWriter, ring
    <2>3. CASE WriteText(w)
      <3>1. length'[GC] = length[GC] /\ pc'[GC] = pc[GC]
        BY <2>3, ThreadAssumption DEF WriteText, Goto, locals, TypeOK, Threads
      <3> QED BY <2>3, <3>1, RingStill DEF WriteText
    <2>4. CASE Publish(w)
      BY <2>4, ReturnRing DEF Publish, ring
    <2> QED BY <1>3, <2>1, <2>2, <2>3, <2>4 DEF WriterStep
  <1>4. ASSUME NEW r \in Readers, NEW n \in Nodes, LoadHit(r, n)
        PROVE  RingBounds'
    <2>1. pc'[GC] = pc[GC]
      BY <1>4, ThreadAssumption DEF LoadHit, Goto, TypeOK, Threads
    <2> QED BY <1>4, <2>1, RingStill DEF LoadHit, ring
  <1>5. ASSUME NEW r \in Readers, ReaderStep(r)
        PROVE  RingBounds'
    <2>1. CASE ReadPayload(r)
      <3>1. pc'[GC] = pc[GC]
        BY <2>1, ThreadAssumption DEF ReadPayload, Goto, TypeOK, Threads
      <3> QED BY <2>1, <3>1, RingStill DEF ReadPayload, ring
    <2>2. CASE MarkHot(r)
      BY <2>2, ReturnRing DEF MarkHot, ring
    <2> QED BY <1>5, <2>1, <2>2 DEF ReaderStep
  <1>6. CASE GcStep
    BY <1>6, GcRing
  <1>7. CASE UNCHANGED vars
    BY <1>7, RingStill DEF vars
  <1> QED
    BY <1>1, <1>2, <1>3, <1>4, <1>5, <1>6, <1>7 DEF Next, Checks

(* The ring is never overdrawn, and the GC never passes the head.          *)
THEOREM RingBounded == Spec => []RingBounds
  <1>1. Init => TypeOK /\ RingBounds
    BY InitType, InitRing
  <1>2. TypeOK /\ RingBounds /\ [Next]_vars => (TypeOK /\ RingBounds)'
    BY NextType, NextRing
  <1> QED BY <1>1, <1>2, PTL DEF Spec

-----------------------------------------------------------------------------
(* ReservationsDisjoint.  What it needs of the types is that offsets and   *)
(* lengths are numbers, also a length that is longer than any text: it is  *)
(* inductive together with Shapes.                                         *)

AnyCell == [kind : {"header", "text", "rest", "zero"},
            node : Nodes \cup {NoNode}, arg : Nat]

PcLabels == {"idle", "allocate", "header", "text", "publish", "copy", "mark",
             "loop", "load", "evict", "demote", "advance", "terminated"}

Shapes ==
  /\ write_head \in Nat
  /\ read_tail \in Nat
  /\ buffer \in [Index -> AnyCell]
  /\ pc \in [Threads -> PcLabels]
  /\ node \in [Threads -> Nodes \cup {NoNode}]
  /\ length \in [Allocators -> Nat]
  /\ curr_write \in [Allocators -> Nat]
  /\ offset \in [Allocators -> Nat]

LEMMA InitShapes == Init => Shapes
  BY DEF PcLabels, Init, Shapes, AnyCell, ZeroCell

(* A thread that returns leaves its locals in shape.                       *)
LEMMA ReturnShapes ==
  ASSUME Shapes, NEW t \in Threads, Return(t)
  PROVE  /\ pc' \in [Threads -> PcLabels]
         /\ node' \in [Threads -> Nodes \cup {NoNode}]
         /\ length' \in [Allocators -> Nat]
         /\ curr_write' \in [Allocators -> Nat]
         /\ offset' \in [Allocators -> Nat]
  BY DEF PcLabels, Shapes, Return, Goto

LEMMA AllocationShapes ==
  ASSUME Shapes, NEW t \in Allocators, Allocation(t)
  PROVE  Shapes'
  <1> USE DEF PcLabels, ring, locals, Goto
  <1> t \in Threads
    BY DEF Threads, Allocators
  <1>1. CASE Reserve(t)
    <2>1. curr_write[t] \in Nat /\ EntrySize(t) \in Nat
      BY SizeAssumption DEF Shapes, EntrySize
    <2>2. Padding(curr_write[t]) \in Nat
      BY <2>1, PaddingBound, SizeAssumption
    <2>3. /\ curr_write[t] + Padding(curr_write[t]) \in Nat
          /\ curr_write[t] + Padding(curr_write[t]) + EntrySize(t) \in Nat
      BY <2>1, <2>2
    <2> QED BY <1>1, <2>3 DEF Reserve, Shapes
  <1>2. CASE LoseReserve(t)
    BY <1>2 DEF LoseReserve, Shapes
  <1>3. CASE WriteHeader(t)
    <2>1. /\ HDR \in Nat /\ offset[t] \in Int
          /\ HeaderOf(node[t], length[t]) \in [0 .. HDR - 1 -> AnyCell]
      BY SizeAssumption
      DEF Shapes, HeaderOf, HeaderCell, RestCell, AnyCell
    <2>2. buffer' \in [Index -> AnyCell]
      BY <1>3, <2>1, OverwrittenIn DEF WriteHeader, Shapes
    <2> QED BY <1>3, <2>2 DEF WriteHeader, Shapes
  <1> QED BY <1>1, <1>2, <1>3 DEF Allocation

LEMMA GcShapes ==
  ASSUME Shapes, GcStep \/ GcReadGarbage
  PROVE  Shapes'
  <1> USE DEF PcLabels, ring, locals, Goto, AdvanceTail
  <1> GC \in Threads /\ GC \in Allocators
    BY DEF Threads, Allocators
  <1>1. /\ Padding(read_tail) \in Nat /\ EntrySize(GC) \in Nat
        /\ read_tail \in Nat /\ HDR \in Nat
        /\ buffer[At(read_tail)] \in AnyCell
    BY PaddingBound, AtIndex, SizeAssumption DEF Shapes, EntrySize
  <1>2. CASE GcLeap \/ GcResync
    BY <1>1, <1>2 DEF GcLeap, GcResync, Shapes
  <1>3. CASE GcReadHeader
    BY <1>1, <1>3 DEF GcReadHeader, Shapes, AnyCell
  <1>4. CASE GcReadGarbage
    BY <1>4, GarbageAssumption DEF GcReadGarbage, Shapes
  <1>5. CASE GcSkip \/ GcAdvance
    <2>1. read_tail' \in Nat
      BY <1>1, <1>5 DEF GcSkip, GcAdvance
    <2> QED BY <1>5, <2>1, ReturnShapes DEF GcSkip, GcAdvance, Shapes
  <1>6. CASE GcFindCold \/ GcEvict \/ GcDemote \/ ThrowInGC
    BY <1>6 DEF GcFindCold, GcEvict, GcDemote, ThrowInGC, Shapes
  <1>7. CASE GcFindHot
    BY <1>7 DEF GcFindHot, BeginAllocate, Shapes
  <1>8. CASE Allocation(GC)
    BY <1>8, AllocationShapes
  <1>9. CASE GcCopyText
    <2>1. length[GC] \in Nat /\ offset[GC] + HDR \in Int /\ read_tail + HDR \in Int
      BY <1>1 DEF Shapes
    <2>2. Slice(read_tail + HDR, length[GC]) \in [0 .. length[GC] - 1 -> AnyCell]
      BY <2>1, SliceIn DEF Shapes
    <2>3. buffer' \in [Index -> AnyCell]
      BY <1>9, <2>1, <2>2, OverwrittenIn DEF GcCopyText, Shapes
    <2> QED BY <1>9, <2>3 DEF GcCopyText, Shapes
  <1> QED
    BY <1>2, <1>3, <1>4, <1>5, <1>6, <1>7, <1>8, <1>9 DEF GcStep

LEMMA NextShapes == Shapes /\ [AnyHeader]_vars => Shapes'
  <1> SUFFICES ASSUME Shapes, [AnyHeader]_vars
               PROVE  Shapes'
    OBVIOUS
  <1> USE DEF PcLabels, ring, locals, Goto
  <1>1. ASSUME NEW n \in Nodes, Claim(n) \/ Expire(n)
        PROVE  Shapes'
    BY <1>1 DEF Claim, Expire, Shapes
  <1>2. ASSUME NEW w \in Writers, NEW n \in Nodes,
               NEW len \in 1 .. MAX_PAYLOAD_LENGTH, SetCache(w, n, len)
        PROVE  Shapes'
    BY <1>2 DEF SetCache, BeginAllocate, Shapes, Threads, Allocators
  <1>3. ASSUME NEW w \in Writers, WriterStep(w)
        PROVE  Shapes'
    <2>1. w \in Allocators /\ w \in Threads
      BY DEF Allocators, Threads
    <2>2. CASE Allocation(w)
      BY <2>1, <2>2, AllocationShapes
    <2>3. CASE ThrowInWriter(w) \/ Publish(w)
      BY <2>1, <2>3, ReturnShapes DEF ThrowInWriter, Publish, Shapes
    <2>4. CASE WriteText(w)
      <3>1. /\ length[w] \in Nat /\ offset[w] + HDR \in Int
            /\ TextOf(node[w], length[w]) \in [0 .. length[w] - 1 -> AnyCell]
        BY <2>1, SizeAssumption DEF Shapes, TextOf, TextCell, AnyCell
      <3>2. buffer' \in [Index -> AnyCell]
        BY <2>4, <3>1, OverwrittenIn DEF WriteText, Shapes
      <3> QED BY <2>4, <3>2 DEF WriteText, Shapes
    <2> QED BY <1>3, <2>2, <2>3, <2>4 DEF WriterStep
  <1>4. ASSUME NEW r \in Readers, NEW n \in Nodes, LoadHit(r, n)
        PROVE  Shapes'
    BY <1>4 DEF LoadHit, Shapes
  <1>5. ASSUME NEW r \in Readers, ReaderStep(r)
        PROVE  Shapes'
    BY <1>5, ReturnShapes DEF ReaderStep, ReadPayload, MarkHot, Shapes, Threads
  <1>6. CASE GcStep \/ GcReadGarbage
    BY <1>6, GcShapes
  <1>7. CASE UNCHANGED vars
    BY <1>7 DEF vars, Shapes
  <1> QED
    BY <1>1, <1>2, <1>3, <1>4, <1>5, <1>6, <1>7 DEF AnyHeader, Next, Checks

(* A step by which no thread comes to be writing, and none that goes on    *)
(* writing changes what it has reserved.                                   *)
LEMMA NoNewReservation ==
  ASSUME ReservationsDisjoint, write_head' = write_head,
         \A t \in Allocators :
           Writing(t)' => /\ Writing(t)
                          /\ offset'[t] = offset[t]
                          /\ length'[t] = length[t]
  PROVE  ReservationsDisjoint'
  BY DEF ReservationsDisjoint, EntryEnd, EntrySize

(* The thread that moves the head reserves what lies above it; whatever    *)
(* the others are writing lies below.                                      *)
LEMMA ReserveDisjoint ==
  ASSUME Shapes, ReservationsDisjoint, NEW t \in Allocators, Reserve(t)
  PROVE  ReservationsDisjoint'
  <1>1. /\ write_head \in Nat
        /\ Padding(write_head) \in Nat
        /\ EntrySize(t) \in Nat
        /\ t \in Threads
    BY PaddingBound, SizeAssumption DEF Shapes, EntrySize, Threads, Allocators
  <1>2. /\ offset'[t] = write_head + Padding(write_head)
        /\ write_head' = write_head + Padding(write_head) + EntrySize(t)
        /\ length' = length
        /\ EntryEnd(t)' = write_head'
    BY <1>1 DEF Reserve, Shapes, EntryEnd, EntrySize
  <1>3. ASSUME NEW u \in Allocators \ {t}
        PROVE  /\ Writing(u)' <=> Writing(u)
               /\ offset'[u] = offset[u]
               /\ EntryEnd(u)' = EntryEnd(u)
               /\ EntryEnd(u) \in Nat
               /\ u \in Threads
    BY SizeAssumption
    DEF Reserve, Goto, Writing, EntryEnd, EntrySize, Shapes, Threads, Allocators
  <1>4. ASSUME NEW u \in Allocators \ {t}, Writing(u)
        PROVE  EntryEnd(u) <= offset'[t] /\ EntryEnd(u) <= write_head'
    <2>1. EntryEnd(u) <= write_head
      BY <1>4 DEF ReservationsDisjoint
    <2> QED BY <1>1, <1>2, <1>3, <2>1
  <1>5. EntryEnd(t)' <= write_head'
    BY <1>1, <1>2
  <1> SUFFICES ASSUME NEW a \in Allocators, Writing(a)'
               PROVE  /\ EntryEnd(a)' <= write_head'
                      /\ \A b \in Allocators \ {a} : Writing(b)' =>
                           EntryEnd(a)' <= offset'[b] \/ EntryEnd(b)' <= offset'[a]
    BY DEF ReservationsDisjoint
  <1>6. CASE a = t
    BY <1>3, <1>4, <1>5, <1>6
  <1>7. CASE a # t
    <2>1. EntryEnd(a)' <= write_head' /\ EntryEnd(a)' <= offset'[t]
      BY <1>3, <1>4, <1>7
    <2>2. ASSUME NEW b \in Allocators \ {a, t}, Writing(b)'
          PROVE  EntryEnd(a)' <= offset'[b] \/ EntryEnd(b)' <= offset'[a]
      BY <1>3, <1>7, <2>2 DEF ReservationsDisjoint
    <2> QED BY <2>1, <2>2
  <1> QED BY <1>6, <1>7

LEMMA AllocationDisjoint ==
  ASSUME Shapes, ReservationsDisjoint, NEW t \in Allocators, Allocation(t)
  PROVE  ReservationsDisjoint'
  <1>1. CASE Reserve(t)
    BY <1>1, ReserveDisjoint
  <1>2. CASE LoseReserve(t)
    BY <1>2, NoNewReservation DEF LoseReserve, ring, Writing
  <1>3. CASE WriteHeader(t)
    BY <1>3, NoNewReservation
    DEF WriteHeader, Goto, locals, Writing, Shapes, Threads, Allocators
  <1> QED BY <1>1, <1>2, <1>3 DEF Allocation

(* A thread that returns is no longer writing.                             *)
LEMMA ReturnDisjoint ==
  ASSUME Shapes, ReservationsDisjoint, NEW t \in Threads, Return(t),
         UNCHANGED write_head
  PROVE  ReservationsDisjoint'
  <1>1. ASSUME NEW u \in Allocators, Writing(u)'
        PROVE  /\ Writing(u)
               /\ offset'[u] = offset[u]
               /\ length'[u] = length[u]
    BY <1>1 DEF Return, Goto, Writing, Shapes, Threads, Allocators
  <1> QED BY <1>1, NoNewReservation

(* So is a thread that a step takes to a label where nothing is written.   *)
LEMMA GotoDisjoint ==
  ASSUME Shapes, ReservationsDisjoint, UNCHANGED <<write_head, offset>>,
         NEW t \in Threads, NEW label,
         label \notin {"header", "text", "publish", "demote"},
         Goto(t, label),
         \A u \in Allocators \ {t} : length'[u] = length[u]
  PROVE  ReservationsDisjoint'
  <1>1. ASSUME NEW u \in Allocators, Writing(u)'
        PROVE  Writing(u) /\ length'[u] = length[u]
    BY <1>1 DEF Goto, Writing, Shapes, Threads, Allocators
  <1> QED BY <1>1, NoNewReservation

LEMMA GcDisjoint ==
  ASSUME Shapes, ReservationsDisjoint, GcStep \/ GcReadGarbage
  PROVE  ReservationsDisjoint'
  <1> GC \in Threads /\ GC \in Allocators
    BY DEF Threads, Allocators
  <1> USE DEF ring, locals
  <1>1. CASE GcLeap \/ GcResync
    BY <1>1, NoNewReservation DEF GcLeap, GcResync, Writing
  <1>2. CASE GcReadHeader
    BY <1>2, GotoDisjoint DEF GcReadHeader, Shapes
  <1>11. CASE GcReadGarbage
    BY <1>11, GotoDisjoint DEF GcReadGarbage, Shapes
  <1>3. CASE GcSkip \/ GcAdvance
    BY <1>3, ReturnDisjoint DEF GcSkip, GcAdvance
  <1>4. CASE GcFindCold
    BY <1>4, GotoDisjoint DEF GcFindCold
  <1>5. CASE GcFindHot
    BY <1>5, GotoDisjoint DEF GcFindHot, BeginAllocate, Shapes
  <1>6. CASE GcEvict
    BY <1>6, GotoDisjoint DEF GcEvict
  <1>7. CASE Allocation(GC)
    BY <1>7, AllocationDisjoint
  <1>8. CASE ThrowInGC
    BY <1>8, GotoDisjoint DEF ThrowInGC
  <1>9. CASE GcCopyText
    <2>1. ASSUME NEW u \in Allocators, Writing(u)'
          PROVE  Writing(u)
      BY <1>9, <2>1 DEF GcCopyText, Goto, Writing, Shapes, Threads, Allocators
    <2> QED BY <1>9, <2>1, NoNewReservation DEF GcCopyText
  <1>10. CASE GcDemote
    BY <1>10, GotoDisjoint DEF GcDemote
  <1> QED
    BY <1>1, <1>2, <1>3, <1>4, <1>5, <1>6, <1>7, <1>8, <1>9, <1>10, <1>11
    DEF GcStep

LEMMA NextDisjoint ==
  Shapes /\ ReservationsDisjoint /\ [AnyHeader]_vars => ReservationsDisjoint'
  <1> SUFFICES ASSUME Shapes, ReservationsDisjoint, [AnyHeader]_vars
               PROVE  ReservationsDisjoint'
    OBVIOUS
  <1> USE DEF ring, locals
  <1>1. ASSUME NEW n \in Nodes, Claim(n) \/ Expire(n)
        PROVE  ReservationsDisjoint'
    BY <1>1, NoNewReservation DEF Claim, Expire, Writing
  <1>2. ASSUME NEW w \in Writers, NEW n \in Nodes,
               NEW len \in 1 .. MAX_PAYLOAD_LENGTH, SetCache(w, n, len)
        PROVE  ReservationsDisjoint'
    BY <1>2, GotoDisjoint DEF SetCache, BeginAllocate, Shapes, Threads, Allocators
  <1>3. ASSUME NEW w \in Writers, WriterStep(w)
        PROVE  ReservationsDisjoint'
    <2>1. w \in Allocators /\ w \in Threads
      BY DEF Allocators, Threads
    <2>2. CASE Allocation(w)
      BY <2>1, <2>2, AllocationDisjoint
    <2>3. CASE ThrowInWriter(w) \/ Publish(w)
      BY <2>1, <2>3, ReturnDisjoint DEF ThrowInWriter, Publish
    <2>4. CASE WriteText(w)
      <3>1. ASSUME NEW u \in Allocators, Writing(u)'
            PROVE  Writing(u)
        BY <2>1, <2>4, <3>1 DEF WriteText, Goto, Writing, Shapes, Threads, Allocators
      <3> QED BY <2>4, <3>1, NoNewReservation DEF WriteText
    <2> QED BY <1>3, <2>2, <2>3, <2>4 DEF WriterStep
  <1>4. ASSUME NEW r \in Readers, NEW n \in Nodes, LoadHit(r, n)
        PROVE  ReservationsDisjoint'
    BY <1>4, GotoDisjoint DEF LoadHit, Threads
  <1>5. ASSUME NEW r \in Readers, ReaderStep(r)
        PROVE  ReservationsDisjoint'
    <2>1. CASE ReadPayload(r)
      BY <2>1, GotoDisjoint DEF ReadPayload, Threads
    <2>2. CASE MarkHot(r)
      BY <2>2, ReturnDisjoint DEF MarkHot, Threads
    <2> QED BY <1>5, <2>1, <2>2 DEF ReaderStep
  <1>6. CASE GcStep \/ GcReadGarbage
    BY <1>6, GcDisjoint
  <1>7. CASE UNCHANGED vars
    BY <1>7, NoNewReservation DEF vars, Writing
  <1> QED
    BY <1>1, <1>2, <1>3, <1>4, <1>5, <1>6, <1>7 DEF AnyHeader, Next, Checks

(* Well-typed is in shape, and Next is one of the steps.                   *)
LEMMA TypeShapes == TypeOK => Shapes
  <1>1. Cell \subseteq AnyCell
    BY WidthAssumption
    DEF Cell, AnyCell, RestCell, ZeroCell, MAX_PAYLOAD_LENGTH
  <1>2. 0 .. MAX_PAYLOAD_LENGTH \subseteq Nat
    OBVIOUS
  <1> QED BY <1>1, <1>2 DEF TypeOK, Shapes, PcLabels

LEMMA StepDisjoint ==
  TypeOK /\ ReservationsDisjoint /\ [Next]_vars => ReservationsDisjoint'
  BY TypeShapes, NextDisjoint DEF AnyHeader

LEMMA InitDisjoint == Init => Shapes /\ ReservationsDisjoint
  BY InitShapes DEF Init, ReservationsDisjoint, Writing, Threads, Allocators

(* No two threads ever write to the same reserved range of the ring.       *)
THEOREM DisjointReservations == Spec => []ReservationsDisjoint
  <1>1. Shapes /\ ReservationsDisjoint /\ [Next]_vars
          => (Shapes /\ ReservationsDisjoint)'
    BY NextShapes, NextDisjoint DEF AnyHeader
  <1> QED BY InitDisjoint, <1>1, PTL DEF Spec

(* Not even if the collector jumps to and fro over bytes that it mistakes  *)
(* for headers: it moves the tail, and what AllocatePayload reserves rests *)
(* on the compare-and-swap on write_head.                                  *)
THEOREM DisjointWhateverIsRead == TornSpec => []ReservationsDisjoint
  <1>1. Shapes /\ ReservationsDisjoint /\ [TornNext]_vars
          => (Shapes /\ ReservationsDisjoint)'
    BY NextShapes, NextDisjoint DEF TornNext
  <1> QED BY InitDisjoint, <1>1, PTL DEF TornSpec
=============================================================================
