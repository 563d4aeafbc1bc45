------------------------------- MODULE Arena -------------------------------
(***************************************************************************)
(* The payload arena of the vector engine and the threads that meet on it  *)
(* (engine/src/arena.cc, and the parts of engine/src/service.cc that touch *)
(* a control block or a payload).                                          *)
(*                                                                         *)
(* Payloads live in a ring of BUFFER cells addressed by virtual offsets    *)
(* that only grow: write_head is where the next entry goes, read_tail is   *)
(* where the garbage collector stands.  An entry is a header of HDR cells  *)
(* followed by the text.  A slot is alive through its control block, which *)
(* holds the offset of its entry; all threads change it by compare-and-    *)
(* swap, without locks.  The threads are:                                  *)
(*   - Writers: gRPC workers inside SetCache, which reserve an entry, copy *)
(*     the header, copy the text and publish the slot, in four steps;      *)
(*   - Readers: gRPC workers on the HIT path of CheckCache, which load the *)
(*     control block, copy the text and mark the slot hot;                 *)
(*   - GC: the garbage collector ("Watermark Snowplow"), which visits the  *)
(*     entry at read_tail, evicts a cold slot or copies a hot one to the   *)
(*     head, and moves the tail.                                           *)
(* One step is one access to shared memory (or several that commute); a    *)
(* memcpy is one step.  A cell of the ring stands for some bytes: the      *)
(* first cell of a header holds its three fields, a text cell says of      *)
(* which slot's payload it is which part.  So the collector meets a header *)
(* before or after it was copied, and never takes text for one; module     *)
(* Torn lets it meet headers half copied, and texts that look like one.    *)
(***************************************************************************)
EXTENDS Integers, FiniteSets, ControlBlock

CONSTANTS
  Nodes,    \* the slots
  Writers,  \* threads inside SetCache
  Readers,  \* threads on the HIT path of CheckCache
  GC,       \* the garbage collector's thread
  NoNode,   \* "no slot"
  BUFFER,   \* PAYLOAD_BUFFER_SIZE
  HDR,      \* sizeof(PayloadHeader)
  LOW,      \* LOW_WATERMARK_THRESHOLD
  MaxHead   \* bound: no call starts once write_head has reached it

ASSUME ThreadAssumption ==
  /\ GC \notin Writers \cup Readers
  /\ Writers \cap Readers = {}
  /\ NoNode \notin Nodes

(* 12 bytes of header, texts under 16 MB, a watermark of 2 GB in a ring of *)
(* 4 GB, offsets of 37 bits: the code's constants satisfy all of these.    *)
ASSUME SizeAssumption ==
  /\ BUFFER \in Nat \ {0}
  /\ HDR \in Nat \ {0}
  /\ LOW \in Nat
  /\ MaxHead \in Nat
  /\ HDR + MAX_PAYLOAD_LENGTH <= LOW
  /\ LOW <= BUFFER
  /\ OFFMOD % BUFFER = 0

VARIABLES
  write_head, read_tail,  \* virtual offsets
  buffer,                 \* buffer_payload
  control,                \* the control block of each slot
  pc,                     \* where each thread stands
  node, length,           \* its slot and text length
  curr_write, offset,     \* locals of AllocatePayload and its result
  seen,                   \* the control block a reader or the GC has loaded
  out                     \* what a reader has copied

ring == <<write_head, read_tail, buffer>>
locals == <<node, length, curr_write, offset, seen, out>>
vars == <<write_head, read_tail, buffer, control, pc, node, length,
          curr_write, offset, seen, out>>

-----------------------------------------------------------------------------
(* The ring.                                                               *)

Index == 0 .. BUFFER - 1
Allocators == Writers \cup {GC}
Observers == Readers \cup {GC}
Threads == Writers \cup Readers \cup {GC}

HeaderCell(n, len) == [kind |-> "header", node |-> n, arg |-> len]
RestCell == [kind |-> "rest", node |-> NoNode, arg |-> 0]
TextCell(n, k) == [kind |-> "text", node |-> n, arg |-> k]
ZeroCell == [kind |-> "zero", node |-> NoNode, arg |-> 0]

Cell == [kind : {"header", "text"}, node : Nodes, arg : 0 .. MAX_PAYLOAD_LENGTH]
          \cup {RestCell, ZeroCell}

At(v) == v % BUFFER
Steps(from, i) == (i - from) % BUFFER   \* how far cell i is after offset from

(* The ring after `len` cells from virtual offset v on were overwritten,    *)
(* the k-th with new[k], wrapping at the end of the buffer.                *)
Overwritten(v, len, new) ==
  [i \in Index |-> IF Steps(v, i) < len THEN new[Steps(v, i)] ELSE buffer[i]]

HeaderOf(n, len) ==
  [k \in 0 .. HDR - 1 |-> IF k = 0 THEN HeaderCell(n, len) ELSE RestCell]
TextOf(n, len) == [k \in 0 .. len - 1 |-> TextCell(n, k)]
Slice(v, len) == [k \in 0 .. len - 1 |-> buffer[At(v + k)]]

(* What is left before the buffer's end, when a header would not fit.      *)
Padding(v) == IF BUFFER - At(v) < HDR THEN BUFFER - At(v) ELSE 0

EntrySize(t) == HDR + length[t]
used_space == write_head - read_tail

-----------------------------------------------------------------------------
Init ==
  /\ write_head = 0
  /\ read_tail = 0
  /\ buffer = [i \in Index |-> ZeroCell]
  /\ control = [n \in Nodes |-> ZeroControl]
  /\ pc = [t \in Threads |-> IF t = GC THEN "loop" ELSE "idle"]
  /\ node = [t \in Threads |-> NoNode]
  /\ length = [t \in Allocators |-> 0]
  /\ curr_write = [t \in Allocators |-> 0]
  /\ offset = [t \in Allocators |-> 0]
  /\ seen = [t \in Observers |-> ZeroControl]
  /\ out = [r \in Readers |-> << >>]

Goto(t, label) == pc' = [pc EXCEPT ![t] = label]

(* A thread that returns forgets its locals.                               *)
Return(t) ==
  /\ Goto(t, IF t = GC THEN "loop" ELSE "idle")
  /\ node' = [node EXCEPT ![t] = NoNode]
  /\ length' = IF t \in Allocators THEN [length EXCEPT ![t] = 0] ELSE length
  /\ curr_write' =
       IF t \in Allocators THEN [curr_write EXCEPT ![t] = 0] ELSE curr_write
  /\ offset' = IF t \in Allocators THEN [offset EXCEPT ![t] = 0] ELSE offset
  /\ seen' =
       IF t \in Observers THEN [seen EXCEPT ![t] = ZeroControl] ELSE seen
  /\ out' = IF t \in Readers THEN [out EXCEPT ![t] = << >>] ELSE out

(* compare_exchange_strong on the control block of slot n.                 *)
CompareExchange(n, expected, desired) ==
  control' = IF control[n] = expected
             THEN [control EXCEPT ![n] = desired]
             ELSE control

-----------------------------------------------------------------------------
(* CheckCache, as far as it changes a control block: its last step claims  *)
(* a dead slot for the prompt, its scan expires a pending one.             *)

Claim(n) ==
  /\ control[n].state = "DEAD"
  /\ control' = [control EXCEPT ![n] = PackControl("PENDING", "HOT", 0, 0)]
  /\ UNCHANGED <<ring, pc, locals>>

Expire(n) ==
  LET c == control[n] IN
  /\ c.state = "PENDING"
  /\ control' =
       [control EXCEPT ![n] = PackControl("DEAD", c.ref, c.length, c.offset)]
  /\ UNCHANGED <<ring, pc, locals>>

-----------------------------------------------------------------------------
(* AllocatePayload, for a SetCache and for the GC's rescue alike.          *)

BeginAllocate(t, n, len) ==
  /\ node' = [node EXCEPT ![t] = n]
  /\ length' = [length EXCEPT ![t] = len]
  /\ curr_write' = [curr_write EXCEPT ![t] = write_head]
  /\ Goto(t, "allocate")

(* The check forgets the size of the entry to come.                        *)
Exhausted_SizeForgotten(t) == curr_write[t] - read_tail >= BUFFER

(* curr_write + total_size - read_tail >= PAYLOAD_BUFFER_SIZE in uint64_t: *)
(* a negative difference wraps to a huge one.                              *)
Exhausted(t) ==
  \/ curr_write[t] + EntrySize(t) < read_tail
  \/ curr_write[t] + EntrySize(t) - read_tail >= BUFFER

(* A plain store to write_head instead of the compare-and-swap.            *)
Reserve_Store(t) ==
  LET allocated == curr_write[t] + Padding(curr_write[t]) IN
  /\ pc[t] = "allocate"
  /\ ~Exhausted(t)
  /\ write_head' = allocated + EntrySize(t)
  /\ offset' = [offset EXCEPT ![t] = allocated]
  /\ Goto(t, "header")
  /\ UNCHANGED <<read_tail, buffer, control, node, length, curr_write, seen, out>>

Reserve(t) ==
  LET allocated == curr_write[t] + Padding(curr_write[t]) IN
  /\ pc[t] = "allocate"
  /\ ~Exhausted(t)
  /\ write_head = curr_write[t]
  /\ write_head' = allocated + EntrySize(t)
  /\ offset' = [offset EXCEPT ![t] = allocated]
  /\ Goto(t, "header")
  /\ UNCHANGED <<read_tail, buffer, control, node, length, curr_write, seen, out>>

LoseReserve(t) ==
  /\ pc[t] = "allocate"
  /\ ~Exhausted(t)
  /\ write_head # curr_write[t]
  /\ curr_write' = [curr_write EXCEPT ![t] = write_head]
  /\ UNCHANGED <<ring, control, pc, node, length, offset, seen, out>>

(* "Resource Exhausted" is thrown.  SetCache catches it and answers with   *)
(* an error; nothing in the GC's thread does, and the process terminates.  *)
ThrowInWriter(w) ==
  /\ pc[w] = "allocate"
  /\ Exhausted(w)
  /\ Return(w)
  /\ UNCHANGED <<ring, control>>

ThrowInGC ==
  /\ pc[GC] = "allocate"
  /\ Exhausted(GC)
  /\ Goto(GC, "terminated")
  /\ UNCHANGED <<ring, control, locals>>

Alive == pc[GC] # "terminated"

WriteHeader(t) ==
  /\ pc[t] = "header"
  /\ buffer' = Overwritten(offset[t], HDR, HeaderOf(node[t], length[t]))
  /\ Goto(t, "text")
  /\ UNCHANGED <<write_head, read_tail, control, locals>>

-----------------------------------------------------------------------------
(* SetCache(node_id, uncached_payload).  A negative node_id, an empty and  *)
(* an oversized payload are refused before anything is touched.            *)

SetCache(w, n, len) ==
  /\ pc[w] = "idle"
  /\ write_head < MaxHead
  /\ len \in 1 .. MAX_PAYLOAD_LENGTH
  /\ BeginAllocate(w, n, len)
  /\ UNCHANGED <<ring, control, offset, seen, out>>

WriteText(w) ==
  /\ w \in Writers
  /\ pc[w] = "text"
  /\ buffer' = Overwritten(offset[w] + HDR, length[w], TextOf(node[w], length[w]))
  /\ Goto(w, "publish")
  /\ UNCHANGED <<write_head, read_tail, control, locals>>

(* The loop that loads the control block, gives up unless it is PENDING,   *)
(* and retries the compare-and-swap until it succeeds.                     *)
Publish(w) ==
  LET ready == PackControl("READY", "HOT", length[w], offset[w]) IN
  /\ pc[w] = "publish"
  /\ control' = IF control[node[w]].state = "PENDING"
                THEN [control EXCEPT ![node[w]] = ready]
                ELSE control
  /\ Return(w)
  /\ UNCHANGED ring

-----------------------------------------------------------------------------
(* The HIT path of CheckCache.                                             *)

LoadHit(r, n) ==
  /\ pc[r] = "idle"
  /\ write_head < MaxHead
  /\ control[n].state \in {"READY", "MIGRATING"}
  /\ node' = [node EXCEPT ![r] = n]
  /\ seen' = [seen EXCEPT ![r] = control[n]]
  /\ Goto(r, "copy")
  /\ UNCHANGED <<ring, control, length, curr_write, offset, out>>

(* The text is read from where the header starts.                          *)
ReadPayload_AtHeader(r) ==
  /\ pc[r] = "copy"
  /\ out' = [out EXCEPT ![r] = Slice(seen[r].offset, seen[r].length)]
  /\ Goto(r, "mark")
  /\ UNCHANGED <<ring, control, node, length, curr_write, offset, seen>>

ReadPayload(r) ==
  /\ pc[r] = "copy"
  /\ out' = [out EXCEPT ![r] = Slice(seen[r].offset + HDR, seen[r].length)]
  /\ Goto(r, "mark")
  /\ UNCHANGED <<ring, control, node, length, curr_write, offset, seen>>

(* A store instead of the compare-and-swap.                                *)
MarkHot_Store(r) ==
  LET c == seen[r] IN
  /\ pc[r] = "mark"
  /\ control' = [control EXCEPT ![node[r]] =
                   PackControl(c.state, "HOT", c.length, c.offset)]
  /\ Return(r)
  /\ UNCHANGED ring

MarkHot(r) ==
  LET c == seen[r] IN
  /\ pc[r] = "mark"
  /\ CompareExchange(node[r], c, PackControl(c.state, "HOT", c.length, c.offset))
  /\ Return(r)
  /\ UNCHANGED ring

-----------------------------------------------------------------------------
(* RunGarbageCollector.  Below the low watermark it sleeps; between the    *)
(* watermarks it sleeps and goes on, which only changes its pace.  In      *)
(* uint64_t a tail that has passed the head leaves a huge used_space.      *)

GcAtWork == pc[GC] = "loop" /\ (used_space >= LOW \/ used_space < 0)

AdvanceTail(distance) == read_tail' = read_tail + distance

GcLeap ==
  /\ GcAtWork
  /\ Padding(read_tail) > 0
  /\ AdvanceTail(Padding(read_tail))
  /\ UNCHANGED <<write_head, buffer, control, pc, locals>>

GcResync ==
  /\ GcAtWork
  /\ Padding(read_tail) = 0
  /\ buffer[At(read_tail)].kind # "header"
  /\ AdvanceTail(1)
  /\ UNCHANGED <<write_head, buffer, control, pc, locals>>

GcReadHeader ==
  LET header == buffer[At(read_tail)] IN
  /\ GcAtWork
  /\ Padding(read_tail) = 0
  /\ header.kind = "header"
  /\ node' = [node EXCEPT ![GC] = header.node]
  /\ length' = [length EXCEPT ![GC] = header.arg]
  /\ Goto(GC, "load")
  /\ UNCHANGED <<ring, control, curr_write, offset, seen, out>>

(* The 37 bits of the word are compared with the whole of the tail.        *)
Stale_Unmasked(c) == c.state = "DEAD" \/ c.offset # read_tail

(* Is the slot that the header names still at this entry?                  *)
Stale(c) == c.state = "DEAD" \/ c.offset # read_tail % OFFMOD


GcSkip ==
  /\ pc[GC] = "load"
  /\ Stale(control[node[GC]])
  /\ AdvanceTail(EntrySize(GC))
  /\ Return(GC)
  /\ UNCHANGED <<write_head, buffer, control>>

GcFindCold ==
  LET c == control[node[GC]] IN
  /\ pc[GC] = "load"
  /\ ~Stale(c)
  /\ c.ref = "COLD"
  /\ seen' = [seen EXCEPT ![GC] = c]
  /\ Goto(GC, "evict")
  /\ UNCHANGED <<ring, control, node, length, curr_write, offset, out>>

GcFindHot ==
  LET c == control[node[GC]] IN
  /\ pc[GC] = "load"
  /\ ~Stale(c)
  /\ c.ref = "HOT"
  /\ seen' = [seen EXCEPT ![GC] = c]
  /\ BeginAllocate(GC, node[GC], length[GC])
  /\ UNCHANGED <<ring, control, offset, out>>

GcEvict ==
  LET c == seen[GC] IN
  /\ pc[GC] = "evict"
  /\ CompareExchange(node[GC], c, PackControl("DEAD", c.ref, c.length, c.offset))
  /\ Goto(GC, "advance")
  /\ UNCHANGED <<ring, locals>>

(* The text is copied from where the header starts.                        *)
GcCopyText_AtHeader ==
  /\ pc[GC] = "text"
  /\ buffer' = Overwritten(offset[GC] + HDR, length[GC],
                           Slice(read_tail, length[GC]))
  /\ Goto(GC, "demote")
  /\ UNCHANGED <<write_head, read_tail, control, locals>>

GcCopyText ==
  /\ pc[GC] = "text"
  /\ buffer' = Overwritten(offset[GC] + HDR, length[GC],
                           Slice(read_tail + HDR, length[GC]))
  /\ Goto(GC, "demote")
  /\ UNCHANGED <<write_head, read_tail, control, locals>>

(* The slot keeps the offset of the copy that is given up.                 *)
GcDemote_OldOffset ==
  LET c == seen[GC] IN
  /\ pc[GC] = "demote"
  /\ CompareExchange(node[GC],
                     PackControl(c.state, "HOT", c.length, c.offset),
                     PackControl(c.state, "COLD", c.length, c.offset))
  /\ Goto(GC, "advance")
  /\ UNCHANGED <<ring, locals>>

GcDemote ==
  LET c == seen[GC] IN
  /\ pc[GC] = "demote"
  /\ CompareExchange(node[GC],
                     PackControl(c.state, "HOT", c.length, c.offset),
                     PackControl(c.state, "COLD", c.length, offset[GC]))
  /\ Goto(GC, "advance")
  /\ UNCHANGED <<ring, locals>>

(* The tail is moved by the length of the text only.                       *)
GcAdvance_TextOnly ==
  /\ pc[GC] = "advance"
  /\ AdvanceTail(length[GC])
  /\ Return(GC)
  /\ UNCHANGED <<write_head, buffer, control>>

(* "Move read tail forward anyway".                                        *)
GcAdvance ==
  /\ pc[GC] = "advance"
  /\ AdvanceTail(EntrySize(GC))
  /\ Return(GC)
  /\ UNCHANGED <<write_head, buffer, control>>

-----------------------------------------------------------------------------
Checks == \E n \in Nodes : Claim(n) \/ Expire(n)

Allocation(t) == Reserve(t) \/ LoseReserve(t) \/ WriteHeader(t)

WriterStep(w) ==
  Allocation(w) \/ ThrowInWriter(w) \/ WriteText(w) \/ Publish(w)

ReaderStep(r) == ReadPayload(r) \/ MarkHot(r)

GcStep ==
  \/ GcLeap \/ GcResync \/ GcReadHeader
  \/ GcSkip \/ GcFindCold \/ GcFindHot
  \/ GcEvict
  \/ Allocation(GC) \/ ThrowInGC \/ GcCopyText \/ GcDemote
  \/ GcAdvance

Next ==
  /\ Alive
  /\ \/ Checks
     \/ \E w \in Writers, n \in Nodes :
          \E len \in 1 .. MAX_PAYLOAD_LENGTH : SetCache(w, n, len)
     \/ \E w \in Writers : WriterStep(w)
     \/ \E r \in Readers, n \in Nodes : LoadHit(r, n)
     \/ \E r \in Readers : ReaderStep(r)
     \/ GcStep

Spec == Init /\ [][Next]_vars

(* Threads that have begun something are scheduled until they are done;    *)
(* nothing makes a request arrive.                                         *)
Fairness ==
  /\ WF_vars(Alive /\ GcStep)
  /\ \A w \in Writers : WF_vars(Alive /\ WriterStep(w))
  /\ \A r \in Readers : WF_vars(Alive /\ ReaderStep(r))

FairSpec == Spec /\ Fairness

-----------------------------------------------------------------------------
TypeOK ==
  /\ write_head \in Nat
  /\ read_tail \in Nat
  /\ buffer \in [Index -> Cell]
  /\ control \in [Nodes -> UnpackedControl]
  /\ pc \in [Threads -> {"idle", "allocate", "header", "text", "publish",
                         "copy", "mark",
                         "loop", "load", "evict", "demote", "advance",
                         "terminated"}]
  /\ node \in [Threads -> Nodes \cup {NoNode}]
  /\ length \in [Allocators -> 0 .. MAX_PAYLOAD_LENGTH]
  /\ curr_write \in [Allocators -> Nat]
  /\ offset \in [Allocators -> Nat]
  /\ seen \in [Observers -> UnpackedControl]
  /\ \A t \in Threads : pc[t] \notin {"idle", "loop"} => node[t] \in Nodes

(* The tail never passes the head, not even when the GC jumps over the     *)
(* entry it works on, whichever header it has met there, also one of an    *)
(* earlier turn of the ring; and the head is never more than the padding   *)
(* before a header (at most HDR - 1 cells) beyond a full ring.             *)
RingBounds ==
  /\ read_tail <= write_head
  /\ pc[GC] # "loop" => read_tail + EntrySize(GC) <= write_head
  /\ write_head <= read_tail + BUFFER + HDR - 2

(* Entries reserved by different threads and still being written never     *)
(* share a virtual offset, and all of them lie below the head: whoever     *)
(* wins the compare-and-swap on write_head owns what it reserved.          *)
Writing(t) == pc[t] \in {"header", "text", "publish", "demote"}
EntryEnd(t) == offset[t] + EntrySize(t)

ReservationsDisjoint ==
  \A t \in Allocators : Writing(t) =>
    /\ EntryEnd(t) <= write_head
    /\ \A u \in Allocators \ {t} : Writing(u) =>
         EntryEnd(t) <= offset[u] \/ EntryEnd(u) <= offset[t]

-----------------------------------------------------------------------------
(***************************************************************************)
(* The code makes three things very unlikely and excludes none of them.    *)
(* CalmSpec assumes the first two do not happen, QuietSpec all three.      *)
(***************************************************************************)

(* The GC, LOW bytes behind the head, does not reach an entry that its     *)
(* writer has reserved and not published yet.                              *)
Timely ==
  \A w \in Writers : pc[w] \in {"header", "text", "publish"} =>
    /\ read_tail <= offset[w]
    /\ pc[GC] # "loop" => read_tail < offset[w]

(* The padding of an entry has not pushed the head over a full ring.       *)
NoLap == used_space <= BUFFER

(* The word of the slot that the GC is about to evict does not change      *)
(* between the load and the eviction.  Of a ready slot only a hit changes  *)
(* it, by marking the slot hot; of a reservation that was taken for the    *)
(* entry at an offset of 0, also a SetCache or an expiry.                  *)
Undisturbed == pc[GC] = "evict" => control[node[GC]] = seen[GC]

CalmSpec == Init /\ [][Next /\ Timely' /\ NoLap']_vars
QuietSpec == Init /\ [][Next /\ Timely' /\ NoLap' /\ Undisturbed']_vars

(* The virtual offset that a control block's 37 bits stand for: the last   *)
(* one at or below the head that agrees with them.                         *)
Virtual(o) == write_head - ((write_head - o) % OFFMOD)

Ready(n) == control[n].state = "READY"
Place(n) == Virtual(control[n].offset)

(* The entry at virtual offset v is, cell for cell, the one a SetCache of  *)
(* slot n with this length wrote.                                          *)
EntryIntact(v, n, len) ==
  /\ Slice(v, HDR) = HeaderOf(n, len)
  /\ Slice(v + HDR, len) = TextOf(n, len)

(* Until the head comes round the ring, the payload of a ready slot is     *)
(* whole, in the place the control block gives: also while it is being     *)
(* moved, and although other entries share the ring with it.               *)
ReadyIntact ==
  \A n \in Nodes :
    Ready(n) /\ write_head <= Place(n) + BUFFER =>
      EntryIntact(Place(n), n, control[n].length)

(* The tail has not passed the entry of a ready slot that is cold: the GC  *)
(* will still come to it, to evict it before the space is used again.      *)
ColdInRing ==
  \A n \in Nodes : Ready(n) /\ control[n].ref = "COLD" => read_tail <= Place(n)

(* Whenever the GC sets to work it stands at a header, at the padding that *)
(* ends the buffer or at an entry that is still being written: it never    *)
(* has to grope for a header cell by cell.                                 *)
GcAligned ==
  GcAtWork =>
    \/ Padding(read_tail) > 0
    \/ buffer[At(read_tail)].kind = "header"
    \/ \E w \in Writers : Writing(w) /\ offset[w] = read_tail

(* A HIT carries exactly the payload of the slot it was found in, unless   *)
(* the writers came round the ring before the reader was done.             *)
HitIntact ==
  \A r \in Readers :
    pc[r] = "mark" /\ write_head <= Virtual(seen[r].offset) + BUFFER =>
      out[r] = TextOf(node[r], seen[r].length)

(* Every hot ready slot is rescued: the tail passes no entry whose slot is *)
(* ready and hot ("give it a Second chance if the node is still hot").     *)
HotIsRescued ==
  \A n \in Nodes : Ready(n) /\ control[n].ref = "HOT" => read_tail <= Place(n)


-----------------------------------------------------------------------------
(* The slots as SlotStore sees them.  The value of a slot is the length of *)
(* its payload if the cells that the control block points at are whole.    *)

SlotOf(n) ==
  LET c == control[n] IN
  CASE c.state = "DEAD"    -> [state |-> "free", value |-> 0]
    [] c.state = "PENDING" -> [state |-> "reserved", value |-> 0]
    [] OTHER -> [state |-> "filled",
                 value |-> IF Slice(c.offset + HDR, c.length) = TextOf(n, c.length)
                           THEN c.length
                           ELSE 0]

Store == INSTANCE SlotStore
           WITH Slots <- Nodes, Values <- 1 .. MAX_PAYLOAD_LENGTH, NoValue <- 0,
                slot <- [n \in Nodes |-> SlotOf(n)]

(* The arena implements SlotStore: in particular moving a payload, marking *)
(* it hot and writing next to it change no filled slot.                    *)
ImplementsSlotStore == Store!Spec
=============================================================================
