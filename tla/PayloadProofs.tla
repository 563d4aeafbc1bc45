---------------------------- MODULE PayloadProofs ----------------------------
(***************************************************************************)
(* What becomes of the payloads in the ring, for every number of slots and *)
(* threads, every size of the ring and every length of the behaviour.      *)
(*                                                                         *)
(* Under CalmSpec: GcAligned and ColdInRing, and, as long as the offsets   *)
(* fit the bits of a control word, ReadyIntact and HitIntact.  Under       *)
(* QuietSpec: ReadyIntact and HotIsRescued without that restriction, and   *)
(* that the arena implements SlotStore.                                    *)
(*                                                                         *)
(* The argument is about the layout of the ring: entries that lie one      *)
(* after the other from the tail to the head, each with its header or with *)
(* a writer about to write it.  NextLayout shows that every step keeps     *)
(* such a layout and what it carries over; NextStored adds the slots, the  *)
(* GC and the readers that point into it.                                  *)
(***************************************************************************)
EXTENDS ArenaProofs

-----------------------------------------------------------------------------
(* Arithmetic: quotients, remainders, and places that share their bits.    *)

(* A nonzero multiple of b is no nearer to 0 than b.                       *)
LEMMA Multiple ==
  ASSUME NEW b \in Nat \ {0}, NEW k \in Int
  PROVE  /\ b * k \in Int
         /\ k >= 1 => b * k >= b
         /\ k <= -1 => b * k <= -b
         /\ k = 0 => b * k = 0
  OBVIOUS

(* A product with a difference and with a sum.                             *)
LEMMA Distribute ==
  ASSUME NEW b \in Int, NEW k \in Int, NEW l \in Int
  PROVE  b * (k - l) = b * k - b * l /\ b * (k + l) = b * k + b * l
  OBVIOUS

(* Division with remainder.                                                *)
LEMMA DivMod ==
  ASSUME NEW a \in Int, NEW b \in Nat \ {0}
  PROVE  \E q \in Int : a = b * q + (a % b)
  <1>1. b \in Int /\ b > 0
    OBVIOUS
  <1>2. a \div b \in Int
    BY <1>1
  <1>3. a = (a \div b) * b + (a % b)
    BY <1>1, Z3
  <1>4. b * (a \div b) = (a \div b) * b
    BY <1>1, <1>2
  <1> HIDE <1>1
  <1> QED BY <1>2, <1>3, <1>4

(* The remainder is the only number below b that differs from a by a       *)
(* multiple of b.                                                          *)
LEMMA ModUnique ==
  ASSUME NEW b \in Nat \ {0}, NEW k \in Int, NEW r \in 0 .. b - 1
  PROVE  (b * k + r) % b = r
  <1> DEFINE a == b * k + r
  <1>1. a \in Int
    BY Multiple
  <1>2. PICK q \in Int : a = b * q + (a % b)
    BY <1>1, DivMod
  <1>3. a % b \in 0 .. b - 1
    BY <1>1, ModRange
  <1>4. a = b * k + r
    OBVIOUS
  <1> HIDE DEF a
  <1>5. b * (q - k) = b * q - b * k
    BY Distribute
  <1>6. b * (q - k) = r - (a % b)
    BY <1>1, <1>2, <1>3, <1>4, <1>5, Multiple
  <1>7. q - k = 0
    BY <1>3, <1>6, Multiple
  <1> QED BY <1>2, <1>3, <1>4, <1>7 DEF a

(* A number below b is its own remainder.                                  *)
LEMMA ModSmall ==
  ASSUME NEW b \in Nat \ {0}, NEW r \in 0 .. b - 1
  PROVE  r % b = r
  <1>1. b * 0 + r = r
    OBVIOUS
  <1> QED BY <1>1, ModUnique

(* Multiples of b do not count.                                            *)
LEMMA ModShift ==
  ASSUME NEW b \in Nat \ {0}, NEW k \in Int, NEW a \in Int
  PROVE  (b * k + a) % b = a % b
  <1>1. PICK q \in Int : a = b * q + (a % b)
    BY DivMod
  <1>2. a % b \in 0 .. b - 1
    BY ModRange
  <1> DEFINE r == (a % b)
  <1>3. b * (k + q) = b * k + b * q
    BY Distribute
  <1>4. b * k + a = b * (k + q) + r
    BY <1>1, <1>2, <1>3, Multiple
  <1>5. r \in 0 .. b - 1 /\ k + q \in Int
    BY <1>2
  <1> HIDE DEF r
  <1>6. (b * (k + q) + r) % b = r
    BY <1>5, ModUnique
  <1> QED BY <1>4, <1>6 DEF r

(* Numbers with the same remainder are at least b apart.                   *)
LEMMA ModApart ==
  ASSUME NEW b \in Nat \ {0}, NEW x \in Int, NEW y \in Int,
         x % b = y % b, x - y < b, y - x < b
  PROVE  x = y
  <1>1. PICK k \in Int : x = b * k + (x % b)
    BY DivMod
  <1>2. PICK l \in Int : y = b * l + (y % b)
    BY DivMod
  <1>3. x % b \in 0 .. b - 1
    BY ModRange
  <1>4. b * (k - l) = b * k - b * l
    BY Distribute
  <1>5. b * (k - l) = x - y
    BY <1>1, <1>2, <1>3, <1>4, Multiple
  <1>6. k - l = 0
    BY <1>5, Multiple
  <1> QED BY <1>5, <1>6

(* A remainder may be taken before an addition.                            *)
LEMMA ModPlus ==
  ASSUME NEW b \in Nat \ {0}, NEW x \in Int, NEW y \in Int
  PROVE  ((x % b) + y) % b = (x + y) % b
  <1>1. PICK k \in Int : x = b * k + (x % b)
    BY DivMod
  <1>2. PICK r \in 0 .. b - 1 : r = x % b
    BY ModRange
  <1>3. x + y = b * k + (r + y)
    BY <1>1, <1>2, Multiple
  <1>4. r + y \in Int
    BY <1>2
  <1>5. (b * k + (r + y)) % b = (r + y) % b
    BY <1>4, ModShift
  <1> QED BY <1>2, <1>3, <1>5

(* A remainder can be taken first modulo a multiple of the modulus.        *)
LEMMA ModMod ==
  ASSUME NEW b \in Nat \ {0}, NEW c \in Nat \ {0}, c % b = 0, NEW x \in Int,
         NEW y \in Int
  PROVE  ((x % c) + y) % b = (x + y) % b
  <1>1. PICK m \in Int : c = b * m
    <2>1. c \in Int
      OBVIOUS
    <2>2. PICK m \in Int : c = b * m + (c % b)
      BY <2>1, DivMod
    <2> QED BY <2>2, Multiple
  <1>2. PICK k \in Int : x = c * k + (x % c)
    BY DivMod
  <1>3. PICK r \in 0 .. c - 1 : r = x % c
    BY ModRange
  <1>4. c * k = b * (m * k) /\ m * k \in Int
    BY <1>1
  <1>5. x + y = b * (m * k) + (r + y)
    BY <1>2, <1>3, <1>4
  <1>6. (b * (m * k) + (r + y)) % b = (r + y) % b
    <2>1. r + y \in Int
      BY <1>3
    <2> QED BY <1>4, <2>1, ModShift
  <1> QED BY <1>3, <1>5, <1>6

(* A remainder is at most the number.                                      *)
LEMMA ModLess ==
  ASSUME NEW b \in Nat \ {0}, NEW a \in Nat
  PROVE  a % b <= a
  <1>1. PICK q \in Int : a = b * q + (a % b)
    <2>1. a \in Int
      OBVIOUS
    <2> QED BY <2>1, DivMod
  <1>2. a % b \in 0 .. b - 1
    BY ModRange
  <1>3. q >= 0
    BY <1>1, <1>2, Multiple
  <1>4. b * q >= 0
    BY <1>3, Multiple
  <1> QED BY <1>1, <1>2, <1>4, Multiple

-----------------------------------------------------------------------------
(* Cells of the ring.                                                      *)

(* The constants; the bits of a control word span the whole ring.          *)
LEMMA RingFacts ==
  /\ BUFFER \in Nat \ {0} /\ HDR \in Nat \ {0} /\ LOW \in Nat
  /\ OFFMOD \in Nat \ {0} /\ LENMOD \in Nat \ {0}
  /\ MAX_PAYLOAD_LENGTH \in Nat
  /\ HDR + MAX_PAYLOAD_LENGTH <= LOW /\ LOW <= BUFFER /\ BUFFER <= OFFMOD
  <1>1. BUFFER <= OFFMOD
    <2>1. OFFMOD < BUFFER => OFFMOD % BUFFER = OFFMOD
      BY ModSmall, SizeAssumption, WidthAssumption
    <2> QED BY <2>1, SizeAssumption, WidthAssumption
  <1> QED BY <1>1, SizeAssumption, WidthAssumption DEF MAX_PAYLOAD_LENGTH

(* How far the cell of x is behind v, with and without a wrap.             *)
LEMMA StepsAt ==
  ASSUME NEW x \in Int, NEW v \in Int
  PROVE  /\ v <= x /\ x < v + BUFFER => Steps(v, At(x)) = x - v
         /\ x < v /\ v <= x + BUFFER => Steps(v, At(x)) = x - v + BUFFER
  <1>1. Steps(v, At(x)) = (x - v) % BUFFER
    <2>1. -v \in Int
      OBVIOUS
    <2>2. ((x % BUFFER) + (-v)) % BUFFER = (x + (-v)) % BUFFER
      BY <2>1, RingFacts, ModPlus
    <2>3. x % BUFFER \in Int
      BY RingFacts, ModRange
    <2>4. (x % BUFFER) + (-v) = (x % BUFFER) - v /\ x + (-v) = x - v
      BY <2>3
    <2> QED BY <2>2, <2>4 DEF Steps, At
  <1>2. ASSUME v <= x, x < v + BUFFER
        PROVE  Steps(v, At(x)) = x - v
    <2>1. x - v \in 0 .. BUFFER - 1
      BY <1>2, RingFacts
    <2> QED BY <1>1, <2>1, ModSmall, RingFacts
  <1>3. ASSUME x < v, v <= x + BUFFER
        PROVE  Steps(v, At(x)) = x - v + BUFFER
    <2> DEFINE r == x - v + BUFFER
    <2>1. r \in 0 .. BUFFER - 1
      BY <1>3, RingFacts
    <2>2. BUFFER * (-1) + r = x - v
      BY RingFacts
    <2> HIDE DEF r
    <2>3. (BUFFER * (-1) + r) % BUFFER = r
      BY <2>1, RingFacts, ModUnique
    <2> QED BY <1>1, <2>2, <2>3 DEF r
  <1> QED BY <1>2, <1>3

(* What is written from v on is there afterwards, ...                      *)
LEMMA WrittenCell ==
  ASSUME NEW v \in Int, NEW len \in Nat, len <= BUFFER, NEW new,
         NEW x \in Int, v <= x, x < v + len
  PROVE  Overwritten(v, len, new)[At(x)] = new[x - v]
  <1>1. Steps(v, At(x)) = x - v /\ x - v < len
    BY StepsAt, RingFacts
  <1> QED BY <1>1, AtIndex DEF Overwritten

(* ... and nothing else, of what lies within a ring's length of it, is     *)
(* disturbed.                                                              *)
LEMMA OtherCell ==
  ASSUME NEW v \in Int, NEW len \in Nat, NEW new, NEW x \in Int,
         x < v + BUFFER, v + len <= x + BUFFER, x < v \/ v + len <= x
  PROVE  Overwritten(v, len, new)[At(x)] = buffer[At(x)]
  <1>1. ~(Steps(v, At(x)) < len)
    BY StepsAt, RingFacts
  <1> QED BY <1>1, AtIndex DEF Overwritten

(* A slice none of whose cells changes.                                    *)
LEMMA SliceKept ==
  ASSUME NEW v \in Int, NEW len \in Nat,
         \A x \in Int : v <= x /\ x < v + len => buffer'[At(x)] = buffer[At(x)]
  PROVE  Slice(v, len)' = Slice(v, len)
  <1> SUFFICES ASSUME NEW k \in 0 .. len - 1
               PROVE  buffer'[At(v + k)] = buffer[At(v + k)]
    BY DEF Slice, At
  <1> QED OBVIOUS

(* What was written can be read back.                                      *)
LEMMA SliceWritten ==
  ASSUME NEW v \in Int, NEW len \in Nat, len <= BUFFER,
         NEW T, NEW new \in [0 .. len - 1 -> T],
         buffer' = Overwritten(v, len, new)
  PROVE  Slice(v, len)' = new
  <1>1. ASSUME NEW k \in 0 .. len - 1
        PROVE  buffer'[At(v + k)] = new[k]
    <2>1. v + k \in Int /\ (v + k) - v = k /\ v <= v + k /\ v + k < v + len
      OBVIOUS
    <2> QED BY <2>1, WrittenCell
  <1>2. Slice(v, len)' = [k \in 0 .. len - 1 |-> buffer'[At(v + k)]]
    BY DEF Slice, At
  <1> QED BY <1>1, <1>2

(* The same bits of an offset address the same cells.                      *)
LEMMA SameBits ==
  ASSUME NEW v \in Int, NEW w \in Int, v % OFFMOD = w % OFFMOD, NEW k \in Int
  PROVE  At(v + k) = At(w + k)
  <1>1. OFFMOD % BUFFER = 0
    BY SizeAssumption
  <1>2. ((v % OFFMOD) + k) % BUFFER = (v + k) % BUFFER
    BY <1>1, ModMod, RingFacts
  <1>3. ((w % OFFMOD) + k) % BUFFER = (w + k) % BUFFER
    BY <1>1, ModMod, RingFacts
  <1> QED BY <1>2, <1>3 DEF At

(* A header fits behind the padding.                                       *)
LEMMA PaddedOnce ==
  ASSUME NEW v \in Nat
  PROVE  Padding(v + Padding(v)) = 0 /\ Padding(v) \in 0 .. HDR - 1
  <1>1. Padding(v) \in 0 .. HDR - 1
    BY PaddingBound
  <1>2. At(v) \in 0 .. BUFFER - 1
    BY AtIndex DEF Index
  <1>3. CASE BUFFER - At(v) < HDR
    <2>1. PICK q \in Int : v = BUFFER * q + At(v)
      <3>1. v \in Int /\ BUFFER \in Nat \ {0}
        BY RingFacts
      <3> QED BY <3>1, DivMod DEF At
    <2>2. v + Padding(v) = BUFFER * (q + 1) + 0
      <3>1. BUFFER * (q + 1) = BUFFER * q + BUFFER * 1
        BY RingFacts, Distribute
      <3>2. Padding(v) = BUFFER - At(v)
        BY <1>3 DEF Padding
      <3> QED BY <1>2, <2>1, <3>1, <3>2, RingFacts, Multiple
    <2>3. (BUFFER * (q + 1) + 0) % BUFFER = 0
      BY RingFacts, ModUnique
    <2>4. At(v + Padding(v)) = 0
      BY <2>2, <2>3 DEF At
    <2> QED BY <1>1, <2>4, RingFacts DEF Padding
  <1>4. CASE ~(BUFFER - At(v) < HDR)
    <2>1. Padding(v) = 0 /\ v + Padding(v) = v
      BY <1>4 DEF Padding
    <2> QED BY <1>1, <2>1
  <1> QED BY <1>3, <1>4

-----------------------------------------------------------------------------
(* What the words and the threads have in them, whatever the schedule.     *)

Rescuing == pc[GC] \in {"allocate", "header", "text", "demote"}

Labels ==
  /\ \A w \in Writers : pc[w] \in {"idle", "allocate", "header", "text", "publish"}
  /\ \A r \in Readers : pc[r] \in {"idle", "copy", "mark"}
  /\ pc[GC] \in {"loop", "load", "evict", "allocate", "header", "text", "demote",
                 "advance", "terminated"}

Words ==
  /\ \A n \in Nodes :
       /\ control[n].state # "MIGRATING"
       /\ Ready(n) => control[n].offset < write_head /\ control[n].length >= 1
  /\ \A r \in Readers : pc[r] # "idle" =>
       seen[r].state = "READY" /\ seen[r].offset < write_head
  /\ \A w \in Writers : pc[w] # "idle" => length[w] >= 1

Copies == DOMAIN out = Readers

(* What every step of Spec keeps.                                          *)
Base ==
  TypeOK /\ RingBounds /\ ReservationsDisjoint /\ Labels /\ Words /\ Copies

(* Who is who.                                                             *)
LEMMA ThreadFacts ==
  /\ GC \in Threads /\ GC \in Allocators /\ GC \in Observers
  /\ GC \notin Writers /\ GC \notin Readers
  /\ \A w \in Writers : w \in Threads /\ w \in Allocators /\ w \notin Readers
                           /\ w \notin Observers /\ w # GC
  /\ \A r \in Readers : r \in Threads /\ r \in Observers /\ r \notin Allocators
                           /\ r # GC
  /\ \A t \in Allocators : t = GC \/ t \in Writers
  BY ThreadAssumption DEF Threads, Allocators, Observers

(* Who returns forgets its own locals and nobody else's.                   *)
LEMMA Returned ==
  ASSUME TypeOK, NEW t \in Threads, Return(t)
  PROVE  /\ pc'[t] \in {"idle", "loop"}
         /\ t # GC => pc'[t] = "idle"
         /\ t = GC => pc'[t] = "loop"
         /\ \A u \in Threads \ {t} : pc'[u] = pc[u] /\ node'[u] = node[u]
         /\ \A u \in Allocators \ {t} :
              length'[u] = length[u] /\ offset'[u] = offset[u]
         /\ \A u \in Observers \ {t} : seen'[u] = seen[u]
         /\ \A u \in Readers \ {t} : out'[u] = out[u]
  BY ThreadFacts DEF Return, Goto, TypeOK

(* Packing changes nothing that fits.                                      *)
LEMMA Repacked ==
  ASSUME NEW c \in UnpackedControl, NEW s, NEW r
  PROVE  PackControl(s, r, c.length, c.offset) =
           [state |-> s, ref |-> r, length |-> c.length, offset |-> c.offset]
  <1>1. c.length \in 0 .. LENMOD - 1 /\ c.offset \in 0 .. OFFMOD - 1
    BY DEF UnpackedControl
  <1>2. c.length % LENMOD = c.length /\ c.offset % OFFMOD = c.offset
    BY <1>1, ModSmall, RingFacts
  <1> QED BY <1>2 DEF PackControl

(* Packing a payload length and an offset keeps the length whole.          *)
LEMMA Packed ==
  ASSUME NEW s, NEW r, NEW len \in 0 .. MAX_PAYLOAD_LENGTH, NEW o \in Nat
  PROVE  /\ PackControl(s, r, len, o) =
              [state |-> s, ref |-> r, length |-> len, offset |-> o % OFFMOD]
         /\ o % OFFMOD <= o
         /\ o % OFFMOD \in 0 .. OFFMOD - 1
  <1>1. len \in 0 .. LENMOD - 1
    BY RingFacts DEF MAX_PAYLOAD_LENGTH
  <1>2. len % LENMOD = len
    BY <1>1, ModSmall, RingFacts
  <1>3. o \in Int /\ OFFMOD \in Nat \ {0}
    BY RingFacts
  <1> QED BY <1>2, <1>3, ModLess, ModRange DEF PackControl

(* compare_exchange to another ref bit: nothing else of the word changes.  *)
LEMMA MarkedHot ==
  ASSUME TypeOK, NEW r \in Readers, MarkHot(r)
  PROVE  \A n \in Nodes :
           \/ control'[n] = control[n]
           \/ /\ control[n] = seen[r]
              /\ control'[n] = [control[n] EXCEPT !.ref = "HOT"]
  <1>1. seen[r] \in UnpackedControl
    BY ThreadFacts DEF TypeOK
  <1>2. PackControl(seen[r].state, "HOT", seen[r].length, seen[r].offset) =
          [seen[r] EXCEPT !.ref = "HOT"]
    BY <1>1, Repacked DEF UnpackedControl
  <1> QED BY <1>2 DEF MarkHot, CompareExchange, TypeOK

(* The compare_exchange that ends a rescue.                                *)
LEMMA Demoted ==
  ASSUME TypeOK, GcDemote
  PROVE  LET n == node[GC]
             c == seen[GC]
             hot == [state |-> c.state, ref |-> "HOT", length |-> c.length,
                     offset |-> c.offset]
             moved == [state |-> c.state, ref |-> "COLD", length |-> c.length,
                       offset |-> offset[GC] % OFFMOD]
         IN  \/ control[n] = hot /\ control' = [control EXCEPT ![n] = moved]
             \/ control[n] # hot /\ control' = control
  <1> DEFINE c == seen[GC]
  <1>1. c \in UnpackedControl /\ c.length \in 0 .. MAX_PAYLOAD_LENGTH
        /\ offset[GC] \in Nat
    BY ThreadFacts DEF TypeOK, UnpackedControl, MAX_PAYLOAD_LENGTH
  <1>2. PackControl(c.state, "HOT", c.length, c.offset) =
          [state |-> c.state, ref |-> "HOT", length |-> c.length,
           offset |-> c.offset]
    BY <1>1, Repacked
  <1>3. PackControl(c.state, "COLD", c.length, offset[GC]) =
          [state |-> c.state, ref |-> "COLD", length |-> c.length,
           offset |-> offset[GC] % OFFMOD]
    BY <1>1, Packed
  <1>4. control' = IF control[node[GC]] = PackControl(c.state, "HOT", c.length, c.offset)
                   THEN [control EXCEPT ![node[GC]] =
                           PackControl(c.state, "COLD", c.length, offset[GC])]
                   ELSE control
    BY DEF GcDemote, CompareExchange
  <1> QED BY <1>2, <1>3, <1>4

-----------------------------------------------------------------------------
(* Base.                                                                   *)

(* An allocation keeps a thread within its function.                       *)
LEMMA AllocationLabels ==
  ASSUME TypeOK, Labels, NEW t \in Allocators, Allocation(t)
  PROVE  Labels'
  BY ThreadFacts
  DEF Allocation, Reserve, LoseReserve, WriteHeader, Goto, Labels, TypeOK

(* Every step leaves each thread inside its own function.                  *)
LEMMA NextLabels == TypeOK /\ Labels /\ [Next]_vars => Labels'
  <1> SUFFICES ASSUME TypeOK, Labels, [Next]_vars
               PROVE  Labels'
    OBVIOUS
  <1>1. ASSUME NEW n \in Nodes, Claim(n) \/ Expire(n)
        PROVE  Labels'
    BY <1>1 DEF Claim, Expire, Labels
  <1>2. ASSUME NEW w \in Writers, NEW n \in Nodes,
               NEW len \in 1 .. MAX_PAYLOAD_LENGTH, SetCache(w, n, len)
        PROVE  Labels'
    BY <1>2, ThreadFacts DEF SetCache, BeginAllocate, Goto, Labels, TypeOK
  <1>3. ASSUME NEW w \in Writers, WriterStep(w)
        PROVE  Labels'
    <2>1. CASE Allocation(w)
      BY <2>1, ThreadFacts, AllocationLabels
    <2>2. CASE ThrowInWriter(w) \/ WriteText(w) \/ Publish(w)
      BY <2>2, ThreadFacts
      DEF ThrowInWriter, WriteText, Publish, Return, Goto, Labels, TypeOK
    <2> QED BY <1>3, <2>1, <2>2 DEF WriterStep
  <1>4. ASSUME NEW r \in Readers, NEW n \in Nodes, LoadHit(r, n)
        PROVE  Labels'
    BY <1>4, ThreadFacts DEF LoadHit, Goto, Labels, TypeOK
  <1>5. ASSUME NEW r \in Readers, ReaderStep(r)
        PROVE  Labels'
    BY <1>5, ThreadFacts
    DEF ReaderStep, ReadPayload, MarkHot, Return, Goto, Labels, TypeOK
  <1>6. CASE GcStep
    <2>1. CASE GcLeap \/ GcResync
      BY <2>1 DEF GcLeap, GcResync, Labels
    <2>2. CASE GcReadHeader \/ GcFindCold \/ GcFindHot \/ GcEvict
      BY <2>2, ThreadFacts
      DEF GcReadHeader, GcFindCold, GcFindHot, GcEvict, BeginAllocate, Goto,
          Labels, TypeOK
    <2>3. CASE GcSkip \/ GcAdvance
      BY <2>3, ThreadFacts DEF GcSkip, GcAdvance, Return, Goto, Labels, TypeOK
    <2>4. CASE Allocation(GC)
      BY <2>4, ThreadFacts, AllocationLabels
    <2>5. CASE ThrowInGC \/ GcCopyText \/ GcDemote
      BY <2>5, ThreadFacts DEF ThrowInGC, GcCopyText, GcDemote, Goto, Labels, TypeOK
    <2> QED BY <1>6, <2>1, <2>2, <2>3, <2>4, <2>5 DEF GcStep
  <1>7. CASE UNCHANGED vars
    BY <1>7 DEF vars, Labels
  <1> QED
    BY <1>1, <1>2, <1>3, <1>4, <1>5, <1>6, <1>7 DEF Next, Checks

(* Words, where the step makes no slot ready that was not, lets no reader  *)
(* begin and changes no length of a writer at work.                        *)
LEMMA WordsKept ==
  ASSUME Words, write_head \in Nat, write_head' \in Nat, write_head <= write_head',
         control' \in [Nodes -> UnpackedControl],
         \A n \in Nodes :
           \/ control'[n] = control[n]
           \/ control'[n].state \in {"DEAD", "PENDING"}
           \/ /\ control'[n].state = control[n].state
              /\ control'[n].length = control[n].length
              /\ control'[n].offset = control[n].offset
           \/ /\ control'[n].state \in {control[n].state, "READY"}
              /\ control'[n].length >= 1
              /\ control'[n].offset < write_head',
         \A r \in Readers : pc'[r] # "idle" => pc[r] # "idle" /\ seen'[r] = seen[r],
         \A w \in Writers : pc'[w] # "idle" => pc[w] # "idle" /\ length'[w] = length[w],
         \A r \in Readers : seen[r] \in UnpackedControl,
         control \in [Nodes -> UnpackedControl]
  PROVE  Words'
  <1>1. \A n \in Nodes : /\ control[n].offset \in Int
                         /\ control'[n].offset \in Int
                         /\ control[n].length \in Int
    BY RingFacts DEF UnpackedControl
  <1>2. \A r \in Readers : seen[r].offset \in Int
    BY RingFacts DEF UnpackedControl
  <1>3. ASSUME NEW n \in Nodes
        PROVE  /\ control'[n].state # "MIGRATING"
               /\ Ready(n)' => control'[n].offset < write_head' /\ control'[n].length >= 1
    BY <1>1 DEF Words, Ready
  <1>4. ASSUME NEW r \in Readers, pc'[r] # "idle"
        PROVE  seen'[r].state = "READY" /\ seen'[r].offset < write_head'
    BY <1>2, <1>4 DEF Words
  <1>5. ASSUME NEW w \in Writers, pc'[w] # "idle"
        PROVE  length'[w] >= 1
    BY <1>5 DEF Words
  <1> QED BY <1>3, <1>4, <1>5 DEF Words

(* The thread that writes an entry ends it below the head.                 *)
LEMMA WritingBelow ==
  ASSUME TypeOK, ReservationsDisjoint, NEW t \in Allocators, Writing(t)
  PROVE  /\ offset[t] \in Nat /\ length[t] \in 0 .. MAX_PAYLOAD_LENGTH
         /\ EntryEnd(t) = offset[t] + HDR + length[t]
         /\ EntryEnd(t) <= write_head
         /\ offset[t] + HDR <= EntryEnd(t)
         /\ offset[t] % OFFMOD < write_head
         /\ offset[t] % OFFMOD \in 0 .. OFFMOD - 1
  <1>1. offset[t] \in Nat /\ length[t] \in 0 .. MAX_PAYLOAD_LENGTH /\ write_head \in Nat
    BY DEF TypeOK
  <1>2. EntryEnd(t) = offset[t] + HDR + length[t] /\ EntryEnd(t) <= write_head
    BY <1>1, RingFacts DEF ReservationsDisjoint, EntryEnd, EntrySize
  <1>3. offset[t] \in Int
    BY <1>1
  <1>4. offset[t] % OFFMOD <= offset[t]
    BY <1>1, ModLess, RingFacts
  <1>5. offset[t] % OFFMOD \in 0 .. OFFMOD - 1
    BY <1>3, ModRange, RingFacts
  <1> QED BY <1>1, <1>2, <1>4, <1>5, RingFacts

(* Every step leaves the words below the head.                             *)
LEMMA NextWords ==
  TypeOK /\ TypeOK' /\ ReservationsDisjoint /\ Labels /\ Words /\ [Next]_vars => Words'
  <1> SUFFICES ASSUME TypeOK, TypeOK', ReservationsDisjoint, Labels, Words, [Next]_vars
               PROVE  Words'
    OBVIOUS
  <1> USE DEF ring, locals
  <1>1. /\ write_head \in Nat /\ write_head' \in Nat
        /\ control \in [Nodes -> UnpackedControl]
        /\ control' \in [Nodes -> UnpackedControl]
        /\ \A r \in Readers : seen[r] \in UnpackedControl
    BY ThreadFacts DEF TypeOK
  <1>2. ASSUME NEW n \in Nodes, Claim(n) \/ Expire(n)
        PROVE  Words'
    <2>1. \A m \in Nodes : \/ control'[m] = control[m]
                           \/ control'[m].state \in {"DEAD", "PENDING"}
      BY <1>1, <1>2 DEF Claim, Expire, PackControl
    <2> QED BY <1>1, <1>2, <2>1, WordsKept DEF Claim, Expire
  <1>3. ASSUME NEW w \in Writers, NEW n \in Nodes,
               NEW len \in 1 .. MAX_PAYLOAD_LENGTH, SetCache(w, n, len)
        PROVE  Words'
    <2>1. /\ write_head' = write_head /\ control' = control
          /\ \A r \in Readers : pc'[r] = pc[r] /\ seen'[r] = seen[r]
          /\ \A u \in Writers : \/ pc'[u] = pc[u] /\ length'[u] = length[u]
                                \/ length'[u] = len
      BY <1>3, ThreadFacts DEF SetCache, BeginAllocate, Goto, TypeOK
    <2> QED BY <2>1, RingFacts DEF Words, Ready
  <1>4. ASSUME NEW t \in Allocators, Allocation(t)
        PROVE  Words'
    <2>1. /\ control' = control /\ seen' = seen /\ length' = length
          /\ \A u \in Threads : pc'[u] # "idle" => pc[u] # "idle"
      BY <1>4 DEF Allocation, Reserve, LoseReserve, WriteHeader, Goto, TypeOK
    <2>2. write_head <= write_head'
      <3>1. CASE Reserve(t)
        BY <1>1, <3>1, EntryFits, PaddingBound, RingFacts DEF Reserve, TypeOK
      <3> QED BY <1>1, <1>4, <3>1 DEF Allocation, LoseReserve, WriteHeader
    <2> QED BY <1>1, <2>1, <2>2, WordsKept, ThreadFacts
  <1>5. ASSUME NEW w \in Writers, ThrowInWriter(w) \/ WriteText(w)
        PROVE  Words'
    <2>1. CASE ThrowInWriter(w)
      <3>1. /\ control' = control /\ write_head' = write_head
            /\ \A r \in Readers : pc'[r] = pc[r] /\ seen'[r] = seen[r]
            /\ \A u \in Writers : pc'[u] # "idle" =>
                 pc[u] # "idle" /\ length'[u] = length[u]
        BY <2>1, Returned, ThreadFacts DEF ThrowInWriter
      <3> QED BY <1>1, <3>1, WordsKept
    <2>2. CASE WriteText(w)
      <3>1. /\ control' = control /\ seen' = seen /\ write_head' = write_head
            /\ length' = length
            /\ \A u \in Threads : pc'[u] # "idle" => pc[u] # "idle"
        BY <2>2, ThreadFacts DEF WriteText, Goto, TypeOK
      <3> QED BY <1>1, <3>1, WordsKept, ThreadFacts
    <2> QED BY <1>5, <2>1, <2>2
  <1>6. ASSUME NEW w \in Writers, Publish(w)
        PROVE  Words'
    <2>1. /\ write_head' = write_head
          /\ \A r \in Readers : pc'[r] = pc[r] /\ seen'[r] = seen[r]
          /\ \A u \in Writers : pc'[u] # "idle" =>
               pc[u] # "idle" /\ length'[u] = length[u]
      BY <1>6, Returned, ThreadFacts DEF Publish
    <2>2. Writing(w) /\ pc[w] # "idle" /\ length[w] >= 1
      BY <1>6 DEF Publish, Writing, Words
    <2>3. /\ offset[w] \in Nat /\ length[w] \in 0 .. MAX_PAYLOAD_LENGTH
          /\ offset[w] % OFFMOD < write_head
      BY <2>2, WritingBelow, ThreadFacts
    <2>4. PackControl("READY", "HOT", length[w], offset[w]) =
            [state |-> "READY", ref |-> "HOT", length |-> length[w],
             offset |-> offset[w] % OFFMOD]
      BY <2>3, Packed
    <2>5. \A m \in Nodes : \/ control'[m] = control[m]
                           \/ /\ control'[m].state = "READY"
                              /\ control'[m].length >= 1
                              /\ control'[m].offset < write_head
      BY <1>1, <1>6, <2>2, <2>3, <2>4 DEF Publish
    <2> QED BY <1>1, <2>1, <2>5, WordsKept, ThreadFacts
  <1>7. ASSUME NEW r \in Readers, NEW n \in Nodes, LoadHit(r, n)
        PROVE  Words'
    <2>1. /\ write_head' = write_head /\ control' = control /\ length' = length
          /\ \A s \in Readers : \/ pc'[s] = pc[s] /\ seen'[s] = seen[s]
                                \/ seen'[s] = control[n]
          /\ \A w \in Writers : pc'[w] = pc[w]
          /\ control[n].state = "READY"
      BY <1>7, ThreadFacts DEF LoadHit, Goto, TypeOK, Words
    <2> QED BY <2>1 DEF Words, Ready
  <1>8. ASSUME NEW r \in Readers, ReaderStep(r)
        PROVE  Words'
    <2>1. /\ write_head' = write_head /\ length' = length
          /\ \A u \in Threads : pc'[u] # "idle" => pc[u] # "idle"
          /\ \A s \in Readers : pc'[s] # "idle" => seen'[s] = seen[s]
      BY <1>8, ThreadFacts DEF ReaderStep, ReadPayload, MarkHot, Return, Goto, TypeOK
    <2>2. \A n \in Nodes :
            \/ control'[n] = control[n]
            \/ /\ control'[n].state = control[n].state
               /\ control'[n].length = control[n].length
               /\ control'[n].offset = control[n].offset
      <3>1. CASE ReadPayload(r)
        BY <3>1 DEF ReadPayload
      <3>2. CASE MarkHot(r)
        BY <1>1, <3>2, MarkedHot DEF UnpackedControl
      <3> QED BY <1>8, <3>1, <3>2 DEF ReaderStep
    <2> QED BY <1>1, <2>1, <2>2, WordsKept, ThreadFacts
  <1>9. CASE GcStep
    <2>1. CASE Allocation(GC)
      BY <1>4, <2>1, ThreadFacts
    <2>2. ASSUME write_head' = write_head, ~Allocation(GC)
          PROVE  /\ \A r \in Readers : pc'[r] = pc[r] /\ seen'[r] = seen[r]
                 /\ \A w \in Writers : pc'[w] = pc[w] /\ length'[w] = length[w]
      BY <1>9, <2>2, ThreadFacts
      DEF GcStep, GcLeap, GcResync, GcReadHeader, GcSkip, GcFindCold, GcFindHot,
          GcEvict, ThrowInGC, GcCopyText, GcDemote, GcAdvance, BeginAllocate,
          Return, Goto, TypeOK
    <2>3. CASE GcEvict
      <3>1. \A m \in Nodes : \/ control'[m] = control[m]
                             \/ control'[m].state = "DEAD"
        BY <1>1, <2>3 DEF GcEvict, CompareExchange, PackControl
      <3>2. write_head' = write_head /\ seen' = seen /\ length' = length
            /\ \A u \in Threads \ {GC} : pc'[u] = pc[u]
        BY <2>3, ThreadFacts DEF GcEvict, Goto, TypeOK
      <3> QED BY <1>1, <3>1, <3>2, WordsKept, ThreadFacts
    <2>4. CASE GcDemote
      <3>2. /\ offset[GC] \in Nat /\ offset[GC] % OFFMOD < write_head
        BY <2>4, WritingBelow, ThreadFacts DEF GcDemote, Writing
      <3>3. \A m \in Nodes :
              \/ control'[m] = control[m]
              \/ /\ control'[m].state = control[m].state
                 /\ control'[m].length = control[m].length
                 /\ control'[m].offset < write_head
        <4> DEFINE c == seen[GC]
                   hot == [state |-> c.state, ref |-> "HOT", length |-> c.length,
                           offset |-> c.offset]
                   moved == [state |-> c.state, ref |-> "COLD",
                             length |-> c.length,
                             offset |-> offset[GC] % OFFMOD]
        <4>1. \/ /\ control[node[GC]] = hot
                 /\ control' = [control EXCEPT ![node[GC]] = moved]
              \/ control' = control
          BY <2>4, Demoted
        <4>2. /\ moved.state = hot.state /\ moved.length = hot.length
              /\ moved.offset = offset[GC] % OFFMOD
          OBVIOUS
        <4> HIDE DEF moved, hot
        <4> QED BY <1>1, <3>2, <4>1, <4>2
      <3>4. \A m \in Nodes :
              \/ control'[m] = control[m]
              \/ control'[m].state \in {"DEAD", "PENDING"}
              \/ /\ control'[m].state \in {control[m].state, "READY"}
                 /\ control'[m].length >= 1
                 /\ control'[m].offset < write_head
        BY <1>1, <3>3 DEF Words, Ready, UnpackedControl, NodeState
      <3>5. write_head' = write_head /\ seen' = seen /\ length' = length
            /\ \A u \in Threads \ {GC} : pc'[u] = pc[u]
        BY <2>4, ThreadFacts DEF GcDemote, Goto, TypeOK
      <3> QED BY <1>1, <3>4, <3>5, WordsKept, ThreadFacts
    <2>5. CASE ~Allocation(GC) /\ ~GcEvict /\ ~GcDemote
      <3>1. control' = control /\ write_head' = write_head
        BY <1>9, <2>5
        DEF GcStep, GcLeap, GcResync, GcReadHeader, GcSkip, GcFindCold, GcFindHot,
            ThrowInGC, GcCopyText, GcAdvance
      <3> QED BY <1>1, <2>2, <2>5, <3>1, WordsKept
    <2> QED BY <2>1, <2>3, <2>4, <2>5
  <1>10. CASE UNCHANGED vars
    BY <1>10 DEF vars, Words, Ready
  <1> QED
    BY <1>2, <1>3, <1>4, <1>5, <1>6, <1>7, <1>8, <1>9, <1>10, ThreadFacts
    DEF Next, Checks, WriterStep

(* Only the readers have copies.                                           *)
LEMMA NextCopies == Copies /\ [Next]_vars => Copies'
  <1> SUFFICES ASSUME Copies, [Next]_vars
               PROVE  DOMAIN out' = DOMAIN out
    BY DEF Copies
  <1> USE DEF ring, locals
  <1>1. ASSUME NEW t, Return(t)
        PROVE  DOMAIN out' = DOMAIN out
    BY <1>1 DEF Return
  <1>2. ASSUME NEW t \in Allocators, Allocation(t)
        PROVE  out' = out
    BY <1>2 DEF Allocation, Reserve, LoseReserve, WriteHeader
  <1>3. ASSUME NEW w \in Writers, WriterStep(w)
        PROVE  DOMAIN out' = DOMAIN out
    BY <1>1, <1>2, <1>3, ThreadFacts
    DEF WriterStep, ThrowInWriter, WriteText, Publish
  <1>4. ASSUME NEW r \in Readers, ReaderStep(r)
        PROVE  DOMAIN out' = DOMAIN out
    BY <1>1, <1>4 DEF ReaderStep, ReadPayload, MarkHot
  <1>5. CASE GcStep
    BY <1>1, <1>2, <1>5, ThreadFacts
    DEF GcStep, GcLeap, GcResync, GcReadHeader, GcSkip, GcFindCold, GcFindHot,
        GcEvict, ThrowInGC, GcCopyText, GcDemote, GcAdvance
  <1> QED
    BY <1>3, <1>4, <1>5
    DEF Next, Checks, Claim, Expire, SetCache, LoadHit, vars

(* Base holds at first ...                                                 *)
LEMMA InitBase == Init => Base
  <1> SUFFICES ASSUME Init PROVE Base
    OBVIOUS
  <1>1. ReservationsDisjoint
    BY DEF Init, ReservationsDisjoint, Writing, Threads, Allocators
  <1>2. Labels /\ Words /\ Copies
    BY ThreadFacts DEF Init, Labels, Words, Copies, Ready, ZeroControl, PackControl
  <1> QED BY <1>1, <1>2, InitType, InitRing DEF Base

(* ... and after every step of Spec.                                       *)
LEMMA NextBase == Base /\ [Next]_vars => Base'
  BY NextType, NextRing, StepDisjoint, NextLabels, NextWords, NextCopies DEF Base

-----------------------------------------------------------------------------
(***************************************************************************)
(* The layout of the ring.  S is the set of the virtual offsets at which   *)
(* an entry starts that the tail has not passed, E[s] is where the entry   *)
(* at s ends; the code has no such variables, the ring determines them.    *)
(***************************************************************************)

(* The head or, behind the padding, the next entry.                        *)
Follows(S, v) == v = write_head \/ v + Padding(v) \in S

(* The entries lie one after the other from the tail to the head.          *)
Tiling(S, E) ==
  /\ \A s \in S : /\ read_tail <= s /\ s + HDR <= E[s] /\ E[s] <= write_head
                  /\ Padding(s) = 0
                  /\ Follows(S, E[s])
  /\ \A s, u \in S : s < u => E[s] <= u
  /\ Follows(S, read_tail)

(* Each has its header, or somebody is about to write it.                  *)
Described(S, E) ==
  \A s \in S :
    \/ buffer[At(s)].kind = "header" /\ E[s] = s + HDR + buffer[At(s)].arg
    \/ \E t \in Allocators : pc[t] = "header" /\ offset[t] = s

(* Who is writing an entry owns it, and what it has written stays there.   *)
Owned(S, E) ==
  \A t \in Allocators : Writing(t) =>
    /\ offset[t] \in S /\ E[offset[t]] = EntryEnd(t)
    /\ t = GC => read_tail < offset[GC]
    /\ pc[t] # "header" => Slice(offset[t], HDR) = HeaderOf(node[t], length[t])
    /\ pc[t] = "publish" =>
         Slice(offset[t] + HDR, length[t]) = TextOf(node[t], length[t])
    /\ pc[t] = "demote" =>
         Slice(offset[t] + HDR, length[t]) = Slice(read_tail + HDR, length[t])

(* The GC works on the entry at the tail.                                  *)
GcBusy == pc[GC] \notin {"loop", "terminated"}

GcAtEntry(S, E) ==
  GcBusy => /\ read_tail \in S /\ E[read_tail] = read_tail + EntrySize(GC)
            /\ buffer[At(read_tail)] = HeaderCell(node[GC], length[GC])

Layout(S, E) ==
  /\ S \in SUBSET Nat /\ E \in [Nat -> Nat]
  /\ Tiling(S, E) /\ Described(S, E) /\ Owned(S, E) /\ GcAtEntry(S, E)

NoWriter(v) == \A t \in Allocators : Writing(t) => offset[t] # v

(* The entry at v is finished and names slot n.                            *)
InPlace(S, v, n) ==
  /\ v \in S
  /\ NoWriter(v)
  /\ buffer[At(v)].kind = "header" /\ buffer[At(v)].node = n

(* The virtual offsets that the head is less than a ring beyond.           *)
Near(v) == write_head - BUFFER <= v /\ v < write_head

(* The payload of n, of this length, is whole at every place near the head *)
(* that the bits o can stand for, and no entry in the ring is cut by it.   *)
Whole(S, n, o, len) ==
  \A v \in Nat : Near(v) /\ v % OFFMOD = o =>
    /\ v < read_tail => v + HDR + len <= read_tail
    /\ v >= read_tail => v \in S
    /\ NoWriter(v)
    /\ EntryIntact(v, n, len)

(* What the ring can still do to a payload in one step.                    *)
Unaliased(o) == \A v \in Nat : write_head <= v /\ v < write_head' => v % OFFMOD # o

Carries(S, S2) ==
  /\ \A v \in S, n \in Nodes :
       InPlace(S, v, n) /\ (v = read_tail => read_tail' = read_tail)
         => InPlace(S2, v, n)'
  /\ \A n \in Nodes, o \in Nat, len \in 0 .. MAX_PAYLOAD_LENGTH :
       Whole(S, n, o, len) /\ Unaliased(o) => Whole(S2, n, o, len)'

(* What the lemmas below need of a state.                                  *)
Sound(S, E) == Base /\ Timely /\ NoLap /\ Layout(S, E)

(* What a sound state says of an entry, a writer and the ends.             *)
LEMMA SoundFacts ==
  ASSUME NEW S, NEW E, Sound(S, E)
  PROVE  /\ write_head \in Nat /\ read_tail \in Nat
         /\ read_tail <= write_head /\ write_head - BUFFER <= read_tail
         /\ \A s \in S : /\ s \in Nat /\ E[s] \in Nat
                         /\ read_tail <= s /\ s + HDR <= E[s] /\ E[s] <= write_head
                         /\ s < write_head /\ Near(s)
         /\ \A s, u \in S : s = u \/ E[s] <= u \/ E[u] <= s
         /\ \A t \in Allocators :
              offset[t] \in Nat /\ length[t] \in 0 .. MAX_PAYLOAD_LENGTH
         /\ \A t \in Allocators : Writing(t) =>
              /\ offset[t] \in S /\ node[t] \in Nodes /\ pc[t] # "idle"
              /\ E[offset[t]] = EntryEnd(t)
              /\ EntryEnd(t) = offset[t] + HDR + length[t]
  <1>1. /\ write_head \in Nat /\ read_tail \in Nat
        /\ read_tail <= write_head /\ write_head - BUFFER <= read_tail
    BY RingFacts DEF Sound, Base, TypeOK, RingBounds, NoLap, used_space
  <1>2. ASSUME NEW s \in S
        PROVE  /\ s \in Nat /\ E[s] \in Nat
               /\ read_tail <= s /\ s + HDR <= E[s] /\ E[s] <= write_head
               /\ s < write_head /\ Near(s)
    <2>1. /\ s \in Nat /\ E[s] \in Nat
          /\ read_tail <= s /\ s + HDR <= E[s] /\ E[s] <= write_head
      BY DEF Sound, Layout, Tiling
    <2> QED BY <1>1, <2>1, RingFacts DEF Near
  <1>3. \A s, u \in S : s = u \/ E[s] <= u \/ E[u] <= s
    <2>1. \A s, u \in S : s < u => E[s] <= u
      BY DEF Sound, Layout, Tiling
    <2> QED BY <1>2, <2>1
  <1>4. ASSUME NEW t \in Allocators
        PROVE  offset[t] \in Nat /\ length[t] \in 0 .. MAX_PAYLOAD_LENGTH
    BY DEF Sound, Base, TypeOK
  <1>5. ASSUME NEW t \in Allocators, Writing(t)
        PROVE  /\ offset[t] \in S /\ node[t] \in Nodes /\ pc[t] # "idle"
               /\ E[offset[t]] = EntryEnd(t)
               /\ EntryEnd(t) = offset[t] + HDR + length[t]
    <2>1. offset[t] \in S /\ E[offset[t]] = EntryEnd(t)
      BY <1>5 DEF Sound, Layout, Owned
    <2>2. node[t] \in Nodes /\ pc[t] # "idle"
      BY <1>5 DEF Sound, Base, TypeOK, Writing, Threads, Allocators
    <2>3. EntryEnd(t) = offset[t] + HDR + length[t]
      BY <1>4, RingFacts DEF EntryEnd, EntrySize
    <2> QED BY <2>1, <2>2, <2>3
  <1> QED BY <1>1, <1>2, <1>3, <1>4, <1>5

(* While the GC is busy every writer is beyond the entry at the tail.      *)
LEMMA WritersAhead ==
  ASSUME NEW S, NEW E, Sound(S, E), GcBusy, NEW t \in Allocators, Writing(t)
  PROVE  /\ read_tail \in S /\ E[read_tail] = read_tail + EntrySize(GC)
         /\ offset[t] # read_tail /\ E[read_tail] <= offset[t]
  <1>1. read_tail \in S /\ E[read_tail] = read_tail + EntrySize(GC)
    BY DEF Sound, Layout, GcAtEntry
  <1>2. offset[t] # read_tail
    <2>1. CASE t = GC
      BY <2>1, SoundFacts DEF Sound, Layout, Owned
    <2>2. CASE t \in Writers
      <3>1. pc[t] \in {"header", "text", "publish"}
        BY <2>2 DEF Writing, Sound, Base, Labels
      <3>2. read_tail < offset[t]
        BY <2>2, <3>1 DEF Sound, Timely, GcBusy
      <3> QED BY <3>2, SoundFacts
    <2> QED BY <2>1, <2>2, ThreadFacts
  <1>3. E[read_tail] <= offset[t] \/ E[offset[t]] <= read_tail
    BY <1>1, <1>2, SoundFacts
  <1>4. ~(E[offset[t]] <= read_tail)
    BY SoundFacts, RingFacts
  <1> QED BY <1>1, <1>2, <1>3, <1>4

(* A finished entry is described by its header.                            *)
LEMMA FinishedEntry ==
  ASSUME NEW S, NEW E, Sound(S, E), NEW v \in S, NoWriter(v)
  PROVE  buffer[At(v)].kind = "header" /\ E[v] = v + HDR + buffer[At(v)].arg
  <1>1. \A t \in Allocators : pc[t] = "header" => offset[t] # v
    BY DEF NoWriter, Writing
  <1> QED BY <1>1 DEF Sound, Layout, Described

(* The first cell of an intact entry.                                      *)
LEMMA IntactHeader ==
  ASSUME NEW v \in Nat, NEW n, NEW len \in Nat,
         Slice(v, HDR) = HeaderOf(n, len)
  PROVE  buffer[At(v)] = HeaderCell(n, len)
  <1>1. 0 \in 0 .. HDR - 1 /\ v + 0 = v
    BY RingFacts
  <1>2. Slice(v, HDR)[0] = buffer[At(v + 0)]
    BY <1>1 DEF Slice
  <1>3. HeaderOf(n, len)[0] = HeaderCell(n, len)
    BY <1>1 DEF HeaderOf
  <1> QED BY <1>1, <1>2, <1>3

(* A whole payload fills its entry.                                        *)
LEMMA WholeEntry ==
  ASSUME NEW S, NEW E, Sound(S, E), NEW n, NEW len \in 0 .. MAX_PAYLOAD_LENGTH,
         NEW v \in S, NoWriter(v), Slice(v, HDR) = HeaderOf(n, len)
  PROVE  E[v] = v + HDR + len
  <1>1. buffer[At(v)] = HeaderCell(n, len)
    BY IntactHeader, SoundFacts
  <1> QED BY <1>1, FinishedEntry DEF HeaderCell

-----------------------------------------------------------------------------
(* Steps that leave the ring alone.                                        *)

(* A step that touches no cell, no end and no reservation.                 *)
LEMMA StillRing ==
  ASSUME NEW S, NEW E, Sound(S, E), UNCHANGED ring,
         \A t \in Allocators : Writing(t)' =>
           pc'[t] = pc[t] /\ offset'[t] = offset[t] /\ length'[t] = length[t]
             /\ node'[t] = node[t],
         \A t \in Allocators : pc[t] = "header" =>
           pc'[t] = "header" /\ offset'[t] = offset[t],
         GcAtEntry(S, E)'
  PROVE  Layout(S, E)' /\ Carries(S, S)
  <1> USE DEF ring
  <1>1. ASSUME NEW t \in Allocators, Writing(t)'
        PROVE  Writing(t) /\ offset'[t] = offset[t] /\ EntryEnd(t)' = EntryEnd(t)
    BY <1>1 DEF Writing, EntryEnd, EntrySize
  <1>2. Layout(S, E)'
    <2>1. Tiling(S, E)'
      BY DEF Sound, Layout, Tiling, Follows
    <2>2. Described(S, E)'
      BY DEF Sound, Layout, Described, At
    <2>3. Owned(S, E)'
      <3> SUFFICES ASSUME NEW t \in Allocators, Writing(t)'
                   PROVE
              /\ offset'[t] \in S /\ E[offset'[t]] = EntryEnd(t)'
              /\ t = GC => read_tail' < offset'[GC]
              /\ pc'[t] # "header" =>
                   Slice(offset[t], HDR)' = HeaderOf(node[t], length[t])'
              /\ pc'[t] = "publish" =>
                   Slice(offset[t] + HDR, length[t])' = TextOf(node[t], length[t])'
              /\ pc'[t] = "demote" =>
                   Slice(offset[t] + HDR, length[t])' =
                     Slice(read_tail + HDR, length[t])'
        BY DEF Owned
      <3>1. /\ Writing(t) /\ pc'[t] = pc[t] /\ offset'[t] = offset[t]
            /\ length'[t] = length[t] /\ node'[t] = node[t]
            /\ EntryEnd(t)' = EntryEnd(t)
        BY <1>1
      <3> QED BY <3>1 DEF Sound, Layout, Owned, Slice, At, HeaderOf, TextOf
    <2> QED BY <2>1, <2>2, <2>3 DEF Sound, Layout
  <1>3. \A v : NoWriter(v) => NoWriter(v)'
    BY <1>1 DEF NoWriter
  <1>4. \A v \in S, n \in Nodes : InPlace(S, v, n) => InPlace(S, v, n)'
    BY <1>3 DEF InPlace, At
  <1>5. \A n \in Nodes, o \in Nat, len \in 0 .. MAX_PAYLOAD_LENGTH :
          Whole(S, n, o, len) => Whole(S, n, o, len)'
    BY <1>3 DEF Whole, Near, EntryIntact, Slice, At, HeaderOf, TextOf
  <1> QED BY <1>2, <1>4, <1>5 DEF Carries

-----------------------------------------------------------------------------
(* Reserve adds an entry at the head.                                      *)

(* The new entry starts behind the padding and ends at the new head.       *)
LEMMA ReserveLayout ==
  ASSUME NEW S, NEW E, Sound(S, E), NEW t \in Allocators, Reserve(t)
  PROVE  \E S2, E2 : Layout(S2, E2)' /\ Carries(S, S2)
  <1>1. PICK a : a = write_head + Padding(write_head)
    OBVIOUS
  <1>2. PICK h : h = a + EntrySize(t)
    OBVIOUS
  <1> DEFINE S2 == S \cup {a}
             E2 == [E EXCEPT ![a] = h]
  <1>3. /\ write_head' = h /\ offset' = [offset EXCEPT ![t] = a]
        /\ pc' = [pc EXCEPT ![t] = "header"] /\ pc[t] = "allocate"
        /\ read_tail' = read_tail /\ buffer' = buffer
        /\ node' = node /\ length' = length
    BY <1>1, <1>2 DEF Reserve, Goto, Sound, Base, TypeOK
  <1>4. /\ Padding(write_head) \in 0 .. HDR - 1 /\ EntrySize(t) \in Nat
        /\ EntrySize(t) >= HDR /\ a \in Nat /\ h \in Nat
        /\ write_head <= a /\ a + HDR <= h /\ Padding(a) = 0
        /\ t \in Threads /\ EntrySize(t) = HDR + length[t]
    BY <1>1, <1>2, PaddingBound, PaddedOnce, EntryFits, RingFacts, SoundFacts
    DEF EntrySize, Threads, Allocators, Sound, Base
  <1>5. S \in SUBSET Nat /\ E \in [Nat -> Nat]
    BY DEF Sound, Layout
  <1>6. /\ \A s \in S : s # a /\ s < a /\ E2[s] = E[s]
        /\ E2[a] = h /\ E2 \in [Nat -> Nat] /\ S2 \in SUBSET Nat
    BY <1>4, <1>5, SoundFacts
  <1>7. ASSUME NEW u \in Allocators, u # t
        PROVE  /\ pc'[u] = pc[u] /\ offset'[u] = offset[u]
               /\ (Writing(u)' <=> Writing(u)) /\ EntryEnd(u)' = EntryEnd(u)
    BY <1>3, <1>7 DEF Writing, EntryEnd, EntrySize, Sound, Base, TypeOK, Threads,
                      Allocators
  <1>8. pc'[t] = "header" /\ offset'[t] = a /\ EntryEnd(t)' = h
    BY <1>3, <1>4, <1>2 DEF Sound, Base, TypeOK, EntryEnd, EntrySize
  <1>9. Layout(S2, E2)'
    <2>1. Tiling(S2, E2)'
      <3>1. ASSUME NEW s \in S2
            PROVE  /\ read_tail <= s /\ s + HDR <= E2[s] /\ E2[s] <= h
                   /\ Padding(s) = 0
                   /\ (E2[s] = h \/ E2[s] + Padding(E2[s]) \in S2)
        <4>1. CASE s = a
          BY <1>4, <1>6, <4>1, SoundFacts
        <4>2. CASE s \in S
          <5>1. Padding(s) = 0 /\ Follows(S, E[s])
            BY <4>2 DEF Sound, Layout, Tiling
          <5>2. E[s] + Padding(E[s]) \in S2
            BY <1>1, <5>1 DEF Follows
          <5>3. /\ E2[s] = E[s] /\ read_tail <= s /\ s + HDR <= E[s] /\ E[s] <= write_head
                /\ write_head <= h /\ E[s] \in Nat
            BY <1>4, <1>6, <4>2, SoundFacts, RingFacts
          <5>4. E[s] <= h
            BY <1>4, <5>3, SoundFacts
          <5> QED BY <5>1, <5>2, <5>3, <5>4
        <4> QED BY <4>1, <4>2
      <3>2. ASSUME NEW s \in S2, NEW u \in S2, s < u
            PROVE  E2[s] <= u
        <4>1. CASE s \in S /\ u \in S
          BY <1>6, <3>2, <4>1 DEF Sound, Layout, Tiling
        <4>2. CASE s \in S /\ u = a
          <5>1. E2[s] = E[s] /\ E[s] <= write_head /\ E[s] \in Nat
            BY <1>6, <4>2, SoundFacts
          <5> QED BY <1>4, <4>2, <5>1, SoundFacts
        <4>3. CASE s = a
          BY <1>4, <1>5, <1>6, <3>2, <4>3
        <4> QED BY <4>1, <4>2, <4>3
      <3>3. read_tail + Padding(read_tail) \in S2
        BY <1>1 DEF Sound, Layout, Tiling, Follows
      <3> QED BY <1>3, <3>1, <3>2, <3>3 DEF Tiling, Follows, Padding, At
    <2>2. Described(S2, E2)'
      <3> SUFFICES ASSUME NEW s \in S2
                   PROVE  \/ /\ buffer[At(s)].kind = "header"
                             /\ E2[s] = s + HDR + buffer[At(s)].arg
                          \/ \E u \in Allocators : pc'[u] = "header" /\ offset'[u] = s
        BY <1>3 DEF Described, At
      <3>1. CASE s = a
        BY <1>8, <3>1
      <3>2. CASE s \in S
        BY <1>3, <1>6, <1>7, <3>2 DEF Sound, Layout, Described
      <3> QED BY <3>1, <3>2
    <2>3. Owned(S2, E2)'
      <3> SUFFICES ASSUME NEW u \in Allocators, Writing(u)'
                   PROVE
              /\ offset'[u] \in S2 /\ E2[offset'[u]] = EntryEnd(u)'
              /\ u = GC => read_tail < offset'[GC]
              /\ pc'[u] # "header" =>
                   Slice(offset[u], HDR)' = HeaderOf(node[u], length[u])'
              /\ pc'[u] = "publish" =>
                   Slice(offset[u] + HDR, length[u])' = TextOf(node[u], length[u])'
              /\ pc'[u] = "demote" =>
                   Slice(offset[u] + HDR, length[u])' =
                     Slice(read_tail + HDR, length[u])'
        BY <1>3 DEF Owned
      <3>1. CASE u = t
        <4>1. u = GC => read_tail < a
          <5>1. u = GC => read_tail + EntrySize(GC) <= write_head
            BY <1>3, <3>1 DEF Sound, Base, RingBounds
          <5> QED BY <1>4, <3>1, <5>1, SoundFacts, RingFacts
        <4> QED BY <1>6, <1>8, <3>1, <4>1
      <3>2. CASE u # t
        <4>1. /\ Writing(u) /\ pc'[u] = pc[u] /\ offset'[u] = offset[u]
              /\ EntryEnd(u)' = EntryEnd(u) /\ offset[u] \in S
          BY <1>7, <3>2, SoundFacts
        <4> QED
          BY <1>3, <1>6, <4>1
          DEF Sound, Layout, Owned, Slice, At, HeaderOf, TextOf
      <3> QED BY <3>1, <3>2
    <2>4. GcAtEntry(S2, E2)'
      <3>1. GcBusy' => GcBusy
        BY <1>3, <1>7, ThreadFacts DEF GcBusy
      <3> QED
        BY <1>3, <1>6, <3>1
        DEF Sound, Layout, GcAtEntry, EntrySize, HeaderCell, At
    <2> QED BY <1>6, <2>1, <2>2, <2>3, <2>4 DEF Layout
  <1>10. \A v : NoWriter(v) /\ v # a => NoWriter(v)'
    BY <1>7, <1>8 DEF NoWriter
  <1>11. ASSUME NEW v \in S, NEW n \in Nodes, InPlace(S, v, n)
        PROVE  InPlace(S2, v, n)'
    BY <1>3, <1>6, <1>10, <1>11 DEF InPlace, At
  <1>12. ASSUME NEW n \in Nodes, NEW o \in Nat, NEW len \in 0 .. MAX_PAYLOAD_LENGTH,
                Whole(S, n, o, len), Unaliased(o)
         PROVE  Whole(S2, n, o, len)'
    <2> SUFFICES ASSUME NEW v \in Nat, Near(v)', v % OFFMOD = o
                 PROVE  /\ v < read_tail => v + HDR + len <= read_tail
                        /\ v >= read_tail => v \in S2
                        /\ NoWriter(v)'
                        /\ EntryIntact(v, n, len)'
      BY <1>3 DEF Whole
    <2>1. v < write_head
      BY <1>12, SoundFacts DEF Unaliased, Near
    <2>2. Near(v) /\ v # a
      BY <1>3, <1>4, <2>1, SoundFacts, RingFacts DEF Near
    <2>3. /\ v < read_tail => v + HDR + len <= read_tail
          /\ v >= read_tail => v \in S
          /\ NoWriter(v) /\ EntryIntact(v, n, len)
      BY <1>12, <2>2 DEF Whole
    <2> QED BY <1>3, <1>10, <2>2, <2>3
            DEF EntryIntact, Slice, At, HeaderOf, TextOf
  <1>13. Carries(S, S2)
    BY <1>11, <1>12 DEF Carries
  <1> QED BY <1>9, <1>13

-----------------------------------------------------------------------------
(* Steps that write into an entry.                                         *)

(* The step writes nothing of the ring but what t has reserved.            *)
Touches(t) ==
  \A x \in Int :
    write_head - BUFFER <= x /\ x < write_head
      /\ (x < offset[t] \/ EntryEnd(t) <= x)
      => buffer'[At(x)] = buffer[At(x)]

(* A write within a thread's own entry touches only that.                  *)
LEMMA OverwriteTouches ==
  ASSUME NEW S, NEW E, Sound(S, E), NEW t \in Allocators, Writing(t),
         NEW v \in Nat, NEW len \in Nat, NEW new,
         offset[t] <= v, v + len <= EntryEnd(t),
         buffer' = Overwritten(v, len, new)
  PROVE  Touches(t)
  <1>1. /\ offset[t] \in Nat /\ EntryEnd(t) \in Nat /\ EntryEnd(t) <= write_head
        /\ write_head - BUFFER <= offset[t] /\ write_head \in Nat
    BY SoundFacts, RingFacts DEF Near
  <1> SUFFICES ASSUME NEW x \in Int, write_head - BUFFER <= x, x < write_head,
                      x < offset[t] \/ EntryEnd(t) <= x
               PROVE  buffer'[At(x)] = buffer[At(x)]
    BY DEF Touches
  <1>2. /\ x < v + BUFFER /\ v + len <= x + BUFFER /\ v \in Int
        /\ x < v \/ v + len <= x
    BY <1>1, RingFacts
  <1>3. Overwritten(v, len, new)[At(x)] = buffer[At(x)]
    BY <1>2, OtherCell
  <1> QED BY <1>3

(* What lies beside the entry that is written stays as it was.             *)
LEMMA BesideEntry ==
  ASSUME NEW S, NEW E, Sound(S, E), NEW t \in Allocators, Writing(t), Touches(t)
  PROVE  /\ \A s \in S, v \in Nat, len \in Nat :
              s # offset[t] /\ s <= v /\ v + len <= E[s]
                => Slice(v, len)' = Slice(v, len)
         /\ \A s \in S : s # offset[t] => buffer'[At(s)] = buffer[At(s)]
         /\ \A v \in Nat, len \in Nat :
              write_head - BUFFER <= v /\ v + len <= read_tail
                => Slice(v, len)' = Slice(v, len)
  <1>1. /\ offset[t] \in S /\ E[offset[t]] = EntryEnd(t)
        /\ write_head \in Nat /\ read_tail \in Nat /\ read_tail <= write_head
        /\ EntryEnd(t) \in Nat
    BY SoundFacts
  <1>2. ASSUME NEW s \in S, s # offset[t], NEW x \in Int, s <= x, x < E[s]
        PROVE  buffer'[At(x)] = buffer[At(x)]
    <2>1. E[s] <= offset[t] \/ EntryEnd(t) <= s
      BY <1>1, <1>2, SoundFacts
    <2>2. /\ s \in Nat /\ E[s] \in Nat /\ E[s] <= write_head /\ offset[t] \in Nat
          /\ write_head - BUFFER <= s
      BY <1>1, SoundFacts DEF Near
    <2> QED BY <1>1, <1>2, <2>1, <2>2, RingFacts DEF Touches
  <1>3. ASSUME NEW s \in S, NEW v \in Nat, NEW len \in Nat,
               s # offset[t], s <= v, v + len <= E[s]
        PROVE  Slice(v, len)' = Slice(v, len)
    <2>1. s \in Nat /\ E[s] \in Nat
      BY SoundFacts
    <2>2. \A x \in Int : v <= x /\ x < v + len => buffer'[At(x)] = buffer[At(x)]
      BY <1>2, <1>3, <2>1
    <2> QED BY <2>2, SliceKept
  <1>4. ASSUME NEW s \in S, s # offset[t]
        PROVE  buffer'[At(s)] = buffer[At(s)]
    <2>1. s \in Int /\ s < E[s]
      BY SoundFacts, RingFacts
    <2> QED BY <1>2, <1>4, <2>1
  <1>5. ASSUME NEW v \in Nat, NEW len \in Nat,
               write_head - BUFFER <= v, v + len <= read_tail
        PROVE  Slice(v, len)' = Slice(v, len)
    <2>1. read_tail <= offset[t] /\ offset[t] \in Nat
      BY <1>1, SoundFacts
    <2>2. \A x \in Int : v <= x /\ x < v + len => buffer'[At(x)] = buffer[At(x)]
      BY <1>1, <1>5, <2>1, RingFacts DEF Touches
    <2> QED BY <2>2, SliceKept
  <1> QED BY <1>3, <1>4, <1>5

(* The thread that writes says what of its entry is written now.           *)
LEMMA WriteLayout ==
  ASSUME NEW S, NEW E, Sound(S, E), NEW t \in Allocators, Writing(t), Touches(t),
         UNCHANGED <<write_head, read_tail, control, locals>>,
         NEW label \in {"text", "publish", "demote"}, Goto(t, label),
         label = "publish" => t \in Writers, label = "demote" => t = GC,
         Slice(offset[t], HDR)' = HeaderOf(node[t], length[t]),
         label = "publish" =>
           Slice(offset[t] + HDR, length[t])' = TextOf(node[t], length[t]),
         label = "demote" =>
           Slice(offset[t] + HDR, length[t])' = Slice(read_tail + HDR, length[t])'
  PROVE  Layout(S, E)' /\ Carries(S, S)
  <1> USE DEF locals
  <1>1. /\ pc' = [pc EXCEPT ![t] = label] /\ t \in Threads /\ pc'[t] = label
        /\ \A u \in Allocators : u # t => pc'[u] = pc[u]
    BY DEF Goto, Sound, Base, TypeOK, Threads, Allocators
  <1>2. /\ offset' = offset /\ length' = length /\ node' = node
        /\ \A u \in Allocators : (Writing(u)' <=> Writing(u))
                                   /\ EntryEnd(u)' = EntryEnd(u)
    BY <1>1 DEF Writing, EntryEnd, EntrySize
  <1>3. GcBusy' <=> GcBusy
    BY <1>1, ThreadFacts DEF GcBusy, Writing
  <1>4. GcBusy => read_tail \in S /\ read_tail # offset[t]
    BY WritersAhead
  <1>5. /\ \A s \in S, v \in Nat, len \in Nat :
             s # offset[t] /\ s <= v /\ v + len <= E[s]
               => Slice(v, len)' = Slice(v, len)
        /\ \A s \in S : s # offset[t] => buffer'[At(s)] = buffer[At(s)]
        /\ \A v \in Nat, len \in Nat :
             write_head - BUFFER <= v /\ v + len <= read_tail
               => Slice(v, len)' = Slice(v, len)
    BY BesideEntry
  <1>6. /\ offset[t] \in S /\ offset[t] \in Nat /\ length[t] \in Nat
        /\ E[offset[t]] = offset[t] + HDR + length[t]
    BY SoundFacts, RingFacts
  <1>7. buffer'[At(offset[t])] = HeaderCell(node[t], length[t])
    <2>1. 0 \in 0 .. HDR - 1 /\ offset[t] + 0 = offset[t]
      BY <1>6, RingFacts
    <2>2. Slice(offset[t], HDR)'[0] = buffer'[At(offset[t] + 0)]
      BY <1>2, <2>1 DEF Slice, At
    <2>3. HeaderOf(node[t], length[t])[0] = HeaderCell(node[t], length[t])
      BY <2>1 DEF HeaderOf
    <2> QED BY <2>1, <2>2, <2>3
  <1>8. Tiling(S, E)'
    BY DEF Sound, Layout, Tiling, Follows
  <1>9. Described(S, E)'
    <2> SUFFICES ASSUME NEW s \in S
                 PROVE  \/ /\ buffer'[At(s)].kind = "header"
                           /\ E[s] = s + HDR + buffer'[At(s)].arg
                        \/ \E u \in Allocators : pc'[u] = "header" /\ offset'[u] = s
      BY DEF Described, At
    <2>1. CASE s = offset[t]
      BY <1>6, <1>7, <2>1 DEF HeaderCell
    <2>2. CASE s # offset[t]
      BY <1>1, <1>2, <1>5, <2>2 DEF Sound, Layout, Described
    <2> QED BY <2>1, <2>2
  <1>10. Owned(S, E)'
    <2> SUFFICES ASSUME NEW u \in Allocators, Writing(u)'
                 PROVE
            /\ offset[u] \in S /\ E[offset[u]] = EntryEnd(u)
            /\ u = GC => read_tail < offset[GC]
            /\ pc'[u] # "header" =>
                 Slice(offset[u], HDR)' = HeaderOf(node[u], length[u])
            /\ pc'[u] = "publish" =>
                 Slice(offset[u] + HDR, length[u])' = TextOf(node[u], length[u])
            /\ pc'[u] = "demote" =>
                 Slice(offset[u] + HDR, length[u])' =
                   Slice(read_tail + HDR, length[u])'
      BY <1>2 DEF Owned, HeaderOf, TextOf
    <2>1. Writing(u)
      BY <1>2
    <2>2. /\ offset[u] \in S /\ E[offset[u]] = EntryEnd(u)
          /\ u = GC => read_tail < offset[GC]
          /\ pc[u] # "header" => Slice(offset[u], HDR) = HeaderOf(node[u], length[u])
          /\ pc[u] = "publish" =>
               Slice(offset[u] + HDR, length[u]) = TextOf(node[u], length[u])
          /\ pc[u] = "demote" =>
               Slice(offset[u] + HDR, length[u]) = Slice(read_tail + HDR, length[u])
      BY <2>1 DEF Sound, Layout, Owned
    <2>3. CASE u = t
      BY <1>1, <2>2, <2>3
    <2>4. CASE u # t
      <3>1. pc'[u] = pc[u] /\ offset[u] # offset[t]
        <4>1. EntryEnd(u) <= offset[t] \/ EntryEnd(t) <= offset[u]
          BY <2>1, <2>4 DEF Sound, Base, ReservationsDisjoint
        <4>2. offset[u] < EntryEnd(u) /\ offset[t] < EntryEnd(t)
          BY <2>1, SoundFacts, RingFacts
        <4>3. EntryEnd(u) \in Nat /\ EntryEnd(t) \in Nat /\ offset[u] \in Nat
          BY <2>1, SoundFacts, RingFacts
        <4> QED BY <1>1, <1>6, <2>4, <4>1, <4>2, <4>3
      <3>2. /\ Slice(offset[u], HDR)' = Slice(offset[u], HDR)
            /\ Slice(offset[u] + HDR, length[u])' = Slice(offset[u] + HDR, length[u])
        <4>1. /\ offset[u] \in Nat /\ length[u] \in Nat
              /\ E[offset[u]] = offset[u] + HDR + length[u]
          BY <2>1, SoundFacts, RingFacts
        <4>2. /\ offset[u] <= offset[u] /\ offset[u] + HDR <= E[offset[u]]
              /\ offset[u] + HDR \in Nat /\ offset[u] <= offset[u] + HDR
              /\ (offset[u] + HDR) + length[u] <= E[offset[u]]
              /\ HDR \in Nat
          BY <4>1, RingFacts
        <4>3. Slice(offset[u], HDR)' = [k \in 0 .. HDR - 1 |-> buffer'[At(offset[u] + k)]]
          BY <1>2 DEF Slice, At
        <4>4. PICK v : v = offset[u]
          OBVIOUS
        <4>5. PICK len : len = length[u]
          OBVIOUS
        <4>6. Slice(v, HDR)' = Slice(v, HDR) /\ Slice(v + HDR, len)' = Slice(v + HDR, len)
          BY <1>5, <2>2, <3>1, <4>1, <4>2, <4>4, <4>5
        <4> QED BY <1>2, <4>4, <4>5, <4>6 DEF Slice, At
      <3>3. pc[u] = "demote" =>
              Slice(read_tail + HDR, length[u])' = Slice(read_tail + HDR, length[u])
        <4> SUFFICES ASSUME pc[u] = "demote"
                     PROVE  Slice(read_tail + HDR, length[u])' =
                              Slice(read_tail + HDR, length[u])
          OBVIOUS
        <4>1. u = GC /\ GcBusy
          BY ThreadFacts DEF Sound, Base, Labels, GcBusy
        <4>2. /\ read_tail \in S /\ read_tail # offset[t]
              /\ E[read_tail] = read_tail + EntrySize(GC)
          BY <4>1, WritersAhead
        <4>3. /\ read_tail \in Nat /\ length[u] \in Nat
              /\ E[read_tail] = read_tail + HDR + length[u]
          BY <4>1, <4>2, SoundFacts, RingFacts DEF EntrySize
        <4>4. /\ read_tail <= read_tail + HDR /\ read_tail + HDR \in Nat
              /\ (read_tail + HDR) + length[u] <= E[read_tail]
          BY <4>3, RingFacts
        <4>5. PICK v : v = read_tail + HDR
          OBVIOUS
        <4>6. PICK len : len = length[u]
          OBVIOUS
        <4>7. Slice(v, len)' = Slice(v, len)
          BY <1>5, <4>2, <4>3, <4>4, <4>5, <4>6
        <4> QED BY <1>2, <4>5, <4>6, <4>7 DEF Slice, At
      <3> QED BY <2>2, <3>1, <3>2, <3>3
    <2> QED BY <2>3, <2>4
  <1>11. GcAtEntry(S, E)'
    BY <1>2, <1>3, <1>4, <1>5
    DEF Sound, Layout, GcAtEntry, EntrySize, HeaderCell, At
  <1>12. Layout(S, E)'
    BY <1>8, <1>9, <1>10, <1>11 DEF Sound, Layout
  <1>13. \A v : NoWriter(v) => NoWriter(v)' /\ v # offset[t]
    BY <1>2 DEF NoWriter
  <1>14. ASSUME NEW v \in S, NEW n \in Nodes, InPlace(S, v, n)
         PROVE  InPlace(S, v, n)'
    BY <1>5, <1>13, <1>14 DEF InPlace, At
  <1>15. ASSUME NEW n \in Nodes, NEW o \in Nat, NEW len \in 0 .. MAX_PAYLOAD_LENGTH,
                Whole(S, n, o, len)
         PROVE  Whole(S, n, o, len)'
    <2> SUFFICES ASSUME NEW v \in Nat, Near(v), v % OFFMOD = o
                 PROVE  /\ v < read_tail => v + HDR + len <= read_tail
                        /\ v >= read_tail => v \in S
                        /\ NoWriter(v)'
                        /\ EntryIntact(v, n, len)'
      BY DEF Whole, Near
    <2>1. /\ v < read_tail => v + HDR + len <= read_tail
          /\ v >= read_tail => v \in S
          /\ NoWriter(v) /\ EntryIntact(v, n, len)
      BY <1>15 DEF Whole
    <2>2. /\ read_tail \in Nat /\ len \in Nat /\ HDR \in Nat /\ v + HDR \in Nat
          /\ v <= v + HDR /\ (v + HDR) + len = v + HDR + len
          /\ v + HDR <= v + HDR + len
      BY SoundFacts, RingFacts
    <2>3. Slice(v, HDR)' = Slice(v, HDR) /\ Slice(v + HDR, len)' = Slice(v + HDR, len)
      <3>1. CASE v < read_tail
        <4>1. /\ write_head - BUFFER <= v /\ write_head - BUFFER <= v + HDR
              /\ v + HDR <= read_tail
          BY <2>1, <2>2, <3>1, SoundFacts, RingFacts DEF Near
        <4> QED BY <1>5, <2>1, <2>2, <3>1, <4>1
      <3>2. CASE v >= read_tail
        <4>1. v \in S /\ v # offset[t] /\ E[v] = v + HDR + len
          BY <1>13, <2>1, <3>2, WholeEntry DEF EntryIntact
        <4>2. v <= v /\ v + HDR <= E[v] /\ (v + HDR) + len <= E[v]
          BY <2>2, <4>1
        <4> QED BY <1>5, <2>2, <4>1, <4>2
      <3> QED BY <2>2, <3>1, <3>2
    <2>4. EntryIntact(v, n, len)'
      BY <2>1, <2>3 DEF EntryIntact, HeaderOf, TextOf
    <2> QED BY <1>13, <2>1, <2>4
  <1> QED BY <1>12, <1>14, <1>15 DEF Carries

-----------------------------------------------------------------------------
(* Steps that move the tail past an entry or a padding.                    *)

(* The tail may pass padding or a finished entry.                          *)
LEMMA TailLayout ==
  ASSUME NEW S, NEW E, Sound(S, E), UNCHANGED <<write_head, buffer>>,
         read_tail' \in Nat, read_tail <= read_tail', pc'[GC] = "loop",
         Follows(S, read_tail'),
         \A s \in S : s < read_tail' => s = read_tail /\ E[s] <= read_tail',
         \A t \in Allocators : Writing(t) => read_tail' <= offset[t],
         \A w \in Writers : pc'[w] = pc[w] /\ offset'[w] = offset[w]
                              /\ length'[w] = length[w] /\ node'[w] = node[w],
         pc[GC] # "header"
  PROVE  \E S2, E2 : Layout(S2, E2)' /\ Carries(S, S2)
  <1>1. PICK tail \in Nat : tail = read_tail'
    OBVIOUS
  <1> DEFINE S2 == {s \in S : s >= tail}
  <1>2. S \in SUBSET Nat /\ E \in [Nat -> Nat]
    BY DEF Sound, Layout
  <1>3. ASSUME NEW v \in S, NEW u \in Nat, v <= u, u \in S, v \in S2
        PROVE  u \in S2
    BY <1>2, <1>3
  <1>4. ~Writing(GC)' /\ ~GcBusy'
    BY DEF Writing, GcBusy
  <1>5. ASSUME NEW w \in Writers
        PROVE  /\ Writing(w)' <=> Writing(w)
               /\ EntryEnd(w)' = EntryEnd(w) /\ w \in Allocators
    BY ThreadFacts DEF Writing, EntryEnd, EntrySize
  <1>6. Tiling(S2, E)'
    <2>1. ASSUME NEW s \in S2
          PROVE  /\ tail <= s /\ s + HDR <= E[s] /\ E[s] <= write_head
                 /\ Padding(s) = 0
                 /\ (E[s] = write_head \/ E[s] + Padding(E[s]) \in S2)
      <3>1. /\ s \in S /\ s \in Nat /\ E[s] \in Nat /\ tail <= s
            /\ s + HDR <= E[s] /\ E[s] <= write_head
        BY SoundFacts
      <3>2. Padding(s) = 0 /\ (E[s] = write_head \/ E[s] + Padding(E[s]) \in S)
        BY <3>1 DEF Sound, Layout, Tiling, Follows
      <3>3. E[s] + Padding(E[s]) \in Nat /\ s <= E[s] + Padding(E[s])
        BY <3>1, PaddingBound, RingFacts
      <3>4. E[s] + Padding(E[s]) \in S => E[s] + Padding(E[s]) \in S2
        BY <3>1, <3>3
      <3> QED BY <3>1, <3>2, <3>4
    <2>2. \A s, u \in S2 : s < u => E[s] <= u
      BY DEF Sound, Layout, Tiling
    <2>3. tail = write_head \/ tail + Padding(tail) \in S2
      <3>1. tail = write_head \/ tail + Padding(tail) \in S
        BY <1>1 DEF Follows
      <3>2. tail + Padding(tail) \in Nat /\ tail + Padding(tail) >= tail
        BY PaddingBound, RingFacts
      <3> QED BY <3>1, <3>2
    <2> HIDE DEF S2
    <2> QED BY <1>1, <2>1, <2>2, <2>3 DEF Tiling, Follows, Padding, At
  <1>7. Described(S2, E)'
    <2> SUFFICES ASSUME NEW s \in S2
                 PROVE  \/ /\ buffer[At(s)].kind = "header"
                           /\ E[s] = s + HDR + buffer[At(s)].arg
                        \/ \E t \in Allocators : pc'[t] = "header" /\ offset'[t] = s
      BY DEF Described, At
    <2>1. \/ buffer[At(s)].kind = "header" /\ E[s] = s + HDR + buffer[At(s)].arg
          \/ \E t \in Allocators : pc[t] = "header" /\ offset[t] = s
      BY DEF Sound, Layout, Described
    <2>2. \A t \in Allocators : pc[t] = "header" =>
            pc'[t] = "header" /\ offset'[t] = offset[t]
      BY ThreadFacts
    <2> QED BY <2>1, <2>2
  <1>8. Owned(S2, E)'
    <2> SUFFICES ASSUME NEW u \in Allocators, Writing(u)'
                 PROVE
            /\ offset'[u] \in S2 /\ E[offset'[u]] = EntryEnd(u)'
            /\ u = GC => read_tail' < offset'[GC]
            /\ pc'[u] # "header" =>
                 Slice(offset[u], HDR)' = HeaderOf(node[u], length[u])'
            /\ pc'[u] = "publish" =>
                 Slice(offset[u] + HDR, length[u])' = TextOf(node[u], length[u])'
            /\ pc'[u] = "demote" =>
                 Slice(offset[u] + HDR, length[u])' =
                   Slice(read_tail + HDR, length[u])'
      BY DEF Owned
    <2>1. u \in Writers /\ u # GC
      BY <1>4, ThreadFacts
    <2>2. /\ Writing(u) /\ pc'[u] = pc[u] /\ offset'[u] = offset[u]
          /\ length'[u] = length[u] /\ node'[u] = node[u]
          /\ EntryEnd(u)' = EntryEnd(u)
      BY <1>5, <2>1
    <2>3. offset[u] \in S2 /\ E[offset[u]] = EntryEnd(u)
      BY <1>1, <2>2, SoundFacts
    <2>4. pc[u] # "demote"
      BY <2>1 DEF Sound, Base, Labels
    <2> QED BY <2>1, <2>2, <2>3, <2>4
            DEF Sound, Layout, Owned, Slice, At, HeaderOf, TextOf
  <1>9. Layout(S2, E)'
    BY <1>2, <1>4, <1>6, <1>7, <1>8 DEF Layout, GcAtEntry
  <1>10. \A v : NoWriter(v) => NoWriter(v)'
    BY <1>4, <1>5, ThreadFacts DEF NoWriter
  <1>11. ASSUME NEW v \in S, NEW n \in Nodes, InPlace(S, v, n),
                v = read_tail => read_tail' = read_tail
         PROVE  InPlace(S2, v, n)'
    <2>1. v \in S2
      BY <1>1, <1>2, <1>11, SoundFacts
    <2> QED BY <1>10, <1>11, <2>1 DEF InPlace, At
  <1>12. ASSUME NEW n \in Nodes, NEW o \in Nat, NEW len \in 0 .. MAX_PAYLOAD_LENGTH,
                Whole(S, n, o, len)
         PROVE  Whole(S2, n, o, len)'
    <2> SUFFICES ASSUME NEW v \in Nat, Near(v), v % OFFMOD = o
                 PROVE  /\ v < tail => v + HDR + len <= tail
                        /\ v >= tail => v \in S2
                        /\ NoWriter(v)'
                        /\ EntryIntact(v, n, len)
      BY <1>1 DEF Whole, Near, EntryIntact, Slice, At, HeaderOf, TextOf
    <2>1. /\ v < read_tail => v + HDR + len <= read_tail
          /\ v >= read_tail => v \in S
          /\ NoWriter(v) /\ EntryIntact(v, n, len)
      BY <1>12 DEF Whole
    <2>2. v >= tail => v \in S2
      BY <1>1, <2>1, SoundFacts
    <2>3. ASSUME v < tail
          PROVE  v + HDR + len <= tail
      <3>1. CASE v < read_tail
        BY <1>1, <2>1, <3>1, SoundFacts, RingFacts
      <3>2. CASE v >= read_tail
        <4>1. v \in S /\ E[v] <= tail
          BY <1>1, <2>1, <2>3, <3>2
        <4>2. E[v] = v + HDR + len
          BY <2>1, <4>1, WholeEntry DEF EntryIntact
        <4> QED BY <4>1, <4>2
      <3> QED BY <3>1, <3>2, SoundFacts
    <2> QED BY <1>10, <2>1, <2>2, <2>3
  <1>13. Carries(S, S2)
    BY <1>11, <1>12 DEF Carries
  <1> QED BY <1>9, <1>13

(* At work the GC stands at padding or at an entry, ...                    *)
LEMMA AtWork ==
  ASSUME NEW S, NEW E, Sound(S, E), GcAtWork
  PROVE  /\ read_tail < write_head /\ pc[GC] = "loop"
         /\ read_tail + Padding(read_tail) \in S
  <1>1. read_tail < write_head /\ pc[GC] = "loop"
    BY SoundFacts, RingFacts DEF GcAtWork, used_space
  <1>2. Follows(S, read_tail)
    BY DEF Sound, Layout, Tiling
  <1>3. read_tail # write_head
    BY <1>1, SoundFacts
  <1> QED BY <1>1, <1>2, <1>3 DEF Follows

(* GcLeap passes padding.                                                  *)
LEMMA LeapLayout ==
  ASSUME NEW S, NEW E, Sound(S, E), GcLeap
  PROVE  \E S2, E2 : Layout(S2, E2)' /\ Carries(S, S2)
  <1> USE DEF locals
  <1> DEFINE a == read_tail + Padding(read_tail)
  <1>1. read_tail < write_head /\ pc[GC] = "loop" /\ a \in S
    BY AtWork DEF GcLeap
  <1>2. /\ read_tail' = a /\ Padding(read_tail) > 0
        /\ UNCHANGED <<write_head, buffer, pc, locals>>
    BY DEF GcLeap, AdvanceTail
  <1>3. Padding(read_tail) \in 0 .. HDR - 1 /\ read_tail \in Nat /\ HDR \in Nat
    BY PaddingBound, SoundFacts, RingFacts
  <1>4. a \in Nat /\ read_tail <= a /\ a < read_tail + HDR
    BY <1>3
  <1>5. Follows(S, a)
    <2>1. Padding(a) = 0
      BY <1>3, PaddedOnce
    <2>2. a + Padding(a) = a
      BY <1>4, <2>1
    <2> HIDE DEF a
    <2> QED BY <1>1, <2>2 DEF Follows
  <1> HIDE DEF a
  <1>6. \A s \in S : ~(s < a)
    <2> SUFFICES ASSUME NEW s \in S, s < a PROVE FALSE
      OBVIOUS
    <2>1. E[s] <= a
      BY <1>1 DEF Sound, Layout, Tiling
    <2>2. s \in Nat /\ E[s] \in Nat /\ read_tail <= s /\ s + HDR <= E[s]
      BY SoundFacts
    <2> QED BY <1>3, <1>4, <2>1, <2>2
  <1>7. \A t \in Allocators : Writing(t) => a <= offset[t]
    BY <1>4, <1>6, SoundFacts
  <1>8. Follows(S, read_tail')
    BY <1>2, <1>5
  <1> QED BY <1>1, <1>2, <1>4, <1>6, <1>7, <1>8, TailLayout

(* ... which the header at the tail describes.                             *)
LEMMA PassLayout ==
  ASSUME NEW S, NEW E, Sound(S, E), GcBusy, ~Writing(GC),
         AdvanceTail(EntrySize(GC)), Return(GC), UNCHANGED <<write_head, buffer>>
  PROVE  \E S2, E2 : Layout(S2, E2)' /\ Carries(S, S2)
  <1>1. /\ read_tail \in S /\ E[read_tail] = read_tail + EntrySize(GC)
        /\ Follows(S, E[read_tail])
    BY DEF Sound, Layout, GcAtEntry, Tiling
  <1>2. read_tail' = E[read_tail] /\ pc'[GC] = "loop"
    BY <1>1, Returned, ThreadFacts DEF AdvanceTail, Sound, Base
  <1>3. read_tail' \in Nat /\ read_tail <= read_tail'
    BY <1>1, <1>2, SoundFacts, RingFacts
  <1>4. \A s \in S : s < read_tail' => s = read_tail /\ E[s] <= read_tail'
    BY <1>1, <1>2, <1>3, SoundFacts, RingFacts
  <1>5. \A t \in Allocators : Writing(t) => read_tail' <= offset[t]
    BY <1>2, WritersAhead
  <1>6. \A w \in Writers : pc'[w] = pc[w] /\ offset'[w] = offset[w]
                             /\ length'[w] = length[w] /\ node'[w] = node[w]
    BY Returned, ThreadFacts DEF Sound, Base
  <1>7. Follows(S, read_tail')
    BY <1>1, <1>2
  <1>8. pc[GC] # "header"
    BY DEF Writing
  <1> QED BY <1>2, <1>3, <1>4, <1>5, <1>6, <1>7, <1>8, TailLayout

(* The GC never gropes for a header: whoever is late with the one at the   *)
(* tail would be passed.                                                   *)
LEMMA NoResync ==
  ASSUME NEW S, NEW E, Sound(S, E), Timely', GcResync
  PROVE  FALSE
  <1> USE DEF locals
  <1>1. read_tail \in S /\ read_tail \in Nat
    <2>1. read_tail + Padding(read_tail) \in S /\ Padding(read_tail) = 0
      BY AtWork DEF GcResync
    <2> QED BY <2>1, SoundFacts
  <1>2. PICK t \in Allocators : pc[t] = "header" /\ offset[t] = read_tail
    BY <1>1 DEF Sound, Layout, Described, GcResync
  <1>3. t \in Writers
    BY <1>2, ThreadFacts DEF GcResync, GcAtWork
  <1>4. pc'[t] = "header" /\ offset'[t] = read_tail /\ read_tail' = read_tail + 1
    BY <1>2 DEF GcResync, AdvanceTail
  <1>5. read_tail' <= offset'[t]
    BY <1>3, <1>4 DEF Timely
  <1> QED BY <1>1, <1>4, <1>5

-----------------------------------------------------------------------------
(* Every step keeps the layout.                                            *)

Relaid(S) ==
  \E S2, E2 : Layout(S2, E2)' /\ Carries(S, S2) /\ (UNCHANGED ring => S2 = S)

(* Steps of a thread that leave the ring and the entries alone.            *)
LEMMA StillStep ==
  ASSUME NEW S, NEW E, Sound(S, E), UNCHANGED ring, NEW t \in Threads,
         \A u \in Threads \ {t} : pc'[u] = pc[u] /\ node'[u] = node[u],
         \A u \in Allocators \ {t} : offset'[u] = offset[u] /\ length'[u] = length[u],
         ~(t \in Allocators /\ (Writing(t)' \/ pc[t] = "header")),
         t = GC => GcAtEntry(S, E)'
  PROVE  Relaid(S)
  <1>1. GcAtEntry(S, E)'
    <2>1. CASE t # GC
      <3>1. /\ pc'[GC] = pc[GC] /\ node'[GC] = node[GC]
            /\ length'[GC] = length[GC]
        BY <2>1, ThreadFacts
      <3> QED BY <3>1 DEF Sound, Layout, GcAtEntry, GcBusy, EntrySize, HeaderCell,
                          At, ring
    <2> QED BY <2>1
  <1>2. \A u \in Allocators : Writing(u)' =>
          pc'[u] = pc[u] /\ offset'[u] = offset[u] /\ length'[u] = length[u]
            /\ node'[u] = node[u]
    BY DEF Threads, Allocators
  <1>3. \A u \in Allocators : pc[u] = "header" =>
          pc'[u] = "header" /\ offset'[u] = offset[u]
    BY DEF Threads, Allocators
  <1>4. Layout(S, E)' /\ Carries(S, S)
    BY <1>1, <1>2, <1>3, StillRing
  <1> QED BY <1>4 DEF Relaid

(* AllocatePayload, and the header after it.                               *)
LEMMA AllocationLayout ==
  ASSUME NEW S, NEW E, Sound(S, E), NEW t \in Allocators, Allocation(t)
  PROVE  Relaid(S)
  <1> USE DEF locals, ring
  <1>1. t \in Threads /\ TypeOK
    BY DEF Threads, Allocators, Sound, Base
  <1>2. CASE Reserve(t)
    <2>1. write_head' # write_head
      <3>1. /\ write_head' = write_head + Padding(write_head) + EntrySize(t)
            /\ EntrySize(t) >= HDR /\ EntrySize(t) \in Nat
            /\ Padding(write_head) \in Nat
        BY <1>1, <1>2, EntryFits, PaddingBound, SoundFacts, RingFacts DEF Reserve
      <3> QED BY <3>1, SoundFacts, RingFacts
    <2> QED BY <1>2, <2>1, ReserveLayout DEF Relaid
  <1>3. CASE LoseReserve(t)
    <2>1. ~Writing(t)' /\ pc[t] # "header"
      BY <1>3 DEF LoseReserve, Writing
    <2>2. t = GC => GcAtEntry(S, E)'
      BY <1>3 DEF LoseReserve, Sound, Layout, GcAtEntry, GcBusy, EntrySize,
                  HeaderCell, At
    <2>3. /\ UNCHANGED ring
          /\ \A u \in Threads \ {t} : pc'[u] = pc[u] /\ node'[u] = node[u]
          /\ \A u \in Allocators \ {t} :
               offset'[u] = offset[u] /\ length'[u] = length[u]
      BY <1>3 DEF LoseReserve
    <2> QED BY <1>1, <2>1, <2>2, <2>3, StillStep
  <1>4. CASE WriteHeader(t)
    <2>1. /\ Writing(t) /\ pc[t] = "header" /\ Goto(t, "text")
          /\ UNCHANGED <<write_head, read_tail, control, locals>>
          /\ buffer' = Overwritten(offset[t], HDR, HeaderOf(node[t], length[t]))
      BY <1>4 DEF WriteHeader, Writing
    <2>2. /\ offset[t] \in Nat /\ length[t] \in 0 .. MAX_PAYLOAD_LENGTH
          /\ node[t] \in Nodes /\ HDR \in Nat /\ HDR <= BUFFER
          /\ offset[t] <= offset[t] /\ offset[t] + HDR <= EntryEnd(t)
      BY <2>1, SoundFacts, RingFacts
    <2>3. Touches(t)
      BY <2>1, <2>2, OverwriteTouches
    <2>4. HeaderOf(node[t], length[t]) \in [0 .. HDR - 1 -> Cell]
      BY <2>2, EntryType
    <2>5. PICK v \in Int : v = offset[t]
      BY <2>2
    <2>6. PICK new \in [0 .. HDR - 1 -> Cell] : new = HeaderOf(node[t], length[t])
      BY <2>4
    <2>7. Slice(v, HDR)' = new
      BY <2>1, <2>2, <2>5, <2>6, SliceWritten
    <2>8. Slice(offset[t], HDR)' = HeaderOf(node[t], length[t])
      BY <2>1, <2>5, <2>6, <2>7 DEF Slice, At
    <2>9. Layout(S, E)' /\ Carries(S, S)
      BY <2>1, <2>3, <2>8, WriteLayout
    <2> QED BY <2>9 DEF Relaid
  <1> QED BY <1>2, <1>3, <1>4 DEF Allocation

(* The text goes behind the header.                                        *)
LEMMA TextLayout ==
  ASSUME NEW S, NEW E, Sound(S, E), NEW t \in Allocators, pc[t] = "text",
         UNCHANGED <<write_head, read_tail, control, locals>>,
         NEW label \in {"publish", "demote"}, Goto(t, label),
         NEW text \in [0 .. length[t] - 1 -> Cell],
         buffer' = Overwritten(offset[t] + HDR, length[t], text),
         label = "publish" => t \in Writers /\ text = TextOf(node[t], length[t]),
         label = "demote" => t = GC /\ text = Slice(read_tail + HDR, length[t])
  PROVE  Relaid(S)
  <1> USE DEF locals
  <1>1. Writing(t)
    BY DEF Writing
  <1>2. /\ offset[t] \in Nat /\ length[t] \in Nat /\ HDR \in Nat
        /\ length[t] <= BUFFER /\ offset[t] + HDR \in Nat
        /\ offset[t] \in S /\ EntryEnd(t) \in Nat
        /\ (offset[t] + HDR) + length[t] = EntryEnd(t)
        /\ E[offset[t]] = EntryEnd(t) /\ EntryEnd(t) <= write_head
    <2>1. /\ offset[t] \in Nat /\ length[t] \in 0 .. MAX_PAYLOAD_LENGTH
          /\ offset[t] \in S /\ E[offset[t]] = EntryEnd(t)
          /\ EntryEnd(t) = offset[t] + HDR + length[t]
      BY <1>1, SoundFacts
    <2>2. EntryEnd(t) <= write_head
      BY <2>1, SoundFacts
    <2> QED BY <2>1, <2>2, RingFacts
  <1>3. Touches(t)
    <2>1. offset[t] <= offset[t] + HDR /\ (offset[t] + HDR) + length[t] <= EntryEnd(t)
      BY <1>2
    <2> QED BY <1>1, <1>2, <2>1, OverwriteTouches
  <1>4. PICK v \in Nat : v = offset[t]
    BY <1>2
  <1>5. PICK len \in Nat : len = length[t]
    BY <1>2
  <1>6. buffer' = Overwritten(v + HDR, len, text)
    BY <1>4, <1>5
  <1>7. Slice(v, HDR)' = Slice(v, HDR)
    <2>1. ASSUME NEW x \in Int, v <= x, x < v + HDR
          PROVE  buffer'[At(x)] = buffer[At(x)]
      <3>1. /\ v + HDR \in Int /\ x < (v + HDR) + BUFFER
            /\ (v + HDR) + len <= x + BUFFER /\ x < v + HDR
        <4>1. HDR + len <= BUFFER
          <5>1. length[t] \in 0 .. MAX_PAYLOAD_LENGTH
            BY SoundFacts
          <5> QED BY <1>5, <5>1, RingFacts
        <4> QED BY <1>2, <2>1, <4>1, RingFacts
      <3>2. Overwritten(v + HDR, len, text)[At(x)] = buffer[At(x)]
        BY <3>1, OtherCell
      <3> QED BY <1>6, <3>2
    <2>2. \A x \in Int : v <= x /\ x < v + HDR => buffer'[At(x)] = buffer[At(x)]
      BY <2>1
    <2>3. v \in Int /\ HDR \in Nat
      BY <1>2
    <2> QED BY <2>2, <2>3, SliceKept
  <1>8. Slice(v + HDR, len)' = text
    <2>1. v + HDR \in Int /\ len <= BUFFER /\ text \in [0 .. len - 1 -> Cell]
      BY <1>2, <1>4, <1>5
    <2> QED BY <1>6, <2>1, SliceWritten
  <1>9. Slice(offset[t], HDR)' = HeaderOf(node[t], length[t])
    <2>1. Slice(offset[t], HDR) = HeaderOf(node[t], length[t])
      BY <1>1 DEF Sound, Layout, Owned
    <2> QED BY <1>4, <1>7, <2>1 DEF Slice, At
  <1>10. Slice(offset[t] + HDR, length[t])' = text
    BY <1>4, <1>5, <1>8 DEF Slice, At
  <1>11. ASSUME label = "demote"
         PROVE  Slice(read_tail + HDR, length[t])' = text
    <2>1. GcBusy /\ t = GC
      BY <1>11, ThreadFacts DEF GcBusy
    <2>2. /\ read_tail \in S /\ offset[t] # read_tail /\ read_tail \in Nat
          /\ E[read_tail] = read_tail + HDR + len
      <3>1. /\ read_tail \in S /\ offset[t] # read_tail
            /\ E[read_tail] = read_tail + (HDR + len)
        BY <1>1, <1>5, <2>1, WritersAhead DEF EntrySize
      <3> QED BY <1>2, <3>1, SoundFacts
    <2>3. PICK u \in Nat : u = read_tail
      BY <2>2
    <2>4. /\ u \in S /\ u # offset[t] /\ u <= u + HDR /\ u + HDR \in Nat
          /\ (u + HDR) + len <= E[u]
      BY <1>2, <1>5, <2>2, <2>3
    <2>5. Slice(u + HDR, len)' = Slice(u + HDR, len)
      BY <1>1, <1>3, <2>4, BesideEntry
    <2> QED BY <1>5, <1>11, <2>3, <2>5 DEF Slice, At
  <1>12. label = "publish" =>
           Slice(offset[t] + HDR, length[t])' = TextOf(node[t], length[t])
    BY <1>10
  <1>13. label = "demote" =>
           Slice(offset[t] + HDR, length[t])' = Slice(read_tail + HDR, length[t])'
    BY <1>10, <1>11
  <1>14. Layout(S, E)' /\ Carries(S, S)
    BY <1>1, <1>3, <1>9, <1>12, <1>13, WriteLayout
  <1> QED BY <1>14 DEF Relaid

(* What a step of the GC that only loads leaves behind.                    *)
LEMMA GcLoadLayout ==
  ASSUME NEW S, NEW E, Sound(S, E), Timely',
         GcReadHeader \/ GcFindCold \/ GcFindHot \/ GcEvict \/ ThrowInGC \/ GcDemote
  PROVE  Relaid(S)
  <1> USE DEF ring, locals
  <1>1. /\ UNCHANGED ring
        /\ \A u \in Threads \ {GC} : pc'[u] = pc[u] /\ node'[u] = node[u]
        /\ \A u \in Allocators \ {GC} : offset'[u] = offset[u] /\ length'[u] = length[u]
        /\ ~(Writing(GC)' \/ pc[GC] = "header")
    BY ThreadFacts
    DEF GcReadHeader, GcFindCold, GcFindHot, GcEvict, ThrowInGC, GcDemote, GcAtWork,
        BeginAllocate, Goto, Writing, Sound, Base, TypeOK
  <1>2. GcAtEntry(S, E)'
    <2>1. CASE GcReadHeader
      <3> DEFINE header == buffer[At(read_tail)]
      <3>1. /\ read_tail \in S /\ read_tail \in Int /\ pc[GC] = "loop"
            /\ header.kind = "header"
        <4>1. Padding(read_tail) = 0 /\ read_tail + Padding(read_tail) \in S
              /\ pc[GC] = "loop"
          BY <2>1, AtWork DEF GcReadHeader
        <4> QED BY <2>1, <4>1, SoundFacts DEF GcReadHeader
      <3>2. header \in Cell
        BY <3>1, AtIndex DEF Sound, Base, TypeOK
      <3>3. header = HeaderCell(header.node, header.arg)
        BY <3>1, <3>2 DEF Cell, RestCell, ZeroCell, HeaderCell
      <3>4. /\ node'[GC] = header.node /\ length'[GC] = header.arg /\ pc'[GC] = "load"
            /\ offset' = offset
            /\ \A u \in Threads \ {GC} : pc'[u] = pc[u]
        BY <2>1, ThreadFacts DEF GcReadHeader, Goto, Sound, Base, TypeOK
      <3>5. \A t \in Allocators : pc[t] = "header" => offset[t] # read_tail
        <4> SUFFICES ASSUME NEW t \in Allocators, pc[t] = "header"
                     PROVE  offset[t] # read_tail
          OBVIOUS
        <4>1. t \in Writers /\ t \in Threads \ {GC}
          BY <3>1, ThreadFacts
        <4>2. pc'[t] = "header" /\ offset'[t] = offset[t] /\ read_tail' = read_tail
          BY <1>1, <3>4, <4>1
        <4>3. read_tail' < offset'[t]
          BY <3>4, <4>1, <4>2 DEF Timely
        <4> QED BY <3>1, <4>2, <4>3
      <3>6. E[read_tail] = read_tail + HDR + header.arg
        BY <3>1, <3>5 DEF Sound, Layout, Described
      <3>7. /\ read_tail' = read_tail /\ buffer' = buffer
            /\ EntrySize(GC)' = HDR + header.arg
        BY <1>1, <3>4 DEF EntrySize
      <3>8. header.arg \in Nat
        BY <3>1, <3>2, RingFacts DEF Cell, RestCell, ZeroCell
      <3>9. E[read_tail] = read_tail + (HDR + header.arg)
        BY <3>1, <3>6, <3>8, RingFacts
      <3>10. buffer[At(read_tail)] = HeaderCell(node'[GC], length'[GC])
        BY <3>3, <3>4
      <3> HIDE DEF header
      <3> QED BY <3>1, <3>7, <3>9, <3>10 DEF GcAtEntry, HeaderCell, At
    <2>2. CASE ~GcReadHeader
      <3>1. /\ GcBusy' => GcBusy
            /\ node'[GC] = node[GC] /\ length'[GC] = length[GC]
            /\ buffer' = buffer /\ read_tail' = read_tail
        BY <2>2, ThreadFacts
        DEF GcFindCold, GcFindHot, GcEvict, ThrowInGC, GcDemote, BeginAllocate,
            GcBusy, Sound, Base, TypeOK
      <3> QED BY <3>1 DEF Sound, Layout, GcAtEntry, EntrySize, HeaderCell, At
    <2> QED BY <2>1, <2>2
  <1> QED BY <1>1, <1>2, ThreadFacts, StillStep

(* Every step of the GC.                                                   *)
LEMMA GcLayout ==
  ASSUME NEW S, NEW E, Sound(S, E), Timely', GcStep
  PROVE  Relaid(S)
  <1> USE DEF ring, locals
  <1>1. TypeOK
    BY DEF Sound, Base
  <1>2. CASE GcLeap
    <2>1. read_tail' # read_tail
      BY <1>2, PaddingBound, SoundFacts, RingFacts DEF GcLeap, AdvanceTail
    <2> QED BY <1>2, <2>1, LeapLayout DEF Relaid
  <1>3. CASE GcSkip \/ GcAdvance
    <2>1. /\ GcBusy /\ ~Writing(GC) /\ AdvanceTail(EntrySize(GC)) /\ Return(GC)
          /\ UNCHANGED <<write_head, buffer>>
      BY <1>3 DEF GcSkip, GcAdvance, GcBusy, Writing
    <2>2. read_tail' # read_tail
      BY <1>1, <2>1, EntryFits, ThreadFacts, SoundFacts, RingFacts DEF AdvanceTail
    <2> QED BY <2>1, <2>2, PassLayout DEF Relaid
  <1>4. CASE GcCopyText
    <2>1. /\ pc[GC] = "text" /\ Goto(GC, "demote")
          /\ UNCHANGED <<write_head, read_tail, control, locals>>
          /\ buffer' = Overwritten(offset[GC] + HDR, length[GC],
                                   Slice(read_tail + HDR, length[GC]))
      BY <1>4 DEF GcCopyText
    <2>2. Slice(read_tail + HDR, length[GC]) \in [0 .. length[GC] - 1 -> Cell]
      <3>1. /\ read_tail + HDR \in Int /\ length[GC] \in Nat
            /\ buffer \in [Index -> Cell]
        <4>1. read_tail \in Nat /\ length[GC] \in 0 .. MAX_PAYLOAD_LENGTH
          BY ThreadFacts, SoundFacts
        <4> QED BY <1>1, <4>1, RingFacts DEF TypeOK
      <3> QED BY <3>1, SliceType
    <2>3. PICK text \in [0 .. length[GC] - 1 -> Cell] :
            text = Slice(read_tail + HDR, length[GC])
      BY <2>2
    <2>4. buffer' = Overwritten(offset[GC] + HDR, length[GC], text)
      BY <2>1, <2>3
    <2> QED BY <2>1, <2>3, <2>4, ThreadFacts, TextLayout
  <1>5. CASE Allocation(GC)
    BY <1>5, ThreadFacts, AllocationLayout
  <1>6. CASE GcResync
    BY <1>6, NoResync
  <1> QED BY <1>2, <1>3, <1>4, <1>5, <1>6, GcLoadLayout DEF GcStep

(* Every step keeps the layout and what it carries over.                   *)
LEMMA NextLayout ==
  ASSUME NEW S, NEW E, Sound(S, E), Timely', [Next]_vars
  PROVE  Relaid(S)
  <1> USE DEF ring, locals
  <1>1. TypeOK
    BY DEF Sound, Base
  <1>2. ASSUME NEW n \in Nodes, Claim(n) \/ Expire(n)
        PROVE  Relaid(S)
    <2>1. UNCHANGED <<ring, pc, locals>>
      BY <1>2 DEF Claim, Expire
    <2>2. GcAtEntry(S, E)' /\ \A t \in Allocators : Writing(t)' <=> Writing(t)
      BY <2>1 DEF Sound, Layout, GcAtEntry, GcBusy, EntrySize, HeaderCell, At, Writing
    <2>3. Layout(S, E)' /\ Carries(S, S)
      BY <2>1, <2>2, StillRing
    <2> QED BY <2>3 DEF Relaid
  <1>3. ASSUME NEW w \in Writers, NEW n \in Nodes,
               NEW len \in 1 .. MAX_PAYLOAD_LENGTH, SetCache(w, n, len)
        PROVE  Relaid(S)
    <2>1. /\ UNCHANGED ring /\ w \in Threads /\ w # GC
          /\ \A u \in Threads \ {w} : pc'[u] = pc[u] /\ node'[u] = node[u]
          /\ \A u \in Allocators \ {w} : offset'[u] = offset[u] /\ length'[u] = length[u]
          /\ ~(w \in Allocators /\ (Writing(w)' \/ pc[w] = "header"))
      BY <1>1, <1>3, ThreadFacts DEF SetCache, BeginAllocate, Goto, Writing, TypeOK
    <2> QED BY <2>1, StillStep
  <1>4. ASSUME NEW t \in Writers \cup Readers, Return(t), UNCHANGED ring,
               pc[t] # "header"
        PROVE  Relaid(S)
    <2>1. /\ t \in Threads /\ t # GC
          /\ \A u \in Threads \ {t} : pc'[u] = pc[u] /\ node'[u] = node[u]
          /\ \A u \in Allocators \ {t} : offset'[u] = offset[u] /\ length'[u] = length[u]
          /\ ~(t \in Allocators /\ (Writing(t)' \/ pc[t] = "header"))
      BY <1>1, <1>4, Returned, ThreadFacts DEF Writing
    <2> QED BY <1>4, <2>1, StillStep
  <1>5. ASSUME NEW w \in Writers, WriterStep(w)
        PROVE  Relaid(S)
    <2>1. CASE Allocation(w)
      BY <2>1, ThreadFacts, AllocationLayout
    <2>2. CASE ThrowInWriter(w) \/ Publish(w)
      BY <1>4, <2>2 DEF ThrowInWriter, Publish
    <2>3. CASE WriteText(w)
      <3>1. /\ pc[w] = "text" /\ Goto(w, "publish")
            /\ UNCHANGED <<write_head, read_tail, control, locals>>
            /\ buffer' = Overwritten(offset[w] + HDR, length[w],
                                     TextOf(node[w], length[w]))
        BY <2>3 DEF WriteText
      <3>2. TextOf(node[w], length[w]) \in [0 .. length[w] - 1 -> Cell]
        BY <3>1, ThreadFacts, SoundFacts, EntryType DEF Writing
      <3>3. PICK text \in [0 .. length[w] - 1 -> Cell] :
              text = TextOf(node[w], length[w])
        BY <3>2
      <3>4. buffer' = Overwritten(offset[w] + HDR, length[w], text)
        BY <3>1, <3>3
      <3> QED BY <3>1, <3>3, <3>4, ThreadFacts, TextLayout
    <2> QED BY <1>5, <2>1, <2>2, <2>3 DEF WriterStep
  <1>6. ASSUME NEW r \in Readers, NEW n \in Nodes, LoadHit(r, n)
        PROVE  Relaid(S)
    <2>1. /\ UNCHANGED ring /\ r \in Threads /\ r # GC /\ r \notin Allocators
          /\ \A u \in Threads \ {r} : pc'[u] = pc[u] /\ node'[u] = node[u]
          /\ offset' = offset /\ length' = length
      BY <1>1, <1>6, ThreadFacts DEF LoadHit, Goto, TypeOK
    <2> QED BY <2>1, StillStep
  <1>7. ASSUME NEW r \in Readers, ReaderStep(r)
        PROVE  Relaid(S)
    <2>1. CASE ReadPayload(r)
      <3>1. /\ UNCHANGED ring /\ r \in Threads /\ r # GC /\ r \notin Allocators
            /\ \A u \in Threads \ {r} : pc'[u] = pc[u] /\ node'[u] = node[u]
            /\ offset' = offset /\ length' = length
        BY <1>1, <2>1, ThreadFacts DEF ReadPayload, Goto, TypeOK
      <3> QED BY <3>1, StillStep
    <2>2. CASE MarkHot(r)
      BY <1>4, <2>2 DEF MarkHot
    <2> QED BY <1>7, <2>1, <2>2 DEF ReaderStep
  <1>8. CASE GcStep
    BY <1>8, GcLayout
  <1>9. CASE UNCHANGED vars
    <2>1. GcAtEntry(S, E)' /\ \A t \in Allocators : Writing(t)' <=> Writing(t)
      BY <1>9
      DEF vars, Sound, Layout, GcAtEntry, GcBusy, EntrySize, HeaderCell, At, Writing
    <2>2. Layout(S, E)' /\ Carries(S, S)
      BY <1>9, <2>1, StillRing DEF vars
    <2> QED BY <2>2 DEF Relaid
  <1> QED
    BY <1>2, <1>3, <1>5, <1>6, <1>7, <1>8, <1>9 DEF Next, Checks

-----------------------------------------------------------------------------
(***************************************************************************)
(* The slots, the GC and the readers.  With q = FALSE the invariant is     *)
(* that of CalmSpec, which keeps the cold slots in the ring, with q = TRUE *)
(* that of QuietSpec, which keeps all of them.                             *)
(***************************************************************************)
Kept(q, n) == Ready(n) /\ (q \/ control[n].ref = "COLD")

(* The entry of a slot that is kept is in the ring, finished.              *)
InRing(q, S) ==
  \A n \in Nodes : Kept(q, n) =>
    \E v \in S : v % OFFMOD = control[n].offset /\ InPlace(S, v, n)

AtTail(q, n) == Kept(q, n) /\ control[n].offset = read_tail % OFFMOD

(* The slot that the GC evicts or rescues is still as the GC has seen it,  *)
(* if it is kept and has not gone elsewhere.                               *)
GcHolds(q) ==
  Rescuing \/ pc[GC] = "evict" =>
    /\ seen[GC].offset = read_tail % OFFMOD
    /\ Rescuing => seen[GC].ref = "HOT"
    /\ AtTail(q, node[GC]) => control[node[GC]] = seen[GC]

(* When the GC moves the tail no slot that is kept is left behind.         *)
GcDone(q) == pc[GC] = "advance" => ~AtTail(q, node[GC])

SlotsWhole(S) ==
  \A n \in Nodes : Ready(n) => Whole(S, n, control[n].offset, control[n].length)

HitsWhole(S) ==
  \A r \in Readers :
    /\ pc[r] = "copy" => Whole(S, node[r], seen[r].offset, seen[r].length)
    /\ pc[r] = "mark" /\ Near(seen[r].offset) =>
         out[r] = TextOf(node[r], seen[r].length)

(* The whole of it.  A slot that is not kept can outlive its entry, and    *)
(* once the offsets exceed the bits of a control word its bits come to     *)
(* stand for somebody else's entry; so can those a reader has loaded.      *)
Stored(q, S, E) ==
  /\ Layout(S, E)
  /\ InRing(q, S) /\ GcHolds(q) /\ GcDone(q)
  /\ q \/ write_head < OFFMOD => SlotsWhole(S)
  /\ write_head < OFFMOD => HitsWhole(S)

(* Where a ready slot comes from: it was ready, ...                        *)
StaysReady(n) ==
  /\ Ready(n)
  /\ control'[n].offset = control[n].offset /\ control'[n].length = control[n].length
  /\ control'[n].ref = "HOT" \/ control'[n] = control[n]

(* ... a writer has published it, ...                                      *)
PublishedBy(w, n) ==
  /\ Publish(w) /\ n = node[w]
  /\ control'[n].offset = offset[w] % OFFMOD
  /\ control'[n].length = length[w] /\ control'[n].ref = "HOT"

(* ... or the GC has given it the copy's offset.                           *)
Moved(n) ==
  /\ GcDemote /\ n = node[GC] /\ Ready(n)
  /\ control[n].ref = "HOT" /\ control[n].offset = seen[GC].offset
  /\ control[n].length = seen[GC].length
  /\ control'[n].offset = offset[GC] % OFFMOD
  /\ control'[n].length = control[n].length

ReadySourceOf(n) ==
  StaysReady(n) \/ (\E w \in Writers : PublishedBy(w, n)) \/ Moved(n)

(* There is no other way to be ready after a step.                         *)
LEMMA ReadySource ==
  ASSUME Base, Base', [Next]_vars, NEW n \in Nodes, Ready(n)'
  PROVE  ReadySourceOf(n)
  <1> USE DEF ring, locals
  <1>1. /\ control \in [Nodes -> UnpackedControl] /\ control'[n].state = "READY"
        /\ TypeOK
    BY DEF Base, TypeOK, Ready
  <1>2. control'[n] = control[n] => ReadySourceOf(n)
    BY <1>1 DEF Ready, ReadySourceOf, StaysReady
  <1>3. ASSUME NEW m \in Nodes, Claim(m) \/ Expire(m)
        PROVE  ReadySourceOf(n)
    <2>1. control'[n] = control[n] \/ control'[n].state \in {"DEAD", "PENDING"}
      BY <1>1, <1>3 DEF Claim, Expire, PackControl
    <2> QED BY <1>1, <1>2, <2>1
  <1>4. ASSUME NEW w \in Writers, Publish(w)
        PROVE  ReadySourceOf(n)
    <2>1. /\ node[w] \in Nodes /\ length[w] \in 0 .. MAX_PAYLOAD_LENGTH
          /\ offset[w] \in Nat
      BY <1>1, <1>4, ThreadFacts DEF Publish, TypeOK
    <2>2. PackControl("READY", "HOT", length[w], offset[w]) =
            [state |-> "READY", ref |-> "HOT", length |-> length[w],
             offset |-> offset[w] % OFFMOD]
      BY <2>1, Packed
    <2>3. \/ control'[n] = control[n]
          \/ /\ n = node[w]
             /\ control'[n] = [state |-> "READY", ref |-> "HOT", length |-> length[w],
                               offset |-> offset[w] % OFFMOD]
      BY <1>1, <1>4, <2>1, <2>2 DEF Publish
    <2> QED BY <1>2, <1>4, <2>3 DEF ReadySourceOf, PublishedBy
  <1>5. ASSUME NEW r \in Readers, MarkHot(r)
        PROVE  ReadySourceOf(n)
    <2>1. \/ control'[n] = control[n]
          \/ control[n] = seen[r] /\ control'[n] = [control[n] EXCEPT !.ref = "HOT"]
      BY <1>1, <1>5, MarkedHot
    <2>2. control[n] \in UnpackedControl
      BY <1>1
    <2>3. control'[n] = [control[n] EXCEPT !.ref = "HOT"] =>
            /\ control'[n].state = control[n].state /\ control'[n].ref = "HOT"
            /\ control'[n].offset = control[n].offset
            /\ control'[n].length = control[n].length
      BY <2>2 DEF UnpackedControl
    <2> QED BY <1>1, <1>2, <2>1, <2>3 DEF Ready, ReadySourceOf, StaysReady
  <1>6. CASE GcEvict
    <2>1. control'[n] = control[n] \/ control'[n].state = "DEAD"
      BY <1>1, <1>6 DEF GcEvict, CompareExchange, PackControl
    <2> QED BY <1>1, <1>2, <2>1
  <1>7. CASE GcDemote
    <2> DEFINE c == seen[GC]
               hot == [state |-> c.state, ref |-> "HOT", length |-> c.length,
                       offset |-> c.offset]
               moved == [state |-> c.state, ref |-> "COLD", length |-> c.length,
                         offset |-> offset[GC] % OFFMOD]
    <2>1. \/ /\ control[node[GC]] = hot
             /\ control' = [control EXCEPT ![node[GC]] = moved]
          \/ control' = control
      BY <1>1, <1>7, Demoted
    <2>2. /\ moved.state = c.state /\ moved.length = c.length
          /\ moved.offset = offset[GC] % OFFMOD
          /\ hot.state = c.state /\ hot.length = c.length /\ hot.ref = "HOT"
          /\ hot.offset = c.offset
      OBVIOUS
    <2> HIDE DEF hot, moved
    <2>3. \/ control'[n] = control[n]
          \/ n = node[GC] /\ control[n] = hot /\ control'[n] = moved
      BY <1>1, <2>1
    <2> QED BY <1>1, <1>2, <1>7, <2>2, <2>3 DEF Ready, ReadySourceOf, Moved
  <1>8. ASSUME control' = control PROVE ReadySourceOf(n)
    BY <1>2, <1>8
  <1>9. ASSUME NEW t \in Allocators, Allocation(t)
        PROVE  ReadySourceOf(n)
    BY <1>8, <1>9 DEF Allocation, Reserve, LoseReserve, WriteHeader
  <1>10. ASSUME NEW w \in Writers, WriterStep(w)
         PROVE  ReadySourceOf(n)
    <2>1. CASE Allocation(w)
      BY <1>9, <2>1, ThreadFacts
    <2>2. CASE ThrowInWriter(w) \/ WriteText(w)
      BY <1>8, <2>2 DEF ThrowInWriter, WriteText
    <2> QED BY <1>4, <1>10, <2>1, <2>2 DEF WriterStep
  <1>11. CASE GcStep
    <2>1. CASE Allocation(GC)
      BY <1>9, <2>1, ThreadFacts
    <2>2. CASE GcLeap \/ GcResync \/ GcReadHeader \/ GcSkip \/ GcFindCold
                 \/ GcFindHot \/ ThrowInGC \/ GcCopyText \/ GcAdvance
      <3>1. control' = control
        BY <2>2
        DEF GcLeap, GcResync, GcReadHeader, GcSkip, GcFindCold, GcFindHot,
            ThrowInGC, GcCopyText, GcAdvance
      <3> QED BY <1>8, <3>1
    <2> QED BY <1>6, <1>7, <1>11, <2>1, <2>2 DEF GcStep
  <1> QED
    BY <1>3, <1>5, <1>8, <1>10, <1>11
    DEF Next, Checks, SetCache, LoadHit, ReaderStep, ReadPayload, vars

(* Where the GC comes from when it holds a slot or is done with one.       *)
GcGoesOn ==
  /\ node'[GC] = node[GC] /\ seen'[GC] = seen[GC] /\ read_tail' = read_tail

(* The GC rescues, evicts and moves the tail in that order.                *)
LEMMA GcSource ==
  ASSUME TypeOK, Labels, [Next]_vars
  PROVE  /\ Rescuing' => \/ Rescuing /\ GcGoesOn
                         \/ GcFindHot
         /\ pc'[GC] = "evict" => \/ pc[GC] = "evict" /\ GcGoesOn
                                 \/ GcFindCold
         /\ pc'[GC] = "advance" => \/ pc[GC] = "advance" /\ GcGoesOn
                                   \/ GcEvict
                                   \/ GcDemote
  <1> DEFINE P == /\ Rescuing' => \/ Rescuing /\ GcGoesOn
                                  \/ GcFindHot
                  /\ pc'[GC] = "evict" => \/ pc[GC] = "evict" /\ GcGoesOn
                                          \/ GcFindCold
                  /\ pc'[GC] = "advance" => \/ pc[GC] = "advance" /\ GcGoesOn
                                            \/ GcEvict
                                            \/ GcDemote
  <1> SUFFICES P
    OBVIOUS
  <1> USE DEF ring, locals
  <1>1. ASSUME pc'[GC] = pc[GC], GcGoesOn
        PROVE  P
    BY <1>1 DEF Rescuing
  <1>2. ASSUME pc'[GC] \in {"loop", "load", "terminated"}
        PROVE  P
    BY <1>2 DEF Rescuing
  <1>3. ASSUME NEW n \in Nodes, Claim(n) \/ Expire(n)
        PROVE  P
    BY <1>1, <1>3 DEF Claim, Expire, GcGoesOn
  <1>4. ASSUME NEW w \in Writers, NEW n \in Nodes,
               NEW len \in 1 .. MAX_PAYLOAD_LENGTH, SetCache(w, n, len)
        PROVE  P
    BY <1>1, <1>4, ThreadFacts DEF SetCache, BeginAllocate, Goto, GcGoesOn, TypeOK
  <1>5. ASSUME NEW t \in Allocators, Allocation(t)
        PROVE  P
    <2>1. GcGoesOn
      BY <1>5 DEF Allocation, Reserve, LoseReserve, WriteHeader, GcGoesOn
    <2>2. pc'[GC] = pc[GC] \/ (Rescuing /\ Rescuing')
      BY <1>5, ThreadFacts
      DEF Allocation, Reserve, LoseReserve, WriteHeader, Goto, Rescuing, TypeOK
    <2> QED BY <1>1, <2>1, <2>2 DEF Rescuing
  <1>6. ASSUME NEW t \in Writers \cup Readers, Return(t), UNCHANGED read_tail
        PROVE  P
    <2>1. /\ t \in Threads /\ t # GC /\ GC \in Threads \ {t}
          /\ GC \in Observers \ {t}
      BY <1>6, ThreadFacts
    <2>2. pc'[GC] = pc[GC] /\ node'[GC] = node[GC] /\ seen'[GC] = seen[GC]
      BY <1>6, <2>1, Returned
    <2> QED BY <1>1, <1>6, <2>2 DEF GcGoesOn
  <1>7. ASSUME NEW w \in Writers, WriterStep(w)
        PROVE  P
    <2>1. CASE Allocation(w)
      BY <1>5, <2>1, ThreadFacts
    <2>2. CASE ThrowInWriter(w) \/ Publish(w)
      BY <1>6, <2>2 DEF ThrowInWriter, Publish
    <2>3. CASE WriteText(w)
      <3>1. pc'[GC] = pc[GC] /\ GcGoesOn
        BY <2>3, ThreadFacts DEF WriteText, Goto, TypeOK, GcGoesOn
      <3> QED BY <1>1, <3>1
    <2> QED BY <1>7, <2>1, <2>2, <2>3 DEF WriterStep
  <1>8. ASSUME NEW r \in Readers, NEW n \in Nodes, LoadHit(r, n)
        PROVE  P
    BY <1>1, <1>8, ThreadFacts DEF LoadHit, Goto, GcGoesOn, TypeOK
  <1>9. ASSUME NEW r \in Readers, ReaderStep(r)
        PROVE  P
    <2>1. CASE ReadPayload(r)
      BY <1>1, <2>1, ThreadFacts DEF ReadPayload, Goto, GcGoesOn, TypeOK
    <2>2. CASE MarkHot(r)
      BY <1>6, <2>2 DEF MarkHot
    <2> QED BY <1>9, <2>1, <2>2 DEF ReaderStep
  <1>10. CASE GcStep
    <2>1. CASE GcLeap \/ GcResync
      BY <1>2, <2>1 DEF GcLeap, GcResync, GcAtWork
    <2>2. CASE GcReadHeader
      BY <1>2, <2>2, ThreadFacts DEF GcReadHeader, Goto, TypeOK
    <2>3. CASE GcSkip \/ GcAdvance
      <3>1. pc'[GC] = "loop"
        BY <2>3, Returned, ThreadFacts DEF GcSkip, GcAdvance
      <3> QED BY <1>2, <3>1
    <2>4. CASE GcFindCold
      <3>1. pc'[GC] = "evict"
        BY <2>4, ThreadFacts DEF GcFindCold, Goto, TypeOK
      <3> QED BY <2>4, <3>1 DEF Rescuing
    <2>5. CASE GcFindHot
      <3>1. pc'[GC] = "allocate"
        BY <2>5, ThreadFacts DEF GcFindHot, BeginAllocate, Goto, TypeOK
      <3> QED BY <2>5, <3>1 DEF Rescuing
    <2>6. CASE GcEvict \/ GcDemote
      <3>1. pc'[GC] = "advance"
        BY <2>6, ThreadFacts DEF GcEvict, GcDemote, Goto, TypeOK
      <3> QED BY <2>6, <3>1 DEF Rescuing
    <2>7. CASE Allocation(GC)
      BY <1>5, <2>7, ThreadFacts
    <2>8. CASE ThrowInGC
      BY <1>2, <2>8, ThreadFacts DEF ThrowInGC, Goto, TypeOK
    <2>9. CASE GcCopyText
      <3>1. pc[GC] = "text" /\ pc'[GC] = "demote" /\ GcGoesOn
        BY <2>9, ThreadFacts DEF GcCopyText, Goto, TypeOK, GcGoesOn
      <3> QED BY <3>1 DEF Rescuing
    <2> QED BY <1>10, <2>1, <2>2, <2>3, <2>4, <2>5, <2>6, <2>7, <2>8, <2>9 DEF GcStep
  <1>11. CASE UNCHANGED vars
    BY <1>1, <1>11 DEF vars, GcGoesOn
  <1> HIDE DEF P
  <1> QED
    BY <1>3, <1>4, <1>7, <1>8, <1>9, <1>10, <1>11 DEF Next, Checks

(* Where a reader's copy comes from.                                       *)
LEMMA ReaderSource ==
  ASSUME TypeOK, Labels, Copies, [Next]_vars, NEW r \in Readers
  PROVE  /\ pc'[r] = "copy" =>
              \/ /\ pc[r] = "copy" /\ node'[r] = node[r] /\ seen'[r] = seen[r]
              \/ \E n \in Nodes : /\ LoadHit(r, n) /\ node'[r] = n
                                  /\ seen'[r] = control[n]
         /\ pc'[r] = "mark" =>
              \/ /\ pc[r] = "mark" /\ node'[r] = node[r] /\ seen'[r] = seen[r]
                 /\ out'[r] = out[r]
              \/ /\ ReadPayload(r) /\ node'[r] = node[r] /\ seen'[r] = seen[r]
                 /\ out'[r] = Slice(seen[r].offset + HDR, seen[r].length)
  <1> DEFINE P == /\ pc'[r] = "copy" =>
                       \/ /\ pc[r] = "copy" /\ node'[r] = node[r]
                          /\ seen'[r] = seen[r]
                       \/ \E n \in Nodes : /\ LoadHit(r, n) /\ node'[r] = n
                                           /\ seen'[r] = control[n]
                  /\ pc'[r] = "mark" =>
                       \/ /\ pc[r] = "mark" /\ node'[r] = node[r]
                          /\ seen'[r] = seen[r] /\ out'[r] = out[r]
                       \/ /\ ReadPayload(r) /\ node'[r] = node[r]
                          /\ seen'[r] = seen[r]
                          /\ out'[r] = Slice(seen[r].offset + HDR, seen[r].length)
  <1> SUFFICES P
    OBVIOUS
  <1> USE DEF ring, locals
  <1>1. ASSUME pc'[r] = pc[r], node'[r] = node[r], seen'[r] = seen[r], out'[r] = out[r]
        PROVE  P
    BY <1>1
  <1>2. ASSUME pc'[r] = "idle" PROVE P
    BY <1>2
  <1>3. ASSUME NEW s \in Readers, NEW n \in Nodes, LoadHit(s, n)
        PROVE  P
    <2>1. CASE s = r
      <3>1. pc'[r] = "copy" /\ node'[r] = n /\ seen'[r] = control[n] /\ LoadHit(r, n)
        BY <1>3, <2>1, ThreadFacts DEF LoadHit, Goto, TypeOK
      <3> QED BY <3>1
    <2>2. CASE s # r
      <3>1. /\ pc'[r] = pc[r] /\ node'[r] = node[r] /\ seen'[r] = seen[r]
            /\ out'[r] = out[r]
        BY <1>3, <2>2, ThreadFacts DEF LoadHit, Goto, TypeOK
      <3> QED BY <1>1, <3>1
    <2> QED BY <2>1, <2>2
  <1>4. ASSUME NEW s \in Readers, ReadPayload(s)
        PROVE  P
    <2>1. CASE s = r
      <3>1. /\ pc'[r] = "mark" /\ node'[r] = node[r] /\ seen'[r] = seen[r]
            /\ out' = [out EXCEPT ![r] = Slice(seen[r].offset + HDR, seen[r].length)]
            /\ ReadPayload(r)
        BY <1>4, <2>1, ThreadFacts DEF ReadPayload, Goto, TypeOK
      <3>2. out'[r] = Slice(seen[r].offset + HDR, seen[r].length)
        BY <3>1 DEF Copies
      <3> QED BY <3>1, <3>2
    <2>2. CASE s # r
      <3>1. /\ pc'[r] = pc[r] /\ node'[r] = node[r] /\ seen'[r] = seen[r]
            /\ out'[r] = out[r]
        BY <1>4, <2>2, ThreadFacts DEF ReadPayload, Goto, TypeOK
      <3> QED BY <1>1, <3>1
    <2> QED BY <2>1, <2>2
  <1> HIDE DEF P
  <1>5. ASSUME NEW t \in Threads, Return(t)
        PROVE  P
    <2>1. CASE t = r
      BY <1>2, <1>5, <2>1, Returned, ThreadFacts
    <2>2. CASE t # r
      <3>1. r \in Threads \ {t} /\ r \in Observers \ {t} /\ r \in Readers \ {t}
        BY <2>2, ThreadFacts
      <3> QED BY <1>1, <1>5, <3>1, Returned
    <2> QED BY <2>1, <2>2
  <1>6. ASSUME NEW t \in Allocators, Allocation(t)
        PROVE  P
    <2>1. r # t /\ r \in Threads
      BY ThreadFacts
    <2>2. pc'[r] = pc[r] /\ node'[r] = node[r] /\ seen'[r] = seen[r] /\ out'[r] = out[r]
      BY <1>6, <2>1
      DEF Allocation, Reserve, LoseReserve, WriteHeader, Goto, TypeOK
    <2> QED BY <1>1, <2>2
  <1>7. ASSUME NEW w \in Writers, WriterStep(w)
        PROVE  P
    <2>1. CASE Allocation(w)
      BY <1>6, <2>1, ThreadFacts
    <2>2. CASE ThrowInWriter(w) \/ Publish(w)
      BY <1>5, <2>2, ThreadFacts DEF ThrowInWriter, Publish
    <2>3. CASE WriteText(w)
      <3>1. /\ pc'[r] = pc[r] /\ node'[r] = node[r] /\ seen'[r] = seen[r]
            /\ out'[r] = out[r]
        BY <2>3, ThreadFacts DEF WriteText, Goto, TypeOK
      <3> QED BY <1>1, <3>1
    <2> QED BY <1>7, <2>1, <2>2, <2>3 DEF WriterStep
  <1>8. ASSUME NEW w \in Writers, NEW n \in Nodes,
               NEW len \in 1 .. MAX_PAYLOAD_LENGTH, SetCache(w, n, len)
        PROVE  P
    <2>1. /\ pc'[r] = pc[r] /\ node'[r] = node[r] /\ seen'[r] = seen[r]
          /\ out'[r] = out[r]
      BY <1>8, ThreadFacts DEF SetCache, BeginAllocate, Goto, TypeOK
    <2> QED BY <1>1, <2>1
  <1>9. CASE GcStep
    <2>1. CASE Allocation(GC)
      BY <1>6, <2>1, ThreadFacts
    <2>2. CASE GcSkip \/ GcAdvance
      BY <1>5, <2>2, ThreadFacts DEF GcSkip, GcAdvance
    <2>3. CASE GcLeap \/ GcResync \/ GcReadHeader \/ GcFindCold \/ GcFindHot
                 \/ GcEvict \/ ThrowInGC \/ GcCopyText \/ GcDemote
      <3>1. /\ pc'[r] = pc[r] /\ node'[r] = node[r] /\ seen'[r] = seen[r]
            /\ out'[r] = out[r]
        BY <2>3, ThreadFacts
        DEF GcLeap, GcResync, GcReadHeader, GcFindCold, GcFindHot, GcEvict, ThrowInGC,
            GcCopyText, GcDemote, BeginAllocate, Goto, TypeOK
      <3> QED BY <1>1, <3>1
    <2> QED BY <1>9, <2>1, <2>2, <2>3 DEF GcStep
  <1>10. ASSUME NEW n \in Nodes, Claim(n) \/ Expire(n)
         PROVE  P
    BY <1>1, <1>10 DEF Claim, Expire
  <1>11. ASSUME NEW s \in Readers, ReaderStep(s)
         PROVE  P
    BY <1>4, <1>5, <1>11, ThreadFacts DEF ReaderStep, MarkHot
  <1>12. CASE UNCHANGED vars
    BY <1>1, <1>12 DEF vars
  <1> QED
    BY <1>3, <1>7, <1>8, <1>9, <1>10, <1>11, <1>12 DEF Next, Checks

-----------------------------------------------------------------------------
(* What the bits of an offset stand for.                                   *)

(* The head moves only when the tail does not.                             *)
LEMMA EndsMove ==
  ASSUME TypeOK, [Next]_vars
  PROVE  \/ write_head' = write_head
         \/ write_head <= write_head' /\ read_tail' = read_tail
  <1> USE DEF ring, locals
  <1>1. ASSUME NEW t \in Allocators, Allocation(t)
        PROVE  \/ write_head' = write_head
               \/ write_head <= write_head' /\ read_tail' = read_tail
    <2>1. CASE Reserve(t)
      BY <2>1, EntryFits, PaddingBound, RingFacts DEF Reserve, TypeOK
    <2>2. CASE ~Reserve(t)
      BY <1>1, <2>2 DEF Allocation, LoseReserve, WriteHeader
    <2> QED BY <2>1, <2>2
  <1>2. CASE \E t \in Allocators : Allocation(t)
    BY <1>1, <1>2
  <1>3. CASE ~(\E t \in Allocators : Allocation(t))
    <2>1. ASSUME NEW w \in Writers, WriterStep(w)
          PROVE  write_head' = write_head
      BY <1>3, <2>1, ThreadFacts DEF WriterStep, ThrowInWriter, WriteText, Publish
    <2>2. ASSUME GcStep
          PROVE  write_head' = write_head
      BY <1>3, <2>2, ThreadFacts
      DEF GcStep, GcLeap, GcResync, GcReadHeader, GcSkip, GcFindCold, GcFindHot,
          GcEvict, ThrowInGC, GcCopyText, GcDemote, GcAdvance
    <2> QED
      BY <2>1, <2>2
      DEF Next, Checks, Claim, Expire, SetCache, LoadHit, ReaderStep, ReadPayload,
          MarkHot, vars
  <1> QED BY <1>2, <1>3

(* As long as the offsets fit, nothing ever takes the bits of another.     *)
LEMMA YoungUnaliased ==
  ASSUME TypeOK, TypeOK', write_head' < OFFMOD, NEW o \in Nat, o < write_head
  PROVE  Unaliased(o)
  <1> SUFFICES ASSUME NEW v \in Nat, write_head <= v, v < write_head'
               PROVE  v % OFFMOD # o
    BY DEF Unaliased
  <1>1. write_head \in Nat /\ write_head' \in Nat
    BY DEF TypeOK
  <1>2. v \in 0 .. OFFMOD - 1
    BY <1>1, RingFacts
  <1>3. v % OFFMOD = v
    BY <1>2, ModSmall, RingFacts
  <1> QED BY <1>1, <1>3

(* Nor do the bits of an entry in the ring.                                *)
LEMMA RingUnaliased ==
  ASSUME NEW S, NEW E, Sound(S, E), Base', NoLap', [Next]_vars, NEW v \in S
  PROVE  Unaliased(v % OFFMOD)
  <1> SUFFICES ASSUME NEW u \in Nat, write_head <= u, u < write_head'
               PROVE  u % OFFMOD # v % OFFMOD
    BY DEF Unaliased
  <1>1. /\ write_head \in Nat /\ read_tail \in Nat /\ v \in Nat
        /\ read_tail <= v /\ v < write_head /\ write_head' \in Nat
    BY SoundFacts DEF Base, TypeOK
  <1>2. read_tail' = read_tail
    BY <1>1, EndsMove DEF Sound, Base
  <1>3. write_head' - read_tail <= BUFFER
    BY <1>2 DEF NoLap, used_space
  <1>4. PICK h \in Int : h = write_head'
    BY <1>1
  <1>5. /\ u \in Int /\ v \in Int /\ read_tail \in Int /\ write_head \in Int
        /\ BUFFER \in Int /\ OFFMOD \in Int /\ BUFFER <= OFFMOD /\ OFFMOD > 0
        /\ u < h /\ h <= read_tail + BUFFER
    <2>1. /\ u \in Int /\ v \in Int /\ read_tail \in Int /\ write_head \in Int
          /\ BUFFER \in Int /\ OFFMOD \in Int /\ BUFFER <= OFFMOD /\ OFFMOD > 0
          /\ u < h
      BY <1>1, <1>4, RingFacts
    <2>2. h - read_tail <= BUFFER
      BY <1>3, <1>4
    <2> QED BY <2>1, <2>2
  <1>6. u - v < OFFMOD /\ v - u < OFFMOD /\ u # v
    <2>1. read_tail <= v /\ v < write_head
      BY <1>1
    <2> QED BY <1>5, <2>1
  <1> QED BY <1>5, <1>6, ModApart, RingFacts

(* Two places in one ring differ in their bits.                            *)
LEMMA NearApart ==
  ASSUME NEW v \in Nat, NEW u \in Nat, Near(v), Near(u), write_head \in Nat,
         v % OFFMOD = u % OFFMOD
  PROVE  v = u
  <1>1. v - u < OFFMOD /\ u - v < OFFMOD /\ v \in Int /\ u \in Int
    BY RingFacts DEF Near
  <1> QED BY <1>1, ModApart, RingFacts

(* What a busy GC stands at is not what somebody is writing.               *)
LEMMA NotAtTail ==
  ASSUME NEW S, NEW E, Sound(S, E), GcBusy, NEW t \in Allocators, Writing(t)
  PROVE  offset[t] % OFFMOD # read_tail % OFFMOD
  <1>1. /\ read_tail \in S /\ offset[t] \in S /\ offset[t] # read_tail
    BY WritersAhead, SoundFacts
  <1>2. /\ Near(read_tail) /\ Near(offset[t]) /\ read_tail \in Nat
        /\ offset[t] \in Nat /\ write_head \in Nat
    BY <1>1, SoundFacts
  <1> QED BY <1>1, <1>2, NearApart

-----------------------------------------------------------------------------
(* A thread that has written its entry leaves it in place.                 *)

(* What it has placed, header and text, is there after its step.           *)
LEMMA Placed ==
  ASSUME NEW S, NEW E, Sound(S, E), NEW t \in Allocators,
         pc[t] \in {"publish", "demote"}, UNCHANGED ring,
         \A u \in Allocators : Writing(u)' =>
           u # t /\ Writing(u) /\ offset'[u] = offset[u],
         NEW v, v = offset[t], NEW n, n = node[t], NEW len, len = length[t]
  PROVE  /\ v \in S /\ InPlace(S, v, n)'
         /\ Slice(v + HDR, len) = TextOf(n, len) =>
              \A o : o = v % OFFMOD => Whole(S, n, o, len)'
  <1> USE DEF ring
  <1>1. /\ Writing(t) /\ v \in S /\ v \in Nat /\ len \in Nat /\ HDR \in Nat
        /\ write_head \in Nat /\ read_tail <= v /\ read_tail \in Nat /\ Near(v)
        /\ len \in 0 .. MAX_PAYLOAD_LENGTH
    <2>1. Writing(t)
      BY DEF Writing
    <2> QED BY <2>1, SoundFacts, RingFacts
  <1>2. Slice(v, HDR) = HeaderOf(n, len)
    BY <1>1 DEF Sound, Layout, Owned
  <1>3. buffer[At(v)] = HeaderCell(n, len)
    BY <1>1, <1>2, IntactHeader
  <1>4. NoWriter(v)'
    <2> SUFFICES ASSUME NEW u \in Allocators, Writing(u)'
                 PROVE  offset'[u] # v
      BY DEF NoWriter
    <2>1. u # t /\ Writing(u) /\ offset'[u] = offset[u]
      OBVIOUS
    <2>2. EntryEnd(u) <= offset[t] \/ EntryEnd(t) <= offset[u]
      BY <1>1, <2>1 DEF Sound, Base, ReservationsDisjoint
    <2>3. /\ EntryEnd(u) \in Nat /\ EntryEnd(t) \in Nat /\ offset[u] \in Nat
          /\ offset[u] < EntryEnd(u) /\ offset[t] < EntryEnd(t)
      BY <1>1, <2>1, SoundFacts, RingFacts
    <2> QED BY <1>1, <2>1, <2>2, <2>3
  <1>5. InPlace(S, v, n)'
    BY <1>1, <1>3, <1>4 DEF InPlace, HeaderCell, At
  <1>6. ASSUME Slice(v + HDR, len) = TextOf(n, len), NEW o, o = v % OFFMOD
        PROVE  Whole(S, n, o, len)'
    <2> SUFFICES ASSUME NEW u \in Nat, Near(u), u % OFFMOD = o
                 PROVE  /\ u < read_tail => u + HDR + len <= read_tail
                        /\ u >= read_tail => u \in S
                        /\ NoWriter(u)'
                        /\ EntryIntact(u, n, len)
      BY DEF Whole, Near, EntryIntact, Slice, At, HeaderOf, TextOf
    <2>1. u = v
      BY <1>1, <1>6, NearApart
    <2> QED BY <1>1, <1>2, <1>4, <1>6, <2>1 DEF EntryIntact
  <1> QED BY <1>1, <1>5, <1>6

-----------------------------------------------------------------------------
(* The slots stay in the ring.                                             *)

(* The tail passes no entry of a slot that is kept.                        *)
LEMMA TailPasses ==
  ASSUME NEW q, NEW S, NEW E, Sound(S, E), Timely', [Next]_vars, GcDone(q),
         NEW n \in Nodes, Kept(q, n), InPlace(S, read_tail, n),
         control[n].offset = read_tail % OFFMOD
  PROVE  read_tail' = read_tail
  <1> USE DEF ring, locals
  <1>1. read_tail \in S /\ Padding(read_tail) = 0 /\ buffer[At(read_tail)].node = n
    BY DEF InPlace, Sound, Layout, Tiling
  <1>2. CASE GcLeap
    <2>1. Padding(read_tail) > 0
      BY <1>2 DEF GcLeap
    <2> QED BY <1>1, <2>1
  <1>3. CASE GcResync
    BY <1>3, NoResync
  <1>4. GcBusy => node[GC] = n
    BY <1>1 DEF Sound, Layout, GcAtEntry, HeaderCell
  <1>5. CASE GcSkip
    <2>1. pc[GC] = "load" /\ Stale(control[n])
      BY <1>4, <1>5 DEF GcSkip, GcBusy
    <2> QED BY <2>1 DEF Stale, Kept, Ready
  <1>6. CASE GcAdvance
    BY <1>4, <1>6 DEF GcAdvance, GcBusy, GcDone, AtTail
  <1>7. CASE ~(GcLeap \/ GcResync \/ GcSkip \/ GcAdvance)
    <2>1. ASSUME NEW t \in Allocators, Allocation(t)
          PROVE  read_tail' = read_tail
      BY <2>1 DEF Allocation, Reserve, LoseReserve, WriteHeader
    <2>2. ASSUME NEW w \in Writers, WriterStep(w)
          PROVE  read_tail' = read_tail
      BY <2>1, <2>2, ThreadFacts DEF WriterStep, ThrowInWriter, WriteText, Publish
    <2>3. ASSUME GcStep
          PROVE  read_tail' = read_tail
      BY <1>7, <2>1, <2>3, ThreadFacts
      DEF GcStep, GcReadHeader, GcFindCold, GcFindHot, GcEvict, ThrowInGC,
          GcCopyText, GcDemote
    <2> QED
      BY <2>2, <2>3
      DEF Next, Checks, Claim, Expire, SetCache, LoadHit, ReaderStep, ReadPayload,
          MarkHot, vars
  <1> QED BY <1>2, <1>3, <1>5, <1>6, <1>7

(* Who publishes is done writing, and nobody else begins.                  *)
LEMMA PublishEnds ==
  ASSUME TypeOK, NEW t \in Allocators,
         (t \in Writers /\ Publish(t)) \/ (t = GC /\ GcDemote)
  PROVE  /\ pc[t] \in {"publish", "demote"} /\ Writing(t) /\ UNCHANGED ring
         /\ \A u \in Allocators : Writing(u)' =>
              u # t /\ Writing(u) /\ offset'[u] = offset[u]
  <1> USE DEF ring, locals
  <1>1. CASE t \in Writers /\ Publish(t)
    <2>1. /\ pc[t] = "publish" /\ UNCHANGED ring /\ pc'[t] = "idle"
          /\ \A u \in Threads \ {t} : pc'[u] = pc[u]
          /\ \A u \in Allocators \ {t} : offset'[u] = offset[u]
      BY <1>1, Returned, ThreadFacts DEF Publish
    <2> QED BY <2>1 DEF Writing, Threads, Allocators
  <1>2. CASE t = GC /\ GcDemote
    <2>1. /\ pc[t] = "demote" /\ UNCHANGED ring /\ pc'[t] = "advance"
          /\ \A u \in Threads \ {t} : pc'[u] = pc[u]
          /\ offset' = offset
      BY <1>2, ThreadFacts DEF GcDemote, Goto, TypeOK
    <2> QED BY <2>1 DEF Writing, Threads, Allocators
  <1> QED BY <1>1, <1>2

(* The slots that are kept have their entries in the ring.                 *)
LEMMA NextInRing ==
  ASSUME NEW q \in BOOLEAN, NEW S, NEW E, Sound(S, E), Base', Timely', [Next]_vars,
         InRing(q, S), GcDone(q),
         NEW S2, Carries(S, S2), UNCHANGED ring => S2 = S
  PROVE  InRing(q, S2)'
  <1> SUFFICES ASSUME NEW n \in Nodes, Kept(q, n)'
               PROVE  \E v \in S2 : /\ v % OFFMOD = control'[n].offset
                                    /\ InPlace(S2, v, n)'
    BY DEF InRing
  <1>1. Ready(n)' /\ (q \/ control'[n].ref = "COLD")
    BY DEF Kept
  <1>2. ReadySourceOf(n)
    BY <1>1, ReadySource DEF Sound
  <1>3. CASE StaysReady(n)
    <2>1. Kept(q, n) /\ control'[n].offset = control[n].offset
      BY <1>1, <1>3 DEF StaysReady, Kept
    <2>2. PICK v \in S : v % OFFMOD = control[n].offset /\ InPlace(S, v, n)
      BY <2>1 DEF InRing
    <2>3. v = read_tail => read_tail' = read_tail
      BY <2>1, <2>2, TailPasses
    <2>4. InPlace(S2, v, n)'
      BY <2>2, <2>3 DEF Carries
    <2> QED BY <2>1, <2>2, <2>4 DEF InPlace
  <1>4. ASSUME NEW t \in Allocators, n = node[t],
               (t \in Writers /\ Publish(t)) \/ (t = GC /\ GcDemote),
               control'[n].offset = offset[t] % OFFMOD
        PROVE  \E v \in S2 : /\ v % OFFMOD = control'[n].offset
                             /\ InPlace(S2, v, n)'
    <2>1. /\ pc[t] \in {"publish", "demote"} /\ UNCHANGED ring
          /\ \A u \in Allocators : Writing(u)' =>
               u # t /\ Writing(u) /\ offset'[u] = offset[u]
      BY <1>4, PublishEnds DEF Sound, Base
    <2>2. PICK v : v = offset[t]
      OBVIOUS
    <2>3. v \in S /\ InPlace(S, v, n)'
      BY <1>4, <2>1, <2>2, Placed
    <2>4. S2 = S
      BY <2>1
    <2> QED BY <1>4, <2>2, <2>3, <2>4
  <1>5. ASSUME NEW w \in Writers, PublishedBy(w, n)
        PROVE  \E v \in S2 : /\ v % OFFMOD = control'[n].offset
                             /\ InPlace(S2, v, n)'
    BY <1>4, <1>5, ThreadFacts DEF PublishedBy
  <1>6. CASE Moved(n)
    BY <1>4, <1>6, ThreadFacts DEF Moved
  <1> QED BY <1>2, <1>3, <1>5, <1>6 DEF ReadySourceOf

-----------------------------------------------------------------------------
(* The GC's slot.                                                          *)

(* A kept slot at a busy GC's tail was there before.                       *)
LEMMA AtTailSource ==
  ASSUME NEW q \in BOOLEAN, NEW S, NEW E, Sound(S, E), Base', [Next]_vars,
         GcBusy, read_tail' = read_tail, NEW n \in Nodes, AtTail(q, n)'
  PROVE  /\ AtTail(q, n) /\ control'[n].length = control[n].length
         /\ (control'[n] = control[n] \/ (control'[n].ref = "HOT" /\ q))
  <1>1. /\ Ready(n)' /\ (q \/ control'[n].ref = "COLD")
        /\ control'[n].offset = read_tail % OFFMOD
    BY DEF AtTail, Kept
  <1>2. ReadySourceOf(n)
    BY <1>1, ReadySource DEF Sound
  <1>3. ASSUME NEW w \in Writers, PublishedBy(w, n)
        PROVE  FALSE
    <2>1. w \in Allocators /\ Writing(w)
      BY <1>3, ThreadFacts, PublishEnds DEF Sound, Base, PublishedBy
    <2>2. control'[n].offset = offset[w] % OFFMOD
      BY <1>3 DEF PublishedBy
    <2> QED BY <1>1, <2>1, <2>2, NotAtTail
  <1>4. ASSUME Moved(n)
        PROVE  FALSE
    <2>1. GC \in Allocators /\ Writing(GC)
      BY <1>4, ThreadFacts, PublishEnds DEF Sound, Base, Moved
    <2>2. control'[n].offset = offset[GC] % OFFMOD
      BY <1>4 DEF Moved
    <2> QED BY <1>1, <2>1, <2>2, NotAtTail
  <1>5. StaysReady(n)
    BY <1>2, <1>3, <1>4 DEF ReadySourceOf
  <1>6. control'[n].ref = "HOT" \/ control'[n] = control[n]
    BY <1>5 DEF StaysReady
  <1>7. control'[n].ref = "HOT" => q
    BY <1>1
  <1>8. AtTail(q, n)
    BY <1>1, <1>5 DEF StaysReady, AtTail, Kept
  <1> QED BY <1>5, <1>6, <1>7, <1>8 DEF StaysReady

(* Control blocks with the same four fields are the same.                  *)
LEMMA SameControl ==
  ASSUME NEW c \in UnpackedControl, NEW d \in UnpackedControl, c.state = d.state,
         c.ref = d.ref, c.length = d.length, c.offset = d.offset
  PROVE  c = d
  BY DEF UnpackedControl

(* What the GC has seen of its slot still holds.                           *)
LEMMA NextGcHolds ==
  ASSUME NEW q \in BOOLEAN, NEW S, NEW E, Sound(S, E), Base', [Next]_vars,
         GcHolds(q), q => Undisturbed'
  PROVE  GcHolds(q)'
  <1> USE DEF ring, locals
  <1>1. TypeOK /\ Labels /\ TypeOK'
    BY DEF Sound, Base
  <1>2. ASSUME NEW c, c = control[node[GC]], ~Stale(c), seen' = [seen EXCEPT ![GC] = c],
               UNCHANGED <<ring, control>>, node'[GC] = node[GC],
               Rescuing' => c.ref = "HOT"
        PROVE  GcHolds(q)'
    <2>1. seen'[GC] = c /\ seen'[GC] = control'[node'[GC]]
      BY <1>1, <1>2, ThreadFacts DEF TypeOK
    <2> QED BY <1>2, <2>1 DEF GcHolds, Stale
  <1>3. CASE GcFindCold
    <2>1. pc'[GC] = "evict"
      BY <1>1, <1>3, ThreadFacts DEF GcFindCold, Goto, TypeOK
    <2> QED BY <1>2, <1>3, <2>1 DEF GcFindCold, Rescuing
  <1>4. CASE GcFindHot
    <2>1. node'[GC] = node[GC]
      BY <1>1, <1>4, ThreadFacts DEF GcFindHot, BeginAllocate, TypeOK
    <2> QED BY <1>2, <1>4, <2>1 DEF GcFindHot
  <1>5. ASSUME GcGoesOn, \/ Rescuing /\ Rescuing'
                         \/ pc[GC] = "evict" /\ pc'[GC] = "evict"
        PROVE  GcHolds(q)'
    <2>1. /\ node'[GC] = node[GC] /\ seen'[GC] = seen[GC] /\ read_tail' = read_tail
          /\ GcBusy /\ node[GC] \in Nodes
      BY <1>1, <1>5, ThreadFacts DEF GcGoesOn, GcBusy, Rescuing, TypeOK
    <2>2. /\ seen[GC].offset = read_tail % OFFMOD
          /\ Rescuing => seen[GC].ref = "HOT"
          /\ AtTail(q, node[GC]) => control[node[GC]] = seen[GC]
      BY <1>5 DEF GcHolds
    <2>3. ASSUME AtTail(q, node[GC])'
          PROVE  control'[node[GC]] = seen[GC]
      <3> DEFINE n == node[GC]
      <3>1. /\ AtTail(q, n) /\ control'[n].length = control[n].length
            /\ (control'[n] = control[n] \/ (control'[n].ref = "HOT" /\ q))
        <4>1. PICK m \in Nodes : m = node[GC]
          BY <2>1
        <4>2. AtTail(q, m)'
          BY <2>1, <2>3, <4>1 DEF AtTail, Kept, Ready
        <4>3. /\ AtTail(q, m) /\ control'[m].length = control[m].length
              /\ (control'[m] = control[m] \/ (control'[m].ref = "HOT" /\ q))
          BY <2>1, <4>2, AtTailSource
        <4> QED BY <4>1, <4>3
      <3>2. control[n] = seen[GC]
        BY <2>2, <3>1
      <3>3. CASE control'[n] = control[n]
        BY <3>2, <3>3
      <3>4. CASE control'[n].ref = "HOT" /\ q /\ pc[GC] = "evict" /\ pc'[GC] = "evict"
        <4>1. control'[node'[GC]] = seen'[GC]
          BY <3>4 DEF Undisturbed
        <4> QED BY <2>1, <4>1
      <3>5. CASE control'[n].ref = "HOT" /\ Rescuing
        <4>1. /\ control'[n] \in UnpackedControl /\ seen[GC] \in UnpackedControl
              /\ seen[GC].ref = "HOT" /\ control'[n].length = seen[GC].length
              /\ Ready(n)
          BY <1>1, <2>1, <2>2, <3>1, <3>2, <3>5, ThreadFacts DEF TypeOK, AtTail, Kept
        <4>2. /\ control'[n].state = "READY" /\ control'[n].offset = read_tail % OFFMOD
          BY <2>1, <2>3 DEF AtTail, Kept, Ready
        <4>3. seen[GC].state = "READY" /\ seen[GC].offset = read_tail % OFFMOD
          BY <2>2, <3>2, <4>1 DEF Ready
        <4>4. PICK c : c = control'[n]
          OBVIOUS
        <4>5. PICK d : d = seen[GC]
          OBVIOUS
        <4>6. /\ c \in UnpackedControl /\ d \in UnpackedControl
              /\ c.state = d.state /\ c.ref = d.ref /\ c.length = d.length
              /\ c.offset = d.offset
          BY <3>5, <4>1, <4>2, <4>3, <4>4, <4>5
        <4>7. c = d
          BY <4>6, SameControl
        <4> QED BY <4>4, <4>5, <4>7
      <3> QED BY <1>5, <3>1, <3>3, <3>4, <3>5
    <2>4. Rescuing' => Rescuing
      BY <1>5 DEF Rescuing
    <2> QED BY <2>1, <2>2, <2>3, <2>4 DEF GcHolds
  <1>6. CASE ~(Rescuing \/ pc[GC] = "evict")'
    BY <1>6 DEF GcHolds
  <1>7. Rescuing' => GcHolds(q)'
    BY <1>1, <1>4, <1>5, GcSource
  <1>8. pc'[GC] = "evict" => GcHolds(q)'
    BY <1>1, <1>3, <1>5, GcSource
  <1> QED BY <1>6, <1>7, <1>8

(* The slot at the tail is gone when the GC moves on.                      *)
LEMMA NextGcDone ==
  ASSUME NEW q \in BOOLEAN, NEW S, NEW E, Sound(S, E), Base', [Next]_vars,
         GcHolds(q), GcDone(q)
  PROVE  GcDone(q)'
  <1> USE DEF ring, locals
  <1> SUFFICES ASSUME pc'[GC] = "advance", AtTail(q, node[GC])'
               PROVE  FALSE
    BY DEF GcDone
  <1>1. TypeOK /\ Labels /\ TypeOK'
    BY DEF Sound, Base
  <1>2. \/ pc[GC] = "advance" /\ GcGoesOn
        \/ GcEvict
        \/ GcDemote
    BY <1>1, GcSource
  <1>3. /\ node'[GC] = node[GC] /\ read_tail' = read_tail /\ GcBusy
    BY <1>2 DEF GcGoesOn, GcEvict, GcDemote, GcBusy
  <1>4. PICK n \in Nodes : n = node[GC]
    BY <1>1, <1>3, ThreadFacts DEF GcBusy, TypeOK
  <1>5. AtTail(q, n)'
    BY <1>3, <1>4 DEF AtTail, Kept, Ready
  <1>6. /\ AtTail(q, n)
        /\ (control'[n] = control[n] \/ (control'[n].ref = "HOT" /\ q))
    BY <1>3, <1>5, AtTailSource
  <1>7. CASE pc[GC] = "advance"
    BY <1>4, <1>6, <1>7 DEF GcDone
  <1>8. CASE GcEvict
    <2>1. control[n] = seen[GC]
      BY <1>4, <1>6, <1>8 DEF GcEvict, GcHolds
    <2>2. control'[n].state = "DEAD"
      BY <1>1, <1>4, <1>8, <2>1 DEF GcEvict, CompareExchange, PackControl, TypeOK
    <2> QED BY <1>5, <2>2 DEF AtTail, Kept, Ready
  <1>9. CASE GcDemote
    <2> DEFINE c == seen[GC]
               hot == [state |-> c.state, ref |-> "HOT", length |-> c.length,
                       offset |-> c.offset]
               moved == [state |-> c.state, ref |-> "COLD", length |-> c.length,
                         offset |-> offset[GC] % OFFMOD]
    <2>1. Rescuing /\ Writing(GC)
      BY <1>9 DEF GcDemote, Rescuing, Writing
    <2>2. control[n] = c /\ c.ref = "HOT" /\ c \in UnpackedControl
      BY <1>1, <1>4, <1>6, <2>1, ThreadFacts DEF GcHolds, TypeOK
    <2>3. c = hot
      BY <2>2 DEF UnpackedControl
    <2>4. \/ control[n] = hot /\ control' = [control EXCEPT ![n] = moved]
          \/ control[n] # hot /\ control' = control
      BY <1>1, <1>4, <1>9, Demoted
    <2>5. control'[n] = moved
      BY <1>1, <2>2, <2>3, <2>4 DEF TypeOK
    <2>6. control'[n].offset = offset[GC] % OFFMOD
      BY <2>5
    <2>7. control'[n].offset = read_tail % OFFMOD
      BY <1>3, <1>5 DEF AtTail
    <2> QED BY <1>3, <2>1, <2>6, <2>7, ThreadFacts, NotAtTail
  <1> QED BY <1>2, <1>7, <1>8, <1>9

-----------------------------------------------------------------------------
(* The payloads.                                                           *)

(* A ready slot's payload stays whole, in place or moved.                  *)
LEMMA NextSlotsWhole ==
  ASSUME NEW q \in BOOLEAN, NEW S, NEW E, Sound(S, E), Base', NoLap', Timely',
         [Next]_vars, InRing(q, S), GcHolds(q), SlotsWhole(S),
         q \/ write_head' < OFFMOD,
         NEW S2, Carries(S, S2), UNCHANGED ring => S2 = S
  PROVE  SlotsWhole(S2)'
  <1> SUFFICES ASSUME NEW n \in Nodes, Ready(n)',
                      NEW o, o = control'[n].offset,
                      NEW len, len = control'[n].length
               PROVE  Whole(S2, n, o, len)'
    BY DEF SlotsWhole, Whole, Near, NoWriter, EntryIntact, Slice, At, HeaderOf, TextOf
  <1>1. ReadySourceOf(n)
    BY ReadySource DEF Sound
  <1>2. CASE StaysReady(n)
    <2>1. /\ o = control[n].offset /\ len = control[n].length /\ Ready(n)
          /\ control[n] \in UnpackedControl /\ o < write_head
      BY <1>2 DEF StaysReady, Sound, Base, TypeOK, Words
    <2>2. o \in Nat /\ len \in Nat
      BY <2>1, RingFacts DEF UnpackedControl
    <2>3. Whole(S, n, o, len)
      BY <2>1 DEF SlotsWhole
    <2>4. Unaliased(o)
      <3>1. CASE q
        <4>1. PICK v \in S : v % OFFMOD = o
          BY <2>1, <3>1 DEF InRing, Kept
        <4> QED BY <4>1, RingUnaliased
      <3>2. CASE write_head' < OFFMOD
        BY <2>1, <2>2, <3>2, YoungUnaliased DEF Sound, Base
      <3> QED BY <3>1, <3>2
    <2>5. len \in 0 .. MAX_PAYLOAD_LENGTH
      BY <2>1, RingFacts DEF UnpackedControl, MAX_PAYLOAD_LENGTH
    <2> QED BY <2>2, <2>3, <2>4, <2>5 DEF Carries
  <1>3. ASSUME NEW t \in Allocators, n = node[t], len = length[t],
               (t \in Writers /\ Publish(t)) \/ (t = GC /\ GcDemote),
               o = offset[t] % OFFMOD,
               Slice(offset[t] + HDR, length[t]) = TextOf(node[t], length[t])
        PROVE  Whole(S2, n, o, len)'
    <2>1. /\ pc[t] \in {"publish", "demote"} /\ UNCHANGED ring
          /\ \A u \in Allocators : Writing(u)' =>
               u # t /\ Writing(u) /\ offset'[u] = offset[u]
      BY <1>3, PublishEnds DEF Sound, Base
    <2>2. PICK v : v = offset[t]
      OBVIOUS
    <2>3. Slice(v + HDR, len) = TextOf(n, len) =>
            \A p : p = v % OFFMOD => Whole(S, n, p, len)'
      BY <1>3, <2>1, <2>2, Placed
    <2>4. Slice(v + HDR, len) = TextOf(n, len)
      BY <1>3, <2>2
    <2>5. S2 = S /\ o = v % OFFMOD
      BY <1>3, <2>1, <2>2
    <2> QED BY <2>3, <2>4, <2>5
  <1>4. ASSUME NEW w \in Writers, PublishedBy(w, n)
        PROVE  Whole(S2, n, o, len)'
    <2>1. /\ w \in Allocators /\ n = node[w] /\ len = length[w]
          /\ o = offset[w] % OFFMOD /\ pc[w] = "publish" /\ Publish(w)
      BY <1>4, ThreadFacts DEF PublishedBy, Publish
    <2>2. Slice(offset[w] + HDR, length[w]) = TextOf(node[w], length[w])
      BY <2>1 DEF Sound, Layout, Owned, Writing
    <2> QED BY <1>3, <2>1, <2>2
  <1>5. CASE Moved(n)
    <2>1. /\ GC \in Allocators /\ n = node[GC] /\ GcDemote /\ pc[GC] = "demote"
          /\ o = offset[GC] % OFFMOD /\ len = control[n].length /\ Ready(n)
          /\ control[n].offset = seen[GC].offset /\ Rescuing /\ GcBusy
      BY <1>5, ThreadFacts DEF Moved, GcDemote, Rescuing, GcBusy
    <2>2. control[n].offset = read_tail % OFFMOD
      BY <2>1 DEF GcHolds
    <2>3. /\ read_tail \in S /\ read_tail \in Nat /\ Near(read_tail)
          /\ buffer[At(read_tail)] = HeaderCell(node[GC], length[GC])
      BY <2>1, SoundFacts DEF Sound, Layout, GcAtEntry
    <2>4. EntryIntact(read_tail, n, len)
      BY <2>1, <2>2, <2>3 DEF SlotsWhole, Whole
    <2>5. len \in Nat
      BY <2>1, RingFacts DEF Sound, Base, TypeOK, UnpackedControl
    <2>6. buffer[At(read_tail)] = HeaderCell(n, len)
      BY <2>3, <2>4, <2>5, IntactHeader DEF EntryIntact
    <2>7. len = length[GC]
      BY <2>3, <2>6 DEF HeaderCell
    <2>8. Slice(offset[GC] + HDR, length[GC]) = Slice(read_tail + HDR, length[GC])
      BY <2>1 DEF Sound, Layout, Owned, Writing
    <2>9. Slice(offset[GC] + HDR, length[GC]) = TextOf(node[GC], length[GC])
      BY <2>1, <2>4, <2>7, <2>8 DEF EntryIntact
    <2> QED BY <1>3, <2>1, <2>7, <2>9
  <1> QED BY <1>1, <1>2, <1>4, <1>5 DEF ReadySourceOf

(* So does what a reader is about to copy, or has copied.                  *)
LEMMA NextHitsWhole ==
  ASSUME NEW S, NEW E, Sound(S, E), Base', [Next]_vars, SlotsWhole(S), HitsWhole(S),
         write_head' < OFFMOD,
         NEW S2, Carries(S, S2), UNCHANGED ring => S2 = S
  PROVE  HitsWhole(S2)'
  <1>1. TypeOK /\ TypeOK' /\ Labels /\ Words /\ Copies
    BY DEF Sound, Base
  <1>2. /\ write_head \in Nat /\ write_head <= write_head' /\ write_head' \in Nat
        /\ write_head < OFFMOD
    BY <1>1, EndsMove, RingFacts DEF TypeOK
  <1>3. ASSUME NEW r \in Readers, pc[r] # "idle"
        PROVE  /\ seen[r].offset \in Nat /\ seen[r].offset < write_head
               /\ seen[r].length \in 0 .. MAX_PAYLOAD_LENGTH
               /\ node[r] \in Nodes
    <2>1. seen[r] \in UnpackedControl
      BY <1>1, ThreadFacts DEF TypeOK
    <2> QED
      BY <1>1, <1>3, <2>1, ThreadFacts, RingFacts
      DEF Words, Labels, TypeOK, UnpackedControl, MAX_PAYLOAD_LENGTH
  <1>4. ASSUME NEW r \in Readers, pc'[r] = "copy",
               NEW n, n = node'[r], NEW o, o = seen'[r].offset,
               NEW len, len = seen'[r].length
        PROVE  Whole(S2, n, o, len)'
    <2>1. CASE pc[r] = "copy" /\ node'[r] = node[r] /\ seen'[r] = seen[r]
      <3>1. Whole(S, n, o, len)
        BY <1>4, <2>1 DEF HitsWhole
      <3>2. /\ o \in Nat /\ o < write_head /\ n \in Nodes
            /\ len \in 0 .. MAX_PAYLOAD_LENGTH
        BY <1>3, <1>4, <2>1
      <3>3. Unaliased(o)
        BY <1>1, <3>2, YoungUnaliased
      <3> QED BY <3>1, <3>2, <3>3 DEF Carries
    <2>2. ASSUME NEW m \in Nodes, LoadHit(r, m), node'[r] = m, seen'[r] = control[m]
          PROVE  Whole(S2, n, o, len)'
      <3>1. UNCHANGED ring /\ Ready(m)
        BY <1>1, <2>2 DEF LoadHit, Words, Ready
      <3>2. Whole(S, n, o, len)
        BY <1>4, <2>2, <3>1 DEF SlotsWhole
      <3>3. /\ control[m] \in UnpackedControl /\ o = control[m].offset
            /\ len = control[m].length /\ n = m
        BY <1>1, <1>4, <2>2 DEF TypeOK
      <3>4. o \in Nat /\ o < write_head /\ len \in 0 .. MAX_PAYLOAD_LENGTH
        BY <1>1, <3>1, <3>3, RingFacts DEF Words, UnpackedControl, MAX_PAYLOAD_LENGTH
      <3>5. Unaliased(o)
        BY <1>1, <3>4, YoungUnaliased
      <3> QED BY <3>2, <3>3, <3>4, <3>5 DEF Carries
    <2> QED BY <1>1, <1>4, <2>1, <2>2, ReaderSource
  <1>5. ASSUME NEW r \in Readers, pc'[r] = "mark", Near(seen[r].offset)'
        PROVE  out'[r] = TextOf(node[r], seen[r].length)'
    <2>1. /\ pc[r] # "idle" /\ node'[r] = node[r] /\ seen'[r] = seen[r]
          /\ \/ pc[r] = "mark" /\ out'[r] = out[r]
             \/ /\ pc[r] = "copy"
                /\ out'[r] = Slice(seen[r].offset + HDR, seen[r].length)
      BY <1>1, <1>5, ReaderSource DEF ReadPayload
    <2>2. Near(seen[r].offset)
      <3>1. PICK o \in Nat : o = seen[r].offset
        BY <1>3, <2>1
      <3>2. o < write_head
        BY <1>3, <2>1, <3>1
      <3>3. write_head' - BUFFER <= o
        BY <1>5, <2>1, <3>1 DEF Near
      <3> QED BY <1>2, <3>1, <3>2, <3>3, RingFacts DEF Near
    <2>3. out'[r] = TextOf(node[r], seen[r].length)
      <3>1. CASE pc[r] = "mark" /\ out'[r] = out[r]
        BY <2>2, <3>1 DEF HitsWhole
      <3>2. CASE /\ pc[r] = "copy"
                 /\ out'[r] = Slice(seen[r].offset + HDR, seen[r].length)
        <4>1. Whole(S, node[r], seen[r].offset, seen[r].length)
          BY <3>2 DEF HitsWhole
        <4>2. /\ seen[r].offset \in Nat
              /\ seen[r].offset % OFFMOD = seen[r].offset
          BY <1>2, <1>3, <2>1, ModSmall, RingFacts
        <4>3. EntryIntact(seen[r].offset, node[r], seen[r].length)
          BY <2>2, <4>1, <4>2 DEF Whole
        <4> QED BY <3>2, <4>3 DEF EntryIntact
      <3> QED BY <2>1, <3>1, <3>2
    <2> QED BY <2>1, <2>3 DEF TextOf
  <1> QED
    BY <1>4, <1>5
    DEF HitsWhole, Whole, Near, NoWriter, EntryIntact, Slice, At, HeaderOf, TextOf

-----------------------------------------------------------------------------
(***************************************************************************)
(* The invariant of CalmSpec (q = FALSE) and of QuietSpec (q = TRUE).      *)
(***************************************************************************)
PayloadInv(q) == Base /\ Timely /\ NoLap /\ \E S, E : Stored(q, S, E)

(* The invariant holds at first ...                                        *)
LEMMA InitStored ==
  ASSUME NEW q \in BOOLEAN, Init
  PROVE  PayloadInv(q)
  <1>1. Base
    BY InitBase
  <1>2. Timely /\ NoLap
    BY ThreadFacts, RingFacts DEF Init, Timely, NoLap, used_space
  <1> DEFINE S == {}
             E == [v \in Nat |-> v]
  <1>3. \A t \in Threads : pc[t] = "loop" \/ pc[t] = "idle"
    BY DEF Init
  <1>4. \A t \in Allocators : ~Writing(t) /\ pc[t] # "header"
    BY <1>3, ThreadFacts DEF Writing, Threads, Allocators
  <1>5. pc[GC] = "loop"
    BY ThreadFacts DEF Init
  <1>6. Layout(S, E)
    <2>1. S \in SUBSET Nat /\ E \in [Nat -> Nat]
      OBVIOUS
    <2>2. Tiling(S, E)
      BY DEF Init, Tiling, Follows
    <2>3. Described(S, E) /\ Owned(S, E) /\ GcAtEntry(S, E)
      BY <1>4, <1>5 DEF Described, Owned, GcAtEntry, GcBusy
    <2> QED BY <2>1, <2>2, <2>3 DEF Layout
  <1>7. \A n \in Nodes : ~Ready(n)
    BY DEF Init, Ready, ZeroControl, PackControl
  <1>8. InRing(q, S) /\ SlotsWhole(S)
    BY <1>7 DEF InRing, Kept, SlotsWhole
  <1>9. GcHolds(q) /\ GcDone(q)
    BY <1>5 DEF GcHolds, GcDone, Rescuing
  <1>10. HitsWhole(S)
    BY <1>3, ThreadFacts DEF HitsWhole
  <1>11. Stored(q, S, E)
    BY <1>6, <1>8, <1>9, <1>10 DEF Stored
  <1> QED BY <1>1, <1>2, <1>11 DEF PayloadInv

(* ... and after every step.                                               *)
LEMMA NextStored ==
  ASSUME NEW q \in BOOLEAN, PayloadInv(q), [Next]_vars, Timely', NoLap',
         q => Undisturbed'
  PROVE  PayloadInv(q)'
  <1>1. Base'
    BY NextBase DEF PayloadInv
  <1>2. PICK S, E : Stored(q, S, E)
    BY DEF PayloadInv
  <1>3. Sound(S, E)
    BY <1>2 DEF PayloadInv, Sound, Stored
  <1>4. PICK S2, E2 : /\ Layout(S2, E2)' /\ Carries(S, S2)
                      /\ UNCHANGED ring => S2 = S
    BY <1>3, NextLayout DEF Relaid
  <1>5. InRing(q, S) /\ GcHolds(q) /\ GcDone(q)
    BY <1>2 DEF Stored
  <1>6. InRing(q, S2)'
    BY <1>1, <1>3, <1>4, <1>5, NextInRing
  <1>7. GcHolds(q)'
    BY <1>1, <1>3, <1>5, NextGcHolds
  <1>8. GcDone(q)'
    BY <1>1, <1>3, <1>5, NextGcDone
  <1>9. write_head' < OFFMOD => write_head < OFFMOD
    <2>1. write_head \in Nat /\ write_head' \in Nat /\ write_head <= write_head'
      BY <1>1, <1>3, EndsMove DEF Sound, Base, TypeOK
    <2> QED BY <2>1, RingFacts
  <1>10. q \/ write_head' < OFFMOD => SlotsWhole(S2)'
    <2> SUFFICES ASSUME q \/ write_head' < OFFMOD
                 PROVE  SlotsWhole(S2)'
      OBVIOUS
    <2>1. SlotsWhole(S)
      BY <1>2, <1>9 DEF Stored
    <2> QED BY <1>1, <1>3, <1>4, <1>5, <2>1, NextSlotsWhole
  <1>11. write_head' < OFFMOD => HitsWhole(S2)'
    <2> SUFFICES ASSUME write_head' < OFFMOD
                 PROVE  HitsWhole(S2)'
      OBVIOUS
    <2>1. SlotsWhole(S) /\ HitsWhole(S)
      BY <1>2, <1>9 DEF Stored
    <2> QED BY <1>1, <1>3, <1>4, <2>1, NextHitsWhole
  <1>12. Stored(q, S2, E2)'
    BY <1>4, <1>6, <1>7, <1>8, <1>10, <1>11 DEF Stored
  <1> QED BY <1>1, <1>12 DEF PayloadInv

(* The invariant holds when the GC keeps behind the writers and no padding *)
(* pushes the head over a full ring.                                       *)
THEOREM CalmKeepsPayloads == CalmSpec => []PayloadInv(FALSE)
  <1>1. Init => PayloadInv(FALSE)
    BY InitStored
  <1>2. PayloadInv(FALSE) /\ [Next /\ Timely' /\ NoLap']_vars => PayloadInv(FALSE)'
    <2> SUFFICES ASSUME PayloadInv(FALSE), [Next /\ Timely' /\ NoLap']_vars
                 PROVE  PayloadInv(FALSE)'
      OBVIOUS
    <2>1. [Next]_vars
      OBVIOUS
    <2>2. Timely' /\ NoLap'
      BY DEF PayloadInv, vars, Timely, NoLap, used_space
    <2> QED BY <2>1, <2>2, NextStored
  <1> QED BY <1>1, <1>2, PTL DEF CalmSpec

(* And for all the slots, not only the cold ones, when moreover no reader  *)
(* marks a slot between the load of its control block and its eviction.    *)
THEOREM QuietKeepsPayloads == QuietSpec => [](PayloadInv(TRUE) /\ Undisturbed)
  <1>1. Init => PayloadInv(TRUE) /\ Undisturbed
    BY InitStored, ThreadFacts DEF Init, Undisturbed
  <1>2. PayloadInv(TRUE) /\ Undisturbed
          /\ [Next /\ Timely' /\ NoLap' /\ Undisturbed']_vars
            => (PayloadInv(TRUE) /\ Undisturbed)'
    <2> SUFFICES ASSUME PayloadInv(TRUE), Undisturbed,
                        [Next /\ Timely' /\ NoLap' /\ Undisturbed']_vars
                 PROVE  (PayloadInv(TRUE) /\ Undisturbed)'
      OBVIOUS
    <2>1. [Next]_vars
      OBVIOUS
    <2>2. Timely' /\ NoLap' /\ Undisturbed'
      BY DEF PayloadInv, vars, Timely, NoLap, used_space, Undisturbed
    <2>3. PayloadInv(TRUE)'
      BY <2>1, <2>2, NextStored
    <2> QED BY <2>2, <2>3
  <1> QED BY <1>1, <1>2, PTL DEF QuietSpec

-----------------------------------------------------------------------------
(* What the bits of a control block stand for.                             *)

(* Virtual finds the last offset at or below the head with these bits.     *)
LEMMA VirtualBits ==
  ASSUME NEW h \in Nat, h = write_head, NEW o \in 0 .. OFFMOD - 1,
         NEW v, v = Virtual(o)
  PROVE  /\ v \in Int /\ v % OFFMOD = o /\ h - OFFMOD < v /\ v <= h
         /\ o <= h /\ h < OFFMOD => v = o
  <1>1. PICK m : m = (h - o) % OFFMOD
    OBVIOUS
  <1>2. /\ m \in 0 .. OFFMOD - 1 /\ v = h - m /\ h - o \in Int /\ OFFMOD \in Nat \ {0}
    <2>1. h - o \in Int /\ OFFMOD \in Nat \ {0}
      BY RingFacts
    <2>2. (h - o) % OFFMOD \in 0 .. OFFMOD - 1
      BY <2>1, ModRange
    <2> QED BY <1>1, <2>1, <2>2 DEF Virtual
  <1>3. v % OFFMOD = o
    <2>1. PICK k \in Int : h - o = OFFMOD * k + m
      BY <1>1, <1>2, DivMod
    <2>2. v = OFFMOD * k + o
      <3>1. OFFMOD * k \in Int
        BY <1>2, <2>1
      <3> QED BY <1>2, <2>1, <3>1
    <2>3. (OFFMOD * k + o) % OFFMOD = o % OFFMOD
      <3>1. o \in Int
        BY <1>2
      <3> QED BY <1>2, <3>1, ModShift
    <2>4. o % OFFMOD = o
      BY <1>2, ModSmall
    <2> QED BY <2>2, <2>3, <2>4
  <1>4. ASSUME o <= h, h < OFFMOD PROVE v = o
    <2>1. h - o \in 0 .. OFFMOD - 1
      BY <1>2, <1>4
    <2>2. m = h - o
      BY <1>1, <1>2, <2>1, ModSmall
    <2> QED BY <1>2, <2>2
  <1> QED BY <1>2, <1>3, <1>4

(* A slot that is kept stands for its entry in the ring, and that is not   *)
(* beyond the place that is computed for it.                               *)
LEMMA KeptPlace ==
  ASSUME NEW q \in BOOLEAN, NEW S, NEW E, Sound(S, E), InRing(q, S),
         NEW n \in Nodes, Kept(q, n)
  PROVE  \E v \in S : /\ v % OFFMOD = control[n].offset
                      /\ Place(n) \in Int /\ Place(n) % OFFMOD = v % OFFMOD
                      /\ read_tail <= Place(n)
  <1>1. PICK o : o = control[n].offset
    OBVIOUS
  <1>2. PICK h : h = write_head
    OBVIOUS
  <1>3. PICK p : p = Virtual(o)
    OBVIOUS
  <1>4. o \in 0 .. OFFMOD - 1 /\ h \in Nat /\ p = Place(n)
    BY <1>1, <1>2, <1>3 DEF Sound, Base, TypeOK, UnpackedControl, Place
  <1>5. p \in Int /\ p % OFFMOD = o /\ h - OFFMOD < p
    BY <1>2, <1>3, <1>4, VirtualBits
  <1>6. PICK v \in S : v % OFFMOD = o
    BY <1>1 DEF InRing
  <1>7. v \in Nat /\ v < h /\ read_tail \in Nat /\ read_tail <= v
    BY <1>2, <1>6, SoundFacts
  <1>8. v <= p
    <2>1. ASSUME p < v PROVE v = p
      <3>1. v - p < OFFMOD /\ p - v < OFFMOD /\ v \in Int
        BY <1>4, <1>5, <1>7, <2>1, RingFacts
      <3> QED BY <1>5, <1>6, <3>1, ModApart, RingFacts
    <2> QED BY <1>5, <1>7, <2>1
  <1> QED BY <1>1, <1>4, <1>5, <1>6, <1>7, <1>8

(* Two offsets with the same bits have the same cells.                     *)
LEMMA SameCells ==
  ASSUME NEW v \in Int, NEW u \in Int, v % OFFMOD = u % OFFMOD, NEW len \in Nat
  PROVE  /\ Slice(v, len) = Slice(u, len)
         /\ Slice(v + HDR, len) = Slice(u + HDR, len)
  <1>1. \A k \in Int : At(v + k) = At(u + k)
    BY SameBits
  <1>2. \A k \in 0 .. len - 1 : At(v + k) = At(u + k)
    BY <1>1
  <1>3. ASSUME NEW k \in 0 .. len - 1 PROVE At((v + HDR) + k) = At((u + HDR) + k)
    <2>1. HDR + k \in Int /\ (v + HDR) + k = v + (HDR + k)
          /\ (u + HDR) + k = u + (HDR + k)
      BY RingFacts
    <2> QED BY <1>1, <2>1
  <1>4. Slice(v, len) = Slice(u, len)
    BY <1>2 DEF Slice
  <1>5. Slice(v + HDR, len) = Slice(u + HDR, len)
    BY <1>3 DEF Slice
  <1> QED BY <1>4, <1>5

-----------------------------------------------------------------------------
(* What the runs check.                                                    *)

(* The GC, whenever it sets to work, stands at a header, at padding or at  *)
(* an entry somebody is writing: RunGarbageCollector never resynchronises. *)
THEOREM GcStaysAligned == CalmSpec => []GcAligned
  <1>1. PayloadInv(FALSE) => GcAligned
    <2> SUFFICES ASSUME PayloadInv(FALSE), GcAtWork
                 PROVE  \/ Padding(read_tail) > 0
                        \/ buffer[At(read_tail)].kind = "header"
                        \/ \E w \in Writers : Writing(w) /\ offset[w] = read_tail
      BY DEF GcAligned
    <2>1. PICK S, E : Stored(FALSE, S, E)
      BY DEF PayloadInv
    <2>2. Sound(S, E)
      BY <2>1 DEF PayloadInv, Sound, Stored
    <2>3. /\ read_tail \in Nat /\ write_head \in Nat /\ read_tail # write_head
      BY <2>2, SoundFacts, RingFacts DEF GcAtWork, used_space
    <2>4. read_tail + Padding(read_tail) \in S
      BY <2>2, <2>3 DEF Sound, Layout, Tiling, Follows
    <2>5. CASE read_tail \in S
      <3>1. \A t \in Allocators : pc[t] = "header" => t \in Writers /\ Writing(t)
        BY ThreadFacts DEF GcAtWork, Writing
      <3> QED BY <2>2, <2>5, <3>1 DEF Sound, Layout, Described
    <2>6. CASE read_tail \notin S
      <3>1. Padding(read_tail) # 0
        BY <2>3, <2>4, <2>6
      <3> QED BY <2>3, <3>1, PaddingBound
    <2> QED BY <2>5, <2>6
  <1> QED BY <1>1, CalmKeepsPayloads, PTL

(* The tail passes no entry of a cold ready slot without evicting it.      *)
THEOREM ColdStayInRing == CalmSpec => []ColdInRing
  <1>1. PayloadInv(FALSE) => ColdInRing
    <2> SUFFICES ASSUME PayloadInv(FALSE), NEW n \in Nodes, Ready(n),
                        control[n].ref = "COLD"
                 PROVE  read_tail <= Place(n)
      BY DEF ColdInRing
    <2>1. PICK S, E : Stored(FALSE, S, E)
      BY DEF PayloadInv
    <2>2. Sound(S, E) /\ InRing(FALSE, S) /\ Kept(FALSE, n)
      BY <2>1 DEF PayloadInv, Sound, Stored, Kept
    <2> QED BY <2>2, KeptPlace
  <1> QED BY <1>1, CalmKeepsPayloads, PTL

(* Until the offsets exceed the bits of a control word, the payload of a   *)
(* ready slot is whole where the slot points, until the head comes round.  *)
THEOREM ReadyPayloadsWhole == CalmSpec => [](write_head < OFFMOD => ReadyIntact)
  <1>1. PayloadInv(FALSE) => (write_head < OFFMOD => ReadyIntact)
    <2> SUFFICES ASSUME PayloadInv(FALSE), write_head < OFFMOD, NEW n \in Nodes,
                        Ready(n), write_head <= Place(n) + BUFFER
                 PROVE  EntryIntact(Place(n), n, control[n].length)
      BY DEF ReadyIntact
    <2>1. PICK S, E : Stored(FALSE, S, E)
      BY DEF PayloadInv
    <2>2. PICK o : o = control[n].offset
      OBVIOUS
    <2>3. Whole(S, n, o, control[n].length)
      BY <2>1, <2>2 DEF Stored, SlotsWhole
    <2>4. o \in 0 .. OFFMOD - 1 /\ write_head \in Nat /\ o < write_head
      BY <2>2 DEF PayloadInv, Base, TypeOK, UnpackedControl, Words
    <2>5. Place(n) = o
      <3>1. PICK h : h = write_head
        OBVIOUS
      <3>2. PICK p : p = Virtual(o)
        OBVIOUS
      <3>3. h \in Nat /\ o <= h /\ h < OFFMOD
        BY <2>4, <3>1, RingFacts
      <3>4. p = o
        BY <2>4, <3>1, <3>2, <3>3, VirtualBits
      <3> QED BY <2>2, <3>2, <3>4 DEF Place
    <2>6. o % OFFMOD = o /\ o \in Nat
      BY <2>4, ModSmall, RingFacts
    <2>7. Near(o)
      BY <2>4, <2>5, <2>6, RingFacts DEF Near
    <2> QED BY <2>3, <2>5, <2>6, <2>7 DEF Whole
  <1> QED BY <1>1, CalmKeepsPayloads, PTL

(* So long the text of a HIT is the payload of its slot, unless the        *)
(* writers came round the ring between the load and the copy.              *)
THEOREM HitsWholeInTime == CalmSpec => [](write_head < OFFMOD => HitIntact)
  <1>1. PayloadInv(FALSE) => (write_head < OFFMOD => HitIntact)
    <2> SUFFICES ASSUME PayloadInv(FALSE), write_head < OFFMOD, NEW r \in Readers,
                        pc[r] = "mark",
                        write_head <= Virtual(seen[r].offset) + BUFFER
                 PROVE  out[r] = TextOf(node[r], seen[r].length)
      BY DEF HitIntact
    <2>1. PICK S, E : Stored(FALSE, S, E)
      BY DEF PayloadInv
    <2>2. PICK o : o = seen[r].offset
      OBVIOUS
    <2>3. o \in 0 .. OFFMOD - 1 /\ write_head \in Nat /\ o < write_head
      BY <2>2, ThreadFacts DEF PayloadInv, Base, TypeOK, UnpackedControl, Words
    <2>4. Virtual(o) = o
      <3>1. PICK h : h = write_head
        OBVIOUS
      <3>2. PICK p : p = Virtual(o)
        OBVIOUS
      <3>3. h \in Nat /\ o <= h /\ h < OFFMOD
        BY <2>3, <3>1, RingFacts
      <3> QED BY <2>3, <3>1, <3>2, <3>3, VirtualBits
    <2>5. Near(seen[r].offset)
      BY <2>2, <2>3, <2>4, RingFacts DEF Near
    <2> QED BY <2>1, <2>5 DEF Stored, HitsWhole
  <1> QED BY <1>1, CalmKeepsPayloads, PTL

-----------------------------------------------------------------------------
(* What no reader disturbs.                                                *)

(* Every ready slot has a whole entry in the ring, at whatever offset has  *)
(* the bits of its control block.                                          *)
LEMMA QuietSlot ==
  ASSUME PayloadInv(TRUE), NEW n \in Nodes, Ready(n), NEW p \in Int,
         p % OFFMOD = control[n].offset
  PROVE  EntryIntact(p, n, control[n].length)
  <1>1. PICK S, E : Stored(TRUE, S, E)
    BY DEF PayloadInv
  <1>2. Sound(S, E) /\ InRing(TRUE, S) /\ Kept(TRUE, n)
    BY <1>1 DEF PayloadInv, Sound, Stored, Kept
  <1>3. PICK v \in S : v % OFFMOD = control[n].offset
    BY <1>2 DEF InRing
  <1>4. v \in Nat /\ Near(v) /\ control[n].length \in Nat
    BY <1>2, SoundFacts, RingFacts DEF Sound, Base, TypeOK, UnpackedControl
  <1>5. EntryIntact(v, n, control[n].length)
    BY <1>1, <1>3, <1>4 DEF Stored, SlotsWhole, Whole
  <1>6. PICK len \in Nat : len = control[n].length
    BY <1>4
  <1>7. v \in Int /\ v % OFFMOD = p % OFFMOD /\ HDR \in Nat
    BY <1>3, <1>4, RingFacts
  <1>8. /\ Slice(v, HDR) = Slice(p, HDR)
        /\ Slice(v + HDR, len) = Slice(p + HDR, len)
    BY <1>7, SameCells
  <1> QED BY <1>5, <1>6, <1>8 DEF EntryIntact

(* With no reader between the GC's load and its eviction, the payload of a *)
(* ready slot is whole for ever, however often the offsets wrap.           *)
THEOREM QuietPayloadsWhole == QuietSpec => []ReadyIntact
  <1>1. PayloadInv(TRUE) => ReadyIntact
    <2> SUFFICES ASSUME PayloadInv(TRUE), NEW n \in Nodes, Ready(n)
                 PROVE  EntryIntact(Place(n), n, control[n].length)
      BY DEF ReadyIntact
    <2>1. PICK S, E : Stored(TRUE, S, E)
      BY DEF PayloadInv
    <2>2. Sound(S, E) /\ InRing(TRUE, S) /\ Kept(TRUE, n)
      BY <2>1 DEF PayloadInv, Sound, Stored, Kept
    <2>3. Place(n) \in Int /\ Place(n) % OFFMOD = control[n].offset
      BY <2>2, KeptPlace
    <2>4. PICK p \in Int : p = Place(n)
      BY <2>3
    <2>5. EntryIntact(p, n, control[n].length)
      BY <2>3, <2>4, QuietSlot
    <2> QED BY <2>4, <2>5
  <1> QED BY <1>1, QuietKeepsPayloads, PTL

(* And the GC rescues every hot slot, as its comment has it: that a mark   *)
(* comes between its load and its eviction is the only way to lose one.    *)
THEOREM QuietRescuesHot == QuietSpec => []HotIsRescued
  <1>1. PayloadInv(TRUE) => HotIsRescued
    <2> SUFFICES ASSUME PayloadInv(TRUE), NEW n \in Nodes, Ready(n)
                 PROVE  read_tail <= Place(n)
      BY DEF HotIsRescued
    <2>1. PICK S, E : Stored(TRUE, S, E)
      BY DEF PayloadInv
    <2>2. Sound(S, E) /\ InRing(TRUE, S) /\ Kept(TRUE, n)
      BY <2>1 DEF PayloadInv, Sound, Stored, Kept
    <2> QED BY <2>2, KeptPlace
  <1> QED BY <1>1, QuietKeepsPayloads, PTL

-----------------------------------------------------------------------------
(* The refinement.  What SlotStore sees of a control block when no payload *)
(* is ever damaged:                                                        *)
Held(c) ==
  IF c.state = "DEAD" THEN [state |-> "free", value |-> 0]
  ELSE IF c.state = "PENDING" THEN [state |-> "reserved", value |-> 0]
  ELSE [state |-> "filled", value |-> c.length]

(* No cell of a ready slot is damaged.                                     *)
LEMMA SlotsHeld ==
  ASSUME PayloadInv(TRUE), NEW n \in Nodes
  PROVE  SlotOf(n) = Held(control[n])
  <1>1. control[n] \in UnpackedControl /\ control[n].state # "MIGRATING"
    BY DEF PayloadInv, Base, TypeOK, Words
  <1>2. CASE control[n].state = "DEAD"
    BY <1>2 DEF SlotOf, Held
  <1>3. CASE control[n].state = "PENDING"
    BY <1>3 DEF SlotOf, Held
  <1>4. CASE control[n].state = "READY"
    <2>1. /\ control[n].offset \in Int
          /\ control[n].offset % OFFMOD = control[n].offset
      BY <1>1, ModSmall, RingFacts DEF UnpackedControl
    <2>2. EntryIntact(control[n].offset, n, control[n].length)
      BY <1>4, <2>1, QuietSlot DEF Ready
    <2>3. Slice(control[n].offset + HDR, control[n].length) =
            TextOf(n, control[n].length)
      BY <2>2 DEF EntryIntact
    <2>4. SlotOf(n) = [state |-> "filled",
                       value |-> IF Slice(control[n].offset + HDR, control[n].length) =
                                      TextOf(n, control[n].length)
                                 THEN control[n].length
                                 ELSE 0]
      BY <1>4 DEF SlotOf
    <2> QED BY <1>4, <2>3, <2>4 DEF Held
  <1> QED BY <1>1, <1>2, <1>3, <1>4 DEF UnpackedControl, NodeState

(* What one step does to one control block.                                *)
HeldStep(c, d) ==
  LET free == [state |-> "free", value |-> 0]
      reserved == [state |-> "reserved", value |-> 0]
  IN  \/ Held(c) = free /\ Held(d) = reserved
      \/ Held(c) = reserved /\ Held(d) = free
      \/ \E v \in 1 .. MAX_PAYLOAD_LENGTH :
           LET filled == [state |-> "filled", value |-> v]
           IN  \/ Held(c) = reserved /\ Held(d) = filled
               \/ Held(c) = filled /\ Held(d) = free

(* At most one slot changes for SlotStore.                                 *)
SlotStep ==
  \/ \A n \in Nodes : Held(control'[n]) = Held(control[n])
  \/ \E m \in Nodes :
       /\ \A n \in Nodes \ {m} : control'[n] = control[n]
       /\ HeldStep(control[m], control'[m])

(* Every step is one of SlotStore's or changes nothing it sees.            *)
LEMMA NextSlotStep ==
  ASSUME Base, Base', [Next]_vars
  PROVE  SlotStep
  <1> USE DEF ring, locals
  <1>1. TypeOK /\ Labels /\ Words /\ control \in [Nodes -> UnpackedControl]
    BY DEF Base, TypeOK
  <1>2. ASSUME control' = control PROVE SlotStep
    BY <1>2 DEF SlotStep
  <1>3. ASSUME NEW m \in Nodes, Claim(m)
        PROVE  SlotStep
    <2>1. /\ \A n \in Nodes \ {m} : control'[n] = control[n]
          /\ control[m].state = "DEAD" /\ control'[m].state = "PENDING"
      BY <1>1, <1>3 DEF Claim, PackControl
    <2> QED BY <2>1 DEF SlotStep, HeldStep, Held
  <1>4. ASSUME NEW m \in Nodes, Expire(m)
        PROVE  SlotStep
    <2>1. /\ \A n \in Nodes \ {m} : control'[n] = control[n]
          /\ control[m].state = "PENDING" /\ control'[m].state = "DEAD"
      BY <1>1, <1>4 DEF Expire, PackControl
    <2> QED BY <2>1 DEF SlotStep, HeldStep, Held
  <1>5. ASSUME NEW w \in Writers, Publish(w)
        PROVE  SlotStep
    <2>1. /\ node[w] \in Nodes /\ length[w] \in 0 .. MAX_PAYLOAD_LENGTH
          /\ offset[w] \in Nat
      BY <1>1, <1>5, ThreadFacts DEF Publish, TypeOK
    <2>2. length[w] \in 1 .. MAX_PAYLOAD_LENGTH
      <3>1. length[w] >= 1
        BY <1>1, <1>5 DEF Publish, Words
      <3> QED BY <2>1, <3>1, RingFacts
    <2>3. PackControl("READY", "HOT", length[w], offset[w]) =
            [state |-> "READY", ref |-> "HOT", length |-> length[w],
             offset |-> offset[w] % OFFMOD]
      BY <2>1, Packed
    <2>4. CASE control[node[w]].state = "PENDING"
      <3>1. PICK m \in Nodes : m = node[w]
        BY <2>1
      <3>2. /\ \A n \in Nodes \ {m} : control'[n] = control[n]
            /\ control'[m] = [state |-> "READY", ref |-> "HOT", length |-> length[w],
                              offset |-> offset[w] % OFFMOD]
        BY <1>1, <1>5, <2>3, <2>4, <3>1 DEF Publish
      <3>3. control'[m].state = "READY" /\ control'[m].length = length[w]
        BY <3>2
      <3>4. Held(control'[m]) = [state |-> "filled", value |-> length[w]]
        BY <3>3 DEF Held
      <3>5. Held(control[m]) = [state |-> "reserved", value |-> 0]
        BY <2>4, <3>1 DEF Held
      <3>6. HeldStep(control[m], control'[m])
        BY <2>2, <3>4, <3>5 DEF HeldStep
      <3> QED BY <3>2, <3>6 DEF SlotStep
    <2>5. CASE control[node[w]].state # "PENDING"
      BY <1>2, <1>5, <2>5 DEF Publish
    <2> QED BY <2>4, <2>5
  <1>6. ASSUME NEW r \in Readers, MarkHot(r)
        PROVE  SlotStep
    <2> SUFFICES ASSUME NEW n \in Nodes
                 PROVE  Held(control'[n]) = Held(control[n])
      BY DEF SlotStep
    <2>1. \/ control'[n] = control[n]
          \/ control[n] = seen[r] /\ control'[n] = [control[n] EXCEPT !.ref = "HOT"]
      BY <1>1, <1>6, MarkedHot
    <2>2. control[n] \in UnpackedControl
      BY <1>1
    <2>3. control'[n] = [control[n] EXCEPT !.ref = "HOT"] =>
            control'[n].state = control[n].state /\ control'[n].length = control[n].length
      BY <2>2 DEF UnpackedControl
    <2> QED BY <2>1, <2>3 DEF Held
  <1>7. CASE GcEvict
    <2>1. node[GC] \in Nodes
      BY <1>1, <1>7, ThreadFacts DEF GcEvict, TypeOK
    <2>2. PICK m \in Nodes : m = node[GC]
      BY <2>1
    <2>3. CASE control[m] # seen[GC]
      BY <1>2, <1>7, <2>2, <2>3 DEF GcEvict, CompareExchange
    <2>4. CASE control[m] = seen[GC]
      <3>1. /\ \A n \in Nodes \ {m} : control'[n] = control[n]
            /\ control'[m].state = "DEAD"
        BY <1>1, <1>7, <2>2, <2>4 DEF GcEvict, CompareExchange, PackControl
      <3>2. Held(control'[m]) = [state |-> "free", value |-> 0]
        BY <3>1 DEF Held
      <3>3. /\ control[m] \in UnpackedControl /\ control[m].state # "MIGRATING"
            /\ control[m].state = "READY" => control[m].length >= 1
        BY <1>1 DEF Words, Ready
      <3>4. CASE control[m].state = "DEAD"
        <4>1. Held(control[m]) = [state |-> "free", value |-> 0]
          BY <3>4 DEF Held
        <4> QED BY <3>1, <3>2, <4>1 DEF SlotStep
      <3>5. CASE control[m].state = "PENDING"
        <4>1. Held(control[m]) = [state |-> "reserved", value |-> 0]
          BY <3>5 DEF Held
        <4>2. HeldStep(control[m], control'[m])
          BY <3>2, <4>1 DEF HeldStep
        <4> QED BY <3>1, <4>2 DEF SlotStep
      <3>6. CASE control[m].state = "READY"
        <4>1. Held(control[m]) = [state |-> "filled", value |-> control[m].length]
          BY <3>6 DEF Held
        <4>2. control[m].length \in 1 .. MAX_PAYLOAD_LENGTH
          BY <3>3, <3>6, RingFacts DEF UnpackedControl, MAX_PAYLOAD_LENGTH
        <4>3. HeldStep(control[m], control'[m])
          BY <3>2, <4>1, <4>2 DEF HeldStep
        <4> QED BY <3>1, <4>3 DEF SlotStep
      <3> QED BY <3>3, <3>4, <3>5, <3>6 DEF UnpackedControl, NodeState
    <2> QED BY <2>3, <2>4
  <1>8. CASE GcDemote
    <2> SUFFICES ASSUME NEW n \in Nodes
                 PROVE  Held(control'[n]) = Held(control[n])
      BY DEF SlotStep
    <2> DEFINE c == seen[GC]
               hot == [state |-> c.state, ref |-> "HOT", length |-> c.length,
                       offset |-> c.offset]
               moved == [state |-> c.state, ref |-> "COLD", length |-> c.length,
                         offset |-> offset[GC] % OFFMOD]
    <2>1. \/ /\ control[node[GC]] = hot
             /\ control' = [control EXCEPT ![node[GC]] = moved]
          \/ control' = control
      BY <1>1, <1>8, Demoted
    <2>2. moved.state = hot.state /\ moved.length = hot.length
      OBVIOUS
    <2> HIDE DEF hot, moved
    <2>3. \/ control'[n] = control[n]
          \/ control[n] = hot /\ control'[n] = moved
      BY <1>1, <2>1
    <2> QED BY <2>2, <2>3 DEF Held
  <1>9. ASSUME NEW t \in Allocators, Allocation(t)
        PROVE  SlotStep
    BY <1>2, <1>9 DEF Allocation, Reserve, LoseReserve, WriteHeader
  <1>10. ASSUME NEW w \in Writers, WriterStep(w)
         PROVE  SlotStep
    <2>1. CASE Allocation(w)
      BY <1>9, <2>1, ThreadFacts
    <2>2. CASE ThrowInWriter(w) \/ WriteText(w)
      BY <1>2, <2>2 DEF ThrowInWriter, WriteText
    <2> QED BY <1>5, <1>10, <2>1, <2>2 DEF WriterStep
  <1>11. CASE GcStep
    <2>1. CASE Allocation(GC)
      BY <1>9, <2>1, ThreadFacts
    <2>2. CASE GcLeap \/ GcResync \/ GcReadHeader \/ GcSkip \/ GcFindCold
                 \/ GcFindHot \/ ThrowInGC \/ GcCopyText \/ GcAdvance
      <3>1. control' = control
        BY <2>2
        DEF GcLeap, GcResync, GcReadHeader, GcSkip, GcFindCold, GcFindHot,
            ThrowInGC, GcCopyText, GcAdvance
      <3> QED BY <1>2, <3>1
    <2> QED BY <1>7, <1>8, <1>11, <2>1, <2>2 DEF GcStep
  <1> QED
    BY <1>2, <1>3, <1>4, <1>6, <1>10, <1>11
    DEF Next, Checks, SetCache, LoadHit, ReaderStep, ReadPayload, vars

AllHeld == \A n \in Nodes : SlotOf(n) = Held(control[n])

(* The arena implements SlotStore: a slot keeps its payload, through moves *)
(* and marks and whatever is written beside it, until it is dropped.       *)
THEOREM ArenaStoresSlots == QuietSpec => ImplementsSlotStore
  <1>1. Init => Store!Init
    <2> SUFFICES ASSUME Init, NEW n \in Nodes
                 PROVE  SlotOf(n) = [state |-> "free", value |-> 0]
      BY DEF Store!Init, Store!Free
    <2>1. control[n].state = "DEAD"
      BY DEF Init, ZeroControl, PackControl
    <2> QED BY <2>1 DEF SlotOf
  <1>2. PayloadInv(TRUE) => AllHeld
    BY SlotsHeld DEF AllHeld
  <1>3. PayloadInv(TRUE) /\ PayloadInv(TRUE)' /\ [Next]_vars => SlotStep
    BY NextSlotStep DEF PayloadInv
  <1>4. AllHeld /\ AllHeld' /\ SlotStep => [Store!Next]_([n \in Nodes |-> SlotOf(n)])
    <2> SUFFICES ASSUME AllHeld, AllHeld', SlotStep
                 PROVE  [Store!Next]_([n \in Nodes |-> SlotOf(n)])
      OBVIOUS
    <2>1. \A n \in Nodes : SlotOf(n) = Held(control[n])
      BY DEF AllHeld
    <2>2. \A n \in Nodes : SlotOf(n)' = Held(control'[n])
      BY DEF AllHeld, Held
    <2>3. CASE \A n \in Nodes : Held(control'[n]) = Held(control[n])
      BY <2>1, <2>2, <2>3
    <2>4. ASSUME NEW m \in Nodes, \A n \in Nodes \ {m} : control'[n] = control[n],
                 HeldStep(control[m], control'[m])
          PROVE  Store!Step
      <3>1. PICK s : s = [n \in Nodes |-> Held(control[n])]
        OBVIOUS
      <3>2. PICK d : d = Held(control'[m])
        OBVIOUS
      <3>3. [n \in Nodes |-> SlotOf(n)] = s
        BY <2>1, <3>1
      <3>4. [n \in Nodes |-> SlotOf(n)]' = [s EXCEPT ![m] = d]
        BY <2>2, <2>4, <3>1, <3>2
      <3>5. s[m] = Held(control[m])
        BY <3>1
      <3>6. ASSUME NEW from, NEW to, from = Held(control[m]), to = d
            PROVE  Store!Becomes(m, from, to)
        BY <3>3, <3>4, <3>5, <3>6 DEF Store!Becomes
      <3>7. CASE Held(control[m]) = Store!Free /\ d = Store!Reserved
        BY <3>6, <3>7 DEF Store!Step, Store!Take
      <3>8. CASE Held(control[m]) = Store!Reserved /\ d = Store!Free
        BY <3>6, <3>8 DEF Store!Step, Store!Release
      <3>9. ASSUME NEW v \in 1 .. MAX_PAYLOAD_LENGTH,
                   Held(control[m]) = Store!Reserved, d = Store!Filled(v)
            PROVE  Store!Step
        BY <3>6, <3>9 DEF Store!Step, Store!Fill
      <3>10. ASSUME NEW v \in 1 .. MAX_PAYLOAD_LENGTH,
                    Held(control[m]) = Store!Filled(v), d = Store!Free
             PROVE  Store!Step
        BY <3>6, <3>10 DEF Store!Step, Store!Drop
      <3> QED
        BY <2>4, <3>2, <3>7, <3>8, <3>9, <3>10
        DEF HeldStep, Store!Free, Store!Reserved, Store!Filled
    <2> QED BY <2>3, <2>4 DEF SlotStep, Store!Next
  <1> QED
    BY <1>1, <1>2, <1>3, <1>4, QuietKeepsPayloads, PTL
    DEF QuietSpec, ImplementsSlotStore, Store!Spec
=============================================================================
