-------------------------- MODULE CheckCacheProofs --------------------------
(***************************************************************************)
(* The invariants of CheckCache, for every number of requests, slots,      *)
(* prompts and payloads: with no assumption on the schedule TypeOK, and    *)
(* that the slots implement SlotStore; with one on claimed slots, when     *)
(* created_at is the gate it is meant to be; at the pace of CalmSpec, what *)
(* the requests are answered.                                              *)
(***************************************************************************)
EXTENDS CheckCache, TLAPS

-----------------------------------------------------------------------------
Labels == {"idle", "scan", "birth", "expire", "clear", "score", "decide",
           "mark", "claim", "vector", "stamp", "answered"}

Locals ==
  [prompt : Prompts \cup {NoPrompt}, curr_time : 0 .. MaxTime,
   i : 0 .. L0_MAX_SLOTS, best_ctrl : Word, max_score : Int,
   best_node_id : Slots \cup {NoSlot}, reusable_node_id : Slots \cup {NoSlot}]

Answers ==
  [kind : {"none", "HIT", "PENDING", "MISS", "ERROR"},
   node_id : Slots \cup {NoSlot}, payload : Prompts \cup {NoPrompt}]

(* A published slot has a payload.                                         *)
Stored ==
  /\ Len(entries) <= MaxEntries
  /\ \A n \in Slots : control[n].state = "READY" =>
       control[n].entry \in 1 .. Len(entries)

(* A request at label with locals l and answer a has a prompt, a slot to   *)
(* look at and a slot to claim wherever it uses them; what it expires it   *)
(* saw reserved; and a score that is not the one it started from belongs   *)
(* to a slot.                                                              *)
Equipped(label, l, a) ==
  /\ label \notin {"idle", "answered"} => l.prompt \in Prompts
  /\ label \in {"scan", "birth", "expire", "clear", "score"} => l.i \in Slots
  /\ label \in {"birth", "expire"} => l.best_ctrl.state = "PENDING"
  /\ l.best_node_id = NoSlot => l.max_score = MIN_SCORE
  /\ label = "mark" => l.best_node_id \in Slots
  /\ label \in {"claim", "vector", "stamp"} => l.reusable_node_id \in Slots
  /\ label = "answered" /\ a.node_id # NoSlot => l.prompt \in Prompts

(* The collector holds the word of a slot that was published.              *)
GcHolds ==
  gc.pc # "loop" =>
    /\ gc.node \in Slots
    /\ gc.seen.state = "READY"
    /\ gc.seen.entry \in 1 .. Len(entries)

(* What the requests and the collector share.                              *)
Memory ==
  /\ clock \in 1 .. MaxTime
  /\ control \in [Slots -> Word]
  /\ created_at \in [Slots -> 0 .. MaxTime]
  /\ vector \in [Slots -> Prompts \cup {NoPrompt}]
  /\ entries \in Seq(Prompts)
  /\ Stored
  /\ gc \in [pc : {"loop", "evict", "clear", "rescue"},
             node : Slots \cup {NoSlot}, seen : Word]
  /\ GcHolds

Threads ==
  /\ pc \in [Requests -> Labels]
  /\ local \in [Requests -> Locals]
  /\ answer \in [Requests -> Answers]
  /\ \A r \in Requests : Equipped(pc[r], local[r], answer[r])

IInv == Memory /\ Threads

-----------------------------------------------------------------------------
LEMMA ZeroIsWord == ZeroWord \in Word
  BY TimeAssumption DEF ZeroWord, Word

LEMMA IdleType == Idle \in Locals /\ Idle.best_node_id = NoSlot
                  /\ Idle.max_score = MIN_SCORE
  BY ZeroIsWord, SlotAssumption, PromptAssumption, TimeAssumption
  DEF Idle, Locals

(* One request moves, with what its place asks of it.                      *)
LEMMA Moved ==
  ASSUME Threads, NEW r \in Requests,
         NEW label \in Labels, NEW l \in Locals, NEW a \in Answers,
         pc' = [pc EXCEPT ![r] = label],
         local' = [local EXCEPT ![r] = l],
         answer' = [answer EXCEPT ![r] = a],
         Equipped(label, l, a)
  PROVE  Threads'
  <1>1. /\ pc' \in [Requests -> Labels]
        /\ local' \in [Requests -> Locals]
        /\ answer' \in [Requests -> Answers]
    BY DEF Threads
  <1>2. ASSUME NEW s \in Requests
        PROVE  Equipped(pc'[s], local'[s], answer'[s])
    <2>1. CASE s = r
      BY <2>1 DEF Threads
    <2>2. CASE s # r
      BY <2>2 DEF Threads
    <2> QED BY <2>1, <2>2
  <1> QED BY <1>1, <1>2 DEF Threads

(* On to the next slot with what the search has found so far.              *)
LEMMA Next_Slot ==
  ASSUME Threads, NEW r \in Requests, NEW l \in Locals,
         l.prompt \in Prompts, l.i \in Slots,
         l.best_node_id = NoSlot => l.max_score = MIN_SCORE,
         NextSlot(r, l), answer' = answer
  PROVE  Threads'
  <1> DEFINE next == [l EXCEPT !.i = @ + 1, !.best_ctrl = ZeroWord]
             label == IF l.i + 1 = L0_MAX_SLOTS THEN "decide" ELSE "scan"
  <1>1. next \in Locals
    <2>1. l.i + 1 \in 0 .. L0_MAX_SLOTS /\ ZeroWord \in Word
      BY ZeroIsWord, SlotAssumption DEF Slots
    <2> QED BY <2>1 DEF Locals
  <1>2. /\ next.prompt = l.prompt /\ next.i = l.i + 1
        /\ next.best_node_id = l.best_node_id /\ next.max_score = l.max_score
    BY DEF Locals
  <1>3. /\ local' = [local EXCEPT ![r] = next]
        /\ pc' = [pc EXCEPT ![r] = label]
        /\ answer' = [answer EXCEPT ![r] = answer[r]]
        /\ answer[r] \in Answers
    BY DEF NextSlot, Goto, Threads
  <1>4. Equipped(label, next, answer[r])
    BY <1>2, SlotAssumption DEF Equipped, Slots
  <1>5. label \in Labels
    BY DEF Labels
  <1> QED BY <1>1, <1>3, <1>4, <1>5, Moved

(* Respond keeps the prompt of a request that is told a slot.              *)
LEMMA Responded ==
  ASSUME Threads, NEW r \in Requests,
         NEW kind \in {"PENDING", "MISS", "ERROR"}, NEW n \in Slots \cup {NoSlot},
         n # NoSlot => local[r].prompt \in Prompts,
         Respond(r, kind, n, NoPrompt)
  PROVE  Threads'
  <1> DEFINE l == IF n = NoSlot THEN Idle
                  ELSE [Idle EXCEPT !.prompt = local[r].prompt]
             a == [kind |-> kind, node_id |-> n, payload |-> NoPrompt]
  <1>1. l \in Locals /\ a \in Answers /\ "answered" \in Labels
    BY IdleType DEF Locals, Answers, Labels, Threads
  <1>2. Equipped("answered", l, a)
    BY DEF Equipped, Idle
  <1> QED BY <1>1, <1>2, Moved DEF Respond, Goto

(* Forget leaves the request as it was at first.                           *)
LEMMA Forgotten ==
  ASSUME Threads, NEW r \in Requests, Forget(r)
  PROVE  Threads'
  <1>1. Idle \in Locals /\ NoAnswer \in Answers /\ "idle" \in Labels
    BY IdleType DEF Answers, Labels, NoAnswer
  <1>2. Equipped("idle", Idle, NoAnswer)
    BY DEF Equipped, Idle
  <1> QED BY <1>1, <1>2, Moved DEF Forget, Goto

(* Nothing in memory changes.                                              *)
LEMMA MemoryKept ==
  ASSUME Memory, UNCHANGED <<clock, slots, entries, gc>>
  PROVE  Memory'
  BY DEF Memory, Stored, GcHolds, slots

(* A control word is set to another that has a payload if it says so.      *)
LEMMA WordSet ==
  ASSUME Memory, NEW n \in Slots, NEW w \in Word,
         w.state = "READY" => w.entry \in 1 .. Len(entries),
         control' = [control EXCEPT ![n] = w],
         UNCHANGED <<clock, created_at, vector, entries, gc>>
  PROVE  Memory'
  BY DEF Memory, Stored, GcHolds

-----------------------------------------------------------------------------
LEMMA InitInv == Init => IInv
  <1> SUFFICES ASSUME Init PROVE IInv
    OBVIOUS
  <1>1. Memory
    BY ZeroIsWord, TimeAssumption
    DEF Init, Memory, Stored, GcHolds, GcIdle, ZeroWord
  <1>2. Threads
    BY IdleType DEF Init, Threads, Labels, Answers, NoAnswer, Equipped
  <1> QED BY <1>1, <1>2 DEF IInv

LEMMA BeginInv ==
  ASSUME Memory, Threads, NEW r \in Requests, NEW p \in Prompts, Begin(r, p)
  PROVE  Memory' /\ Threads'
  <1>1. Fresh(p) \in Locals /\ Equipped("scan", Fresh(p), answer[r])
    BY ZeroIsWord, SlotAssumption, PromptAssumption, TimeAssumption
    DEF Fresh, Locals, Memory, Equipped, Slots
  <1>2. /\ "scan" \in Labels /\ answer[r] \in Answers
        /\ answer' = [answer EXCEPT ![r] = answer[r]]
    BY DEF Begin, Labels, Threads
  <1> QED BY <1>1, <1>2, Moved, MemoryKept DEF Begin, Goto

LEMMA ReusableType ==
  ASSUME NEW l \in Locals, l.i \in Slots
  PROVE  /\ Reusable(l) \in Locals
         /\ Reusable(l).prompt = l.prompt /\ Reusable(l).i = l.i
         /\ Reusable(l).best_ctrl = l.best_ctrl
         /\ Reusable(l).best_node_id = l.best_node_id
         /\ Reusable(l).max_score = l.max_score
  BY DEF Reusable, Locals

LEMMA ScanInv ==
  ASSUME Memory, Threads, NEW r \in Requests, Scan(r)
  PROVE  Memory' /\ Threads'
  <1> DEFINE l == local[r]
  <1>1. /\ l \in Locals /\ answer[r] \in Answers
        /\ l.prompt \in Prompts /\ l.i \in Slots
        /\ l.best_node_id = NoSlot => l.max_score = MIN_SCORE
    BY DEF Threads, Equipped, Scan, LoadDead, LoadLive, LoadBirth, Expire,
           ClearBirth, Compare
  <1>2. CASE LoadDead(r)
    BY <1>1, <1>2, ReusableType, Next_Slot, MemoryKept DEF LoadDead
  <1>3. CASE LoadLive(r)
    <2> DEFINE word == control[l.i]
               seen == [l EXCEPT !.best_ctrl = word]
               label == IF word.state = "PENDING" THEN "birth" ELSE "score"
    <2>1. word \in Word
      BY <1>1 DEF Memory
    <2>2. /\ seen \in Locals /\ seen.best_ctrl = word
          /\ seen.prompt = l.prompt /\ seen.i = l.i
          /\ seen.best_node_id = l.best_node_id /\ seen.max_score = l.max_score
      BY <1>1, <2>1 DEF Locals
    <2>3. /\ pc' = [pc EXCEPT ![r] = label]
          /\ local' = [local EXCEPT ![r] = seen]
          /\ answer' = [answer EXCEPT ![r] = answer[r]]
      BY <1>3 DEF LoadLive, Goto, Threads
    <2>4. label \in Labels /\ Equipped(label, seen, answer[r])
      BY <1>1, <2>2 DEF Labels, Equipped
    <2>5. Threads'
      BY <1>1, <2>2, <2>3, <2>4, Moved
    <2>6. Memory'
      BY <1>3, MemoryKept DEF LoadLive
    <2> QED BY <2>5, <2>6
  <1>4. CASE LoadBirth(r)
    <2>1. CASE created_at[l.i] = 0
      BY <1>1, <1>4, <2>1, Next_Slot, MemoryKept DEF LoadBirth
    <2>2. CASE created_at[l.i] # 0
      <3> DEFINE label == IF Age(l.curr_time, created_at[l.i]) > PENDING_LIFESPAN
                          THEN "expire" ELSE "score"
      <3>1. /\ pc' = [pc EXCEPT ![r] = label]
            /\ local' = [local EXCEPT ![r] = l]
            /\ answer' = [answer EXCEPT ![r] = answer[r]]
        BY <1>4, <2>2 DEF LoadBirth, Goto, Threads
      <3>2. label \in Labels /\ Equipped(label, l, answer[r])
        BY <1>1, <1>4 DEF Labels, Equipped, Threads, LoadBirth
      <3> QED BY <1>1, <1>4, <3>1, <3>2, Moved, MemoryKept DEF LoadBirth
    <2> QED BY <2>1, <2>2
  <1>5. CASE Expire(r)
    <2>1. CASE control[l.i] = l.best_ctrl
      <3>1. /\ Retired(l.best_ctrl) \in Word
            /\ Retired(l.best_ctrl).state = "DEAD"
        BY <1>1 DEF Locals, Retired, Word
      <3>2. Memory'
        BY <1>1, <1>5, <2>1, <3>1, WordSet DEF Expire
      <3>3. /\ pc' = [pc EXCEPT ![r] = "clear"]
            /\ local' = [local EXCEPT ![r] = Reusable(l)]
            /\ answer' = [answer EXCEPT ![r] = answer[r]]
        BY <1>5, <2>1 DEF Expire, Goto, Threads
      <3>4. "clear" \in Labels /\ Equipped("clear", Reusable(l), answer[r])
        BY <1>1, ReusableType DEF Labels, Equipped
      <3> QED BY <1>1, <3>2, <3>3, <3>4, ReusableType, Moved
    <2>2. CASE control[l.i] # l.best_ctrl
      BY <1>1, <1>5, <2>2, Next_Slot, MemoryKept DEF Expire, slots
    <2> QED BY <2>1, <2>2
  <1>6. CASE ClearBirth(r)
    <2>1. Memory'
      BY <1>1, <1>6, TimeAssumption DEF ClearBirth, Memory, Stored, GcHolds
    <2> QED BY <1>1, <1>6, <2>1, Next_Slot DEF ClearBirth
  <1>7. CASE Compare(r)
    <2> DEFINE curr_score == Score[l.prompt][vector[l.i]]
               found == [l EXCEPT !.max_score = curr_score, !.best_node_id = l.i]
    <2>1. curr_score \in Int
      BY <1>1, PromptAssumption DEF Memory
    <2>2. /\ found \in Locals /\ found.prompt = l.prompt /\ found.i = l.i
          /\ found.best_node_id = l.i
      BY <1>1, <2>1 DEF Locals
    <2>3. l.i # NoSlot
      BY <1>1, SlotAssumption DEF Slots, NoSlot
    <2> QED BY <1>1, <1>7, <2>2, <2>3, Next_Slot, MemoryKept DEF Compare
  <1> QED BY <1>2, <1>3, <1>4, <1>5, <1>6, <1>7 DEF Scan

(* A best score that is high enough belongs to a slot.                     *)
LEMMA FoundSlot ==
  ASSUME Threads, NEW r \in Requests, Found(local[r])
  PROVE  local[r].best_node_id \in Slots
  BY PromptAssumption DEF Threads, Equipped, Found, Locals

LEMMA DecideInv ==
  ASSUME Memory, Threads, NEW r \in Requests, Decide(r)
  PROVE  Memory' /\ Threads'
  <1> DEFINE l == local[r]
             n == l.best_node_id
  <1>1. /\ l \in Locals /\ answer[r] \in Answers /\ Equipped(pc[r], l, answer[r])
        /\ l.prompt \in Prompts
    BY DEF Threads, Equipped, Decide, DecideHit, MarkHot, DecidePending,
           DecideDead, DecideNew, HighTraffic
  <1>2. CASE DecideHit(r)
    <2> DEFINE word == control[n]
               a == [kind |-> "HIT", node_id |-> NoSlot,
                     payload |-> entries[word.entry]]
               hit == [l EXCEPT !.best_ctrl = word]
    <2>1. n \in Slots /\ word \in Word /\ word.entry \in 1 .. Len(entries)
      BY <1>2, FoundSlot DEF DecideHit, Memory, Stored
    <2>2. entries[word.entry] \in Prompts
      BY <2>1 DEF Memory
    <2>3. /\ a \in Answers /\ "mark" \in Labels
          /\ hit \in Locals /\ hit.prompt = l.prompt
          /\ hit.best_node_id = n /\ hit.max_score = l.max_score
      BY <1>1, <2>1, <2>2 DEF Answers, Labels, Locals
    <2>4. Equipped("mark", hit, a)
      BY <1>1, <2>1, <2>3 DEF Equipped
    <2>5. /\ pc' = [pc EXCEPT ![r] = "mark"]
          /\ local' = [local EXCEPT ![r] = hit]
          /\ answer' = [answer EXCEPT ![r] = a]
      BY <1>2 DEF DecideHit, Goto
    <2>6. Threads'
      BY <2>3, <2>4, <2>5, Moved
    <2>7. Memory'
      BY <1>2, MemoryKept DEF DecideHit
    <2> QED BY <2>6, <2>7
  <1>3. CASE MarkHot(r)
    <2> DEFINE kept == [Idle EXCEPT !.prompt = l.prompt]
               hot == [control[n] EXCEPT !.ref = "HOT"]
    <2>1. n \in Slots
      BY <1>1, <1>3 DEF MarkHot, Equipped
    <2>2. /\ hot \in Word /\ hot.state = control[n].state
          /\ hot.entry = control[n].entry
      BY <2>1 DEF Memory, Word
    <2>3. /\ control[n].state = "READY" => control[n].entry \in 1 .. Len(entries)
          /\ \/ control' = [control EXCEPT ![n] = hot]
             \/ control' = control
      BY <1>3, <2>1 DEF MarkHot, Memory, Stored
    <2>4. Memory'
      BY <1>3, <2>1, <2>2, <2>3, WordSet, MemoryKept DEF MarkHot, slots
    <2>5. /\ kept \in Locals /\ kept.prompt = l.prompt
          /\ kept.best_node_id = NoSlot /\ kept.max_score = MIN_SCORE
          /\ "answered" \in Labels
      BY <1>1, IdleType DEF Locals, Labels
    <2>6. Equipped("answered", kept, answer[r])
      BY <1>1, <2>5 DEF Equipped
    <2>7. /\ pc' = [pc EXCEPT ![r] = "answered"]
          /\ local' = [local EXCEPT ![r] = kept]
          /\ answer' = [answer EXCEPT ![r] = answer[r]]
      BY <1>3 DEF MarkHot, Goto, Threads
    <2>8. Threads'
      BY <1>1, <2>5, <2>6, <2>7, Moved
    <2> QED BY <2>4, <2>8
  <1>4. CASE DecidePending(r)
    BY <1>1, <1>4, FoundSlot, Responded, MemoryKept DEF DecidePending
  <1>5. CASE DecideDead(r)
    <2> DEFINE dead == [l EXCEPT !.reusable_node_id = n]
    <2>1. n \in Slots
      BY <1>5, FoundSlot DEF DecideDead
    <2>2. /\ dead \in Locals /\ dead.prompt = l.prompt
          /\ dead.best_node_id = n /\ dead.max_score = l.max_score
          /\ dead.reusable_node_id = n /\ "claim" \in Labels
      BY <1>1, <2>1 DEF Locals, Labels
    <2>3. Equipped("claim", dead, answer[r])
      BY <1>1, <2>1, <2>2 DEF Equipped
    <2>4. /\ pc' = [pc EXCEPT ![r] = "claim"]
          /\ local' = [local EXCEPT ![r] = dead]
          /\ answer' = [answer EXCEPT ![r] = answer[r]]
      BY <1>5 DEF DecideDead, Goto, Threads
    <2>5. Threads'
      BY <1>1, <2>2, <2>3, <2>4, Moved
    <2> QED BY <1>5, <2>5, MemoryKept DEF DecideDead
  <1>6. CASE DecideNew(r)
    <2>1. "claim" \in Labels /\ Equipped("claim", l, answer[r])
      BY <1>1, <1>6 DEF DecideNew, Labels, Equipped, Locals
    <2>2. /\ pc' = [pc EXCEPT ![r] = "claim"]
          /\ local' = [local EXCEPT ![r] = l]
          /\ answer' = [answer EXCEPT ![r] = answer[r]]
      BY <1>6 DEF DecideNew, Goto, Threads
    <2>3. Threads'
      BY <1>1, <2>1, <2>2, Moved
    <2> QED BY <1>6, <2>3, MemoryKept DEF DecideNew
  <1>7. CASE HighTraffic(r)
    BY <1>7, Responded, MemoryKept DEF HighTraffic
  <1> QED BY <1>2, <1>3, <1>4, <1>5, <1>6, <1>7 DEF Decide

LEMMA ReserveInv ==
  ASSUME Memory, Threads, NEW r \in Requests, Reserve(r)
  PROVE  Memory' /\ Threads'
  <1> DEFINE l == local[r]
             n == l.reusable_node_id
  <1>1. /\ l \in Locals /\ answer[r] \in Answers /\ Equipped(pc[r], l, answer[r])
        /\ l.prompt \in Prompts /\ n \in Slots
    BY DEF Threads, Equipped, Reserve, Claim, LoseClaim, CopyVector, Stamp
  <1>2. CASE Claim(r)
    <2>1. Reserved \in Word /\ Reserved.state = "PENDING"
      BY TimeAssumption DEF Reserved, Word
    <2>2. Memory'
      BY <1>1, <1>2, <2>1, WordSet DEF Claim
    <2>3. "vector" \in Labels /\ Equipped("vector", l, answer[r])
      BY <1>1 DEF Labels, Equipped
    <2>4. /\ pc' = [pc EXCEPT ![r] = "vector"]
          /\ local' = [local EXCEPT ![r] = l]
          /\ answer' = [answer EXCEPT ![r] = answer[r]]
      BY <1>2 DEF Claim, Goto, Threads
    <2>5. Threads'
      BY <1>1, <2>3, <2>4, Moved
    <2> QED BY <2>2, <2>5
  <1>3. CASE LoseClaim(r)
    BY <1>3, Responded, MemoryKept DEF LoseClaim
  <1>4. CASE CopyVector(r)
    <2>1. Memory'
      BY <1>1, <1>4 DEF CopyVector, Memory, Stored, GcHolds
    <2>2. "stamp" \in Labels /\ Equipped("stamp", l, answer[r])
      BY <1>1 DEF Labels, Equipped
    <2>3. /\ pc' = [pc EXCEPT ![r] = "stamp"]
          /\ local' = [local EXCEPT ![r] = l]
          /\ answer' = [answer EXCEPT ![r] = answer[r]]
      BY <1>4 DEF CopyVector, Goto, Threads
    <2>4. Threads'
      BY <1>1, <2>2, <2>3, Moved
    <2> QED BY <2>1, <2>4
  <1>5. CASE Stamp(r)
    <2>1. l.curr_time \in 0 .. MaxTime
      BY <1>1 DEF Locals
    <2>2. Memory'
      BY <1>1, <1>5, <2>1 DEF Stamp, Memory, Stored, GcHolds
    <2>3. Threads'
      BY <1>1, <1>5, Responded DEF Stamp
    <2> QED BY <2>2, <2>3
  <1> QED BY <1>2, <1>3, <1>4, <1>5 DEF Reserve

(* A payload is added to the arena, and a word may be set to it.           *)
LEMMA PayloadAdded ==
  ASSUME Memory, NEW p \in Prompts, Len(entries) + 1 <= MaxEntries,
         NEW n \in Slots, NEW w \in Word, w.entry = Len(entries) + 1,
         entries' = Append(entries, p),
         control' = [control EXCEPT ![n] = w] \/ control' = control,
         UNCHANGED <<clock, created_at, vector>>,
         gc' = gc \/ gc' = GcIdle
  PROVE  Memory'
  <1>1. /\ entries' \in Seq(Prompts) /\ Len(entries') = Len(entries) + 1
        /\ Len(entries) \in Nat
    BY DEF Memory
  <1>2. control' \in [Slots -> Word]
    BY DEF Memory
  <1>3. Stored'
    <2>1. ASSUME NEW s \in Slots, control'[s].state = "READY"
          PROVE  control'[s].entry \in 1 .. Len(entries) + 1
      <3>1. CASE control'[s] = w
        BY <1>1, <3>1
      <3>2. CASE control'[s] = control[s]
        BY <1>1, <2>1, <3>2 DEF Memory, Stored
      <3> QED BY <3>1, <3>2 DEF Memory
    <2> QED BY <1>1, <2>1 DEF Stored
  <1>4. /\ gc' \in [pc : {"loop", "evict", "clear", "rescue"},
                    node : Slots \cup {NoSlot}, seen : Word]
        /\ GcHolds'
    <2>1. CASE gc' = gc
      BY <1>1, <2>1 DEF Memory, GcHolds
    <2>2. CASE gc' = GcIdle
      BY <2>2, ZeroIsWord DEF GcHolds, GcIdle
    <2> QED BY <2>1, <2>2
  <1> QED BY <1>1, <1>2, <1>3, <1>4 DEF Memory

LEMMA SetCacheInv ==
  ASSUME Memory, Threads, NEW r \in Requests, SetCache(r)
  PROVE  Memory' /\ Threads'
  <1> DEFINE n == answer[r].node_id
             e == Len(entries) + 1
  <1>1. n \in Slots /\ local[r].prompt \in Prompts
    BY DEF Threads, Answers, Equipped, SetCache
  <1>2. e \in 0 .. MaxEntries
    BY TimeAssumption DEF SetCache, Memory
  <1>3. Published(e) \in Word /\ Published(e).entry = e
    BY <1>2 DEF Published, Word
  <1>4. Memory'
    BY <1>1, <1>3, PayloadAdded DEF SetCache
  <1>5. Threads'
    BY Forgotten DEF SetCache
  <1> QED BY <1>4, <1>5

LEMMA GcInv ==
  ASSUME Memory, Threads, Gc
  PROVE  Memory' /\ Threads'
  <1>1. ASSUME UNCHANGED <<pc, local, answer>>
        PROVE  Threads'
    BY <1>1 DEF Threads
  <1>2. ASSUME NEW n \in Slots, GcLoad(n)
        PROVE  Memory' /\ Threads'
    <2>1. control[n] \in Word /\ control[n].entry \in 1 .. Len(entries)
      BY <1>2 DEF GcLoad, Memory, Stored
    <2> QED BY <1>1, <1>2, <2>1 DEF GcLoad, Memory, Stored, GcHolds, slots
  <1>3. CASE GcEvict
    <2>1. gc.node \in Slots /\ gc.seen \in Word
      BY <1>3 DEF GcEvict, Memory, GcHolds
    <2>2. Retired(gc.seen) \in Word /\ Retired(gc.seen).state = "DEAD"
      BY <2>1 DEF Retired, Word
    <2>3. control' \in [Slots -> Word] /\ Stored'
      BY <1>3, <2>1, <2>2 DEF GcEvict, Memory, Stored
    <2>4. /\ gc' \in [pc : {"loop", "evict", "clear", "rescue"},
                      node : Slots \cup {NoSlot}, seen : Word]
          /\ GcHolds'
      BY <1>3, <2>1 DEF GcEvict, Memory, GcHolds
    <2> QED BY <1>1, <1>3, <2>3, <2>4 DEF GcEvict, Memory
  <1>4. CASE GcClear
    <2>1. gc.node \in Slots
      BY <1>4 DEF GcClear, Memory, GcHolds
    <2> QED BY <1>1, <1>4, <2>1, ZeroIsWord, TimeAssumption
            DEF GcClear, Memory, Stored, GcHolds, GcIdle
  <1>5. CASE GcRescue
    <2> DEFINE n == gc.node
               e == Len(entries) + 1
               w == [control[n] EXCEPT !.ref = "COLD", !.entry = e]
    <2>1. /\ n \in Slots /\ e \in 0 .. MaxEntries
          /\ entries[gc.seen.entry] \in Prompts
      BY <1>5, TimeAssumption DEF GcRescue, Memory, GcHolds
    <2>2. w \in Word /\ w.entry = e
      BY <2>1 DEF Memory, Word
    <2>3. control' = [control EXCEPT ![n] = w] \/ control' = control
      BY <1>5, <2>1 DEF GcRescue, Memory
    <2>4. Memory'
      BY <1>5, <2>1, <2>2, <2>3, PayloadAdded DEF GcRescue
    <2> QED BY <1>1, <1>5, <2>4 DEF GcRescue
  <1> QED BY <1>2, <1>3, <1>4, <1>5 DEF Gc

LEMMA NextInv == IInv /\ [Next]_vars => IInv'
  <1> SUFFICES ASSUME Memory, Threads, [Next]_vars
               PROVE  Memory' /\ Threads'
    BY DEF IInv
  <1>1. CASE Tick
    <2>1. Memory'
      BY <1>1, TimeAssumption DEF Tick, Memory, Stored, GcHolds, slots
    <2>2. Threads'
      BY <1>1 DEF Tick, Threads
    <2> QED BY <2>1, <2>2
  <1>2. ASSUME NEW r \in Requests, NEW p \in Prompts, Begin(r, p)
        PROVE  Memory' /\ Threads'
    BY <1>2, BeginInv
  <1>3. ASSUME NEW r \in Requests,
               \/ Refuse(r) \/ Scan(r) \/ Decide(r) \/ Reserve(r)
               \/ SetCache(r) \/ Finish(r)
        PROVE  Memory' /\ Threads'
    <2>1. CASE Refuse(r)
      BY <2>1, Responded, MemoryKept DEF Refuse
    <2>2. CASE Finish(r)
      BY <2>2, Forgotten, MemoryKept DEF Finish
    <2> QED BY <1>3, <2>1, <2>2, ScanInv, DecideInv, ReserveInv, SetCacheInv
  <1>4. CASE Gc
    BY <1>4, GcInv
  <1>5. CASE UNCHANGED vars
    BY <1>5 DEF vars, slots, Memory, Threads, Stored, GcHolds
  <1> QED BY <1>1, <1>2, <1>3, <1>4, <1>5 DEF Next

LEMMA Invariance == Spec => []IInv
  BY InitInv, NextInv, PTL DEF Spec

(* Whatever the interleaving, every variable keeps its type: control words *)
(* stay words, times of birth never pass the last second, and every number *)
(* a request holds is a slot's or none.                                    *)
THEOREM TypeCorrect == Spec => []TypeOK
  <1>1. IInv => TypeOK
    BY DEF IInv, Memory, Threads, TypeOK, Labels, Locals, Answers
  <1> QED BY <1>1, Invariance, PTL

-----------------------------------------------------------------------------
(* The slots implement SlotStore.                                          *)

Map == [n \in Slots |-> SlotOf(n)]

(* Only slot n changes, from what SlotStore calls one thing to another.    *)
LEMMA OneSlot ==
  ASSUME NEW n \in Slots, NEW v,
         \A s \in Slots : s # n => SlotOf(s)' = SlotOf(s),
         SlotOf(n)' = v
  PROVE  Map' = [Map EXCEPT ![n] = v]
  BY DEF Map

LEMMA SameSlots ==
  ASSUME \A s \in Slots : SlotOf(s)' = SlotOf(s)
  PROVE  Map' = Map
  BY DEF Map

LEMMA InitMaps == Init => Store!Init
  BY DEF Init, Store!Init, Store!Free, SlotOf, ZeroWord

(* A reservation that is retired, or a payload that is evicted.            *)
LEMMA RetireMaps ==
  ASSUME Memory, NEW n \in Slots, control[n].state # "DEAD",
         control' = [control EXCEPT ![n] = Retired(control[n])],
         entries' = entries
  PROVE  Store!Step
  <1>1. control'[n].state = "DEAD"
    BY DEF Memory, Word, Retired
  <1>2. SlotOf(n)' = Store!Free
    BY <1>1 DEF SlotOf, Store!Free
  <1>3. Map' = [Map EXCEPT ![n] = Store!Free]
    BY <1>2, OneSlot DEF SlotOf
  <1>4. CASE control[n].state = "PENDING"
    <2>1. Map[n] = Store!Reserved
      BY <1>4 DEF Map, SlotOf, Store!Reserved
    <2>2. Store!Release(n)
      BY <1>3, <2>1 DEF Map, Store!Release, Store!Becomes
    <2> QED BY <2>2 DEF Store!Step
  <1>5. CASE control[n].state = "READY"
    <2>1. PICK v \in Prompts : v = entries[control[n].entry]
      BY <1>5 DEF Memory, Stored
    <2>2. Map[n] = Store!Filled(v)
      BY <1>5, <2>1 DEF Map, SlotOf, Store!Filled
    <2>3. Store!Drop(n, v)
      BY <1>3, <2>2 DEF Map, Store!Drop, Store!Becomes
    <2> QED BY <2>1, <2>3 DEF Store!Step
  <1> QED BY <1>4, <1>5 DEF Memory, Word

(* A payload that is added is seen in no slot whose word stays the same.   *)
LEMMA AppendMaps ==
  ASSUME Memory, NEW p \in Prompts, entries' = Append(entries, p)
  PROVE  /\ \A e \in 1 .. Len(entries) : entries'[e] = entries[e]
         /\ entries'[Len(entries) + 1] = p
         /\ \A s \in Slots : control'[s] = control[s] => SlotOf(s)' = SlotOf(s)
  <1>1. /\ \A e \in 1 .. Len(entries) : entries'[e] = entries[e]
        /\ entries'[Len(entries) + 1] = p
    BY DEF Memory
  <1>2. ASSUME NEW s \in Slots, control'[s] = control[s]
        PROVE  SlotOf(s)' = SlotOf(s)
    <2>1. CASE control[s].state = "READY"
      BY <1>1, <1>2, <2>1 DEF SlotOf, Memory, Stored
    <2>2. CASE control[s].state # "READY"
      BY <1>2, <2>2 DEF SlotOf, Memory, Word
    <2> QED BY <2>1, <2>2
  <1> QED BY <1>1, <1>2

(* The claim takes a free slot.                                            *)
LEMMA ClaimMaps ==
  ASSUME Memory, Threads, NEW r \in Requests, Claim(r)
  PROVE  Store!Step
  <1>1. PICK n \in Slots : n = local[r].reusable_node_id
    BY DEF Claim, Threads, Equipped
  <1>2. /\ control[n].state = "DEAD" /\ entries' = entries
        /\ control' = [control EXCEPT ![n] = Reserved]
    BY <1>1 DEF Claim
  <1>3. Map[n] = Store!Free /\ SlotOf(n)' = Store!Reserved
    BY <1>2 DEF Map, SlotOf, Store!Free, Store!Reserved, Reserved, Memory
  <1>4. Map' = [Map EXCEPT ![n] = Store!Reserved]
    BY <1>2, <1>3, OneSlot DEF SlotOf
  <1>5. Store!Take(n)
    BY <1>3, <1>4 DEF Map, Store!Take, Store!Becomes
  <1> QED BY <1>5 DEF Store!Step

(* SetCache fills a reserved slot, or leaves the slots as they are.        *)
LEMMA SetCacheMaps ==
  ASSUME Memory, Threads, NEW r \in Requests, SetCache(r)
  PROVE  Store!Step \/ Map' = Map
  <1>1. PICK n \in Slots : n = answer[r].node_id
    BY DEF SetCache, Threads, Answers
  <1>2. PICK p \in Prompts : p = local[r].prompt
    BY DEF SetCache, Threads, Equipped
  <1>3. entries' = Append(entries, p) /\ Len(entries) \in Nat
    BY <1>2 DEF SetCache, Memory
  <1>4. CASE control[n].state = "PENDING"
    <2>1. control' = [control EXCEPT ![n] = Published(Len(entries) + 1)]
      BY <1>1, <1>4 DEF SetCache
    <2>2. SlotOf(n)' = Store!Filled(p)
      BY <1>3, <2>1, AppendMaps DEF SlotOf, Published, Store!Filled, Memory
    <2>3. Map' = [Map EXCEPT ![n] = Store!Filled(p)]
      BY <1>3, <2>1, <2>2, AppendMaps, OneSlot DEF Memory
    <2>4. Map[n] = Store!Reserved
      BY <1>4 DEF Map, SlotOf, Store!Reserved
    <2>5. Store!Fill(n, p)
      BY <2>3, <2>4 DEF Map, Store!Fill, Store!Becomes
    <2> QED BY <1>2, <2>5 DEF Store!Step
  <1>5. CASE control[n].state # "PENDING"
    BY <1>1, <1>3, <1>5, AppendMaps, SameSlots DEF SetCache
  <1> QED BY <1>4, <1>5

(* A rescue moves the payload and leaves it what it is.                    *)
LEMMA RescueMaps ==
  ASSUME Memory, GcRescue
  PROVE  Map' = Map
  <1>1. PICK n \in Slots : n = gc.node
    BY DEF GcRescue, Memory, GcHolds
  <1>2. PICK p \in Prompts : p = entries[gc.seen.entry]
    BY DEF GcRescue, Memory, GcHolds
  <1>3. entries' = Append(entries, p) /\ Len(entries) \in Nat
    BY <1>2 DEF GcRescue, Memory
  <1>4. CASE control[n] = gc.seen
    <2>1. /\ control' = [control EXCEPT ![n] = [control[n] EXCEPT
                                    !.ref = "COLD", !.entry = Len(entries) + 1]]
      BY <1>1, <1>4 DEF GcRescue, Memory
    <2>2. /\ control[n].state = "READY" /\ control'[n].state = "READY"
          /\ control'[n].entry = Len(entries) + 1
      <3>1. control[n] \in Word /\ control[n].state = "READY"
        BY <1>4 DEF GcRescue, Memory, GcHolds
      <3>2. control'[n] = [control[n] EXCEPT !.ref = "COLD",
                                             !.entry = Len(entries) + 1]
        BY <2>1 DEF Memory
      <3> QED BY <3>1, <3>2 DEF Word
    <2>3. SlotOf(n)' = SlotOf(n)
      BY <1>2, <1>3, <1>4, <2>2, AppendMaps DEF SlotOf
    <2>4. \A s \in Slots : s # n => SlotOf(s)' = SlotOf(s)
      BY <1>3, <2>1, AppendMaps DEF Memory
    <2> QED BY <2>3, <2>4, SameSlots
  <1>5. CASE control[n] # gc.seen
    BY <1>1, <1>3, <1>5, AppendMaps, SameSlots DEF GcRescue
  <1> QED BY <1>4, <1>5

LEMMA StepMaps == IInv /\ [Next]_vars => [Store!Next]_Map
  <1> SUFFICES ASSUME Memory, Threads, [Next]_vars
               PROVE  Store!Step \/ Map' = Map
    BY DEF IInv, Store!Next, Map
  <1>1. ASSUME UNCHANGED <<control, entries>>
        PROVE  Map' = Map
    BY <1>1 DEF Map, SlotOf
  <1>2. ASSUME NEW r \in Requests, Scan(r)
        PROVE  Store!Step \/ Map' = Map
    <2>1. CASE Expire(r)
      <3>1. PICK n \in Slots : n = local[r].i
        BY <2>1 DEF Expire, Threads, Equipped
      <3>2. local[r].best_ctrl.state = "PENDING"
        BY <2>1 DEF Expire, Threads, Equipped
      <3>3. CASE control[n] = local[r].best_ctrl
        BY <2>1, <3>1, <3>2, <3>3, RetireMaps DEF Expire
      <3>4. CASE control[n] # local[r].best_ctrl
        BY <1>1, <2>1, <3>1, <3>4 DEF Expire
      <3> QED BY <3>3, <3>4
    <2> QED BY <1>1, <1>2, <2>1
            DEF Scan, LoadDead, LoadLive, LoadBirth, ClearBirth, Compare, slots
  <1>3. ASSUME NEW r \in Requests, Decide(r)
        PROVE  Store!Step \/ Map' = Map
    <2>1. CASE MarkHot(r)
      <3>1. /\ entries' = entries
            /\ \A s \in Slots : /\ control'[s].state = control[s].state
                                /\ control'[s].entry = control[s].entry
        BY <2>1 DEF MarkHot, Memory, Word
      <3> QED BY <3>1, SameSlots DEF SlotOf
    <2> QED BY <1>1, <1>3, <2>1
            DEF Decide, DecideHit, DecidePending, DecideDead, DecideNew,
                HighTraffic, slots
  <1>4. ASSUME NEW r \in Requests, Reserve(r)
        PROVE  Store!Step \/ Map' = Map
    BY <1>1, <1>4, ClaimMaps DEF Reserve, LoseClaim, CopyVector, Stamp, slots
  <1>5. ASSUME NEW r \in Requests, Refuse(r) \/ Finish(r)
        PROVE  Map' = Map
    BY <1>1, <1>5 DEF Refuse, Finish, slots
  <1>6. CASE Gc
    <2>1. CASE GcEvict
      <3>1. PICK n \in Slots : n = gc.node
        BY <2>1 DEF GcEvict, Memory, GcHolds
      <3>2. gc.seen.state = "READY"
        BY <2>1 DEF GcEvict, Memory, GcHolds
      <3>3. CASE control[n] = gc.seen
        BY <2>1, <3>1, <3>2, <3>3, RetireMaps DEF GcEvict
      <3>4. CASE control[n] # gc.seen
        BY <1>1, <2>1, <3>1, <3>4 DEF GcEvict
      <3> QED BY <3>3, <3>4
    <2> QED BY <1>1, <1>6, <2>1, RescueMaps DEF Gc, GcLoad, GcClear, slots
  <1> QED BY <1>1, <1>2, <1>3, <1>4, <1>5, <1>6, SetCacheMaps
          DEF Next, Begin, Tick, vars, slots

(* Every interleaving of requests, late calls of SetCache and the          *)
(* collector is, seen from outside, a slot store: a filled slot keeps its  *)
(* payload until it is dropped, and only a reserved slot is filled.        *)
THEOREM SlotsAreAStore == Spec => ImplementsSlotStore
  BY InitMaps, StepMaps, Invariance, PTL
  DEF Spec, ImplementsSlotStore, Store!Spec, Map

-----------------------------------------------------------------------------
(* The gate that created_at is for a slot that has not died under its      *)
(* claimer: while it is dead, a time of birth is about to be cleared, it   *)
(* has at most one claimer, and if it has one it was dead before.          *)

Alone(n) ==
  \A r, s \in Requests :
    /\ pc[r] \in {"vector", "stamp"} /\ local[r].reusable_node_id = n
    /\ pc[s] \in {"vector", "stamp"} /\ local[s].reusable_node_id = n
    => r = s

Swept(n) ==
  control[n].state = "DEAD" \/ Claimed(n) => created_at[n] = 0 \/ Retiring(n)

Window(n) == Sheltered(n) /\ Alone(n) /\ Swept(n)

LEMMA WindowInit == Init => \A m \in Slots : Window(m)
  BY DEF Init, Window, Sheltered, Alone, Swept, Claimed

(* A request that moves neither to claim a slot nor on from one, nor from  *)
(* the time of birth it is to clear, leaves the windows as they are.       *)
LEMMA WindowMoved ==
  ASSUME Threads, NEW m \in Slots, Window(m), Sheltered(m)', NEW r \in Requests,
         \A s \in Requests \ {r} : pc'[s] = pc[s] /\ local'[s] = local[s],
         pc[r] \notin {"vector", "stamp", "clear"},
         pc'[r] \notin {"vector", "stamp"},
         \/ control'[m].state = "DEAD" => control[m].state = "DEAD"
         \/ Retiring(m)',
         UNCHANGED <<created_at, gc>>
  PROVE  Window(m)'
  <1>1. /\ Claimed(m)' <=> Claimed(m)
        /\ Retiring(m) => Retiring(m)'
    BY DEF Claimed, Retiring
  <1>2. Alone(m)'
    BY DEF Window, Alone
  <1>3. Swept(m)'
    BY <1>1 DEF Window, Swept
  <1> QED BY <1>2, <1>3 DEF Window

(* A thread clears the time of birth of slot n and goes on.                *)
LEMMA WindowCleared ==
  ASSUME IInv, NEW m \in Slots, Window(m), Sheltered(m)', NEW n \in Slots,
         created_at' = [created_at EXCEPT ![n] = 0],
         Claimed(m)' <=> Claimed(m),
         m # n => (Retiring(m) => Retiring(m)'),
         Alone(m)', control' = control
  PROVE  Window(m)'
  <1>1. CASE m = n
    BY <1>1 DEF IInv, Memory, Swept, Window
  <1>2. CASE m # n
    BY <1>2 DEF IInv, Memory, Swept, Window
  <1> QED BY <1>1, <1>2

LEMMA WindowScan ==
  ASSUME IInv, NEW m \in Slots, Window(m), Sheltered(m)',
         NEW r \in Requests, Scan(r)
  PROVE  Window(m)'
  <1>1. CASE ClearBirth(r)
    <2>1. PICK n \in Slots : n = local[r].i
      BY <1>1 DEF ClearBirth, IInv, Threads, Equipped
    <2>2. /\ \A s \in Requests \ {r} : pc'[s] = pc[s] /\ local'[s] = local[s]
          /\ pc[r] = "clear" /\ pc'[r] \in {"decide", "scan"}
          /\ UNCHANGED <<control, gc>>
      BY <1>1 DEF ClearBirth, NextSlot, Goto, IInv, Threads
    <2>3. /\ Claimed(m)' <=> Claimed(m)
          /\ m # n => (Retiring(m) => Retiring(m)')
      BY <2>1, <2>2 DEF Claimed, Retiring
    <2>4. Alone(m)'
      BY <2>2 DEF Window, Alone
    <2>5. created_at' = [created_at EXCEPT ![n] = 0]
      BY <1>1, <2>1 DEF ClearBirth
    <2> QED BY <2>2, <2>3, <2>4, <2>5, WindowCleared
  <1>2. CASE Expire(r) /\ control[local[r].i] = local[r].best_ctrl
    <2>1. PICK n \in Slots : n = local[r].i
      BY <1>2 DEF Expire, IInv, Threads, Equipped
    <2>2. /\ \A s \in Requests \ {r} : pc'[s] = pc[s] /\ local'[s] = local[s]
          /\ pc[r] = "expire" /\ pc'[r] = "clear"
          /\ UNCHANGED <<created_at, gc>>
      BY <1>2 DEF Expire, Goto, IInv, Threads
    <2>3. local'[r].i = n
      BY <1>2, <2>1, ReusableType DEF Expire, IInv, Threads
    <2>4. m # n => control'[m] = control[m]
      BY <1>2, <2>1 DEF Expire, IInv, Memory
    <2>5. Retiring(n)'
      BY <2>2, <2>3 DEF Retiring
    <2> QED BY <2>2, <2>4, <2>5, WindowMoved DEF IInv
  <1>3. CASE \/ LoadDead(r) \/ LoadLive(r) \/ LoadBirth(r) \/ Compare(r)
             \/ Expire(r) /\ control[local[r].i] # local[r].best_ctrl
    <2>1. /\ \A s \in Requests \ {r} : pc'[s] = pc[s] /\ local'[s] = local[s]
          /\ pc[r] \in {"scan", "birth", "expire", "score"}
          /\ pc'[r] \in {"scan", "birth", "expire", "score", "decide"}
          /\ UNCHANGED <<slots, gc>>
      BY <1>3 DEF LoadDead, LoadLive, LoadBirth, Compare, Expire, NextSlot, Goto,
                  IInv, Threads, slots
    <2> QED BY <2>1, WindowMoved DEF IInv, slots
  <1> QED BY <1>1, <1>2, <1>3 DEF Scan

LEMMA WindowDecide ==
  ASSUME IInv, NEW m \in Slots, Window(m), Sheltered(m)',
         NEW r \in Requests, Decide(r)
  PROVE  Window(m)'
  <1>1. /\ \A s \in Requests \ {r} : pc'[s] = pc[s] /\ local'[s] = local[s]
        /\ pc[r] \in {"decide", "mark"}
        /\ pc'[r] \in {"mark", "claim", "answered"}
        /\ UNCHANGED <<created_at, gc>>
    BY DEF Decide, DecideHit, MarkHot, DecidePending, DecideDead, DecideNew,
           HighTraffic, Respond, Goto, IInv, Threads, slots
  <1>2. control'[m].state = control[m].state
    <2>1. CASE MarkHot(r)
      BY <2>1 DEF MarkHot, IInv, Memory, Word
    <2>2. CASE ~MarkHot(r)
      BY <2>2 DEF Decide, DecideHit, DecidePending, DecideDead, DecideNew,
                  HighTraffic, slots
    <2> QED BY <2>1, <2>2
  <1> QED BY <1>1, <1>2, WindowMoved DEF IInv

(* A slot that is claimed was dead, so nobody else has claimed it, and it  *)
(* has a time of birth only in the window.                                 *)
LEMMA WindowClaim ==
  ASSUME IInv, NEW m \in Slots, Window(m), Sheltered(m)',
         NEW r \in Requests, Claim(r)
  PROVE  Window(m)'
  <1>1. PICK n \in Slots : n = local[r].reusable_node_id
    BY DEF Claim, IInv, Threads, Equipped
  <1>2. /\ \A s \in Requests \ {r} : pc'[s] = pc[s]
        /\ pc[r] = "claim" /\ pc'[r] = "vector" /\ control[n].state = "DEAD"
        /\ UNCHANGED <<created_at, local, gc>>
    BY <1>1 DEF Claim, Goto, IInv, Threads
  <1>3. Retiring(m) => Retiring(m)'
    BY <1>2 DEF Retiring
  <1>4. CASE m = n
    <2>1. ~Claimed(m)
      BY <1>2, <1>4 DEF Window, Sheltered
    <2>2. Alone(m)'
      BY <1>1, <1>2, <1>4, <2>1 DEF Alone, Claimed
    <2>3. Swept(m)'
      BY <1>2, <1>3, <1>4 DEF Window, Swept
    <2> QED BY <2>2, <2>3 DEF Window
  <1>5. CASE m # n
    <2>1. control'[m] = control[m]
      BY <1>1, <1>5 DEF Claim, IInv, Memory
    <2>2. Claimed(m)' <=> Claimed(m)
      BY <1>1, <1>2, <1>5 DEF Claimed
    <2>3. Alone(m)'
      BY <1>1, <1>2, <1>5 DEF Window, Alone
    <2>4. Swept(m)'
      BY <1>2, <1>3, <2>1, <2>2 DEF Window, Swept
    <2> QED BY <2>3, <2>4 DEF Window
  <1> QED BY <1>4, <1>5

(* The slot has its time of birth when it has no claimer any more.         *)
LEMMA WindowReserve ==
  ASSUME IInv, NEW m \in Slots, Window(m), Sheltered(m)',
         NEW r \in Requests, Reserve(r)
  PROVE  Window(m)'
  <1>1. CASE LoseClaim(r)
    <2>1. /\ \A s \in Requests \ {r} : pc'[s] = pc[s] /\ local'[s] = local[s]
          /\ pc[r] = "claim" /\ pc'[r] = "answered"
          /\ UNCHANGED <<slots, gc>>
      BY <1>1 DEF LoseClaim, Respond, Goto, IInv, Threads
    <2> QED BY <2>1, WindowMoved DEF IInv, slots
  <1>2. CASE CopyVector(r)
    <2>1. /\ \A s \in Requests \ {r} : pc'[s] = pc[s]
          /\ pc[r] = "vector" /\ pc'[r] = "stamp"
          /\ UNCHANGED <<control, created_at, local, gc>>
      BY <1>2 DEF CopyVector, Goto, IInv, Threads
    <2>2. (Claimed(m)' <=> Claimed(m)) /\ (Retiring(m) => Retiring(m)')
      BY <2>1 DEF Claimed, Retiring
    <2>3. Alone(m)'
      BY <2>1 DEF Window, Alone
    <2>4. Swept(m)'
      BY <2>1, <2>2 DEF Window, Swept
    <2> QED BY <2>3, <2>4 DEF Window
  <1>3. CASE Stamp(r)
    <2>1. PICK n \in Slots : n = local[r].reusable_node_id
      BY <1>3 DEF Stamp, IInv, Threads, Equipped
    <2>2. /\ \A s \in Requests \ {r} : pc'[s] = pc[s] /\ local'[s] = local[s]
          /\ pc[r] = "stamp" /\ pc'[r] = "answered"
          /\ UNCHANGED <<control, gc>>
      BY <1>3 DEF Stamp, Respond, Goto, IInv, Threads
    <2>3. /\ Claimed(m)' => Claimed(m)
          /\ Retiring(m) => Retiring(m)'
      BY <2>2 DEF Claimed, Retiring
    <2>4. Alone(m)'
      BY <2>2 DEF Window, Alone
    <2>5. CASE m = n
      <3>1. Claimed(m)
        BY <2>1, <2>2, <2>5 DEF Claimed
      <3>2. control[m].state # "DEAD" /\ ~Claimed(m)'
        BY <2>1, <2>2, <2>5, <3>1 DEF Window, Sheltered, Alone, Claimed
      <3>3. Swept(m)'
        BY <2>2, <3>2 DEF Swept
      <3> QED BY <2>4, <3>3 DEF Window
    <2>6. CASE m # n
      <3>1. created_at'[m] = created_at[m]
        BY <1>3, <2>1, <2>6 DEF Stamp, IInv, Memory
      <3>2. Swept(m)'
        BY <2>2, <2>3, <3>1 DEF Window, Swept
      <3> QED BY <2>4, <3>2 DEF Window
    <2> QED BY <2>5, <2>6
  <1> QED BY <1>1, <1>2, <1>3, WindowClaim DEF Reserve

LEMMA WindowGc ==
  ASSUME IInv, NEW m \in Slots, Window(m), Sheltered(m)', Gc
  PROVE  Window(m)'
  <1>1. UNCHANGED <<pc, local>>
    BY DEF Gc, GcLoad, GcEvict, GcClear, GcRescue
  <1>2. Alone(m)' /\ (Claimed(m)' <=> Claimed(m))
    BY <1>1 DEF Window, Alone, Claimed
  <1>3. CASE GcClear
    <2>1. PICK n \in Slots : n = gc.node
      BY <1>3 DEF GcClear, IInv, Memory, GcHolds
    <2>2. m # n => (Retiring(m) => Retiring(m)')
      BY <1>1, <2>1 DEF Retiring
    <2>3. /\ control' = control
          /\ created_at' = [created_at EXCEPT ![n] = 0]
      BY <1>3, <2>1 DEF GcClear
    <2> QED BY <1>2, <2>2, <2>3, WindowCleared
  <1>4. CASE (\E n \in Slots : GcLoad(n)) \/ GcEvict \/ GcRescue
    <2>1. created_at' = created_at /\ gc.pc # "clear"
      BY <1>4 DEF GcLoad, GcEvict, GcRescue, slots
    <2>2. Retiring(m) => Retiring(m)'
      BY <1>1, <2>1 DEF Retiring
    <2>3. ASSUME control'[m].state = "DEAD"
          PROVE  control[m].state = "DEAD" \/ Retiring(m)'
      <3>1. CASE \E n \in Slots : GcLoad(n)
        BY <2>3, <3>1 DEF GcLoad, slots
      <3>2. CASE GcEvict
        BY <2>3, <3>2 DEF GcEvict, Retiring, IInv, Memory
      <3>3. CASE GcRescue
        BY <2>3, <3>3 DEF GcRescue, IInv, Memory, Word
      <3> QED BY <1>4, <3>1, <3>2, <3>3
    <2>4. Swept(m)'
      BY <1>2, <2>1, <2>2, <2>3 DEF Window, Swept
    <2> QED BY <1>2, <2>4 DEF Window
  <1> QED BY <1>3, <1>4 DEF Gc

(* A slot keeps its window as long as it does not die under its claimer.   *)
LEMMA WindowNext ==
  ASSUME IInv, NEW m \in Slots, Window(m), Sheltered(m)', [Next]_vars
  PROVE  Window(m)'
  <1>1. ASSUME UNCHANGED <<slots, pc, local, gc>>
        PROVE  Window(m)'
    BY <1>1 DEF Window, Sheltered, Alone, Swept, Claimed, Retiring, slots
  <1>2. ASSUME NEW r \in Requests, NEW p \in Prompts, Begin(r, p)
        PROVE  Window(m)'
    <2>1. /\ \A s \in Requests \ {r} : pc'[s] = pc[s] /\ local'[s] = local[s]
          /\ pc[r] = "idle" /\ pc'[r] = "scan" /\ UNCHANGED <<slots, gc>>
      BY <1>2 DEF Begin, Goto, IInv, Threads
    <2> QED BY <2>1, WindowMoved DEF IInv, slots
  <1>3. ASSUME NEW r \in Requests, Refuse(r) \/ Finish(r) \/ SetCache(r)
        PROVE  Window(m)'
    <2>1. /\ \A s \in Requests \ {r} : pc'[s] = pc[s] /\ local'[s] = local[s]
          /\ pc[r] \in {"idle", "answered"} /\ pc'[r] \in {"idle", "answered"}
          /\ UNCHANGED <<created_at, gc>>
      BY <1>3 DEF Refuse, Finish, SetCache, Respond, Forget, Goto, IInv, Threads, slots
    <2>2. control'[m].state = "DEAD" => control[m].state = "DEAD"
      BY <1>3 DEF Refuse, Finish, SetCache, Published, IInv, Memory, slots
    <2> QED BY <2>1, <2>2, WindowMoved DEF IInv
  <1>4. CASE UNCHANGED vars
    BY <1>1, <1>4 DEF vars, slots
  <1>5. CASE Next
    BY <1>1, <1>2, <1>3, <1>5, WindowScan, WindowDecide, WindowReserve, WindowGc
    DEF Next, Tick
  <1> QED BY <1>4, <1>5

-----------------------------------------------------------------------------
(* What CheckCache answers while its threads keep to the pace of CalmSpec, *)
(* for every number of requests, slots, prompts and payloads and whatever  *)
(* the scores: BirthGate, OnePioneer, PayloadFits, PendingFits, HitFits.   *)

Paced == Punctual /\ Settled /\ Swift

InScan == {"scan", "birth", "expire", "clear", "score", "decide"}

(* A slot between its claim and its vector.                                *)
Copying(n) ==
  \E r \in Requests : pc[r] = "vector" /\ local[r].reusable_node_id = n

(* A request at label with locals l and answer a: what it compared or will *)
(* compare is no slot just claimed, the best score is that of the best     *)
(* slot's vector by now, and what it was answered fits its prompt.         *)
Scored(label, l) ==
  /\ label = "score" => ~Claimed(l.i)
  /\ label \in InScan /\ Found(l) =>
       /\ ~Claimed(l.best_node_id)
       /\ l.max_score = Score[l.prompt][vector[l.best_node_id]]

Given(label, l, a) ==
  /\ a.node_id \in Slots => a.kind \in {"MISS", "PENDING"}
  /\ label = "answered" /\ a.kind = "MISS" /\ a.node_id \in Slots =>
       vector[a.node_id] = l.prompt
  /\ label = "answered" /\ a.kind = "PENDING" /\ a.node_id \in Slots =>
       ~Claimed(a.node_id) /\ Similar(l.prompt, vector[a.node_id])
  /\ a.kind = "HIT" =>
       \E v \in Prompts : Similar(l.prompt, v) /\ Similar(a.payload, v)

Sound(label, l, a) ==
  /\ label \notin {"idle", "answered"} => l.curr_time # 0
  /\ Scored(label, l)
  /\ label = "stamp" => vector[l.reusable_node_id] = l.prompt
  /\ label \notin {"mark", "answered"} => a.kind = "none"
  /\ label = "mark" => a.kind = "HIT"
  /\ Given(label, l, a)

(* The time of birth tells a reservation that is ready to be compared, and *)
(* the vector of a slot is that of its tenant once it is.                  *)
Tidy(n) ==
  /\ control[n].state = "PENDING" => (created_at[n] = 0 <=> Claimed(n))
  /\ control[n].state = "DEAD" /\ created_at[n] # 0 => Retiring(n)
  /\ control[n].state = "READY" =>
       ~Claimed(n) /\ Similar(entries[control[n].entry], vector[n])
  /\ control[n].state # "DEAD" /\ ~Copying(n) => vector[n] \in Prompts

CInv ==
  /\ Paced
  /\ OnePioneer
  /\ \A r \in Requests : Sound(pc[r], local[r], answer[r])
  /\ \A n \in Slots : Tidy(n)

LEMMA NoSlotIsNone == NoSlot \notin Slots
  BY SlotAssumption DEF Slots, NoSlot

LEMMA CalmInit == Init => CInv
  <1> SUFFICES ASSUME Init PROVE CInv
    OBVIOUS
  <1>1. ~Found(Idle)
    BY PromptAssumption DEF Found, Idle
  <1>2. Paced
    BY <1>1 DEF Init, Paced, Punctual, Settled, Swift, Pioneer, Herd, GcIdle, Found
  <1>3. OnePioneer
    BY DEF Init, OnePioneer, Pioneer
  <1>4. ASSUME NEW r \in Requests PROVE Sound(pc[r], local[r], answer[r])
    BY <1>1, NoSlotIsNone DEF Init, Sound, Scored, Given, NoAnswer, InScan
  <1>5. ASSUME NEW n \in Slots PROVE Tidy(n)
    BY DEF Init, Tidy, ZeroWord
  <1> QED BY <1>2, <1>3, <1>4, <1>5 DEF CInv

-----------------------------------------------------------------------------
(* Steps that leave the slots alone.                                       *)

(* A request moves that neither has a slot to stamp or to clear nor gets   *)
(* one, and that is given no slot of its own.                              *)
LEMMA Quiet ==
  ASSUME Threads, CInv, Paced', NEW r \in Requests, NEW label, NEW l, NEW a,
         pc' = [pc EXCEPT ![r] = label],
         local' = [local EXCEPT ![r] = l],
         answer' = [answer EXCEPT ![r] = a],
         UNCHANGED <<slots, entries, gc>>,
         pc[r] \notin {"vector", "stamp", "clear"},
         label \notin {"vector", "stamp"},
         label = "answered" => a.kind # "MISS" \/ a.node_id \notin Slots,
         Sound(label, l, a)
  PROVE  CInv'
  <1>1. /\ \A s \in Requests \ {r} :
             pc'[s] = pc[s] /\ local'[s] = local[s] /\ answer'[s] = answer[s]
        /\ pc'[r] = label /\ local'[r] = l /\ answer'[r] = a
    BY DEF Threads
  <1>2. \A n : /\ Claimed(n)' <=> Claimed(n)
               /\ Copying(n)' <=> Copying(n)
               /\ Retiring(n) => Retiring(n)'
    BY <1>1 DEF Claimed, Copying, Retiring
  <1>3. OnePioneer'
    BY <1>1 DEF CInv, OnePioneer, Pioneer
  <1>4. ASSUME NEW s \in Requests PROVE Sound(pc[s], local[s], answer[s])'
    <2>1. Sound(pc'[s], local'[s], answer'[s])
      BY <1>1 DEF CInv
    <2> QED BY <1>2, <2>1 DEF Sound, Scored, Given, slots
  <1>5. ASSUME NEW n \in Slots PROVE Tidy(n)'
    BY <1>2 DEF CInv, Tidy, slots
  <1> QED BY <1>3, <1>4, <1>5 DEF CInv

LEMMA QuietSlot ==
  ASSUME Threads, CInv, Paced', NEW r \in Requests, NEW l \in Locals,
         l.curr_time # 0, answer[r].kind = "none",
         Found(l) => /\ ~Claimed(l.best_node_id)
                     /\ l.max_score = Score[l.prompt][vector[l.best_node_id]],
         pc[r] \notin {"vector", "stamp", "clear"},
         NextSlot(r, l), UNCHANGED <<slots, entries, gc, answer>>
  PROVE  CInv'
  <1> DEFINE next == [l EXCEPT !.i = @ + 1, !.best_ctrl = ZeroWord]
             label == IF l.i + 1 = L0_MAX_SLOTS THEN "decide" ELSE "scan"
  <1>1. /\ next.prompt = l.prompt /\ next.curr_time = l.curr_time
        /\ next.best_node_id = l.best_node_id /\ next.max_score = l.max_score
    BY DEF Locals
  <1>2. /\ local' = [local EXCEPT ![r] = next]
        /\ pc' = [pc EXCEPT ![r] = label]
        /\ answer' = [answer EXCEPT ![r] = answer[r]]
    BY DEF NextSlot, Goto, Threads
  <1>3. Sound(label, next, answer[r])
    <2>1. answer[r].node_id \notin Slots
      BY DEF CInv, Sound, Given
    <2> QED BY <1>1, <2>1 DEF Sound, Scored, Given, Found, InScan
  <1>4. label \in {"decide", "scan"}
    OBVIOUS
  <1> HIDE DEF next, label
  <1> QED BY <1>2, <1>3, <1>4, Quiet

(* Respond with no slot of one's own.                                      *)
LEMMA QuietAnswer ==
  ASSUME Threads, CInv, Paced', NEW r \in Requests,
         NEW kind \in {"PENDING", "MISS", "ERROR"}, NEW n \in Slots \cup {NoSlot},
         kind # "PENDING" => n \notin Slots,
         kind = "PENDING" =>
           n \in Slots /\ ~Claimed(n) /\ Similar(local[r].prompt, vector[n]),
         pc[r] \notin {"vector", "stamp", "clear"},
         Respond(r, kind, n, NoPrompt), UNCHANGED <<slots, entries, gc>>
  PROVE  CInv'
  <1> DEFINE l == IF n = NoSlot THEN Idle
                  ELSE [Idle EXCEPT !.prompt = local[r].prompt]
             a == [kind |-> kind, node_id |-> n, payload |-> NoPrompt]
  <1>1. n \in Slots => l.prompt = local[r].prompt
    BY SlotAssumption DEF Slots, NoSlot, Idle
  <1>2. a.kind = kind /\ a.node_id = n
    OBVIOUS
  <1>3. /\ pc' = [pc EXCEPT ![r] = "answered"]
        /\ local' = [local EXCEPT ![r] = l]
        /\ answer' = [answer EXCEPT ![r] = a]
    BY DEF Respond, Goto
  <1> HIDE DEF l, a
  <1>4. Sound("answered", l, a)
    BY <1>1, <1>2 DEF Sound, Scored, Given, InScan
  <1> QED BY <1>2, <1>3, <1>4, Quiet

LEMMA CalmBegin ==
  ASSUME IInv, CInv, Paced', NEW r \in Requests, NEW p \in Prompts, Begin(r, p)
  PROVE  CInv'
  <1>1. Fresh(p).curr_time # 0 /\ ~Found(Fresh(p))
    BY PromptAssumption DEF Fresh, Found, IInv, Memory
  <1>2. /\ pc' = [pc EXCEPT ![r] = "scan"]
        /\ local' = [local EXCEPT ![r] = Fresh(p)]
        /\ answer' = [answer EXCEPT ![r] = answer[r]]
        /\ UNCHANGED <<slots, entries, gc>>
        /\ pc[r] = "idle"
    BY DEF Begin, Goto, IInv, Threads
  <1>3. answer[r].kind = "none" /\ answer[r].node_id \notin Slots
    BY <1>2 DEF CInv, Sound, Given
  <1>4. Sound("scan", Fresh(p), answer[r])
    BY <1>1, <1>3 DEF Sound, Scored, Given
  <1> QED BY <1>2, <1>4, Quiet DEF IInv

LEMMA CalmFinish ==
  ASSUME IInv, CInv, Paced', NEW r \in Requests, Finish(r)
  PROVE  CInv'
  <1>1. /\ pc' = [pc EXCEPT ![r] = "idle"]
        /\ local' = [local EXCEPT ![r] = Idle]
        /\ answer' = [answer EXCEPT ![r] = NoAnswer]
        /\ UNCHANGED <<slots, entries, gc>>
        /\ pc[r] = "answered"
    BY DEF Finish, Forget, Goto
  <1>2. Sound("idle", Idle, NoAnswer)
    BY NoSlotIsNone DEF Sound, Scored, Given, NoAnswer, InScan
  <1> QED BY <1>1, <1>2, Quiet DEF IInv

-----------------------------------------------------------------------------
(* The scan.                                                               *)

(* A slot that a scan looks at, or holds for the best, is not dead; if it  *)
(* is published, or reserved and stamped, nobody is about to fill it in.   *)
LEMMA Known ==
  ASSUME CInv, NEW n \in Slots, control[n].state # "DEAD",
         control[n].state = "READY" \/ created_at[n] # 0, control[n] \in Word
  PROVE  ~Claimed(n)
  BY DEF CInv, Tidy, Word

LEMMA CalmQuietScan ==
  ASSUME IInv, CInv, Paced', NEW r \in Requests,
         \/ LoadDead(r) \/ LoadLive(r) \/ LoadBirth(r) \/ Compare(r)
         \/ Expire(r) /\ control[local[r].i] # local[r].best_ctrl
  PROVE  CInv'
  <1> DEFINE l == local[r]
  <1>1. /\ l \in Locals /\ l.i \in Slots /\ answer[r].kind = "none"
        /\ l.curr_time # 0 /\ answer[r] \in Answers
        /\ pc[r] \in {"scan", "birth", "expire", "score"}
        /\ control[l.i] \in Word
        /\ Sound(pc[r], l, answer[r])
        /\ UNCHANGED <<slots, entries, gc, answer>>
    BY DEF LoadDead, LoadLive, LoadBirth, Compare, Expire, IInv, Memory, Threads,
           Equipped, CInv, Sound, slots
  <1>2. Found(l) => /\ ~Claimed(l.best_node_id)
                    /\ l.max_score = Score[l.prompt][vector[l.best_node_id]]
    BY <1>1 DEF Sound, Scored, InScan
  <1>3. /\ Reusable(l) \in Locals /\ Reusable(l).prompt = l.prompt
        /\ Reusable(l).curr_time = l.curr_time
        /\ Reusable(l).best_node_id = l.best_node_id
        /\ Reusable(l).max_score = l.max_score
    BY <1>1 DEF Reusable, Locals
  <1>4. CASE LoadDead(r)
    <2> DEFINE m == Reusable(l)
    <2>1. NextSlot(r, m) /\ Found(m) <=> Found(l)
      BY <1>3, <1>4 DEF LoadDead, Found
    <2>2. /\ m \in Locals /\ m.curr_time # 0
          /\ Found(m) => /\ ~Claimed(m.best_node_id)
                         /\ m.max_score = Score[m.prompt][vector[m.best_node_id]]
      BY <1>1, <1>2, <1>3 DEF Found
    <2>3. NextSlot(r, m)
      BY <1>4 DEF LoadDead
    <2> HIDE DEF m
    <2> QED BY <1>1, <2>2, <2>3, QuietSlot DEF IInv
  <1>5. CASE LoadLive(r)
    <2> DEFINE word == control[l.i]
               m == [l EXCEPT !.best_ctrl = word]
               label == IF word.state = "PENDING" THEN "birth" ELSE "score"
    <2>1. /\ m.prompt = l.prompt /\ m.curr_time = l.curr_time /\ m.i = l.i
          /\ m.best_node_id = l.best_node_id /\ m.max_score = l.max_score
      BY <1>1 DEF Locals
    <2>2. label = "score" => ~Claimed(l.i)
      BY <1>1, <1>5, Known DEF LoadLive, Word
    <2>3. /\ pc' = [pc EXCEPT ![r] = label]
          /\ local' = [local EXCEPT ![r] = m]
          /\ answer' = [answer EXCEPT ![r] = answer[r]]
      BY <1>5 DEF LoadLive, Goto, IInv, Threads
    <2>4. Sound(label, m, answer[r])
      BY <1>1, <1>2, <2>1, <2>2 DEF Sound, Scored, Given, Found
    <2>5. label \in {"birth", "score"}
      OBVIOUS
    <2> HIDE DEF m, label
    <2> QED BY <1>1, <2>3, <2>4, <2>5, Quiet DEF IInv
  <1>6. CASE LoadBirth(r)
    <2>1. CASE created_at[l.i] = 0
      BY <1>1, <1>2, <1>6, <2>1, QuietSlot DEF LoadBirth, IInv
    <2>2. CASE created_at[l.i] # 0
      <3> DEFINE label == IF Age(l.curr_time, created_at[l.i]) > PENDING_LIFESPAN
                          THEN "expire" ELSE "score"
      <3>1. /\ pc' = [pc EXCEPT ![r] = label]
            /\ local' = [local EXCEPT ![r] = l]
            /\ answer' = [answer EXCEPT ![r] = answer[r]]
        BY <1>6, <2>2 DEF LoadBirth, Goto, IInv, Threads
      <3>2. control[l.i].state # "DEAD"
        BY <1>6 DEF LoadBirth, CInv, Paced, Settled
      <3>3. ~Claimed(l.i)
        BY <1>1, <2>2, <3>2, Known
      <3>4. Sound(label, l, answer[r])
        BY <1>1, <1>2, <3>3 DEF Sound, Scored, Given
      <3>5. label \in {"expire", "score"}
        OBVIOUS
      <3> HIDE DEF label
      <3> QED BY <1>1, <3>1, <3>4, <3>5, Quiet DEF IInv
    <2> QED BY <2>1, <2>2
  <1>7. CASE Compare(r)
    <2> DEFINE curr_score == Score[l.prompt][vector[l.i]]
               found == [l EXCEPT !.max_score = curr_score, !.best_node_id = l.i]
               m == IF curr_score > l.max_score THEN found ELSE l
    <2>1. curr_score \in Int
      <3>1. l.prompt \in Prompts /\ vector[l.i] \in Prompts \cup {NoPrompt}
        BY <1>1, <1>7 DEF Compare, IInv, Memory, Threads, Equipped
      <3> QED BY <3>1, PromptAssumption
    <2>2. /\ found \in Locals /\ found.prompt = l.prompt
          /\ found.curr_time = l.curr_time
          /\ found.best_node_id = l.i /\ found.max_score = curr_score
      BY <1>1, <2>1 DEF Locals
    <2>3. ~Claimed(l.i)
      BY <1>1, <1>7 DEF Compare, Sound, Scored
    <2> HIDE DEF found
    <2>4. /\ m \in Locals /\ m.curr_time # 0
          /\ Found(m) => /\ ~Claimed(m.best_node_id)
                         /\ m.max_score = Score[m.prompt][vector[m.best_node_id]]
      BY <1>1, <1>2, <2>2, <2>3
    <2>5. NextSlot(r, m)
      BY <1>7 DEF Compare, found
    <2> HIDE DEF m
    <2> QED BY <1>1, <2>4, <2>5, QuietSlot DEF IInv
  <1>8. CASE Expire(r) /\ control[l.i] # l.best_ctrl
    BY <1>1, <1>2, <1>8, QuietSlot DEF Expire, IInv
  <1> QED BY <1>4, <1>5, <1>6, <1>7, <1>8

(* Who expires a slot goes on to clear its time of birth; nobody else has  *)
(* anything to do with a slot that dies.                                   *)
LEMMA CalmExpire ==
  ASSUME IInv, CInv, Paced', NEW r \in Requests,
         Expire(r), control[local[r].i] = local[r].best_ctrl
  PROVE  CInv'
  <1> DEFINE l == local[r]
             m == Reusable(l)
  <1>1. /\ l \in Locals /\ l.i \in Slots /\ answer[r].kind = "none"
        /\ l.curr_time # 0 /\ pc[r] = "expire"
        /\ Sound(pc[r], l, answer[r])
        /\ l.best_ctrl \in Word
    BY DEF Expire, IInv, Memory, Threads, Equipped, CInv, Sound, Locals
  <1>2. /\ m.prompt = l.prompt /\ m.curr_time = l.curr_time /\ m.i = l.i
        /\ m.best_node_id = l.best_node_id /\ m.max_score = l.max_score
    BY <1>1 DEF Reusable, Locals
  <1>3. /\ \A s \in Requests \ {r} : pc'[s] = pc[s] /\ local'[s] = local[s]
        /\ pc'[r] = "clear" /\ local'[r] = m
        /\ UNCHANGED <<created_at, vector, entries, answer, gc>>
    BY DEF Expire, Goto, IInv, Threads
  <1>4. /\ \A n \in Slots \ {l.i} : control'[n] = control[n]
        /\ control'[l.i].state = "DEAD"
    BY <1>1 DEF Expire, Retired, Word, IInv, Memory
  <1> HIDE DEF m
  <1>5. \A n : /\ Claimed(n)' <=> Claimed(n)
               /\ Copying(n)' <=> Copying(n)
               /\ Retiring(n) => Retiring(n)'
               /\ n = l.i => Retiring(n)'
    BY <1>1, <1>2, <1>3 DEF Claimed, Copying, Retiring
  <1>6. OnePioneer'
    BY <1>1, <1>3 DEF CInv, OnePioneer, Pioneer
  <1>7. ASSUME NEW s \in Requests PROVE Sound(pc[s], local[s], answer[s])'
    <2>1. CASE s = r
      BY <1>1, <1>2, <1>3, <1>5, <2>1
      DEF Sound, Scored, Given, Found, InScan
    <2>2. CASE s # r
      <3>1. Sound(pc'[s], local'[s], answer'[s])
        BY <1>3, <2>2 DEF CInv
      <3> QED BY <1>3, <1>5, <3>1 DEF Sound, Scored, Given
    <2> QED BY <2>1, <2>2
  <1>8. ASSUME NEW n \in Slots PROVE Tidy(n)'
    <2>1. CASE n = l.i
      BY <1>4, <1>5, <2>1 DEF Tidy
    <2>2. CASE n # l.i
      <3>1. control'[n] = control[n] /\ Tidy(n)
        BY <1>4, <2>2 DEF CInv
      <3> QED BY <1>3, <1>5, <3>1 DEF Tidy
    <2> QED BY <2>1, <2>2
  <1> QED BY <1>6, <1>7, <1>8 DEF CInv

LEMMA CalmClear ==
  ASSUME IInv, CInv, Paced', NEW r \in Requests, ClearBirth(r)
  PROVE  CInv'
  <1> DEFINE l == local[r]
             m == [l EXCEPT !.i = @ + 1, !.best_ctrl = ZeroWord]
             label == IF l.i + 1 = L0_MAX_SLOTS THEN "decide" ELSE "scan"
  <1>1. /\ l \in Locals /\ l.i \in Slots /\ pc[r] = "clear"
        /\ Sound(pc[r], l, answer[r])
        /\ control[l.i].state # "PENDING"
    BY DEF ClearBirth, IInv, Threads, Equipped, CInv, Paced, Swift
  <1>2. /\ m.prompt = l.prompt /\ m.curr_time = l.curr_time
        /\ m.best_node_id = l.best_node_id /\ m.max_score = l.max_score
    BY <1>1 DEF Locals
  <1>3. label \in {"decide", "scan"}
    OBVIOUS
  <1>4. /\ \A s \in Requests \ {r} : pc'[s] = pc[s] /\ local'[s] = local[s]
        /\ pc'[r] = label /\ local'[r] = m
        /\ UNCHANGED <<control, vector, entries, answer, gc>>
    BY DEF ClearBirth, NextSlot, Goto, IInv, Threads
  <1>5. /\ \A n \in Slots \ {l.i} : created_at'[n] = created_at[n]
        /\ created_at'[l.i] = 0
    BY <1>1 DEF ClearBirth, IInv, Memory
  <1> HIDE DEF m, label
  <1>6. \A n : /\ Claimed(n)' <=> Claimed(n)
               /\ Copying(n)' <=> Copying(n)
               /\ n # l.i /\ Retiring(n) => Retiring(n)'
    BY <1>1, <1>3, <1>4 DEF Claimed, Copying, Retiring
  <1>7. OnePioneer'
    BY <1>1, <1>3, <1>4 DEF CInv, OnePioneer, Pioneer
  <1>8. ASSUME NEW s \in Requests PROVE Sound(pc[s], local[s], answer[s])'
    <2>1. CASE s = r
      BY <1>1, <1>2, <1>3, <1>4, <1>6, <2>1
      DEF Sound, Scored, Given, Found, InScan
    <2>2. CASE s # r
      <3>1. Sound(pc'[s], local'[s], answer'[s])
        BY <1>4, <2>2 DEF CInv
      <3> QED BY <1>4, <1>6, <3>1 DEF Sound, Scored, Given
    <2> QED BY <2>1, <2>2
  <1>9. ASSUME NEW n \in Slots PROVE Tidy(n)'
    <2>1. Tidy(n)
      BY DEF CInv
    <2>2. CASE n = l.i
      BY <1>1, <1>4, <1>5, <1>6, <2>1, <2>2 DEF Tidy
    <2>3. CASE n # l.i
      BY <1>4, <1>5, <1>6, <2>1, <2>3 DEF Tidy
    <2> QED BY <2>2, <2>3
  <1> QED BY <1>7, <1>8, <1>9 DEF CInv

-----------------------------------------------------------------------------
(* The decision.                                                           *)

LEMMA CalmQuietDecide ==
  ASSUME IInv, CInv, Paced', NEW r \in Requests,
         \/ DecideHit(r) \/ DecidePending(r) \/ DecideDead(r) \/ DecideNew(r)
         \/ HighTraffic(r)
  PROVE  CInv'
  <1> DEFINE l == local[r]
             n == l.best_node_id
  <1>1. /\ l \in Locals /\ l.curr_time # 0 /\ pc[r] = "decide"
        /\ l.prompt \in Prompts
        /\ answer[r].kind = "none" /\ answer[r] \in Answers
        /\ answer[r].node_id \notin Slots
        /\ UNCHANGED <<slots, entries, gc>>
    BY DEF DecideHit, DecidePending, DecideDead, DecideNew, HighTraffic, IInv,
           Threads, Equipped, CInv, Sound, Given
  <1>2. Found(l) => /\ n \in Slots /\ ~Claimed(n)
                    /\ Similar(l.prompt, vector[n])
    <2>1. Found(l) => ~Claimed(n) /\ l.max_score = Score[l.prompt][vector[n]]
      BY <1>1 DEF CInv, Sound, Scored, InScan
    <2> QED BY <2>1, FoundSlot DEF Found, Similar, IInv
  <1>3. CASE DecideHit(r)
    <2> DEFINE word == control[n]
               a == [kind |-> "HIT", node_id |-> NoSlot,
                     payload |-> entries[word.entry]]
               hit == [l EXCEPT !.best_ctrl = word]
    <2>1. n \in Slots /\ word.state = "READY"
      BY <1>2, <1>3 DEF DecideHit
    <2>2. /\ Similar(a.payload, vector[n]) /\ vector[n] \in Prompts
      BY <2>1 DEF CInv, Tidy, Claimed, Copying
    <2>3. /\ hit.prompt = l.prompt /\ hit.curr_time = l.curr_time
          /\ a.kind = "HIT" /\ a.node_id \notin Slots
      BY <1>1, NoSlotIsNone DEF Locals
    <2>4. Found(l)
      BY <1>3 DEF DecideHit
    <2>5. /\ pc' = [pc EXCEPT ![r] = "mark"]
          /\ local' = [local EXCEPT ![r] = hit]
          /\ answer' = [answer EXCEPT ![r] = a]
      BY <1>3 DEF DecideHit, Goto
    <2> HIDE DEF hit, a
    <2>6. Sound("mark", hit, a)
      BY <1>1, <1>2, <2>2, <2>3, <2>4 DEF Sound, Scored, Given, InScan
    <2> QED BY <1>1, <2>5, <2>6, Quiet DEF IInv
  <1>4. CASE DecidePending(r)
    <2>1. /\ n \in Slots /\ ~Claimed(n) /\ Similar(l.prompt, vector[n])
          /\ Respond(r, "PENDING", n, NoPrompt)
      BY <1>2, <1>4 DEF DecidePending
    <2> QED BY <1>1, <2>1, QuietAnswer DEF IInv
  <1>5. CASE DecideDead(r)
    <2>1. control[n].state = "DEAD" /\ Found(l)
      BY <1>5 DEF DecideDead
    <2>2. control[n].state # "DEAD"
      BY <1>1, <2>1 DEF CInv, Paced, Settled
    <2> QED BY <2>1, <2>2
  <1>6. CASE DecideNew(r)
    <2>1. /\ pc' = [pc EXCEPT ![r] = "claim"]
          /\ local' = [local EXCEPT ![r] = l]
          /\ answer' = [answer EXCEPT ![r] = answer[r]]
      BY <1>6 DEF DecideNew, Goto, IInv, Threads
    <2>2. Sound("claim", l, answer[r])
      BY <1>1 DEF Sound, Scored, Given, InScan
    <2> QED BY <1>1, <2>1, <2>2, Quiet DEF IInv
  <1>7. CASE HighTraffic(r)
    <2>1. Respond(r, "ERROR", NoSlot, NoPrompt)
      BY <1>7 DEF HighTraffic
    <2> QED BY <1>1, <2>1, NoSlotIsNone, QuietAnswer DEF IInv
  <1> QED BY <1>3, <1>4, <1>5, <1>6, <1>7

(* A word is set to another of the same state and payload.                 *)
LEMMA CalmMark ==
  ASSUME IInv, CInv, Paced', NEW r \in Requests, MarkHot(r)
  PROVE  CInv'
  <1> DEFINE l == local[r]
             m == [Idle EXCEPT !.prompt = l.prompt]
  <1>1. /\ pc[r] = "mark" /\ Sound(pc[r], l, answer[r])
    BY DEF MarkHot, CInv
  <1>2. /\ \A s \in Requests \ {r} : pc'[s] = pc[s] /\ local'[s] = local[s]
        /\ pc'[r] = "answered" /\ local'[r] = m
        /\ UNCHANGED <<created_at, vector, entries, answer, gc>>
    BY DEF MarkHot, Goto, IInv, Threads
  <1>3. m.prompt = l.prompt
    BY DEF Idle
  <1>4. \A n \in Slots : /\ control'[n].state = control[n].state
                         /\ control'[n].entry = control[n].entry
    BY DEF MarkHot, IInv, Memory, Word
  <1> HIDE DEF m
  <1>5. \A n : /\ Claimed(n)' <=> Claimed(n)
               /\ Copying(n)' <=> Copying(n)
               /\ Retiring(n) => Retiring(n)'
    BY <1>1, <1>2 DEF Claimed, Copying, Retiring
  <1>6. answer[r].kind = "HIT"
    BY <1>1 DEF Sound
  <1>7. OnePioneer'
    BY <1>1, <1>2, <1>6 DEF CInv, OnePioneer, Pioneer
  <1>8. ASSUME NEW s \in Requests PROVE Sound(pc[s], local[s], answer[s])'
    <2>1. CASE s = r
      BY <1>1, <1>2, <1>3, <1>6, <2>1 DEF Sound, Scored, Given, InScan
    <2>2. CASE s # r
      <3>1. Sound(pc'[s], local'[s], answer'[s])
        BY <1>2, <2>2 DEF CInv
      <3> QED BY <1>2, <1>5, <3>1 DEF Sound, Scored, Given
    <2> QED BY <2>1, <2>2
  <1>9. ASSUME NEW n \in Slots PROVE Tidy(n)'
    <2>1. Tidy(n)
      BY DEF CInv
    <2> QED BY <1>2, <1>4, <1>5, <2>1 DEF Tidy
  <1> QED BY <1>7, <1>8, <1>9 DEF CInv

-----------------------------------------------------------------------------
(* The claim.                                                              *)

(* A dead slot is nobody's, neither to fill nor to compare nor to wait     *)
(* for, and if nobody is about to clear it it has no time of birth.        *)
LEMMA DeadIsFree ==
  ASSUME IInv, CInv, NEW n \in Slots, control[n].state = "DEAD"
  PROVE  /\ ~Claimed(n)
         /\ \A r \in Requests :
              /\ ~Pioneer(r, n) /\ ~Herd(r, n)
              /\ pc[r] = "score" => local[r].i # n
              /\ pc[r] \in InScan /\ Found(local[r]) => local[r].best_node_id # n
  <1>1. \A r \in Requests : ~Pioneer(r, n) /\ ~Herd(r, n)
    BY DEF CInv, Paced, Punctual
  <1>2. ~Claimed(n)
    BY <1>1 DEF Claimed, Pioneer
  <1>3. \A r \in Requests :
          /\ pc[r] = "score" => local[r].i # n
          /\ pc[r] \in InScan /\ Found(local[r]) => local[r].best_node_id # n
    BY DEF CInv, Paced, Settled, InScan
  <1> QED BY <1>1, <1>2, <1>3

LEMMA CalmClaim ==
  ASSUME IInv, CInv, Paced', NEW r \in Requests, Claim(r)
  PROVE  CInv'
  <1>1. PICK n \in Slots : n = local[r].reusable_node_id
    BY DEF Claim, IInv, Threads, Equipped
  <1>2. /\ pc[r] = "claim" /\ control[n].state = "DEAD"
        /\ UNCHANGED <<created_at, vector, entries, local, answer, gc>>
        /\ Sound(pc[r], local[r], answer[r])
    BY <1>1 DEF Claim, CInv
  <1>3. /\ \A s \in Requests \ {r} : pc'[s] = pc[s]
        /\ pc'[r] = "vector"
    BY DEF Claim, Goto, IInv, Threads
  <1>4. /\ \A k \in Slots \ {n} : control'[k] = control[k]
        /\ control'[n].state = "PENDING"
    BY <1>1 DEF Claim, Reserved, IInv, Memory
  <1>5. /\ ~Claimed(n)
        /\ \A s \in Requests :
             /\ ~Pioneer(s, n) /\ ~Herd(s, n)
             /\ pc[s] = "score" => local[s].i # n
             /\ pc[s] \in InScan /\ Found(local[s]) => local[s].best_node_id # n
    BY <1>2, DeadIsFree
  <1>6. /\ \A k : k # n => (Claimed(k)' <=> Claimed(k)) /\ (Copying(k)' <=> Copying(k))
        /\ \A k : Retiring(k)' <=> Retiring(k)
        /\ Claimed(n)' /\ Copying(n)'
    BY <1>1, <1>2, <1>3 DEF Claimed, Copying, Retiring
  <1>7. created_at[n] = 0
    <2>1. ~Retiring(n)'
      BY <1>4 DEF Paced, Swift, Retiring
    <2>2. ~Retiring(n)
      BY <1>6, <2>1
    <2> QED BY <1>2, <2>2 DEF CInv, Tidy
  <1>8. OnePioneer'
    <2>1. \A s \in Requests, k \in Slots :
            Pioneer(s, k)' => Pioneer(s, k) \/ (s = r /\ k = n)
      BY <1>1, <1>2, <1>3 DEF Pioneer
    <2> QED BY <1>5, <2>1 DEF CInv, OnePioneer
  <1>9. ASSUME NEW s \in Requests PROVE Sound(pc[s], local[s], answer[s])'
    <2>1. CASE s = r
      BY <1>2, <1>3, <2>1 DEF Sound, Scored, Given, InScan
    <2>2. CASE s # r
      <3>1. Sound(pc'[s], local'[s], answer'[s])
        BY <1>2, <1>3, <2>2 DEF CInv
      <3>2. /\ pc'[s] = "score" => local[s].i # n
            /\ pc'[s] \in InScan /\ Found(local[s]) => local[s].best_node_id # n
            /\ pc'[s] = "answered" /\ answer[s].kind = "PENDING" =>
                 answer[s].node_id # n
        BY <1>3, <1>5, <2>2 DEF Herd
      <3> QED BY <1>2, <1>6, <3>1, <3>2 DEF Sound, Scored, Given
    <2> QED BY <2>1, <2>2
  <1>10. ASSUME NEW k \in Slots PROVE Tidy(k)'
    <2>1. Tidy(k)
      BY DEF CInv
    <2>2. CASE k = n
      BY <1>2, <1>4, <1>6, <1>7, <2>2 DEF Tidy
    <2>3. CASE k # n
      BY <1>2, <1>4, <1>6, <2>1, <2>3 DEF Tidy
    <2> QED BY <2>2, <2>3
  <1> QED BY <1>8, <1>9, <1>10 DEF CInv

(* A slot with a claimer has no other pioneer, and nobody compares it or   *)
(* waits for it.                                                           *)
LEMMA CalmCopy ==
  ASSUME IInv, CInv, Paced', NEW r \in Requests, CopyVector(r)
  PROVE  CInv'
  <1>1. PICK n \in Slots : n = local[r].reusable_node_id
    BY DEF CopyVector, IInv, Threads, Equipped
  <1>2. /\ pc[r] = "vector" /\ local[r].prompt \in Prompts
        /\ UNCHANGED <<control, created_at, entries, local, answer, gc>>
        /\ Sound(pc[r], local[r], answer[r])
    BY DEF CopyVector, CInv, IInv, Threads, Equipped
  <1>3. /\ \A s \in Requests \ {r} : pc'[s] = pc[s]
        /\ pc'[r] = "stamp"
    BY DEF CopyVector, Goto, IInv, Threads
  <1>4. /\ \A k \in Slots \ {n} : vector'[k] = vector[k]
        /\ \A k : k # n => vector'[k] = vector[k]
        /\ vector'[n] = local[r].prompt
    BY <1>1 DEF CopyVector, IInv, Memory
  <1>5. Claimed(n) /\ Pioneer(r, n)
    BY <1>1, <1>2 DEF Claimed, Pioneer
  <1>6. \A s \in Requests \ {r} : ~Pioneer(s, n)
    BY <1>5 DEF CInv, OnePioneer
  <1>7. /\ \A k : (Claimed(k)' <=> Claimed(k)) /\ (Retiring(k)' <=> Retiring(k))
        /\ \A k : k # n => (Copying(k)' <=> Copying(k))
    BY <1>1, <1>2, <1>3 DEF Claimed, Copying, Retiring
  <1>8. OnePioneer'
    <2>1. \A s \in Requests, k \in Slots : Pioneer(s, k)' => Pioneer(s, k)
      BY <1>2, <1>3 DEF Pioneer
    <2> QED BY <2>1 DEF CInv, OnePioneer
  <1>9. ASSUME NEW s \in Requests PROVE Sound(pc[s], local[s], answer[s])'
    <2>1. CASE s = r
      BY <1>1, <1>2, <1>3, <1>4, <2>1 DEF Sound, Scored, Given, InScan
    <2>2. CASE s # r
      <3>1. Sound(pc'[s], local'[s], answer'[s])
        BY <1>2, <1>3, <2>2 DEF CInv
      <3>2. /\ pc'[s] = "stamp" => local[s].reusable_node_id # n
            /\ pc'[s] = "answered" /\ answer[s].kind = "MISS" => answer[s].node_id # n
        BY <1>3, <1>6, <2>2 DEF Pioneer
      <3> QED BY <1>2, <1>4, <1>5, <1>7, <3>1, <3>2 DEF Sound, Scored, Given
    <2> QED BY <2>1, <2>2
  <1>10. ASSUME NEW k \in Slots PROVE Tidy(k)'
    <2>1. Tidy(k)
      BY DEF CInv
    <2>2. CASE k = n
      BY <1>2, <1>4, <1>5, <1>7, <2>1, <2>2 DEF Tidy
    <2>3. CASE k # n
      BY <1>2, <1>4, <1>7, <2>1, <2>3 DEF Tidy
    <2> QED BY <2>2, <2>3
  <1> QED BY <1>8, <1>9, <1>10 DEF CInv

LEMMA CalmStamp ==
  ASSUME IInv, CInv, Paced', NEW r \in Requests, Stamp(r)
  PROVE  CInv'
  <1>1. PICK n \in Slots : n = local[r].reusable_node_id
    BY DEF Stamp, IInv, Threads, Equipped
  <1> DEFINE m == IF n = NoSlot THEN Idle
                  ELSE [Idle EXCEPT !.prompt = local[r].prompt]
             a == [kind |-> "MISS", node_id |-> n, payload |-> NoPrompt]
  <1>2. /\ pc[r] = "stamp" /\ local[r].prompt \in Prompts
        /\ UNCHANGED <<control, vector, entries, gc>>
        /\ Sound(pc[r], local[r], answer[r])
    BY DEF Stamp, CInv, IInv, Threads, Equipped
  <1>3. /\ \A s \in Requests \ {r} :
             pc'[s] = pc[s] /\ local'[s] = local[s] /\ answer'[s] = answer[s]
        /\ pc'[r] = "answered" /\ local'[r] = m /\ answer'[r] = a
    BY <1>1 DEF Stamp, Respond, Goto, IInv, Threads
  <1>4. m.prompt = local[r].prompt /\ a.kind = "MISS" /\ a.node_id = n
    BY SlotAssumption DEF Slots, NoSlot, Idle
  <1>5. /\ \A k \in Slots \ {n} : created_at'[k] = created_at[k]
        /\ created_at'[n] # 0
    BY <1>1, <1>2 DEF Stamp, IInv, Memory, Sound
  <1> HIDE DEF m, a
  <1>6. Claimed(n) /\ Pioneer(r, n) /\ ~Copying(n)
    <2>1. Claimed(n) /\ Pioneer(r, n)
      BY <1>1, <1>2 DEF Claimed, Pioneer
    <2> QED BY <1>2, <2>1 DEF CInv, OnePioneer, Pioneer, Copying
  <1>7. \A s \in Requests \ {r} : ~Pioneer(s, n)
    BY <1>6 DEF CInv, OnePioneer
  <1>8. /\ \A k : k # n => (Claimed(k)' <=> Claimed(k))
        /\ \A k : (Copying(k)' <=> Copying(k)) /\ (Retiring(k)' <=> Retiring(k))
        /\ ~Claimed(n)'
    <2>1. ~Claimed(n)'
      BY <1>3, <1>7 DEF Claimed, Pioneer
    <2> QED BY <1>1, <1>2, <1>3, <2>1 DEF Claimed, Copying, Retiring
  <1>9. OnePioneer'
    <2>1. \A s \in Requests, k \in Slots : Pioneer(s, k)' => Pioneer(s, k)
      BY <1>3, <1>4, <1>6 DEF Pioneer
    <2> QED BY <2>1 DEF CInv, OnePioneer
  <1>10. ASSUME NEW s \in Requests PROVE Sound(pc[s], local[s], answer[s])'
    <2>1. CASE s = r
      BY <1>1, <1>2, <1>3, <1>4, <2>1 DEF Sound, Scored, Given, InScan
    <2>2. CASE s # r
      <3>1. Sound(pc'[s], local'[s], answer'[s])
        BY <1>3, <2>2 DEF CInv
      <3> QED BY <1>2, <1>8, <3>1 DEF Sound, Scored, Given
    <2> QED BY <2>1, <2>2
  <1>11. ASSUME NEW k \in Slots PROVE Tidy(k)'
    <2>1. Tidy(k) /\ control[n].state # "DEAD"
      BY <1>6 DEF CInv, Paced, Punctual
    <2>2. CASE k = n
      BY <1>2, <1>5, <1>6, <1>8, <2>1, <2>2 DEF Tidy
    <2>3. CASE k # n
      BY <1>2, <1>5, <1>8, <2>1, <2>3 DEF Tidy
    <2> QED BY <2>2, <2>3
  <1> QED BY <1>9, <1>10, <1>11 DEF CInv

LEMMA CalmReserve ==
  ASSUME IInv, CInv, Paced', NEW r \in Requests, Reserve(r)
  PROVE  CInv'
  <1>1. CASE LoseClaim(r)
    <2>1. /\ Respond(r, "MISS", NoSlot, NoPrompt) /\ pc[r] = "claim"
          /\ UNCHANGED <<slots, entries, gc>> /\ NoSlot \notin Slots
      BY <1>1, SlotAssumption DEF LoseClaim, Slots, NoSlot
    <2> QED BY <2>1, QuietAnswer DEF IInv
  <1> QED BY <1>1, CalmClaim, CalmCopy, CalmStamp DEF Reserve

-----------------------------------------------------------------------------
(* Payloads and the collector.                                             *)

(* A reservation is published by its pioneer, or by one of the herd: it is *)
(* stamped by then or will be, and the payload fits its vector.            *)
LEMMA CalmSetCache ==
  ASSUME IInv, CInv, Paced', NEW r \in Requests, SetCache(r)
  PROVE  CInv'
  <1>1. PICK n \in Slots : n = answer[r].node_id
    BY DEF SetCache, IInv, Threads, Answers
  <1>2. PICK p \in Prompts : p = local[r].prompt
    BY DEF SetCache, IInv, Threads, Equipped
  <1>3. /\ pc[r] = "answered" /\ Sound(pc[r], local[r], answer[r])
        /\ UNCHANGED <<created_at, vector, gc>>
    BY DEF SetCache, CInv
  <1>4. /\ \A s \in Requests \ {r} :
             pc'[s] = pc[s] /\ local'[s] = local[s] /\ answer'[s] = answer[s]
        /\ pc'[r] = "idle" /\ local'[r] = Idle /\ answer'[r] = NoAnswer
    BY DEF SetCache, Forget, Goto, IInv, Threads
  <1>5. /\ \A e \in 1 .. Len(entries) : entries'[e] = entries[e]
        /\ entries'[Len(entries) + 1] = p
    BY <1>2, AppendMaps DEF SetCache, IInv
  <1>6. /\ \A k \in Slots \ {n} : control'[k] = control[k]
        /\ \/ control'[n] = control[n]
           \/ /\ control[n].state = "PENDING"
              /\ control'[n] = Published(Len(entries) + 1)
    BY <1>1 DEF SetCache, IInv, Memory
  <1>7. \A k : /\ Claimed(k)' <=> Claimed(k)
               /\ Copying(k)' <=> Copying(k)
               /\ Retiring(k)' <=> Retiring(k)
    BY <1>3, <1>4 DEF Claimed, Copying, Retiring
  <1>8. OnePioneer'
    BY <1>4 DEF CInv, OnePioneer, Pioneer
  <1>9. ASSUME NEW s \in Requests PROVE Sound(pc[s], local[s], answer[s])'
    <2>1. CASE s = r
      BY <1>4, <2>1, NoSlotIsNone
         DEF Sound, Scored, Given, NoAnswer, InScan
    <2>2. CASE s # r
      <3>1. Sound(pc'[s], local'[s], answer'[s])
        BY <1>4, <2>2 DEF CInv
      <3> QED BY <1>3, <1>7, <3>1 DEF Sound, Scored, Given
    <2> QED BY <2>1, <2>2
  <1>10. control[n].state = "PENDING" => ~Claimed(n) /\ Similar(p, vector[n])
    <2>1. CASE answer[r].kind = "MISS"
      <3>1. vector[n] = p /\ Pioneer(r, n)
        BY <1>1, <1>2, <1>3, <2>1 DEF Sound, Given, Pioneer
      <3>2. Similar(p, p)
        BY PromptAssumption DEF Similar
      <3>3. ~Claimed(n)
        BY <1>3, <3>1 DEF CInv, OnePioneer, Claimed, Pioneer
      <3> QED BY <3>1, <3>2, <3>3
    <2>2. CASE answer[r].kind = "PENDING"
      BY <1>1, <1>2, <1>3, <2>2 DEF Sound, Given
    <2>3. answer[r].kind \in {"MISS", "PENDING"}
      BY <1>1, <1>3 DEF Sound, Given
    <2> QED BY <2>1, <2>2, <2>3
  <1>11. ASSUME NEW k \in Slots PROVE Tidy(k)'
    <2>1. Tidy(k)
      BY DEF CInv
    <2>2. CASE control'[k] = control[k]
      <3>1. control[k].state = "READY" => control[k].entry \in 1 .. Len(entries)
        BY DEF IInv, Memory, Stored
      <3> QED BY <1>3, <1>5, <1>7, <2>1, <2>2, <3>1 DEF Tidy
    <2>3. CASE control'[k] # control[k]
      <3>1. k = n /\ control[n].state = "PENDING"
            /\ control'[n] = Published(Len(entries) + 1)
        BY <1>6, <2>3
      <3> QED BY <1>3, <1>5, <1>7, <1>10, <2>1, <3>1 DEF Tidy, Published
    <2> QED BY <2>2, <2>3
  <1> QED BY <1>8, <1>9, <1>11 DEF CInv

LEMMA CalmGcLoad ==
  ASSUME IInv, CInv, Paced', NEW m \in Slots, GcLoad(m)
  PROVE  CInv'
  <1>1. /\ UNCHANGED <<slots, entries, pc, local, answer>>
        /\ gc.pc = "loop"
    BY DEF GcLoad
  <1>2. \A k : /\ Claimed(k)' <=> Claimed(k)
               /\ Copying(k)' <=> Copying(k)
               /\ Retiring(k) => Retiring(k)'
    BY <1>1 DEF Claimed, Copying, Retiring
  <1>3. OnePioneer'
    BY <1>1 DEF CInv, OnePioneer, Pioneer
  <1>4. ASSUME NEW s \in Requests PROVE Sound(pc[s], local[s], answer[s])'
    BY <1>1, <1>2 DEF CInv, Sound, Scored, Given, slots
  <1>5. ASSUME NEW k \in Slots PROVE Tidy(k)'
    BY <1>1, <1>2 DEF CInv, Tidy, slots
  <1> QED BY <1>3, <1>4, <1>5 DEF CInv

LEMMA CalmEvict ==
  ASSUME IInv, CInv, Paced', GcEvict
  PROVE  CInv'
  <1>1. PICK n \in Slots : n = gc.node
    BY DEF GcEvict, IInv, Memory, GcHolds
  <1>2. /\ UNCHANGED <<created_at, vector, entries, pc, local, answer>>
        /\ gc.pc = "evict" /\ gc'.pc = "clear" /\ gc'.node = n
    BY <1>1 DEF GcEvict, IInv, Memory
  <1>3. /\ \A k \in Slots \ {n} : control'[k] = control[k]
        /\ control'[n] = control[n] \/ control'[n].state = "DEAD"
    BY <1>1 DEF GcEvict, IInv, Memory, Retired, Word
  <1>4. \A k : /\ Claimed(k)' <=> Claimed(k)
               /\ Copying(k)' <=> Copying(k)
               /\ Retiring(k) => Retiring(k)'
               /\ k = n => Retiring(k)'
    BY <1>2 DEF Claimed, Copying, Retiring
  <1>5. OnePioneer'
    BY <1>2 DEF CInv, OnePioneer, Pioneer
  <1>6. ASSUME NEW s \in Requests PROVE Sound(pc[s], local[s], answer[s])'
    BY <1>2, <1>4 DEF CInv, Sound, Scored, Given
  <1>7. ASSUME NEW k \in Slots PROVE Tidy(k)'
    <2>1. Tidy(k)
      BY DEF CInv
    <2>2. CASE control'[k] = control[k]
      BY <1>2, <1>4, <2>1, <2>2 DEF Tidy
    <2>3. CASE control'[k] # control[k]
      BY <1>3, <1>4, <2>3 DEF Tidy
    <2> QED BY <2>2, <2>3
  <1> QED BY <1>5, <1>6, <1>7 DEF CInv

LEMMA CalmGcClear ==
  ASSUME IInv, CInv, Paced', GcClear
  PROVE  CInv'
  <1>1. PICK n \in Slots : n = gc.node
    BY DEF GcClear, IInv, Memory, GcHolds
  <1>2. /\ UNCHANGED <<control, vector, entries, pc, local, answer>>
        /\ control[n].state # "PENDING"
    BY <1>1 DEF GcClear, CInv, Paced, Swift
  <1>3. /\ \A k \in Slots \ {n} : created_at'[k] = created_at[k]
        /\ created_at'[n] = 0
    BY <1>1 DEF GcClear, IInv, Memory
  <1>4. \A k : /\ Claimed(k)' <=> Claimed(k)
               /\ Copying(k)' <=> Copying(k)
               /\ k # n /\ Retiring(k) => Retiring(k)'
    BY <1>1, <1>2 DEF GcClear, Claimed, Copying, Retiring
  <1>5. OnePioneer'
    BY <1>2 DEF CInv, OnePioneer, Pioneer
  <1>6. ASSUME NEW s \in Requests PROVE Sound(pc[s], local[s], answer[s])'
    BY <1>2, <1>4 DEF CInv, Sound, Scored, Given
  <1>7. ASSUME NEW k \in Slots PROVE Tidy(k)'
    <2>1. Tidy(k)
      BY DEF CInv
    <2>2. CASE k = n
      BY <1>2, <1>3, <1>4, <2>1, <2>2 DEF Tidy
    <2>3. CASE k # n
      BY <1>2, <1>3, <1>4, <2>1, <2>3 DEF Tidy
    <2> QED BY <2>2, <2>3
  <1> QED BY <1>5, <1>6, <1>7 DEF CInv

(* The payload that is moved is the one the slot has.                      *)
LEMMA CalmRescue ==
  ASSUME IInv, CInv, Paced', GcRescue
  PROVE  CInv'
  <1>1. PICK n \in Slots : n = gc.node
    BY DEF GcRescue, IInv, Memory, GcHolds
  <1>2. PICK p \in Prompts : p = entries[gc.seen.entry]
    BY DEF GcRescue, IInv, Memory, GcHolds
  <1>3. /\ UNCHANGED <<created_at, vector, pc, local, answer>>
        /\ gc.pc = "rescue"
    BY DEF GcRescue
  <1>4. /\ \A e \in 1 .. Len(entries) : entries'[e] = entries[e]
        /\ entries'[Len(entries) + 1] = p
    BY <1>2, AppendMaps DEF GcRescue, IInv
  <1>5. \A k \in Slots :
          \/ control'[k] = control[k]
          \/ /\ control[k] = gc.seen /\ control[k].state = "READY"
             /\ control'[k].state = "READY"
             /\ control'[k].entry = Len(entries) + 1
    <2>1. gc.seen \in Word /\ gc.seen.state = "READY"
      BY <1>3 DEF IInv, Memory, GcHolds
    <2>2. CASE control[n] = gc.seen
      <3>1. control' = [control EXCEPT ![n] = [gc.seen EXCEPT
                          !.ref = "COLD", !.entry = Len(entries) + 1]]
        BY <1>1, <2>2 DEF GcRescue, IInv, Memory
      <3> DEFINE w == [gc.seen EXCEPT !.ref = "COLD", !.entry = Len(entries) + 1]
      <3>2. w.state = "READY" /\ w.entry = Len(entries) + 1
        BY <2>1 DEF Word
      <3>3. control' = [control EXCEPT ![n] = w]
        BY <3>1
      <3> HIDE DEF w
      <3> QED BY <2>1, <2>2, <3>2, <3>3 DEF IInv, Memory
    <2>3. CASE control[n] # gc.seen
      BY <1>1, <2>3 DEF GcRescue
    <2> QED BY <2>2, <2>3
  <1>6. \A k : /\ Claimed(k)' <=> Claimed(k)
               /\ Copying(k)' <=> Copying(k)
               /\ Retiring(k) => Retiring(k)'
    BY <1>3 DEF Claimed, Copying, Retiring
  <1>7. OnePioneer'
    BY <1>3 DEF CInv, OnePioneer, Pioneer
  <1>8. ASSUME NEW s \in Requests PROVE Sound(pc[s], local[s], answer[s])'
    BY <1>3, <1>6 DEF CInv, Sound, Scored, Given
  <1>9. ASSUME NEW k \in Slots PROVE Tidy(k)'
    <2>1. Tidy(k)
      BY DEF CInv
    <2>2. CASE control'[k] = control[k]
      <3>1. control[k].state = "READY" => control[k].entry \in 1 .. Len(entries)
        BY DEF IInv, Memory, Stored
      <3> QED BY <1>3, <1>4, <1>6, <2>1, <2>2, <3>1 DEF Tidy
    <2>3. CASE control'[k] # control[k]
      BY <1>2, <1>3, <1>4, <1>5, <1>6, <2>1, <2>3 DEF Tidy
    <2> QED BY <2>2, <2>3
  <1> QED BY <1>7, <1>8, <1>9 DEF CInv

-----------------------------------------------------------------------------
LEMMA CalmStill ==
  ASSUME CInv, Paced', UNCHANGED <<slots, entries, pc, local, answer, gc>>
  PROVE  CInv'
  <1>1. \A k : /\ Claimed(k)' <=> Claimed(k)
               /\ Copying(k)' <=> Copying(k)
               /\ Retiring(k) <=> Retiring(k)'
    BY DEF Claimed, Copying, Retiring
  <1>2. OnePioneer'
    BY DEF CInv, OnePioneer, Pioneer
  <1>3. ASSUME NEW s \in Requests PROVE Sound(pc[s], local[s], answer[s])'
    BY <1>1 DEF CInv, Sound, Scored, Given, slots
  <1>4. ASSUME NEW k \in Slots PROVE Tidy(k)'
    BY <1>1 DEF CInv, Tidy, slots
  <1> QED BY <1>2, <1>3, <1>4 DEF CInv

LEMMA CalmNext ==
  IInv /\ CInv /\ [Next /\ Punctual' /\ Settled' /\ Swift']_vars => IInv' /\ CInv'
  <1> SUFFICES ASSUME IInv, CInv, [Next /\ Punctual' /\ Settled' /\ Swift']_vars
               PROVE  CInv'
    BY NextInv
  <1>1. CASE UNCHANGED vars
    <2>1. Paced'
      BY <1>1
      DEF vars, CInv, Paced, Punctual, Settled, Swift, Pioneer, Herd
    <2> QED BY <1>1, <2>1, CalmStill DEF vars, slots
  <1>2. CASE Next /\ Paced'
    <2>1. CASE Tick
      BY <1>2, <2>1, CalmStill DEF Tick
    <2>2. ASSUME NEW r \in Requests, NEW p \in Prompts, Begin(r, p)
          PROVE  CInv'
      BY <1>2, <2>2, CalmBegin
    <2>3. ASSUME NEW r \in Requests, Refuse(r)
          PROVE  CInv'
      <3>1. /\ Respond(r, "ERROR", NoSlot, NoPrompt) /\ pc[r] = "idle"
            /\ UNCHANGED <<slots, entries, gc>> /\ NoSlot \notin Slots
        BY <2>3, SlotAssumption DEF Refuse, Slots, NoSlot
      <3> QED BY <1>2, <3>1, QuietAnswer DEF IInv
    <2>4. ASSUME NEW r \in Requests, Scan(r)
          PROVE  CInv'
      BY <1>2, <2>4, CalmQuietScan, CalmExpire, CalmClear DEF Scan
    <2>5. ASSUME NEW r \in Requests, Decide(r)
          PROVE  CInv'
      BY <1>2, <2>5, CalmQuietDecide, CalmMark DEF Decide
    <2>6. CASE Gc
      BY <1>2, <2>6, CalmGcLoad, CalmEvict, CalmGcClear, CalmRescue DEF Gc
    <2> QED BY <1>2, <2>1, <2>2, <2>3, <2>4, <2>5, <2>6, CalmReserve,
               CalmSetCache, CalmFinish
            DEF Next
  <1> QED BY <1>1, <1>2 DEF Paced

LEMMA CalmInvariance == CalmSpec => [](IInv /\ CInv)
  BY InitInv, CalmInit, CalmNext, PTL DEF CalmSpec

(* While the pace is kept, which lets nobody claim a slot in the window of *)
(* GateHolds, created_at is the gate it is meant to be: a reservation has  *)
(* none exactly until its claimer has stored the vector.                   *)
THEOREM GateExact == CalmSpec => []BirthGate
  <1>1. CInv => BirthGate
    BY DEF CInv, Tidy, BirthGate
  <1> QED BY <1>1, CalmInvariance, PTL

(* However many requests race for however many slots, no slot is given to  *)
(* two pioneers.                                                           *)
THEOREM PioneersAlone == CalmSpec => []OnePioneer
  <1>1. CInv => OnePioneer
    BY DEF CInv
  <1> QED BY <1>1, CalmInvariance, PTL

(* Whoever publishes a slot, the payload in it answers a prompt similar to *)
(* its vector, ...                                                         *)
THEOREM PayloadsFit == CalmSpec => []PayloadFits
  <1>1. CInv => PayloadFits
    BY DEF CInv, Tidy, PayloadFits
  <1> QED BY <1>1, CalmInvariance, PTL

(* ... who is told to wait waits for a slot similar to its prompt, ...     *)
THEOREM PendingsFit == CalmSpec => []PendingFits
  <1>1. CInv => PendingFits
    BY DEF CInv, Sound, Given, PendingFits, Herd
  <1> QED BY <1>1, CalmInvariance, PTL

(* ... and a hit answers a prompt that shares a similar vector with the    *)
(* one that was asked.                                                     *)
THEOREM HitsFit == CalmSpec => []HitFits
  <1>1. CInv => HitFits
    BY DEF CInv, Sound, Given, HitFits
  <1> QED BY <1>1, CalmInvariance, PTL
=============================================================================
