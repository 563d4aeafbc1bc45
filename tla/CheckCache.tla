----------------------------- MODULE CheckCache -----------------------------
(***************************************************************************)
(* The slots of the L0 buffer as the gRPC workers of the vector engine see *)
(* them (engine/src/service.cc): CheckCache scans all slots for a prompt   *)
(* and answers HIT, PENDING or MISS, SetCache publishes the answer of the  *)
(* LLM, and the garbage collector evicts or rescues what is published.     *)
(*                                                                         *)
(* A slot is three pieces of memory written at different times: a control  *)
(* word, changed by compare-and-swap; created_at, the second in which it   *)
(* was reserved, or 0; and the vector of the prompt it was reserved for.   *)
(* No lock covers the three.  A step here is one access to one of them.    *)
(*                                                                         *)
(* A vector is the prompt it embeds, and Score tells how close two are.    *)
(* Length and offset of a control word together are the number of an entry *)
(* of the arena, 0 before there is one: no two entries share their place   *)
(* (Arena), so each write of a payload gets a number of its own.           *)
(***************************************************************************)
EXTENDS Integers, Sequences

CONSTANTS
  Requests,              \* gateway requests, each in a worker of its own
  L0_MAX_SLOTS,
  Prompts,
  NoPrompt,              \* the zero vector
  Score,                 \* Score[p][q]: similarity of a prompt and a vector
  SIMILARITY_THRESHOLD,
  MIN_SCORE,             \* -1.0f, what the search starts from
  PENDING_LIFESPAN,
  TIMEMOD,               \* 2^64, the modulus of uint64_t seconds
  MaxTime,               \* bound: the last second
  MaxEntries             \* bound: payloads written

ASSUME SlotAssumption == L0_MAX_SLOTS \in Nat \ {0}

ASSUME PromptAssumption ==
  /\ NoPrompt \notin Prompts
  /\ Score \in [Prompts -> [Prompts \cup {NoPrompt} -> Int]]
  /\ SIMILARITY_THRESHOLD \in Nat
  /\ MIN_SCORE \in Int /\ MIN_SCORE < 0
  /\ \A p \in Prompts : Score[p][p] >= SIMILARITY_THRESHOLD

ASSUME TimeAssumption ==
  /\ PENDING_LIFESPAN \in Nat
  /\ MaxTime \in Nat \ {0}
  /\ MaxEntries \in Nat
  /\ TIMEMOD \in Nat /\ PENDING_LIFESPAN + MaxTime < TIMEMOD

VARIABLES
  clock,      \* system_clock, in seconds
  control,    \* the control block of each slot
  created_at,
  vector,
  entries,    \* the prompts answered by the payloads in the arena, by number
  pc,         \* where each request stands
  local,      \* the locals of its CheckCache
  answer,     \* what CheckCache answered
  gc          \* the garbage collector: its place, its slot and what it loaded

slots == <<control, created_at, vector>>
vars == <<clock, control, created_at, vector, entries, pc, local, answer, gc>>

-----------------------------------------------------------------------------
Slots == 0 .. L0_MAX_SLOTS - 1
NoSlot == -1

Word == [state : {"DEAD", "PENDING", "READY"},
         ref   : {"COLD", "HOT"},
         entry : 0 .. MaxEntries]

ZeroWord == [state |-> "DEAD", ref |-> "COLD", entry |-> 0]
Reserved == [state |-> "PENDING", ref |-> "HOT", entry |-> 0]
Published(e) == [state |-> "READY", ref |-> "HOT", entry |-> e]
Retired(word) == [word EXCEPT !.state = "DEAD"]

Fresh(p) == [prompt |-> p, curr_time |-> clock, i |-> 0, best_ctrl |-> ZeroWord,
             max_score |-> MIN_SCORE, best_node_id |-> NoSlot,
             reusable_node_id |-> NoSlot]

Idle == [prompt |-> NoPrompt, curr_time |-> 0, i |-> 0, best_ctrl |-> ZeroWord,
         max_score |-> MIN_SCORE, best_node_id |-> NoSlot, reusable_node_id |-> NoSlot]

NoAnswer == [kind |-> "none", node_id |-> NoSlot, payload |-> NoPrompt]

GcIdle == [pc |-> "loop", node |-> NoSlot, seen |-> ZeroWord]

Init ==
  /\ clock = 1
  /\ control = [n \in Slots |-> ZeroWord]
  /\ created_at = [n \in Slots |-> 0]
  /\ vector = [n \in Slots |-> NoPrompt]
  /\ entries = << >>
  /\ pc = [r \in Requests |-> "idle"]
  /\ local = [r \in Requests |-> Idle]
  /\ answer = [r \in Requests |-> NoAnswer]
  /\ gc = GcIdle

Tick ==
  /\ clock < MaxTime
  /\ clock' = clock + 1
  /\ UNCHANGED <<slots, entries, pc, local, answer, gc>>

Goto(r, label) == pc' = [pc EXCEPT ![r] = label]

(* CheckCache returns to the gateway, which keeps the prompt together with *)
(* the slot, if it is told one.                                            *)
Respond(r, kind, n, payload) ==
  /\ Goto(r, "answered")
  /\ answer' = [answer EXCEPT
                  ![r] = [kind |-> kind, node_id |-> n, payload |-> payload]]
  /\ local' = [local EXCEPT ![r] =
                 IF n = NoSlot THEN Idle ELSE [Idle EXCEPT !.prompt = local[r].prompt]]

-----------------------------------------------------------------------------
(* CheckCache: the scan.                                                   *)

Begin(r, p) ==
  /\ pc[r] = "idle"
  /\ local' = [local EXCEPT ![r] = Fresh(p)]
  /\ Goto(r, "scan")
  /\ UNCHANGED <<clock, slots, entries, answer, gc>>

(* An empty prompt, or one that the embedder throws at.                    *)
Refuse(r) ==
  /\ pc[r] = "idle"
  /\ Respond(r, "ERROR", NoSlot, NoPrompt)
  /\ UNCHANGED <<clock, slots, entries, gc>>

(* On to the next slot, or to the decision after the last one.             *)
NextSlot(r, l) ==
  /\ local' = [local EXCEPT ![r] = [l EXCEPT !.i = @ + 1, !.best_ctrl = ZeroWord]]
  /\ Goto(r, IF l.i + 1 = L0_MAX_SLOTS THEN "decide" ELSE "scan")

(* The first slot found dead is the one to reuse.                          *)
Reusable(l) ==
  IF l.reusable_node_id = NoSlot THEN [l EXCEPT !.reusable_node_id = l.i] ELSE l

LoadDead(r) ==
  LET l == local[r] IN
  /\ pc[r] = "scan"
  /\ control[l.i].state = "DEAD"
  /\ NextSlot(r, Reusable(l))
  /\ UNCHANGED <<clock, slots, entries, answer, gc>>

LoadLive(r) ==
  LET word == control[local[r].i] IN
  /\ pc[r] = "scan"
  /\ word.state # "DEAD"
  /\ local' = [local EXCEPT ![r].best_ctrl = word]
  /\ Goto(r, IF word.state = "PENDING" THEN "birth" ELSE "score")
  /\ UNCHANGED <<clock, slots, entries, answer, gc>>

(* The difference is of the two operands' type, uint64_t.                  *)
Age(curr_time, birth) == (curr_time - birth) % TIMEMOD

(* A reservation with no time of birth takes part in the search.           *)
LoadBirth_NoGate(r) ==
  LET l == local[r]
      birth == created_at[l.i]
  IN
  /\ pc[r] = "birth"
  /\ Goto(r, IF birth # 0 /\ Age(l.curr_time, birth) > PENDING_LIFESPAN
             THEN "expire" ELSE "score")
  /\ UNCHANGED <<clock, slots, entries, local, answer, gc>>

(* A reservation with no time of birth is passed over, an old one expired, *)
(* and any other takes part in the search.                                 *)
LoadBirth(r) ==
  LET l == local[r]
      birth == created_at[l.i]
  IN
  /\ pc[r] = "birth"
  /\ IF birth = 0
     THEN NextSlot(r, l)
     ELSE /\ Goto(r, IF Age(l.curr_time, birth) > PENDING_LIFESPAN
                     THEN "expire" ELSE "score")
          /\ UNCHANGED local
  /\ UNCHANGED <<clock, slots, entries, answer, gc>>

Expire(r) ==
  LET l == local[r] IN
  /\ pc[r] = "expire"
  /\ IF control[l.i] = l.best_ctrl
     THEN /\ control' = [control EXCEPT ![l.i] = Retired(l.best_ctrl)]
          /\ local' = [local EXCEPT ![r] = Reusable(l)]
          /\ Goto(r, "clear")
     ELSE /\ NextSlot(r, l)
          /\ UNCHANGED control
  /\ UNCHANGED <<clock, created_at, vector, entries, answer, gc>>

(* The time of birth of an expired reservation is left in place.           *)
ClearBirth_Kept(r) ==
  /\ pc[r] = "clear"
  /\ NextSlot(r, local[r])
  /\ UNCHANGED <<clock, slots, entries, answer, gc>>

ClearBirth(r) ==
  LET l == local[r] IN
  /\ pc[r] = "clear"
  /\ created_at' = [created_at EXCEPT ![l.i] = 0]
  /\ NextSlot(r, l)
  /\ UNCHANGED <<clock, control, vector, entries, answer, gc>>

(* The last slot compared is taken for the best.                           *)
Compare_Last(r) ==
  LET l == local[r]
      curr_score == Score[l.prompt][vector[l.i]]
  IN
  /\ pc[r] = "score"
  /\ NextSlot(r, [l EXCEPT !.max_score = curr_score, !.best_node_id = l.i])
  /\ UNCHANGED <<clock, slots, entries, answer, gc>>

Compare(r) ==
  LET l == local[r]
      curr_score == Score[l.prompt][vector[l.i]]
  IN
  /\ pc[r] = "score"
  /\ NextSlot(r, IF curr_score > l.max_score
                 THEN [l EXCEPT !.max_score = curr_score, !.best_node_id = l.i]
                 ELSE l)
  /\ UNCHANGED <<clock, slots, entries, answer, gc>>

-----------------------------------------------------------------------------
(* CheckCache: the decision, from what the best slot's control word is by  *)
(* now, and not from what it was when the slot was scanned.                *)

(* The best score is not compared with the threshold.                      *)
Found_AnyScore(l) == l.best_node_id # NoSlot

Found(l) == l.max_score >= SIMILARITY_THRESHOLD

(* The payload is read from the entry that the word gives.                 *)
DecideHit(r) ==
  LET l == local[r]
      word == control[l.best_node_id]
  IN
  /\ pc[r] = "decide"
  /\ Found(l)
  /\ word.state = "READY"
  /\ answer' = [answer EXCEPT ![r] = [kind |-> "HIT", node_id |-> NoSlot,
                                      payload |-> entries[word.entry]]]
  /\ local' = [local EXCEPT ![r].best_ctrl = word]
  /\ Goto(r, "mark")
  /\ UNCHANGED <<clock, slots, entries, gc>>

MarkHot(r) ==
  LET l == local[r] IN
  /\ pc[r] = "mark"
  /\ control' = IF control[l.best_node_id] = l.best_ctrl
                THEN [control EXCEPT ![l.best_node_id].ref = "HOT"]
                ELSE control
  /\ Goto(r, "answered")
  /\ local' = [local EXCEPT ![r] = [Idle EXCEPT !.prompt = l.prompt]]
  /\ UNCHANGED <<clock, created_at, vector, entries, answer, gc>>

DecidePending(r) ==
  LET l == local[r] IN
  /\ pc[r] = "decide"
  /\ Found(l)
  /\ control[l.best_node_id].state = "PENDING"
  /\ Respond(r, "PENDING", l.best_node_id, NoPrompt)
  /\ UNCHANGED <<clock, slots, entries, gc>>

(* A best slot that has died since it was scanned is the one to reuse.     *)
DecideDead(r) ==
  LET l == local[r] IN
  /\ pc[r] = "decide"
  /\ Found(l)
  /\ control[l.best_node_id].state = "DEAD"
  /\ local' = [local EXCEPT ![r].reusable_node_id = l.best_node_id]
  /\ Goto(r, "claim")
  /\ UNCHANGED <<clock, slots, entries, answer, gc>>

DecideNew(r) ==
  /\ pc[r] = "decide"
  /\ ~Found(local[r])
  /\ local[r].reusable_node_id # NoSlot
  /\ Goto(r, "claim")
  /\ UNCHANGED <<clock, slots, entries, local, answer, gc>>

(* "High traffic" is thrown, and answered as an error.                     *)
HighTraffic(r) ==
  /\ pc[r] = "decide"
  /\ ~Found(local[r])
  /\ local[r].reusable_node_id = NoSlot
  /\ Respond(r, "ERROR", NoSlot, NoPrompt)
  /\ UNCHANGED <<clock, slots, entries, gc>>

(* A store of the reservation instead of the compare-and-swap.             *)
Claim_Store(r) ==
  /\ pc[r] = "claim"
  /\ control' = [control EXCEPT ![local[r].reusable_node_id] = Reserved]
  /\ Goto(r, "vector")
  /\ UNCHANGED <<clock, created_at, vector, entries, local, answer, gc>>

Claim(r) ==
  LET n == local[r].reusable_node_id IN
  /\ pc[r] = "claim"
  /\ control[n].state = "DEAD"
  /\ control' = [control EXCEPT ![n] = Reserved]
  /\ Goto(r, "vector")
  /\ UNCHANGED <<clock, created_at, vector, entries, local, answer, gc>>

LoseClaim(r) ==
  /\ pc[r] = "claim"
  /\ control[local[r].reusable_node_id].state # "DEAD"
  /\ Respond(r, "MISS", NoSlot, NoPrompt)
  /\ UNCHANGED <<clock, slots, entries, gc>>

(* The slot keeps the vector of its last tenant.                           *)
CopyVector_Forgotten(r) ==
  /\ pc[r] = "vector"
  /\ Goto(r, "stamp")
  /\ UNCHANGED <<clock, slots, entries, local, answer, gc>>

CopyVector(r) ==
  LET l == local[r] IN
  /\ pc[r] = "vector"
  /\ vector' = [vector EXCEPT ![l.reusable_node_id] = l.prompt]
  /\ Goto(r, "stamp")
  /\ UNCHANGED <<clock, control, created_at, entries, local, answer, gc>>

(* The first second in which the reservation may be expired is stored      *)
(* instead of the time of birth.                                           *)
Stamp_Deadline(r) ==
  LET l == local[r] IN
  /\ pc[r] = "stamp"
  /\ created_at' = [created_at EXCEPT ![l.reusable_node_id] =
                      l.curr_time + PENDING_LIFESPAN + 1]
  /\ Respond(r, "MISS", l.reusable_node_id, NoPrompt)
  /\ UNCHANGED <<clock, control, vector, entries, gc>>

Stamp(r) ==
  LET l == local[r] IN
  /\ pc[r] = "stamp"
  /\ created_at' = [created_at EXCEPT ![l.reusable_node_id] = l.curr_time]
  /\ Respond(r, "MISS", l.reusable_node_id, NoPrompt)
  /\ UNCHANGED <<clock, control, vector, entries, gc>>

-----------------------------------------------------------------------------
(* The gateway after the answer.  Who was given a slot, in a MISS or with  *)
(* PENDING, may call the LLM and then SetCache for that slot, at any time  *)
(* later, or give up: the call failed, the job was dropped, the client     *)
(* left, or the herd was served by the pioneer.                            *)

Forget(r) ==
  /\ Goto(r, "idle")
  /\ local' = [local EXCEPT ![r] = Idle]
  /\ answer' = [answer EXCEPT ![r] = NoAnswer]

(* The payload is published whatever the state of the slot.                *)
SetCache_Unchecked(r) ==
  LET n == answer[r].node_id
      e == Len(entries) + 1
  IN
  /\ pc[r] = "answered"
  /\ n # NoSlot
  /\ e <= MaxEntries
  /\ entries' = Append(entries, local[r].prompt)
  /\ control' = [control EXCEPT ![n] = Published(e)]
  /\ Forget(r)
  /\ UNCHANGED <<clock, created_at, vector, gc>>

SetCache(r) ==
  LET n == answer[r].node_id
      e == Len(entries) + 1
  IN
  /\ pc[r] = "answered"
  /\ n # NoSlot
  /\ e <= MaxEntries
  /\ entries' = Append(entries, local[r].prompt)
  /\ control' = IF control[n].state = "PENDING"
                THEN [control EXCEPT ![n] = Published(e)]
                ELSE control
  /\ Forget(r)
  /\ UNCHANGED <<clock, created_at, vector, gc>>

Finish(r) ==
  /\ pc[r] = "answered"
  /\ Forget(r)
  /\ UNCHANGED <<clock, slots, entries, gc>>

-----------------------------------------------------------------------------
(* The garbage collector at the entry of a published slot (Arena has the   *)
(* ring it walks along): a cold slot is evicted, a hot one moved and made  *)
(* cold.                                                                   *)

GcLoad(n) ==
  /\ gc.pc = "loop"
  /\ control[n].state = "READY"
  /\ gc' = [pc   |-> IF control[n].ref = "COLD" THEN "evict" ELSE "rescue",
            node |-> n, seen |-> control[n]]
  /\ UNCHANGED <<clock, slots, entries, pc, local, answer>>

GcEvict ==
  /\ gc.pc = "evict"
  /\ control' = IF control[gc.node] = gc.seen
                THEN [control EXCEPT ![gc.node] = Retired(gc.seen)]
                ELSE control
  /\ gc' = [gc EXCEPT !.pc = "clear"]
  /\ UNCHANGED <<clock, created_at, vector, entries, pc, local, answer>>

(* The time of birth of an evicted payload's slot is left in place.        *)
GcClear_Forgotten ==
  /\ gc.pc = "clear"
  /\ gc' = GcIdle
  /\ UNCHANGED <<clock, slots, entries, pc, local, answer>>

(* Whether or not the compare-and-swap succeeded.                          *)
GcClear ==
  /\ gc.pc = "clear"
  /\ created_at' = [created_at EXCEPT ![gc.node] = 0]
  /\ gc' = GcIdle
  /\ UNCHANGED <<clock, control, vector, entries, pc, local, answer>>

GcRescue ==
  LET e == Len(entries) + 1 IN
  /\ gc.pc = "rescue"
  /\ e <= MaxEntries
  /\ entries' = Append(entries, entries[gc.seen.entry])
  /\ control' = IF control[gc.node] = gc.seen
                THEN [control EXCEPT ![gc.node].ref = "COLD",
                                     ![gc.node].entry = e]
                ELSE control
  /\ gc' = GcIdle
  /\ UNCHANGED <<clock, created_at, vector, pc, local, answer>>

-----------------------------------------------------------------------------
Scan(r) ==
  \/ LoadDead(r) \/ LoadLive(r) \/ LoadBirth(r)
  \/ Expire(r) \/ ClearBirth(r) \/ Compare(r)

Decide(r) ==
  \/ DecideHit(r) \/ MarkHot(r) \/ DecidePending(r)
  \/ DecideDead(r) \/ DecideNew(r) \/ HighTraffic(r)

Reserve(r) == Claim(r) \/ LoseClaim(r) \/ CopyVector(r) \/ Stamp(r)

Gc == (\E n \in Slots : GcLoad(n)) \/ GcEvict \/ GcClear \/ GcRescue

Next ==
  \/ Tick
  \/ \E r \in Requests, p \in Prompts : Begin(r, p)
  \/ \E r \in Requests :
       Refuse(r) \/ Scan(r) \/ Decide(r) \/ Reserve(r) \/ SetCache(r) \/ Finish(r)
  \/ Gc

Spec == Init /\ [][Next]_vars

-----------------------------------------------------------------------------
TypeOK ==
  /\ clock \in 1 .. MaxTime
  /\ control \in [Slots -> Word]
  /\ created_at \in [Slots -> 0 .. MaxTime]
  /\ vector \in [Slots -> Prompts \cup {NoPrompt}]
  /\ entries \in Seq(Prompts)
  /\ pc \in [Requests -> {"idle", "scan", "birth", "expire", "clear", "score",
                          "decide", "mark", "claim", "vector", "stamp",
                          "answered"}]
  /\ local \in [Requests ->
                 [prompt : Prompts \cup {NoPrompt}, curr_time : 0 .. MaxTime,
                  i : 0 .. L0_MAX_SLOTS, best_ctrl : Word, max_score : Int,
                  best_node_id : Slots \cup {NoSlot},
                  reusable_node_id : Slots \cup {NoSlot}]]
  /\ answer \in [Requests ->
                  [kind : {"none", "HIT", "PENDING", "MISS", "ERROR"},
                   node_id : Slots \cup {NoSlot},
                   payload : Prompts \cup {NoPrompt}]]
  /\ gc \in [pc : {"loop", "evict", "clear", "rescue"},
             node : Slots \cup {NoSlot}, seen : Word]

-----------------------------------------------------------------------------
(* The slots as SlotStore sees them.                                       *)

SlotOf(n) ==
  CASE control[n].state = "DEAD"    -> [state |-> "free", value |-> NoPrompt]
    [] control[n].state = "PENDING" -> [state |-> "reserved", value |-> NoPrompt]
    [] OTHER -> [state |-> "filled", value |-> entries[control[n].entry]]

Store == INSTANCE SlotStore
           WITH Slots <- Slots, Values <- Prompts, NoValue <- NoPrompt,
                slot <- [n \in Slots |-> SlotOf(n)]

(* Whatever the interleaving, the slots implement SlotStore: a SetCache    *)
(* that comes late or twice never replaces the payload of a filled slot,   *)
(* a rescue keeps it, and a slot is filled only after it was reserved.     *)
ImplementsSlotStore == Store!Spec

-----------------------------------------------------------------------------
(***************************************************************************)
(* created_at is 0 to keep scans away from a slot whose vector is not      *)
(* there yet.  It becomes 0 some instructions after the slot died, when    *)
(* others may have claimed it already.                                     *)
(***************************************************************************)

(* A slot between its claim and its stamp.                                 *)
Claimed(n) ==
  \E r \in Requests :
    pc[r] \in {"vector", "stamp"} /\ local[r].reusable_node_id = n

(* Who retired the slot, or tried to, has yet to clear its time of birth.  *)
Retiring(n) ==
  \/ \E r \in Requests : pc[r] = "clear" /\ local[r].i = n
  \/ gc.pc = "clear" /\ gc.node = n

(* The slot is not dead while its claimer stores vector and time of birth. *)
Sheltered(n) == Claimed(n) => control[n].state # "DEAD"

-----------------------------------------------------------------------------
(***************************************************************************)
(* The three pieces of a slot agree only if the threads keep to a pace     *)
(* that the code makes likely and does not enforce.                        *)
(***************************************************************************)

Similar(p, v) == Score[p][v] >= SIMILARITY_THRESHOLD

(* Slot n is reserved by r, which has not come back to fill it or give up. *)
Pioneer(r, n) ==
  \/ pc[r] \in {"vector", "stamp"} /\ local[r].reusable_node_id = n
  \/ pc[r] = "answered" /\ answer[r].kind = "MISS" /\ answer[r].node_id = n

Herd(r, n) ==
  pc[r] = "answered" /\ answer[r].kind = "PENDING" /\ answer[r].node_id = n

(* A slot does not die while a request still counts on it: the LLM has 10  *)
(* seconds (LLMForwardTimeout), a reservation lives for 30.                *)
Punctual ==
  \A r \in Requests, n \in Slots :
    Pioneer(r, n) \/ Herd(r, n) => control[n].state # "DEAD"

(* A slot does not die between being looked at and being answered from.    *)
Settled ==
  \A r \in Requests :
    LET l == local[r] IN
    /\ pc[r] \in {"birth", "score"} => control[l.i].state # "DEAD"
    /\ pc[r] \in {"scan", "birth", "expire", "clear", "score", "decide"}
         /\ Found(l) => control[l.best_node_id].state # "DEAD"

(* A dead slot is not claimed before who retired it has cleared its birth. *)
Swift ==
  /\ \A r \in Requests :
       pc[r] = "clear" => control[local[r].i].state # "PENDING"
  /\ gc.pc = "clear" => control[gc.node].state # "PENDING"

CalmSpec == Init /\ [][Next /\ Punctual' /\ Settled' /\ Swift']_vars

(* A reservation has no time of birth exactly while its claimer is on the  *)
(* way to stamp it: scans pass over the slot as long as the vector in it   *)
(* is the last tenant's, and no reservation is left that nothing expires.  *)
BirthGate ==
  \A n \in Slots : control[n].state = "PENDING" =>
    (created_at[n] = 0 <=> Claimed(n))

(* No two requests are the pioneers of one slot.                           *)
OnePioneer ==
  \A r, s \in Requests, n \in Slots :
    Pioneer(r, n) /\ Pioneer(s, n) => r = s

(* The payload in a slot answers a prompt similar to the slot's vector,    *)
(* whoever of the pioneer and the herd published it.                       *)
PayloadFits ==
  \A n \in Slots : control[n].state = "READY" =>
    Similar(entries[control[n].entry], vector[n])

(* Who is told to wait for a slot has a prompt similar to the slot's.      *)
PendingFits ==
  \A r \in Requests, n \in Slots :
    Herd(r, n) => Similar(local[r].prompt, vector[n])

(* A HIT answers the prompt that was asked, or one that shares a similar   *)
(* vector with it ("different in wording but identical in meaning").       *)
HitFits ==
  \A r \in Requests : answer[r].kind = "HIT" =>
    \E v \in Prompts :
      Similar(local[r].prompt, v) /\ Similar(answer[r].payload, v)

(* A reservation is expired only when it is older than PENDING_LIFESPAN.   *)
LifespanHonoured ==
  [][\A n \in Slots :
       /\ control[n].state = "PENDING" /\ created_at[n] # 0
       /\ control'[n].state = "DEAD"
       => clock - created_at[n] > PENDING_LIFESPAN]_vars
=============================================================================
