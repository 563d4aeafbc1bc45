---------------------------- MODULE SearchProofs ----------------------------
(***************************************************************************)
(* No match is missed: for every number of requests, slots and prompts,    *)
(* whatever their scores, and with no assumption on the schedule; and what *)
(* a scan compares by is the sum that the scalar code computes.            *)
(***************************************************************************)
EXTENDS Search, CheckCacheProofs, Induction

-----------------------------------------------------------------------------
(* What a scan knows of a slot that was there all the while: slots behind  *)
(* it were compared, the slot it stands at will be, and slots ahead wait.  *)
(* A slot that it saw reserved is neither passed over nor expired, for its *)
(* time of birth is the one it had.                                        *)
Watched(r, n) ==
  LET l == local[r] IN
  /\ n \in Slots
  /\ Visible(r, n)
  /\ n < l.i => l.max_score >= Score[l.prompt][vector[n]]
  /\ n = l.i => pc[r] \in {"scan", "birth", "score", "decide"}
  /\ n = l.i /\ pc[r] = "birth" =>
       /\ created_at[n] \in 1 .. l.curr_time
       /\ l.curr_time - created_at[n] <= PENDING_LIFESPAN

WInv ==
  \A r \in Requests :
    /\ pc[r] = "decide" => local[r].i = L0_MAX_SLOTS
    /\ pc[r] \in Scanning => \A n \in witnessed[r] : Watched(r, n)

LEMMA WInvInit == SearchInit => IInv /\ WInv
  BY InitInv DEF SearchInit, Init, WInv, Scanning

LEMMA WInvImplies == IInv /\ WInv => NoMatchMissed
  BY SlotAssumption DEF WInv, Watched, NoMatchMissed, Scanning, Slots, IInv, Threads

-----------------------------------------------------------------------------
(* The slots that stay witnessed.                                          *)
LEMMA WitnessKept ==
  ASSUME Witness, NEW r \in Requests, pc'[r] \in Scanning, NEW n \in witnessed'[r]
  PROVE  /\ pc[r] # "idle" => n \in witnessed[r]
         /\ n \in Slots \/ n \in witnessed[r]
         /\ Visible(r, n)'
         /\ vector'[n] = vector[n] /\ created_at'[n] = created_at[n]
  BY DEF Witness

(* A request that stands still keeps what it knows.                        *)
LEMMA StillWatched ==
  ASSUME WInv, Witness, NEW r \in Requests,
         pc'[r] = pc[r], local'[r] = local[r],
         pc'[r] \in Scanning, NEW n \in witnessed'[r]
  PROVE  Watched(r, n)'
  BY WitnessKept DEF WInv, Watched, Scanning

(* The part of WInv that is about request r.                               *)
WatchedBy(r) ==
  /\ pc[r] = "decide" => local[r].i = L0_MAX_SLOTS
  /\ pc[r] \in Scanning => \A n \in witnessed[r] : Watched(r, n)

(* On to the next slot, if the one left behind was compared or is not one  *)
(* of those that were there all the while.                                 *)
LEMMA NextSlotWatched ==
  ASSUME Threads, WInv, Witness, NEW r \in Requests, NEW l \in Locals,
         pc[r] \in {"scan", "birth", "clear", "expire", "score"},
         l.prompt = local[r].prompt, l.i = local[r].i, l.i \in Slots,
         l.curr_time = local[r].curr_time,
         l.max_score >= local[r].max_score,
         l.i \in witnessed'[r] => l.max_score >= Score[l.prompt][vector[l.i]],
         Score[l.prompt] \in [Prompts \cup {NoPrompt} -> Int],
         vector \in [Slots -> Prompts \cup {NoPrompt}],
         NextSlot(r, l)
  PROVE  WatchedBy(r)'
  <1> DEFINE next == [l EXCEPT !.i = @ + 1, !.best_ctrl = ZeroWord]
  <1>1. /\ next.prompt = l.prompt /\ next.i = l.i + 1
        /\ next.curr_time = l.curr_time /\ next.max_score = l.max_score
    BY DEF Locals
  <1>2. /\ local'[r] = next
        /\ pc'[r] = IF l.i + 1 = L0_MAX_SLOTS THEN "decide" ELSE "scan"
    BY DEF NextSlot, Goto, Threads
  <1>3. ASSUME NEW n \in witnessed'[r]
        PROVE  Watched(r, n)'
    <2>1. /\ n \in witnessed[r] /\ Visible(r, n)' /\ vector'[n] = vector[n]
          /\ Watched(r, n)
      BY <1>2, WitnessKept DEF WInv, Scanning
    <2>2. n \in Slots /\ Score[l.prompt][vector[n]] \in Int
      BY <2>1 DEF Watched
    <2>3. n < next.i => next.max_score >= Score[l.prompt][vector[n]]
      <3>1. CASE n = l.i
        BY <1>1, <3>1
      <3>2. CASE n # l.i
        <4>1. n < next.i => n < l.i
          BY <1>1, <2>2, <3>2, SlotAssumption DEF Slots
        <4>2. n < l.i => local[r].max_score >= Score[l.prompt][vector[n]]
          BY <2>1 DEF Watched
        <4>3. l.max_score \in Int /\ local[r].max_score \in Int
          BY DEF Locals, Threads
        <4> QED BY <1>1, <2>2, <4>1, <4>2, <4>3
      <3> QED BY <3>1, <3>2
    <2> QED BY <1>1, <1>2, <2>1, <2>2, <2>3 DEF Watched
  <1> QED BY <1>1, <1>2, <1>3 DEF WatchedBy

LEMMA ScanWatched ==
  ASSUME Memory, Threads, WInv, Witness, NEW r \in Requests, Scan(r)
  PROVE  WatchedBy(r)'
  <1> DEFINE l == local[r]
  <1>1. /\ l \in Locals /\ l.prompt \in Prompts /\ l.i \in Slots
        /\ l.max_score \in Int /\ l.max_score >= l.max_score
        /\ Score[l.prompt] \in [Prompts \cup {NoPrompt} -> Int]
        /\ vector \in [Slots -> Prompts \cup {NoPrompt}]
    <2>1. l \in Locals /\ l.prompt \in Prompts /\ l.i \in Slots
      BY DEF Threads, Equipped, Scan, LoadDead, LoadLive, LoadBirth, Expire,
             ClearBirth, Compare
    <2>2. l.max_score \in Int
      BY <2>1 DEF Locals
    <2>3. l.max_score >= l.max_score
      BY <2>2
    <2>4. Score[l.prompt] \in [Prompts \cup {NoPrompt} -> Int]
      BY <2>1, PromptAssumption
    <2> QED BY <2>1, <2>2, <2>3, <2>4 DEF Memory
  <1>2. /\ pc[r] \in Scanning
        /\ pc'[r] \in Scanning => \A n \in witnessed'[r] :
             /\ n \in witnessed[r] /\ Watched(r, n) /\ Visible(r, n)'
             /\ vector'[n] = vector[n] /\ created_at'[n] = created_at[n]
    <2>1. pc[r] \in Scanning
      BY DEF Scan, LoadDead, LoadLive, LoadBirth, Expire, ClearBirth, Compare,
             Scanning
    <2> QED BY <2>1, WitnessKept DEF WInv, Scanning
  <1>3. CASE LoadDead(r)
    <2>1. l.i \notin witnessed'[r]
      <3>1. pc'[r] \in Scanning
        BY <1>3 DEF LoadDead, NextSlot, Goto, Threads, Scanning
      <3> QED BY <1>2, <1>3, <3>1 DEF LoadDead, Watched, Visible
    <2>2. /\ Reusable(l) \in Locals /\ Reusable(l).prompt = l.prompt
          /\ Reusable(l).i = l.i /\ Reusable(l).curr_time = l.curr_time
          /\ Reusable(l).max_score = l.max_score
      BY <1>1 DEF Locals, Reusable
    <2> QED BY <1>1, <1>3, <2>1, <2>2, NextSlotWatched DEF LoadDead
  <1>4. CASE LoadLive(r)
    <2> DEFINE word == control[l.i]
               seen == [l EXCEPT !.best_ctrl = word]
    <2>1. /\ seen.prompt = l.prompt /\ seen.i = l.i
          /\ seen.curr_time = l.curr_time /\ seen.max_score = l.max_score
      BY <1>1 DEF Locals
    <2>2. /\ local'[r] = seen
          /\ pc'[r] = IF word.state = "PENDING" THEN "birth" ELSE "score"
          /\ created_at' = created_at
      BY <1>4 DEF LoadLive, Goto, Threads, slots
    <2>3. ASSUME NEW n \in witnessed'[r]
          PROVE  Watched(r, n)'
      <3>1. /\ Watched(r, n) /\ Visible(r, n)' /\ vector'[n] = vector[n]
        BY <1>2, <2>2 DEF Scanning
      <3>2. n = l.i /\ word.state = "PENDING" =>
              /\ created_at[n] \in 1 .. l.curr_time
              /\ l.curr_time - created_at[n] <= PENDING_LIFESPAN
        BY <3>1 DEF Watched, Visible
      <3> QED BY <2>1, <2>2, <3>1, <3>2 DEF Watched
    <2> QED BY <2>2, <2>3 DEF WatchedBy
  <1>5. CASE LoadBirth(r)
    <2> DEFINE birth == created_at[l.i]
    <2>1. CASE birth = 0
      <3>1. l.i \notin witnessed'[r]
        <4>1. pc'[r] \in Scanning
          BY <1>5, <2>1 DEF LoadBirth, NextSlot, Goto, Threads, Scanning
        <4> QED BY <1>2, <1>5, <2>1, <4>1 DEF LoadBirth, Watched
      <3> QED BY <1>1, <1>5, <2>1, <3>1, NextSlotWatched DEF LoadBirth
    <2>2. CASE birth # 0
      <3>1. /\ local'[r] = l /\ created_at' = created_at
            /\ pc'[r] = IF Age(l.curr_time, birth) > PENDING_LIFESPAN
                        THEN "expire" ELSE "score"
        BY <1>5, <2>2 DEF LoadBirth, Goto, Threads, slots
      <3>2. ASSUME NEW n \in witnessed'[r]
            PROVE  Watched(r, n)'
        <4>1. /\ Watched(r, n) /\ Visible(r, n)' /\ vector'[n] = vector[n]
          BY <1>2, <3>1 DEF Scanning
        <4>2. ASSUME n = l.i
              PROVE  pc'[r] = "score"
          <5>1. /\ birth \in 1 .. l.curr_time
                /\ l.curr_time - birth <= PENDING_LIFESPAN
            BY <1>5, <4>1, <4>2 DEF Watched, LoadBirth
          <5>2. l.curr_time \in 0 .. MaxTime
            BY <1>1 DEF Locals
          <5>3. Age(l.curr_time, birth) = l.curr_time - birth
            BY <5>1, <5>2, TimeAssumption DEF Age
          <5>4. ~(Age(l.curr_time, birth) > PENDING_LIFESPAN)
            BY <5>1, <5>2, <5>3, TimeAssumption
          <5> QED BY <3>1, <5>4
        <4> QED BY <3>1, <4>1, <4>2 DEF Watched
      <3> QED BY <3>1, <3>2 DEF WatchedBy
    <2> QED BY <2>1, <2>2
  <1>6. CASE Expire(r)
    <2>1. pc[r] = "expire"
      BY <1>6 DEF Expire
    <2>2. CASE control[l.i] = l.best_ctrl
      <3>1. /\ local'[r] = Reusable(l) /\ pc'[r] = "clear"
        BY <1>6, <2>2 DEF Expire, Goto, Threads
      <3>2. /\ Reusable(l).prompt = l.prompt /\ Reusable(l).i = l.i
            /\ Reusable(l).max_score = l.max_score
        BY <1>1 DEF Locals, Reusable
      <3> QED BY <1>2, <2>1, <3>1, <3>2 DEF WatchedBy, Watched, Scanning
    <2>3. CASE control[l.i] # l.best_ctrl
      <3>1. pc'[r] \in Scanning
        BY <1>6, <2>3 DEF Expire, NextSlot, Goto, Threads, Scanning
      <3>2. l.i \notin witnessed'[r]
        BY <1>2, <2>1, <3>1 DEF Watched
      <3> QED BY <1>1, <1>6, <2>1, <2>3, <3>2, NextSlotWatched DEF Expire
    <2> QED BY <2>2, <2>3
  <1>7. CASE ClearBirth(r)
    <2>1. pc'[r] \in Scanning /\ pc[r] = "clear"
      BY <1>7 DEF ClearBirth, NextSlot, Goto, Threads, Scanning
    <2>2. l.i \notin witnessed'[r]
      BY <1>2, <2>1 DEF Watched
    <2> QED BY <1>1, <1>7, <2>1, <2>2, NextSlotWatched DEF ClearBirth
  <1>8. CASE Compare(r)
    <2> DEFINE curr_score == Score[l.prompt][vector[l.i]]
               found == [l EXCEPT !.max_score = curr_score, !.best_node_id = l.i]
    <2>1. curr_score \in Int
      BY <1>1
    <2>2. /\ found \in Locals /\ found.prompt = l.prompt /\ found.i = l.i
          /\ found.curr_time = l.curr_time /\ found.max_score = curr_score
      BY <1>1, <2>1 DEF Locals
    <2>3. CASE curr_score > l.max_score
      <3>1. NextSlot(r, found) /\ pc[r] = "score"
        BY <1>8, <2>3 DEF Compare
      <3>2. /\ found.max_score >= l.max_score
            /\ found.max_score >= Score[found.prompt][vector[found.i]]
        BY <1>1, <2>1, <2>2, <2>3
      <3> HIDE DEF found
      <3> QED BY <1>1, <2>2, <3>1, <3>2, NextSlotWatched
    <2>4. CASE ~(curr_score > l.max_score)
      <3>1. NextSlot(r, l) /\ pc[r] = "score"
        BY <1>8, <2>4 DEF Compare
      <3>2. l.max_score >= Score[l.prompt][vector[l.i]]
        BY <1>1, <2>1, <2>4
      <3> QED BY <1>1, <3>1, <3>2, NextSlotWatched
    <2> QED BY <2>3, <2>4
  <1> QED BY <1>3, <1>4, <1>5, <1>6, <1>7, <1>8 DEF Scan

LEMMA BeginWatched ==
  ASSUME Threads, Witness, NEW r \in Requests, NEW p \in Prompts, Begin(r, p)
  PROVE  WatchedBy(r)'
  <1>1. local'[r].i = 0 /\ pc'[r] = "scan"
    BY DEF Begin, Fresh, Goto, Threads
  <1>2. ASSUME NEW n \in witnessed'[r]
        PROVE  n \in Slots /\ Visible(r, n)' /\ ~(n < 0)
    <2>1. n \in Slots /\ Visible(r, n)'
      BY <1>1, WitnessKept DEF Witness, Scanning, Begin
    <2> QED BY <2>1, SlotAssumption DEF Slots
  <1> QED BY <1>1, <1>2 DEF WatchedBy, Watched

LEMMA StepWatched ==
  IInv /\ WInv /\ [SearchNext]_searchVars => WInv'
  <1> SUFFICES ASSUME Memory, Threads, WInv, [SearchNext]_searchVars,
                      NEW r \in Requests
               PROVE  WatchedBy(r)'
    BY DEF IInv, WInv, WatchedBy
  <1>1. CASE UNCHANGED searchVars
    BY <1>1 DEF searchVars, vars, WInv, WatchedBy, Watched, Visible
  <1> SUFFICES ASSUME Next, Witness
               PROVE  WatchedBy(r)'
    BY <1>1 DEF SearchNext
  <1>2. ASSUME pc'[r] = pc[r], local'[r] = local[r]
        PROVE  WatchedBy(r)'
    BY <1>2, StillWatched DEF WInv, WatchedBy
  <1>3. ASSUME pc'[r] \notin Scanning
        PROVE  WatchedBy(r)'
    BY <1>3 DEF WatchedBy, Scanning
  <1>4. CASE Tick \/ Gc
    BY <1>2, <1>4 DEF Tick, Gc, GcLoad, GcEvict, GcClear, GcRescue
  <1>5. ASSUME NEW s \in Requests, NEW p \in Prompts, Begin(s, p)
        PROVE  WatchedBy(r)'
    <2>1. CASE s = r
      BY <1>5, <2>1, BeginWatched
    <2>2. CASE s # r
      BY <1>2, <1>5, <2>2 DEF Begin, Goto, Threads
    <2> QED BY <2>1, <2>2
  <1>6. ASSUME NEW s \in Requests, Scan(s)
        PROVE  WatchedBy(r)'
    <2>1. CASE s = r
      BY <1>6, <2>1, ScanWatched
    <2>2. CASE s # r
      BY <1>2, <1>6, <2>2
      DEF Scan, LoadDead, LoadLive, LoadBirth, Expire, ClearBirth, Compare,
          NextSlot, Goto, Threads
    <2> QED BY <2>1, <2>2
  <1>7. ASSUME NEW s \in Requests,
               Refuse(s) \/ Decide(s) \/ Reserve(s) \/ SetCache(s) \/ Finish(s)
        PROVE  WatchedBy(r)'
    <2> USE DEF Refuse, Decide, DecideHit, MarkHot, DecidePending, DecideDead,
                DecideNew, HighTraffic, Reserve, Claim, LoseClaim, CopyVector,
                Stamp, SetCache, Finish, Respond, Forget, Goto, Threads
    <2>1. CASE s = r
      <3>1. pc'[r] \in {"idle", "mark", "claim", "vector", "stamp", "answered"}
        BY <1>7, <2>1
      <3> QED BY <1>3, <3>1 DEF Scanning
    <2>2. CASE s # r
      BY <1>2, <1>7, <2>2
    <2> QED BY <2>1, <2>2
  <1> QED BY <1>4, <1>5, <1>6, <1>7 DEF Next

(* Whatever the others do beside it, a scan takes into account every slot  *)
(* that was there from its first step to its decision.                     *)
THEOREM NothingMissed == SearchSpec => []NoMatchMissed
  <1>1. SearchInit => IInv /\ WInv
    BY WInvInit
  <1>2. IInv /\ [SearchNext]_searchVars => IInv'
    BY NextInv DEF SearchNext, searchVars
  <1>3. IInv /\ WInv => NoMatchMissed
    BY WInvImplies
  <1> QED BY <1>1, <1>2, <1>3, StepWatched, PTL DEF SearchSpec

-----------------------------------------------------------------------------
(* The window of every slot that has not died under its claimer.           *)

WindowInv == \A m \in Slots \ orphaned : Window(m)

LEMMA StepWindow ==
  IInv /\ WindowInv /\ [SearchNext]_searchVars => WindowInv'
  <1> SUFFICES ASSUME IInv, WindowInv, [SearchNext]_searchVars,
                      NEW m \in Slots, m \notin orphaned'
               PROVE  Window(m)'
    BY DEF WindowInv
  <1>1. CASE UNCHANGED searchVars
    BY <1>1 DEF searchVars, vars, slots, WindowInv, Window, Sheltered, Alone,
                Swept, Claimed, Retiring
  <1>2. CASE SearchNext
    <2>1. m \notin orphaned /\ Sheltered(m)'
      BY <1>2 DEF SearchNext, Orphan
    <2>2. [Next]_vars /\ Window(m)
      BY <1>2, <2>1 DEF SearchNext, WindowInv
    <2> QED BY <2>1, <2>2, WindowNext
  <1> QED BY <1>1, <1>2

(* Whoever races for a slot, whenever those who retired it clear its time  *)
(* of birth and however old reservations grow: as long as the slot never   *)
(* died under its claimer, it has a time of birth while it waits for its   *)
(* vector only until that clearing.                                        *)
THEOREM GateHolds == SearchSpec => []GateWindow
  <1>1. SearchInit => IInv /\ WindowInv
    BY InitInv, WindowInit DEF SearchInit, WindowInv
  <1>2. IInv /\ [SearchNext]_searchVars => IInv'
    BY NextInv DEF SearchNext, searchVars
  <1>3. WindowInv => GateWindow
    BY DEF WindowInv, Window, Swept, GateWindow
  <1> QED BY <1>1, <1>2, <1>3, StepWindow, PTL DEF SearchSpec

-----------------------------------------------------------------------------
(* The sum of products.                                                    *)

(* f holds the partial sums of g[0], g[1], ... up to n of them.            *)
IsSum(f, g, n) == f = [i \in 0 .. n |-> IF i = 0 THEN 0 ELSE f[i - 1] + g[i - 1]]

LEMMA SumSteps ==
  ASSUME NEW g, NEW n \in Nat
  PROVE  \E f : IsSum(f, g, n) /\ Total(g, n) = f[n]
  <1> DEFINE T == {k \in Nat : \E f : IsSum(f, g, k)}
  <1>1. 0 \in T
    <2>1. IsSum([i \in 0 .. 0 |-> 0], g, 0)
      BY DEF IsSum
    <2> QED BY <2>1
  <1>2. ASSUME NEW k \in Nat, k \in T
        PROVE  k + 1 \in T
    <2>1. PICK f : f = [i \in 0 .. k |-> IF i = 0 THEN 0 ELSE f[i - 1] + g[i - 1]]
      BY <1>2 DEF IsSum
    <2> DEFINE h == [i \in 0 .. k + 1 |-> IF i <= k THEN f[i] ELSE f[k] + g[k]]
    <2>2. ASSUME NEW i \in 0 .. k + 1
          PROVE  h[i] = IF i = 0 THEN 0 ELSE h[i - 1] + g[i - 1]
      <3>1. CASE i = 0
        <4>1. f[0] = 0
          BY <2>1
        <4> QED BY <3>1, <4>1
      <3>2. CASE i \in 1 .. k
        <4>1. f[i] = f[i - 1] + g[i - 1]
          BY <2>1, <3>2
        <4>2. h[i] = f[i] /\ h[i - 1] = f[i - 1]
          BY <3>2
        <4> QED BY <3>2, <4>1, <4>2
      <3>3. CASE i = k + 1
        <4>1. h[k + 1] = f[k] + g[k] /\ h[k] = f[k]
          OBVIOUS
        <4> QED BY <3>3, <4>1
      <3> QED BY <3>1, <3>2, <3>3
    <2>3. IsSum(h, g, k + 1)
      BY <2>2 DEF IsSum
    <2> HIDE DEF h
    <2> QED BY <2>3
  <1>3. n \in T
    <2> HIDE DEF T
    <2> QED BY <1>1, <1>2, NatInd
  <1>4. PICK f : IsSum(f, g, n)
    BY <1>3
  <1> DEFINE sum == CHOOSE h : IsSum(h, g, n)
  <1>5. IsSum(sum, g, n)
    BY <1>4
  <1>6. Total(g, n) = sum[n]
    BY DEF Total, IsSum
  <1> QED BY <1>5, <1>6

(* What Total is: a sum of none is 0, and one more term adds that term.    *)
LEMMA SumOfNone ==
  ASSUME NEW g
  PROVE  Total(g, 0) = 0
  <1>1. PICK f : IsSum(f, g, 0) /\ Total(g, 0) = f[0]
    BY SumSteps
  <1> QED BY <1>1 DEF IsSum

LEMMA SumOfOneMore ==
  ASSUME NEW g, NEW n \in Nat
  PROVE  Total(g, n + 1) = Total(g, n) + g[n]
  <1>1. PICK f : IsSum(f, g, n) /\ Total(g, n) = f[n]
    BY SumSteps
  <1>2. PICK h : IsSum(h, g, n + 1) /\ Total(g, n + 1) = h[n + 1]
    <2>1. n + 1 \in Nat
      OBVIOUS
    <2> QED BY <2>1, SumSteps
  <1> DEFINE T == {k \in Nat : k <= n => f[k] = h[k]}
  <1>3. 0 \in T
    BY <1>1, <1>2 DEF IsSum
  <1>4. ASSUME NEW k \in Nat, k \in T
        PROVE  k + 1 \in T
    <2> SUFFICES ASSUME k + 1 <= n
                 PROVE  f[k + 1] = h[k + 1]
      OBVIOUS
    <2>1. k + 1 \in 1 .. n /\ k + 1 - 1 = k /\ k + 1 # 0
      OBVIOUS
    <2>2. f[k + 1] = f[k] + g[k] /\ h[k + 1] = h[k] + g[k]
      BY <1>1, <1>2, <2>1 DEF IsSum
    <2> QED BY <1>4, <2>1, <2>2
  <1>5. n \in T
    <2> HIDE DEF T
    <2> QED BY <1>3, <1>4, NatInd
  <1>6. h[n + 1] = h[n] + g[n]
    BY <1>2 DEF IsSum
  <1> QED BY <1>1, <1>2, <1>5, <1>6

(* Sums of integers are integers.                                          *)
LEMMA SumType ==
  ASSUME NEW n \in Nat, NEW g, \A i \in 0 .. n - 1 : g[i] \in Int
  PROVE  Total(g, n) \in Int
  <1> DEFINE T == {k \in Nat : k <= n => Total(g, k) \in Int}
  <1>1. 0 \in T
    BY SumOfNone
  <1>2. ASSUME NEW k \in Nat, k \in T
        PROVE  k + 1 \in T
    <2>1. Total(g, k + 1) = Total(g, k) + g[k]
      BY SumOfOneMore
    <2> QED BY <1>2, <2>1
  <1> HIDE DEF T
  <1>3. n \in T
    BY <1>1, <1>2, NatInd
  <1> QED BY <1>3 DEF T

(* The sum of the eight lanes of four accumulators.                        *)
Lanes == 0 .. 7
Folded(x) ==
  HorizontalSum([lane \in Lanes |-> (x[0][lane] + x[1][lane]) + (x[2][lane] + x[3][lane])])
Eight(y) == y[0] + y[1] + y[2] + y[3] + y[4] + y[5] + y[6] + y[7]

Registers == [0 .. 3 -> [Lanes -> Int]]

(* The halves and the neighbours add up to all the lanes.                  *)
LEMMA FoldedIs ==
  ASSUME NEW x \in Registers
  PROVE  /\ \A s \in 0 .. 3 : Eight(x[s]) \in Int
         /\ Folded(x) = Eight(x[0]) + Eight(x[1]) + Eight(x[2]) + Eight(x[3])
  <1>1. \A s \in 0 .. 3 : \A lane \in Lanes : x[s][lane] \in Int
    BY DEF Registers
  <1>2. \A s \in 0 .. 3 : Eight(x[s]) \in Int
    BY <1>1 DEF Eight, Lanes
  <1> DEFINE v == [lane \in Lanes |-> (x[0][lane] + x[1][lane]) + (x[2][lane] + x[3][lane])]
             half == [k \in 0 .. 3 |-> v[k] + v[k + 4]]
  <1>3. /\ v[0] = (x[0][0] + x[1][0]) + (x[2][0] + x[3][0])
        /\ v[1] = (x[0][1] + x[1][1]) + (x[2][1] + x[3][1])
        /\ v[2] = (x[0][2] + x[1][2]) + (x[2][2] + x[3][2])
        /\ v[3] = (x[0][3] + x[1][3]) + (x[2][3] + x[3][3])
        /\ v[4] = (x[0][4] + x[1][4]) + (x[2][4] + x[3][4])
        /\ v[5] = (x[0][5] + x[1][5]) + (x[2][5] + x[3][5])
        /\ v[6] = (x[0][6] + x[1][6]) + (x[2][6] + x[3][6])
        /\ v[7] = (x[0][7] + x[1][7]) + (x[2][7] + x[3][7])
    BY DEF Lanes
  <1>4. /\ half[0] = v[0] + v[4] /\ half[1] = v[1] + v[5]
        /\ half[2] = v[2] + v[6] /\ half[3] = v[3] + v[7]
    <2> HIDE DEF v
    <2> QED OBVIOUS
  <1>5. Folded(x) = (half[0] + half[1]) + (half[2] + half[3])
    BY DEF Folded, HorizontalSum
  <1> HIDE DEF v, half
  <1>6. \A lane \in Lanes : /\ x[0][lane] \in Int /\ x[1][lane] \in Int
                            /\ x[2][lane] \in Int /\ x[3][lane] \in Int
    BY <1>1
  <1>7. Folded(x) = Eight(x[0]) + Eight(x[1]) + Eight(x[2]) + Eight(x[3])
    BY <1>3, <1>4, <1>5, <1>6 DEF Eight, Lanes
  <1> QED BY <1>2, <1>7

(* Registers add up lane by lane.                                       *)
LEMMA FoldedAdds ==
  ASSUME NEW x \in Registers, NEW y \in Registers, NEW z \in Registers,
         \A s \in 0 .. 3 : \A lane \in Lanes : z[s][lane] = x[s][lane] + y[s][lane]
  PROVE  Folded(z) = Folded(x) + Folded(y)
  <1>1. ASSUME NEW s \in 0 .. 3
        PROVE  Eight(z[s]) = Eight(x[s]) + Eight(y[s])
    <2> DEFINE a == x[s]
               b == y[s]
               c == z[s]
    <2>1. \A lane \in Lanes : a[lane] \in Int /\ b[lane] \in Int
                              /\ c[lane] = a[lane] + b[lane]
      BY DEF Registers
    <2> HIDE DEF a, b, c
    <2>2. Eight(c) = Eight(a) + Eight(b)
      BY <2>1 DEF Eight, Lanes
    <2> QED BY <2>2 DEF a, b, c
  <1>2. /\ Folded(x) = Eight(x[0]) + Eight(x[1]) + Eight(x[2]) + Eight(x[3])
        /\ Folded(y) = Eight(y[0]) + Eight(y[1]) + Eight(y[2]) + Eight(y[3])
        /\ Folded(z) = Eight(z[0]) + Eight(z[1]) + Eight(z[2]) + Eight(z[3])
        /\ \A s \in 0 .. 3 : Eight(x[s]) \in Int /\ Eight(y[s]) \in Int
    BY FoldedIs
  <1> QED BY <1>1, <1>2

(* A register, and four of them, take the sum eight and 32 terms further.  *)
LEMMA EightMore ==
  ASSUME NEW n \in Nat, NEW g, \A i \in 0 .. n - 1 : g[i] \in Int,
         NEW k \in Nat, k + 8 <= n
  PROVE  /\ Eight([lane \in Lanes |-> g[k + lane]]) \in Int
         /\ Total(g, k + 8) = Total(g, k) + Eight([lane \in Lanes |-> g[k + lane]])
  <1> DEFINE y == [lane \in Lanes |-> g[k + lane]]
  <1>1. \A i \in Nat : Total(g, i + 1) = Total(g, i) + g[i]
    BY SumOfOneMore
  <1>2. Total(g, k) \in Int
    BY SumType
  <1>3. \A lane \in Lanes : y[lane] = g[k + lane] /\ g[k + lane] \in Int
    BY DEF Lanes
  <1> HIDE DEF y
  <1>4. /\ g[k] = y[0] /\ g[k + 1] = y[1] /\ g[k + 2] = y[2] /\ g[k + 3] = y[3]
        /\ g[k + 4] = y[4] /\ g[k + 5] = y[5] /\ g[k + 6] = y[6] /\ g[k + 7] = y[7]
    BY <1>3 DEF Lanes
  <1>5. \A lane \in Lanes : y[lane] \in Int
    BY <1>3
  <1>6. /\ Total(g, k + 1) = Total(g, k) + y[0]
        /\ Total(g, k + 2) = Total(g, k + 1) + y[1]
        /\ Total(g, k + 3) = Total(g, k + 2) + y[2]
        /\ Total(g, k + 4) = Total(g, k + 3) + y[3]
        /\ Total(g, k + 5) = Total(g, k + 4) + y[4]
        /\ Total(g, k + 6) = Total(g, k + 5) + y[5]
        /\ Total(g, k + 7) = Total(g, k + 6) + y[6]
        /\ Total(g, k + 8) = Total(g, k + 7) + y[7]
    <2>1. ASSUME NEW j \in 0 .. 7
          PROVE  Total(g, k + (j + 1)) = Total(g, k + j) + g[k + j]
      <3>1. k + j \in Nat /\ k + j + 1 = k + (j + 1)
        OBVIOUS
      <3> QED BY <1>1, <3>1
    <2>2. k + 0 = k
      OBVIOUS
    <2> QED BY <1>4, <2>1, <2>2
  <1>7. Eight(y) \in Int /\ Total(g, k + 8) = Total(g, k) + Eight(y)
    BY <1>2, <1>5, <1>6 DEF Eight, Lanes
  <1> QED BY <1>7 DEF y

LEMMA ThirtyTwoMore ==
  ASSUME NEW n \in Nat, NEW g, \A i \in 0 .. n - 1 : g[i] \in Int,
         NEW k \in Nat, k + 32 <= n, NEW y \in Registers,
         \A s \in 0 .. 3 : \A lane \in Lanes : y[s][lane] = g[k + 8 * s + lane]
  PROVE  Total(g, k + 32) = Total(g, k) + Folded(y)
  <1>1. ASSUME NEW s \in 0 .. 3
        PROVE  /\ Eight(y[s]) \in Int
               /\ Total(g, k + 8 * s + 8) = Total(g, k + 8 * s) + Eight(y[s])
    <2> DEFINE j == k + 8 * s
    <2>1. j \in Nat /\ j + 8 <= n
      OBVIOUS
    <2>2. y[s] = [lane \in Lanes |-> y[s][lane]]
      BY DEF Registers
    <2>3. [lane \in Lanes |-> y[s][lane]] = [lane \in Lanes |-> g[j + lane]]
      OBVIOUS
    <2> HIDE DEF j
    <2>4. /\ Eight([lane \in Lanes |-> g[j + lane]]) \in Int
          /\ Total(g, j + 8) = Total(g, j) + Eight([lane \in Lanes |-> g[j + lane]])
      BY <2>1, EightMore
    <2>5. Eight(y[s]) \in Int /\ Total(g, j + 8) = Total(g, j) + Eight(y[s])
      BY <2>2, <2>3, <2>4
    <2> QED BY <2>5 DEF j
  <1>2. /\ Total(g, k + 8) = Total(g, k) + Eight(y[0])
        /\ Total(g, k + 16) = Total(g, k + 8) + Eight(y[1])
        /\ Total(g, k + 24) = Total(g, k + 16) + Eight(y[2])
        /\ Total(g, k + 32) = Total(g, k + 24) + Eight(y[3])
    <2>1. /\ k + 8 * 0 = k /\ k + 8 * 0 + 8 = k + 8
          /\ k + 8 * 1 = k + 8 /\ k + 8 * 1 + 8 = k + 16
          /\ k + 8 * 2 = k + 16 /\ k + 8 * 2 + 8 = k + 24
          /\ k + 8 * 3 = k + 24 /\ k + 8 * 3 + 8 = k + 32
      OBVIOUS
    <2> QED BY <1>1, <2>1
  <1>3. Total(g, k) \in Int
    BY SumType
  <1>4. Folded(y) = Eight(y[0]) + Eight(y[1]) + Eight(y[2]) + Eight(y[3])
    BY FoldedIs
  <1>5. /\ Eight(y[0]) \in Int /\ Eight(y[1]) \in Int
        /\ Eight(y[2]) \in Int /\ Eight(y[3]) \in Int
    BY <1>1
  <1> QED BY <1>2, <1>3, <1>4, <1>5

(* Registers start from zero.                                              *)
LEMMA FoldedZero ==
  ASSUME NEW x \in Registers, \A s \in 0 .. 3 : \A lane \in Lanes : x[s][lane] = 0
  PROVE  Folded(x) = 0
  <1>1. \A s \in 0 .. 3 : Eight(x[s]) = 0
    BY DEF Eight, Lanes
  <1>2. Folded(x) = Eight(x[0]) + Eight(x[1]) + Eight(x[2]) + Eight(x[3])
    BY FoldedIs
  <1> QED BY <1>1, <1>2

(* CosineSimilarity for AVX, with its four accumulators of eight lanes,    *)
(* computes the sum that the scalar loop computes, for every dimension     *)
(* that is a multiple of 32 and every two vectors: no term is left out and *)
(* none is added twice.  By induction over the groups of 32.               *)
THEOREM UnrolledSum ==
  ASSUME NEW query, NEW node_vector,
         \A i \in Dims : query[i] \in Int /\ node_vector[i] \in Int
  PROVE  CosineSimilarity(query, node_vector) = CosineSimilarity_Scalar(query, node_vector)
  <1> DEFINE N == VECTOR_DIM \div 32
             a == [i \in Dims |-> query[i] * node_vector[i]]
             G(s, lane) == [i \in 0 .. N - 1 |->
                              query[32 * i + 8 * s + lane] * node_vector[32 * i + 8 * s + lane]]
             X(n) == [s \in 0 .. 3 |-> [lane \in Lanes |-> Total(G(s, lane), n)]]
             Y(n) == [s \in 0 .. 3 |-> [lane \in Lanes |-> a[32 * n + 8 * s + lane]]]
  <1>1. N \in Nat /\ VECTOR_DIM \in Nat /\ 32 * N = VECTOR_DIM
    BY EmbeddingAssumption
  <1>2. \A i \in 0 .. VECTOR_DIM - 1 : a[i] \in Int /\ a[i] = query[i] * node_vector[i]
    BY DEF Dims
  <1>3. CosineSimilarity(query, node_vector) = Folded(X(N))
    BY DEF CosineSimilarity, Accumulator, Folded, Lanes
  <1>4. CosineSimilarity_Scalar(query, node_vector) = Total(a, VECTOR_DIM)
    BY DEF CosineSimilarity_Scalar
  <1> HIDE DEF N
  <1>5. ASSUME NEW s \in 0 .. 3, NEW lane \in Lanes, NEW n \in 0 .. N - 1
        PROVE  /\ 32 * n + 8 * s + lane \in 0 .. VECTOR_DIM - 1
               /\ G(s, lane)[n] = a[32 * n + 8 * s + lane]
               /\ G(s, lane)[n] \in Int
    <2> DEFINE at == 32 * n + 8 * s + lane
    <2>1. at \in 0 .. VECTOR_DIM - 1
      BY <1>1 DEF Lanes
    <2>2. G(s, lane)[n] = query[at] * node_vector[at]
      OBVIOUS
    <2> HIDE DEF at, G, a
    <2>3. G(s, lane)[n] = a[at] /\ a[at] \in Int
      BY <1>2, <2>1, <2>2
    <2> QED BY <2>1, <2>3 DEF at
  <1> HIDE DEF a, G
  <1>6. ASSUME NEW n \in 0 .. N
        PROVE  X(n) \in Registers
    <2>1. ASSUME NEW s \in 0 .. 3, NEW lane \in Lanes
          PROVE  Total(G(s, lane), n) \in Int
      <3> DEFINE g == G(s, lane)
      <3>1. \A i \in 0 .. n - 1 : g[i] \in Int
        BY <1>1, <1>5
      <3> HIDE DEF g
      <3>2. n \in Nat
        BY <1>1
      <3>3. Total(g, n) \in Int
        BY <3>1, <3>2, SumType
      <3> QED BY <3>3 DEF g
    <2> QED BY <2>1 DEF Registers
  <1>7. ASSUME NEW n \in 0 .. N - 1
        PROVE  Y(n) \in Registers
    <2>1. \A s \in 0 .. 3 : \A lane \in Lanes : a[32 * n + 8 * s + lane] \in Int
      BY <1>5
    <2> QED BY <2>1 DEF Registers
  <1> DEFINE T == {n \in Nat : n <= N => Folded(X(n)) = Total(a, 32 * n)}
  <1>8. 0 \in T
    <2>1. \A s \in 0 .. 3 : \A lane \in Lanes : X(0)[s][lane] = 0
      BY SumOfNone
    <2>2. X(0) \in Registers
      BY <1>1, <1>6
    <2>3. Folded(X(0)) = 0
      <3> HIDE DEF X
      <3> QED BY <2>1, <2>2, FoldedZero
    <2>4. Total(a, 32 * 0) = 0
      BY SumOfNone
    <2> QED BY <2>3, <2>4
  <1>9. ASSUME NEW n \in Nat, n \in T
        PROVE  n + 1 \in T
    <2> SUFFICES ASSUME n + 1 <= N
                 PROVE  Folded(X(n + 1)) = Total(a, 32 * (n + 1))
      OBVIOUS
    <2>1. n \in 0 .. N - 1 /\ n \in 0 .. N /\ n + 1 \in 0 .. N
      BY <1>1
    <2>2. Folded(X(n)) = Total(a, 32 * n)
      BY <1>9, <2>1
    <2>3. ASSUME NEW s \in 0 .. 3, NEW lane \in Lanes
          PROVE  /\ X(n + 1)[s][lane] = X(n)[s][lane] + Y(n)[s][lane]
                 /\ Y(n)[s][lane] = a[32 * n + 8 * s + lane]
      <3>1. Total(G(s, lane), n + 1) = Total(G(s, lane), n) + G(s, lane)[n]
        BY SumOfOneMore
      <3>2. G(s, lane)[n] = a[32 * n + 8 * s + lane]
        BY <1>5, <2>1
      <3> QED BY <3>1, <3>2
    <2>4. /\ X(n) \in Registers /\ X(n + 1) \in Registers
          /\ Y(n) \in Registers
      BY <1>6, <1>7, <2>1
    <2> HIDE DEF X, Y
    <2>5. Folded(X(n + 1)) = Folded(X(n)) + Folded(Y(n))
      BY <2>3, <2>4, FoldedAdds
    <2>6. Total(a, 32 * n + 32) = Total(a, 32 * n) + Folded(Y(n))
      <3> DEFINE k == 32 * n
                 y == Y(n)
      <3>1. k \in Nat /\ k + 32 <= VECTOR_DIM
        BY <1>1, <2>1
      <3>2. /\ y \in Registers
            /\ \A s \in 0 .. 3 : \A lane \in Lanes : y[s][lane] = a[k + 8 * s + lane]
        BY <2>3, <2>4
      <3>3. \A i \in 0 .. VECTOR_DIM - 1 : a[i] \in Int
        BY <1>2
      <3> HIDE DEF k, y
      <3>4. Total(a, k + 32) = Total(a, k) + Folded(y)
        BY <1>1, <3>1, <3>2, <3>3, ThirtyTwoMore
      <3> QED BY <3>4 DEF k, y
    <2>7. 32 * (n + 1) = 32 * n + 32
      OBVIOUS
    <2> QED BY <2>2, <2>5, <2>6, <2>7
  <1>10. N \in T
    <2> HIDE DEF T
    <2> QED BY <1>1, <1>8, <1>9, NatInd
  <1> QED BY <1>1, <1>3, <1>4, <1>10

(* Every prompt that is scanned for has a vector of integers, and so has a *)
(* slot.                                                                   *)
LEMMA VectorType ==
  ASSUME NEW v \in Prompts \cup {NoPrompt}, NEW j \in Dims
  PROVE  VectorOf(v)[j] \in Int
  <1>1. CASE v = NoPrompt
    BY <1>1 DEF VectorOf
  <1>2. CASE v # NoPrompt
    <2> DEFINE tensor == Model[Text[v]]
    <2>1. v \in AllPrompts /\ Encode(v) # NoVector
      BY <1>2, SearchAssumption DEF Encodable
    <2>2. Encode(v) = Pooled(tensor) /\ tensor.dim = VECTOR_DIM
      BY <2>1 DEF Encode
    <2>3. /\ tensor.length \in Nat
          /\ \A i \in 0 .. tensor.length - 1 : tensor.rows[i][j] \in Int
      BY <2>1, <2>2, EmbeddingAssumption DEF Dims
    <2> HIDE DEF tensor
    <2> DEFINE g == [i \in 0 .. tensor.length - 1 |-> tensor.rows[i][j]]
    <2>4. \A i \in 0 .. tensor.length - 1 : g[i] \in Int
      BY <2>3
    <2>5. Pooled(tensor)[j] = Total(g, tensor.length)
      BY DEF Pooled
    <2> HIDE DEF g
    <2>6. Total(g, tensor.length) \in Int
      BY <2>3, <2>4, SumType
    <2> QED BY <1>2, <2>2, <2>5, <2>6 DEF VectorOf
  <1> QED BY <1>1, <1>2

(* Whatever a scan compares, the code for AVX gives it the score that the  *)
(* scalar code would.                                                      *)
THEOREM UnrollingIsExact == SearchSpec => []UnrolledIsScalar
  <1>1. SearchInit => IInv
    BY WInvInit
  <1>2. IInv /\ [SearchNext]_searchVars => IInv'
    BY NextInv DEF SearchNext, searchVars
  <1>3. IInv => UnrolledIsScalar
    <2> SUFFICES ASSUME IInv, NEW r \in Requests, pc[r] = "score"
                 PROVE  \E c \in Agreed : /\ c[1] = local[r].prompt
                                         /\ c[2] = vector[local[r].i]
      BY DEF UnrolledIsScalar
    <2> DEFINE x == local[r].prompt
               v == vector[local[r].i]
    <2>1. x \in Prompts /\ v \in Prompts \cup {NoPrompt}
      BY DEF IInv, Memory, Threads, Equipped
    <2> HIDE DEF x, v
    <2> DEFINE c == <<x, v, ScoreOf(VectorOf(x), VectorOf(v))>>
    <2>2. c \in Compared /\ c[1] = x /\ c[2] = v
      BY <2>1 DEF Compared
    <2>3. CosineSimilarity(VectorOf(x), VectorOf(v))
            = CosineSimilarity_Scalar(VectorOf(x), VectorOf(v))
      BY <2>1, VectorType, UnrolledSum
    <2> HIDE DEF c
    <2>4. c \in Agreed
      BY <2>2, <2>3 DEF Agreed
    <2> QED BY <2>2, <2>4 DEF x, v
  <1> QED BY <1>1, <1>2, <1>3, PTL DEF SearchSpec
=============================================================================
