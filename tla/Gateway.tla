------------------------------- MODULE Gateway -------------------------------
(***************************************************************************)
(* The HTTP gateway: HandleService (gateway/internal/proxy/strix.go), the  *)
(* registry of promises through which a pioneer shares the answer of the   *)
(* LLM with its herd (registry.go), and the worker pool that writes        *)
(* answers back to the engine (worker_pool.go).                            *)
(*                                                                         *)
(* Each HTTP request is a goroutine.  The engine told the first request    *)
(* with a new prompt MISS and a slot: the pioneer, which registers a       *)
(* promise under the slot's number and calls the LLM.  Requests told       *)
(* PENDING with the same slot are the herd: they look the promise up and   *)
(* wait for it.  The engine is its SlotStore, with the prompt of each slot *)
(* (the details are in CheckCache and Arena): it can expire and evict a    *)
(* slot at any time, and it knows nothing of promises.                     *)
(*                                                                         *)
(* A payload is the prompt it answers.  A request runs once, so a promise  *)
(* is named by the pioneer that made it.                                   *)
(***************************************************************************)
EXTENDS Integers, Sequences

CONSTANTS
  Requests,
  Workers,      \* goroutines of the worker pool
  Slots,        \* the engine's slots
  Prompts,
  LongPrompts,  \* those of more than maxPromptLen bytes
  None,
  QueueCap      \* jobQueueCap

ASSUME GatewayAssumption ==
  /\ LongPrompts \subseteq Prompts
  /\ None \notin Requests \cup Prompts \cup Slots
  /\ QueueCap \in Nat

VARIABLES
  slot,      \* the engine: state, prompt and payload of each slot
  l0,        \* the exact-match cache, by prompt
  registry,  \* promise registered under each slot
  promise,   \* what the pioneers made of their promises
  queue,     \* jobs for the worker pool
  job,       \* the job each worker has in hand
  pc,        \* where each request stands
  prompt,    \* its prompt
  node,      \* the slot the engine answered
  awaits,    \* the promise a herd request waits for
  response   \* the payload or error written to the client

engine == slot
handler == <<pc, prompt, node, awaits, response>>
vars == <<slot, l0, registry, promise, queue, job, pc, prompt, node, awaits,
          response>>

-----------------------------------------------------------------------------
Free == [state |-> "free", prompt |-> None, payload |-> None]
Job == [node : Slots, payload : Prompts]
NoPromise == [state |-> "none", payload |-> None]

Init ==
  /\ slot = [n \in Slots |-> Free]
  /\ l0 = [p \in Prompts |-> None]
  /\ registry = [n \in Slots |-> None]
  /\ promise = [r \in Requests |-> NoPromise]
  /\ queue = << >>
  /\ job = [w \in Workers |-> None]
  /\ pc = [r \in Requests |-> "new"]
  /\ prompt = [r \in Requests |-> None]
  /\ node = [r \in Requests |-> None]
  /\ awaits = [r \in Requests |-> None]
  /\ response = [r \in Requests |-> None]

Goto(r, label) == pc' = [pc EXCEPT ![r] = label]
WritePayload(r, payload) == response' = [response EXCEPT ![r] = payload]
WriteError(r) == response' = [response EXCEPT ![r] = "error"]

(* Payloads of maxL0PayloadSize and more are not kept: any may be one.     *)
TrySetL0(p, payload) == l0' = [l0 EXCEPT ![p] = payload] \/ UNCHANGED l0

(* fastcache has room for so much: old entries give way to new ones.       *)
L0Evicts(p) ==
  /\ l0[p] # None
  /\ l0' = [l0 EXCEPT ![p] = None]
  /\ UNCHANGED <<engine, registry, promise, queue, job, handler>>

-----------------------------------------------------------------------------
(* The engine, between requests.                                           *)

Expire(n) ==
  /\ slot[n].state = "reserved"
  /\ slot' = [slot EXCEPT ![n] = Free]
  /\ UNCHANGED <<l0, registry, promise, queue, job, handler>>

Evict(n) ==
  /\ slot[n].state = "filled"
  /\ slot' = [slot EXCEPT ![n] = Free]
  /\ UNCHANGED <<l0, registry, promise, queue, job, handler>>

ReserveFor(n, p) ==
  /\ slot[n].state = "free"
  /\ slot' = [slot EXCEPT ![n] =
                [state |-> "reserved", prompt |-> p, payload |-> None]]

-----------------------------------------------------------------------------
(* HandleService up to the answer of CheckCache.                           *)

(* The rate limiter has no token left.                                     *)
TooManyRequests(r) ==
  /\ pc[r] = "new"
  /\ WriteError(r)
  /\ Goto(r, "done")
  /\ UNCHANGED <<engine, l0, registry, promise, queue, job, prompt, node, awaits>>

(* Not a POST, or a body that is too long or cannot be decoded.            *)
BadRequest(r) ==
  /\ pc[r] = "new"
  /\ WriteError(r)
  /\ Goto(r, "done")
  /\ UNCHANGED <<engine, l0, registry, promise, queue, job, prompt, node, awaits>>

(* A prompt the exact-match cache knows is answered at once; a long one    *)
(* goes to the LLM past the engine.                                        *)
Receive(r, p) ==
  /\ pc[r] = "new"
  /\ prompt' = [prompt EXCEPT ![r] = p]
  /\ IF l0[p] # None
     THEN WritePayload(r, l0[p]) /\ Goto(r, "done")
     ELSE /\ Goto(r, IF p \in LongPrompts THEN "forward" ELSE "check")
          /\ UNCHANGED response
  /\ UNCHANGED <<engine, l0, registry, promise, queue, job, node, awaits>>

CheckHit(r) ==
  /\ pc[r] = "check"
  /\ \E n \in Slots :
       /\ slot[n].state = "filled" /\ slot[n].prompt = prompt[r]
       /\ WritePayload(r, slot[n].payload)
  /\ Goto(r, "done")
  /\ UNCHANGED <<engine, l0, registry, promise, queue, job, prompt, node, awaits>>

CheckPending(r) ==
  /\ pc[r] = "check"
  /\ \E n \in Slots :
       /\ slot[n].state = "reserved" /\ slot[n].prompt = prompt[r]
       /\ node' = [node EXCEPT ![r] = n]
  /\ Goto(r, "lookup")
  /\ UNCHANGED <<engine, l0, registry, promise, queue, job, prompt, awaits, response>>

(* Also when another slot has the prompt: two scans may run side by side.  *)
CheckMiss(r) ==
  /\ pc[r] = "check"
  /\ \E n \in Slots :
       /\ ReserveFor(n, prompt[r])
       /\ node' = [node EXCEPT ![r] = n]
  /\ Goto(r, "register")
  /\ UNCHANGED <<l0, registry, promise, queue, job, prompt, awaits, response>>

(* MISS with node_id -1: another request took the slot.  An error or a     *)
(* timeout of the RPC leads the same way, and the engine may have reserved *)
(* a slot that nobody will hear of.                                        *)
CheckFails(r) ==
  /\ pc[r] = "check"
  /\ (\E n \in Slots : ReserveFor(n, prompt[r])) \/ UNCHANGED slot
  /\ Goto(r, "forward")
  /\ UNCHANGED <<l0, registry, promise, queue, job, prompt, node, awaits, response>>

-----------------------------------------------------------------------------
(* A request the engine has no slot for: answered by the LLM, no SetCache. *)

ForwardAnswered(r) ==
  /\ pc[r] = "forward"
  /\ WritePayload(r, prompt[r])
  /\ TrySetL0(prompt[r], prompt[r])
  /\ Goto(r, "done")
  /\ UNCHANGED <<engine, registry, promise, queue, job, prompt, node, awaits>>

ForwardFailed(r) ==
  /\ pc[r] \in {"forward", "herdcall"}
  /\ WriteError(r)
  /\ Goto(r, "done")
  /\ UNCHANGED <<engine, l0, registry, promise, queue, job, prompt, node, awaits>>

-----------------------------------------------------------------------------
(* The pioneer.                                                            *)

(* One promise for all slots of a shard.                                   *)
PioneerRegister_PerShard(r) ==
  /\ pc[r] = "register"
  /\ promise' = [promise EXCEPT ![r].state = "open"]
  /\ registry' = [n \in Slots |-> r]
  /\ Goto(r, "call")
  /\ UNCHANGED <<engine, l0, queue, job, prompt, node, awaits, response>>

PioneerRegister(r) ==
  /\ pc[r] = "register"
  /\ promise' = [promise EXCEPT ![r].state = "open"]
  /\ registry' = [registry EXCEPT ![node[r]] = r]
  /\ Goto(r, "call")
  /\ UNCHANGED <<engine, l0, queue, job, prompt, node, awaits, response>>

CallAnswered(r) ==
  /\ pc[r] = "call"
  /\ WritePayload(r, prompt[r])
  /\ TrySetL0(prompt[r], prompt[r])
  /\ Goto(r, "enqueue")
  /\ UNCHANGED <<engine, registry, promise, queue, job, prompt, node, awaits>>

(* The handler returns early, without pioneerFulfill.                      *)
CallFailed_NotFulfilled(r) ==
  /\ pc[r] = "call"
  /\ WriteError(r)
  /\ Goto(r, "done")
  /\ UNCHANGED <<engine, l0, registry, promise, queue, job, prompt, node, awaits>>

(* An error of the LLM, its timeout, or the pioneer's client has left.     *)
CallFailed(r) ==
  /\ pc[r] = "call"
  /\ WriteError(r)
  /\ Goto(r, "fulfill")
  /\ UNCHANGED <<engine, l0, registry, promise, queue, job, prompt, node, awaits>>

(* The capacity of the queue is not looked at.                             *)
Enqueue_Unbounded(r) ==
  /\ pc[r] \in {"enqueue", "herdenqueue"}
  /\ queue' = Append(queue, [node |-> node[r], payload |-> prompt[r]])
  /\ Goto(r, IF pc[r] = "enqueue" THEN "fulfill" ELSE "done")
  /\ UNCHANGED <<engine, l0, registry, promise, job, prompt, node, awaits, response>>

(* TryEnqueue: a full queue drops the job.                                 *)
Enqueue(r) ==
  /\ pc[r] \in {"enqueue", "herdenqueue"}
  /\ queue' = IF Len(queue) < QueueCap
              THEN Append(queue, [node |-> node[r], payload |-> prompt[r]])
              ELSE queue
  /\ Goto(r, IF pc[r] = "enqueue" THEN "fulfill" ELSE "done")
  /\ UNCHANGED <<engine, l0, registry, promise, job, prompt, node, awaits, response>>

(* The promise is given its payload and its error, and never closed.       *)
PioneerFulfill_NotClosed(r) ==
  /\ pc[r] = "fulfill"
  /\ Goto(r, "unregister")
  /\ UNCHANGED <<engine, l0, registry, promise, queue, job, prompt, node, awaits,
                 response>>

(* pioneerFulfill, deferred to the handler's return, failed or not: the    *)
(* promise is closed first ...                                             *)
PioneerFulfill(r) ==
  /\ pc[r] = "fulfill"
  /\ promise' = [promise EXCEPT ![r] =
       IF response[r] = "error"
       THEN [state |-> "failed", payload |-> None]
       ELSE [state |-> "kept", payload |-> prompt[r]]]
  /\ Goto(r, "unregister")
  /\ UNCHANGED <<engine, l0, registry, queue, job, prompt, node, awaits, response>>

(* ... and then whatever promise is registered for the slot is removed.    *)
Unregister(r) ==
  /\ pc[r] = "unregister"
  /\ registry' = [registry EXCEPT ![node[r]] = None]
  /\ Goto(r, "done")
  /\ UNCHANGED <<engine, l0, promise, queue, job, prompt, node, awaits, response>>

-----------------------------------------------------------------------------
(* The herd: herdAwait, and the request's own call when that gives nothing.*)

HerdFinds(r) ==
  /\ pc[r] = "lookup"
  /\ registry[node[r]] # None
  /\ awaits' = [awaits EXCEPT ![r] = registry[node[r]]]
  /\ Goto(r, "await")
  /\ UNCHANGED <<engine, l0, registry, promise, queue, job, prompt, node, response>>

HerdFindsNone(r) ==
  /\ pc[r] = "lookup"
  /\ registry[node[r]] = None
  /\ Goto(r, "herdcall")
  /\ UNCHANGED <<engine, l0, registry, promise, queue, job, prompt, node, awaits,
                 response>>

HerdServed(r) ==
  /\ pc[r] = "await"
  /\ promise[awaits[r]].state = "kept"
  /\ WritePayload(r, promise[awaits[r]].payload)
  /\ TrySetL0(prompt[r], promise[awaits[r]].payload)
  /\ Goto(r, "done")
  /\ UNCHANGED <<engine, registry, promise, queue, job, prompt, node, awaits>>

HerdDisappointed(r) ==
  /\ pc[r] = "await"
  /\ promise[awaits[r]].state = "failed"
  /\ Goto(r, "herdcall")
  /\ UNCHANGED <<engine, l0, registry, promise, queue, job, prompt, node, awaits,
                 response>>

(* The one that leaves takes the promise out of the registry.              *)
HerdCancelled_Removes(r) ==
  /\ pc[r] = "await"
  /\ registry' = [registry EXCEPT ![node[r]] = None]
  /\ Goto(r, "done")
  /\ UNCHANGED <<engine, l0, promise, queue, job, prompt, node, awaits, response>>

(* The client has left: nothing is written.                                *)
HerdCancelled(r) ==
  /\ pc[r] = "await"
  /\ Goto(r, "done")
  /\ UNCHANGED <<engine, l0, registry, promise, queue, job, prompt, node, awaits,
                 response>>

HerdCallAnswered(r) ==
  /\ pc[r] = "herdcall"
  /\ WritePayload(r, prompt[r])
  /\ TrySetL0(prompt[r], prompt[r])
  /\ Goto(r, "herdenqueue")
  /\ UNCHANGED <<engine, registry, promise, queue, job, prompt, node, awaits>>

-----------------------------------------------------------------------------
(* The worker pool.                                                        *)

TakeJob(w) ==
  /\ job[w] = None
  /\ queue # << >>
  /\ job' = [job EXCEPT ![w] = Head(queue)]
  /\ queue' = Tail(queue)
  /\ UNCHANGED <<engine, l0, registry, promise, handler>>

(* SetCache fills the slot if it is reserved, for whomever.                *)
WriteBack(w) ==
  /\ job[w] # None
  /\ LET n == job[w].node IN
       slot' = IF slot[n].state = "reserved"
               THEN [slot EXCEPT ![n].state = "filled",
                                 ![n].payload = job[w].payload]
               ELSE slot
  /\ job' = [job EXCEPT ![w] = None]
  /\ UNCHANGED <<l0, registry, promise, queue, handler>>

(* The RPC fails before it has an effect; the job is not tried again.      *)
WriteLost(w) ==
  /\ job[w] # None
  /\ job' = [job EXCEPT ![w] = None]
  /\ UNCHANGED <<engine, l0, registry, promise, queue, handler>>

-----------------------------------------------------------------------------
Engine == \E n \in Slots : Expire(n) \/ Evict(n)

Check(r) == CheckHit(r) \/ CheckPending(r) \/ CheckMiss(r) \/ CheckFails(r)

Forward(r) == ForwardAnswered(r) \/ ForwardFailed(r)

Pioneer(r) ==
  \/ PioneerRegister(r) \/ CallAnswered(r) \/ CallFailed(r)
  \/ Enqueue(r) \/ PioneerFulfill(r) \/ Unregister(r)

Herd(r) ==
  \/ HerdFinds(r) \/ HerdFindsNone(r)
  \/ HerdServed(r) \/ HerdDisappointed(r) \/ HerdCallAnswered(r)

Handle(r) == Check(r) \/ Forward(r) \/ Pioneer(r) \/ Herd(r)

Work(w) == TakeJob(w) \/ WriteBack(w) \/ WriteLost(w)

Next ==
  \/ Engine
  \/ \E p \in Prompts : L0Evicts(p)
  \/ \E r \in Requests, p \in Prompts : Receive(r, p)
  \/ \E r \in Requests :
       TooManyRequests(r) \/ BadRequest(r) \/ Handle(r) \/ HerdCancelled(r)
  \/ \E w \in Workers : Work(w)

Spec == Init /\ [][Next]_vars

(* Every goroutine is scheduled; the RPCs end after ServiceTimeout and     *)
(* jobTimeout and the calls of the LLM after LLMForwardTimeout at the      *)
(* latest.  Nobody has to send a request, and no client has to leave.      *)
Fairness ==
  /\ \A r \in Requests : WF_vars(Handle(r))
  /\ \A w \in Workers : WF_vars(Work(w))

FairSpec == Spec /\ Fairness

-----------------------------------------------------------------------------
TypeOK ==
  /\ slot \in [Slots -> [state : {"free", "reserved", "filled"},
                         prompt : Prompts \cup {None},
                         payload : Prompts \cup {None}]]
  /\ l0 \in [Prompts -> Prompts \cup {None}]
  /\ registry \in [Slots -> Requests \cup {None}]
  /\ promise \in [Requests -> [state : {"none", "open", "kept", "failed"},
                               payload : Prompts \cup {None}]]
  /\ queue \in Seq(Job) /\ Len(queue) <= QueueCap
  /\ job \in [Workers -> Job \cup {None}]
  /\ pc \in [Requests -> {"new", "check", "forward", "register", "call",
                          "enqueue", "fulfill", "unregister", "lookup",
                          "await", "herdcall", "herdenqueue", "done"}]
  /\ prompt \in [Requests -> Prompts \cup {None}]
  /\ node \in [Requests -> Slots \cup {None}]
  /\ awaits \in [Requests -> Requests \cup {None}]
  /\ response \in [Requests -> Prompts \cup {None, "error"}]

(* A promise stays registered no longer than its pioneer is at work,       *)
(* whoever registered or removed what in between: nobody finds a promise   *)
(* that was closed long ago, and the registry does not grow.               *)
NoStalePromise ==
  \A n \in Slots : registry[n] # None =>
    pc[registry[n]] \in {"call", "enqueue", "fulfill", "unregister"}

(* Every request that came in is answered or given up: in particular no    *)
(* herd waits for a promise that nobody will close, whether the pioneer's  *)
(* call succeeded, failed, or its registration was overwritten.            *)
Answered == \A r \in Requests : pc[r] # "new" ~> pc[r] = "done"

-----------------------------------------------------------------------------
(* What the gateway does with a slot's number takes for granted that the   *)
(* slot is not given to another prompt meanwhile.  The engine expires a    *)
(* reservation after 30 seconds, a call of the LLM ends after 10.          *)

UsedBy(r, n) == node[r] = n /\ pc[r] # "done"

Awaiting(n) ==
  \/ \E r \in Requests : UsedBy(r, n)
  \/ \E w \in Workers : job[w] # None /\ job[w].node = n
  \/ \E k \in DOMAIN queue : queue[k].node = n

Patient == \A n \in Slots : Awaiting(n) => slot[n].state # "free"

CalmSpec == Init /\ [][Next /\ Patient']_vars

(* Every client gets the answer to its own prompt, and so does everyone    *)
(* the exact-match cache and the engine will answer later.                 *)
RightAnswer ==
  /\ \A r \in Requests : response[r] \in {None, "error", prompt[r]}
  /\ \A p \in Prompts : l0[p] \in {None, p}
  /\ \A n \in Slots : slot[n].state = "filled" => slot[n].payload = slot[n].prompt

(* From its registration until it is closed, a pioneer's promise is the    *)
(* one the herd finds under its slot.                                      *)
PioneerFindable ==
  \A r \in Requests :
    pc[r] \in {"call", "enqueue", "fulfill"} => registry[node[r]] = r
=============================================================================
