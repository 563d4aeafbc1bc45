---------------------------- MODULE GatewayProofs ----------------------------
(***************************************************************************)
(* The invariants of Gateway, for every number of requests, workers, slots *)
(* and prompts: TypeOK and NoStalePromise whatever the engine does, and    *)
(* PioneerFindable and RightAnswer while it does not give a slot away that *)
(* is still in use.                                                        *)
(***************************************************************************)
EXTENDS Gateway, TLAPS

-----------------------------------------------------------------------------
(* The pioneer's places from the answer MISS to its return, and the herd's *)
(* from the answer PENDING.                                                *)
Holding == {"call", "enqueue", "fulfill", "unregister"}
Pioneering == {"register"} \cup Holding
Herding == {"lookup", "await", "herdcall", "herdenqueue"}

(* A request has a prompt once it is received, a slot once it is answered  *)
(* one, and a promise while it waits.                                      *)
Equipped(r) ==
  /\ pc[r] \notin {"new", "done"} => prompt[r] \in Prompts
  /\ pc[r] \in Pioneering \cup Herding => node[r] \in Slots
  /\ pc[r] \in {"new", "check", "forward"} => node[r] = None
  /\ pc[r] = "await" => awaits[r] \in Requests

(* Who is registered under a slot is its pioneer, and at work.             *)
Registered ==
  \A n \in Slots : registry[n] # None =>
    /\ pc[registry[n]] \in Holding
    /\ node[registry[n]] = n

IInv == TypeOK /\ (\A r \in Requests : Equipped(r)) /\ Registered

-----------------------------------------------------------------------------
LEMMA InitInv == Init => IInv
  BY GatewayAssumption
  DEF Init, IInv, TypeOK, Equipped, Registered, Free, NoPromise, Pioneering,
      Holding, Herding

Contents == [state : {"free", "reserved", "filled"},
             prompt : Prompts \cup {None}, payload : Prompts \cup {None}]

LEMMA FreeType == Free \in Contents
  BY DEF Free, Contents

(* The engine and the workers touch no request.                            *)
LEMMA OutsideInv ==
  ASSUME IInv, Engine \/ \E w \in Workers : Work(w)
  PROVE  IInv'
  <1>1. UNCHANGED <<registry, handler>>
    BY DEF Engine, Expire, Evict, Work, TakeJob, WriteBack, WriteLost
  <1>2. TypeOK'
    <2> USE DEF IInv, TypeOK, handler, engine
    <2>1. ASSUME NEW n \in Slots, Expire(n) \/ Evict(n)
          PROVE  TypeOK'
      <3>1. slot' = [slot EXCEPT ![n] = Free]
        BY <2>1 DEF Expire, Evict
      <3>2. slot' \in [Slots -> Contents]
        BY <3>1, FreeType DEF Contents
      <3> QED BY <2>1, <3>2 DEF Expire, Evict, Contents
    <2>2. ASSUME NEW w \in Workers, TakeJob(w)
          PROVE  TypeOK'
      <3>1. /\ Head(queue) \in Job /\ Tail(queue) \in Seq(Job)
            /\ Len(Tail(queue)) <= QueueCap
        BY <2>2, GatewayAssumption DEF TakeJob
      <3> QED BY <2>2, <3>1 DEF TakeJob
    <2>3. ASSUME NEW w \in Workers, WriteBack(w)
          PROVE  TypeOK'
      <3>1. job[w] \in Job
        BY <2>3 DEF WriteBack
      <3>2. job[w].node \in Slots /\ job[w].payload \in Prompts
        BY <3>1 DEF Job
      <3> DEFINE n == job[w].node
                 filled == [slot[n] EXCEPT !.state = "filled",
                                           !.payload = job[w].payload]
      <3>3. filled \in Contents
        <4>1. slot[n] \in Contents
          BY <3>2 DEF Contents
        <4> QED BY <3>2, <4>1 DEF Contents
      <3>4. \/ slot' = [slot EXCEPT ![n] = filled]
            \/ slot' = slot
        BY <2>3, <3>2 DEF WriteBack
      <3>5. slot' \in [Slots -> Contents]
        BY <3>3, <3>4 DEF Contents
      <3> QED BY <2>3, <3>5 DEF WriteBack, Contents
    <2>4. ASSUME NEW w \in Workers, WriteLost(w)
          PROVE  TypeOK'
      BY <2>4 DEF WriteLost
    <2> QED BY <2>1, <2>2, <2>3, <2>4 DEF Engine, Work
  <1> QED BY <1>1, <1>2 DEF IInv, Equipped, Registered, handler

(* Reservations of a slot, and everything else before the engine answers.  *)
LEMMA CheckInv ==
  ASSUME IInv, NEW r \in Requests, Check(r)
  PROVE  IInv'
  <1>1. slot' \in [Slots -> Contents]
    <2>1. ASSUME NEW n \in Slots, ReserveFor(n, prompt[r])
          PROVE  slot' \in [Slots -> Contents]
      <3> DEFINE reserved == [state |-> "reserved", prompt |-> prompt[r], payload |-> None]
      <3>1. slot' = [slot EXCEPT ![n] = reserved]
        BY <2>1 DEF ReserveFor
      <3>2. reserved \in Contents
        BY DEF Contents, IInv, TypeOK
      <3> HIDE DEF reserved
      <3> QED BY <3>1, <3>2 DEF Contents, IInv, TypeOK
    <2>2. ASSUME UNCHANGED slot
          PROVE  slot' \in [Slots -> Contents]
      BY <2>2 DEF Contents, IInv, TypeOK
    <2> QED BY <2>1, <2>2
            DEF Check, CheckHit, CheckPending, CheckMiss, CheckFails, engine
  <1>2. prompt[r] \in Prompts /\ node[r] = None
    BY DEF IInv, Equipped, Check, CheckHit, CheckPending, CheckMiss, CheckFails
  <1> USE GatewayAssumption
          DEF IInv, TypeOK, Equipped, Registered, Goto, Pioneering, Holding,
              Herding, engine
  <1>3. CASE CheckHit(r)
    <2>1. PICK n \in Slots : WritePayload(r, slot[n].payload)
      BY <1>3 DEF CheckHit
    <2>2. slot[n].payload \in Prompts \cup {None}
      OBVIOUS
    <2> QED BY <1>1, <1>2, <1>3, <2>1, <2>2 DEF CheckHit, WritePayload, Contents
  <1>4. CASE CheckPending(r)
    BY <1>1, <1>2, <1>4 DEF CheckPending, Contents
  <1>5. CASE CheckMiss(r)
    BY <1>1, <1>2, <1>5 DEF CheckMiss, Contents
  <1>6. CASE CheckFails(r)
    BY <1>1, <1>2, <1>6 DEF CheckFails, Contents
  <1> QED BY <1>3, <1>4, <1>5, <1>6 DEF Check

LEMMA ReceiveInv ==
  ASSUME IInv, NEW r \in Requests,
         \/ TooManyRequests(r) \/ BadRequest(r)
         \/ \E p \in Prompts : Receive(r, p)
  PROVE  IInv'
  <1> USE GatewayAssumption
          DEF IInv, TypeOK, Equipped, Registered, Goto, Pioneering, Holding,
              Herding, engine, WriteError
  <1>1. CASE TooManyRequests(r)
    BY <1>1 DEF TooManyRequests
  <1>2. CASE BadRequest(r)
    BY <1>2 DEF BadRequest
  <1>3. ASSUME NEW p \in Prompts, Receive(r, p)
        PROVE  IInv'
    <2>1. response' \in [Requests -> Prompts \cup {None, "error"}]
      BY <1>3 DEF Receive, WritePayload
    <2>0. pc' \in [Requests -> {"new", "check", "forward", "register", "call",
                             "enqueue", "fulfill", "unregister", "lookup",
                             "await", "herdcall", "herdenqueue", "done"}]
      BY <1>3 DEF Receive
    <2>2. TypeOK'
      BY <1>3, <2>1, <2>0 DEF Receive
    <2>3. ASSUME NEW s \in Requests PROVE Equipped(s)'
      BY <1>3, <2>1 DEF Receive
    <2>4. Registered'
      BY <1>3, <2>1 DEF Receive
    <2> QED BY <2>2, <2>3, <2>4
  <1> QED BY <1>1, <1>2, <1>3

LEMMA AnswerType ==
  ASSUME TypeOK, NEW r \in Requests, NEW p \in Prompts,
         NEW payload \in Prompts \cup {None},
         WritePayload(r, payload), TrySetL0(p, payload)
  PROVE  /\ response' \in [Requests -> Prompts \cup {None, "error"}]
         /\ l0' \in [Prompts -> Prompts \cup {None}]
  BY DEF TypeOK, WritePayload, TrySetL0

LEMMA ForwardInv ==
  ASSUME IInv, NEW r \in Requests, Forward(r)
  PROVE  IInv'
  <1> USE GatewayAssumption
          DEF IInv, TypeOK, Equipped, Registered, Goto, Pioneering, Holding,
              Herding, engine
  <1>1. CASE ForwardAnswered(r)
    BY <1>1, AnswerType DEF ForwardAnswered
  <1>2. CASE ForwardFailed(r)
    BY <1>2 DEF ForwardFailed, WriteError
  <1> QED BY <1>1, <1>2 DEF Forward

LEMMA PioneerInv ==
  ASSUME IInv, NEW r \in Requests, Pioneer(r)
  PROVE  IInv'
  <1> USE GatewayAssumption
          DEF IInv, TypeOK, Equipped, Registered, Goto, Pioneering, Holding,
              Herding, engine
  <1>1. CASE PioneerRegister(r)
    <2>1. promise[r] \in [state : {"none", "open", "kept", "failed"},
                         payload : Prompts \cup {None}]
      OBVIOUS
    <2>2. promise' \in [Requests -> [state : {"none", "open", "kept", "failed"},
                                    payload : Prompts \cup {None}]]
      BY <1>1, <2>1 DEF PioneerRegister
    <2> QED BY <1>1, <2>2 DEF PioneerRegister
  <1>2. CASE CallAnswered(r)
    <2>1. /\ response' \in [Requests -> Prompts \cup {None, "error"}]
          /\ l0' \in [Prompts -> Prompts \cup {None}]
      BY <1>2, AnswerType DEF CallAnswered
    <2>2. TypeOK'
      BY <1>2, <2>1 DEF CallAnswered
    <2>3. ASSUME NEW s \in Requests PROVE Equipped(s)'
      BY <1>2, <2>1 DEF CallAnswered
    <2>4. Registered'
      BY <1>2, <2>1 DEF CallAnswered
    <2> QED BY <2>2, <2>3, <2>4
  <1>3. CASE CallFailed(r)
    BY <1>3 DEF CallFailed, WriteError
  <1>4. CASE Enqueue(r)
    <2>1. [node |-> node[r], payload |-> prompt[r]] \in Job
      BY <1>4 DEF Enqueue, Job
    <2>2. queue' \in Seq(Job) /\ Len(queue') <= QueueCap
      BY <1>4, <2>1 DEF Enqueue
    <2> QED BY <1>4, <2>2 DEF Enqueue
  <1>5. CASE PioneerFulfill(r)
    <2>1. promise' \in [Requests -> [state : {"none", "open", "kept", "failed"},
                                    payload : Prompts \cup {None}]]
      BY <1>5 DEF PioneerFulfill
    <2> QED BY <1>5, <2>1 DEF PioneerFulfill
  <1>6. CASE Unregister(r)
    BY <1>6 DEF Unregister
  <1> QED BY <1>1, <1>2, <1>3, <1>4, <1>5, <1>6 DEF Pioneer

LEMMA HerdInv ==
  ASSUME IInv, NEW r \in Requests, Herd(r) \/ HerdCancelled(r)
  PROVE  IInv'
  <1> USE GatewayAssumption
          DEF IInv, TypeOK, Equipped, Registered, Goto, Pioneering, Holding,
              Herding, engine
  <1>1. CASE HerdFinds(r)
    BY <1>1 DEF HerdFinds
  <1>2. CASE HerdFindsNone(r)
    BY <1>2 DEF HerdFindsNone
  <1>3. CASE HerdServed(r)
    <2>1. promise[awaits[r]].payload \in Prompts \cup {None}
      BY <1>3 DEF HerdServed
    <2>2. /\ response' \in [Requests -> Prompts \cup {None, "error"}]
          /\ l0' \in [Prompts -> Prompts \cup {None}]
      BY <1>3, <2>1, AnswerType DEF HerdServed
    <2>3. TypeOK'
      BY <1>3, <2>2 DEF HerdServed
    <2>4. ASSUME NEW s \in Requests PROVE Equipped(s)'
      BY <1>3, <2>2 DEF HerdServed
    <2>5. Registered'
      BY <1>3, <2>2 DEF HerdServed
    <2> QED BY <2>3, <2>4, <2>5
  <1>4. CASE HerdDisappointed(r)
    BY <1>4 DEF HerdDisappointed
  <1>5. CASE HerdCallAnswered(r)
    BY <1>5, AnswerType DEF HerdCallAnswered
  <1>6. CASE HerdCancelled(r)
    BY <1>6 DEF HerdCancelled
  <1> QED BY <1>1, <1>2, <1>3, <1>4, <1>5, <1>6 DEF Herd

LEMMA L0EvictsInv ==
  ASSUME IInv, NEW p \in Prompts, L0Evicts(p)
  PROVE  IInv'
  BY DEF L0Evicts, IInv, TypeOK, Equipped, Registered, engine, handler

LEMMA NextInv == IInv /\ [Next]_vars => IInv'
  <1> SUFFICES ASSUME IInv, [Next]_vars
               PROVE  IInv'
    OBVIOUS
  <1>1. CASE UNCHANGED vars
    BY <1>1 DEF vars, IInv, TypeOK, Equipped, Registered
  <1> QED BY <1>1, OutsideInv, L0EvictsInv, ReceiveInv, CheckInv, ForwardInv, PioneerInv,
             HerdInv
          DEF Next, Handle

LEMMA Invariance == Spec => []IInv
  BY InitInv, NextInv, PTL DEF Spec

(* However many requests, slots and workers there are, every variable      *)
(* keeps its type, and the queue never has more jobs than it has room for. *)
THEOREM TypeCorrect == Spec => []TypeOK
  <1>1. IInv => TypeOK
    BY DEF IInv
  <1> QED BY <1>1, Invariance, PTL

(* Whatever slots the engine gives to whom, a promise that is registered   *)
(* belongs to a pioneer that is still at work and will close it.           *)
THEOREM PromisesFresh == Spec => []NoStalePromise
  <1>1. IInv => NoStalePromise
    BY DEF IInv, Registered, Holding, NoStalePromise
  <1> QED BY <1>1, Invariance, PTL

-----------------------------------------------------------------------------
(* While slots in use are not given away.                                  *)

(* No two pioneers have one slot, and each is registered under its own.    *)
Sole ==
  \A r, s \in Requests :
    pc[r] \in Pioneering /\ pc[s] \in Pioneering /\ node[r] = node[s] => r = s

Findable == \A r \in Requests : pc[r] \in Holding => registry[node[r]] = r

(* Slots, jobs, promises, answers and the cache are about one prompt.      *)
OwnSlot ==
  \A r \in Requests :
    pc[r] \in Pioneering \cup Herding => slot[node[r]].prompt = prompt[r]

OwnJobs ==
  /\ \A k \in DOMAIN queue : queue[k].payload = slot[queue[k].node].prompt
  /\ \A w \in Workers :
       job[w] # None => job[w].payload = slot[job[w].node].prompt

OwnPromise ==
  /\ \A r \in Requests : promise[r].state = "kept" => promise[r].payload = prompt[r]
  /\ \A r \in Requests : pc[r] = "new" => promise[r].state = "none"
  /\ \A r \in Requests : pc[r] = "await" =>
       prompt[awaits[r]] = prompt[r] /\ pc[awaits[r]] # "new"

Answers ==
  /\ \A r \in Requests : response[r] \in {None, "error", prompt[r]}
  /\ \A r \in Requests : pc[r] = "new" => response[r] = None

Stored ==
  /\ \A p \in Prompts : l0[p] \in {None, p}
  /\ \A n \in Slots : slot[n].state = "filled" => slot[n].payload = slot[n].prompt

CInv ==
  /\ Patient /\ Sole /\ Findable /\ OwnSlot /\ OwnJobs
  /\ OwnPromise /\ Answers /\ Stored

LEMMA CalmInit == Init => CInv
  BY GatewayAssumption
  DEF Init, CInv, Patient, Awaiting, UsedBy, Sole, Findable, OwnSlot, OwnJobs,
      OwnPromise, Answers, Stored, Pioneering, Holding, Herding, Free, NoPromise

(* A slot that nobody awaits is given up, or reserved for a request that   *)
(* hears of it or not.                                                     *)
LEMMA SlotChanged ==
  ASSUME IInv, CInv, NEW n \in Slots, ~Awaiting(n), NEW c \in Contents,
         c.state # "filled", slot' = [slot EXCEPT ![n] = c]
  PROVE  /\ \A r \in Requests : pc[r] \in Pioneering \cup Herding =>
              slot'[node[r]].prompt = prompt[r] /\ node[r] # n
         /\ \A k \in DOMAIN queue : queue[k].payload = slot'[queue[k].node].prompt
         /\ \A w \in Workers :
              job[w] # None => job[w].payload = slot'[job[w].node].prompt
         /\ \A m \in Slots : slot'[m].state = "filled" =>
              slot'[m].payload = slot'[m].prompt
  <1>1. \A r \in Requests : pc[r] \in Pioneering \cup Herding =>
          slot'[node[r]].prompt = prompt[r] /\ node[r] # n
    BY DEF IInv, TypeOK, CInv, OwnSlot, Awaiting, UsedBy, Equipped, Pioneering,
           Holding, Herding
  <1>2. /\ \A k \in DOMAIN queue : queue[k].payload = slot'[queue[k].node].prompt
        /\ \A w \in Workers :
             job[w] # None => job[w].payload = slot'[job[w].node].prompt
    BY DEF IInv, TypeOK, CInv, OwnJobs, Awaiting
  <1>3. \A m \in Slots : slot'[m].state = "filled" =>
          slot'[m].payload = slot'[m].prompt
    BY DEF IInv, TypeOK, CInv, Stored
  <1> QED BY <1>1, <1>2, <1>3

LEMMA CalmEngine ==
  ASSUME IInv, CInv, Patient', Engine
  PROVE  CInv'
  <1>1. PICK n \in Slots : Expire(n) \/ Evict(n)
    BY DEF Engine
  <1>2. /\ slot' = [slot EXCEPT ![n] = Free]
        /\ UNCHANGED <<l0, registry, promise, queue, job, handler>>
    BY <1>1 DEF Expire, Evict
  <1>3. ~Awaiting(n)
    BY <1>2 DEF Patient, Awaiting, UsedBy, handler, IInv, TypeOK, Free
  <1>4. Free \in Contents /\ Free.state # "filled"
    BY FreeType DEF Free
  <1>5. OwnSlot' /\ OwnJobs' /\ Stored'
    <2>1. /\ \A r \in Requests : pc[r] \in Pioneering \cup Herding =>
               slot'[node[r]].prompt = prompt[r]
          /\ \A k \in DOMAIN queue :
               queue[k].payload = slot'[queue[k].node].prompt
          /\ \A w \in Workers :
               job[w] # None => job[w].payload = slot'[job[w].node].prompt
          /\ \A m \in Slots : slot'[m].state = "filled" =>
               slot'[m].payload = slot'[m].prompt
      BY <1>2, <1>3, <1>4, SlotChanged
    <2> QED BY <1>2, <2>1 DEF OwnSlot, OwnJobs, Stored, handler, CInv
  <1> QED BY <1>2, <1>5 DEF CInv, Sole, Findable, OwnPromise, Answers, handler

LEMMA CalmL0Evicts ==
  ASSUME IInv, CInv, Patient', NEW p \in Prompts, L0Evicts(p)
  PROVE  CInv'
  <1>1. \A q \in Prompts : l0'[q] \in {None, q}
    BY DEF L0Evicts, CInv, Stored, IInv, TypeOK
  <1>2. Stored'
    BY <1>1 DEF L0Evicts, CInv, Stored, engine
  <1>3. UNCHANGED <<engine, registry, promise, queue, job, handler>>
    BY DEF L0Evicts
  <1> QED BY <1>2, <1>3 DEF CInv, Sole, Findable, OwnSlot, OwnJobs, OwnPromise,
                            Answers, engine, handler

LEMMA CalmWork ==
  ASSUME IInv, CInv, Patient', NEW w \in Workers, Work(w)
  PROVE  CInv'
  <1>1. UNCHANGED <<l0, registry, promise, handler>>
    BY DEF Work, TakeJob, WriteBack, WriteLost
  <1>2. Sole' /\ Findable' /\ OwnPromise' /\ Answers'
    BY <1>1 DEF CInv, Sole, Findable, OwnPromise, Answers, handler
  <1>3. CASE TakeJob(w)
    <2>1. /\ Head(queue) = queue[1] /\ 1 \in DOMAIN queue
          /\ \A k \in DOMAIN Tail(queue) :
               k + 1 \in DOMAIN queue /\ Tail(queue)[k] = queue[k + 1]
      BY <1>3 DEF TakeJob, IInv, TypeOK
    <2>2. OwnJobs'
      BY <1>3, <2>1 DEF TakeJob, CInv, OwnJobs, IInv, TypeOK, engine
    <2> QED BY <1>2, <1>3, <2>2 DEF TakeJob, CInv, OwnSlot, Stored, handler, engine
  <1>4. CASE WriteBack(w)
    <2>1. /\ job[w].node \in Slots /\ job[w].payload = slot[job[w].node].prompt
      BY <1>4 DEF WriteBack, CInv, OwnJobs, IInv, TypeOK, Job
    <2>2. /\ \A n \in Slots : slot'[n].prompt = slot[n].prompt
          /\ \A n \in Slots : slot'[n].state = "filled" =>
               slot'[n].payload = slot'[n].prompt
      BY <1>4, <2>1 DEF WriteBack, CInv, Stored, IInv, TypeOK
    <2>3. OwnSlot'
      BY <1>1, <2>2 DEF CInv, OwnSlot, IInv, Equipped, handler
    <2>4. OwnJobs'
      <3>1. ASSUME NEW k \in DOMAIN queue PROVE queue[k].node \in Slots
        <4>1. queue[k] \in Job
          BY DEF IInv, TypeOK
        <4> QED BY <4>1 DEF Job
      <3>2. \A v \in Workers : job[v] # None => job[v].node \in Slots
        BY DEF IInv, TypeOK, Job
      <3> QED BY <1>4, <2>2, <3>1, <3>2 DEF WriteBack, CInv, OwnJobs, IInv, TypeOK
    <2> QED BY <1>1, <1>2, <2>2, <2>3, <2>4 DEF CInv, Stored
  <1>5. CASE WriteLost(w)
    <2>1. OwnJobs'
      BY <1>5 DEF WriteLost, CInv, OwnJobs, IInv, TypeOK, engine
    <2> QED BY <1>2, <1>5, <2>1 DEF WriteLost, CInv, OwnSlot, Stored, handler, engine
  <1> QED BY <1>3, <1>4, <1>5 DEF Work

(* A slot that is free is awaited by nobody.                               *)
LEMMA CalmReserve ==
  ASSUME IInv, CInv, NEW r \in Requests, NEW n \in Slots,
         ReserveFor(n, prompt[r]), prompt[r] \in Prompts
  PROVE  /\ ~Awaiting(n) /\ slot'[n].prompt = prompt[r]
         /\ \A s \in Requests : pc[s] \in Pioneering \cup Herding =>
              slot'[node[s]].prompt = prompt[s] /\ node[s] # n
         /\ \A k \in DOMAIN queue : queue[k].payload = slot'[queue[k].node].prompt
         /\ \A w \in Workers :
              job[w] # None => job[w].payload = slot'[job[w].node].prompt
         /\ \A m \in Slots : slot'[m].state = "filled" =>
              slot'[m].payload = slot'[m].prompt
  <1> DEFINE c == [state |-> "reserved", prompt |-> prompt[r], payload |-> None]
  <1>1. c \in Contents /\ c.state # "filled" /\ c.prompt = prompt[r]
    BY DEF Contents
  <1>2. slot' = [slot EXCEPT ![n] = c] /\ ~Awaiting(n)
    BY DEF ReserveFor, CInv, Patient
  <1>3. slot'[n] = c
    BY <1>2 DEF IInv, TypeOK
  <1> HIDE DEF c
  <1> QED BY <1>1, <1>2, <1>3, SlotChanged

LEMMA CalmReceive ==
  ASSUME IInv, CInv, Patient', NEW r \in Requests,
         \/ TooManyRequests(r) \/ BadRequest(r)
         \/ \E p \in Prompts : Receive(r, p)
  PROVE  CInv'
  <1>1. /\ pc[r] = "new"
        /\ UNCHANGED <<slot, l0, registry, promise, queue, job, node, awaits>>
        /\ \E l \in {"done", "check", "forward"} : Goto(r, l)
    BY DEF TooManyRequests, BadRequest, Receive, engine
  <1>2. /\ \A s \in Requests \ {r} :
             /\ pc'[s] = pc[s] /\ prompt'[s] = prompt[s]
             /\ response'[s] = response[s]
        /\ pc'[r] \in {"done", "check", "forward"}
        /\ response'[r] \in {None, "error", prompt'[r]}
    <2>1. CASE TooManyRequests(r) \/ BadRequest(r)
      BY <2>1 DEF TooManyRequests, BadRequest, Goto, WriteError, IInv, TypeOK
    <2>2. ASSUME NEW p \in Prompts, Receive(r, p)
          PROVE  <1>2!1 /\ <1>2!2 /\ <1>2!3
      <3>1. l0[p] \in {None, p} /\ response[r] = None
        BY <1>1 DEF CInv, Stored, Answers
      <3> QED BY <2>2, <3>1 DEF Receive, Goto, WritePayload, IInv, TypeOK
    <2> QED BY <2>1, <2>2
  <1>3. Sole' /\ Findable' /\ OwnSlot'
    BY <1>1, <1>2 DEF CInv, Sole, Findable, OwnSlot, Pioneering, Holding, Herding
  <1>4. OwnJobs' /\ Stored'
    BY <1>1 DEF CInv, OwnJobs, Stored
  <1>5. OwnPromise'
    BY <1>1, <1>2 DEF CInv, OwnPromise, IInv, Equipped
  <1>6. Answers'
    BY <1>1, <1>2 DEF CInv, Answers
  <1> QED BY <1>3, <1>4, <1>5, <1>6 DEF CInv

(* The engine's answers: a filled slot's payload is the prompt's own, and  *)
(* a slot reserved afresh has no other pioneer.                            *)
LEMMA CalmCheck ==
  ASSUME IInv, CInv, Patient', NEW r \in Requests, Check(r)
  PROVE  CInv'
  <1>1. /\ pc[r] = "check"
        /\ UNCHANGED <<l0, registry, promise, queue, job, prompt, awaits>>
        /\ prompt[r] \in Prompts
    BY DEF Check, CheckHit, CheckPending, CheckMiss, CheckFails, engine, IInv,
           Equipped
  <1>2. /\ pc' = [pc EXCEPT ![r] = pc'[r]]
        /\ pc'[r] \in {"done", "lookup", "register", "forward"}
    BY DEF Check, CheckHit, CheckPending, CheckMiss, CheckFails, Goto, IInv,
           TypeOK
  <1>3. OwnPromise'
    BY <1>1, <1>2 DEF CInv, OwnPromise, IInv, TypeOK, Equipped
  <1>4. CASE CheckHit(r)
    <2>1. PICK n \in Slots : slot[n].state = "filled" /\ slot[n].prompt = prompt[r]
                             /\ WritePayload(r, slot[n].payload)
      BY <1>4 DEF CheckHit
    <2>2. slot[n].payload = prompt[r]
      BY <2>1 DEF CInv, Stored
    <2>3. Answers'
      BY <1>1, <1>2, <2>1, <2>2 DEF CInv, Answers, WritePayload, IInv, TypeOK
    <2>4. /\ UNCHANGED <<slot, node>> /\ pc'[r] = "done"
      BY <1>4 DEF CheckHit, Goto, engine, IInv, TypeOK
    <2>5. Sole' /\ Findable' /\ OwnSlot'
      BY <1>1, <1>2, <2>4
      DEF CInv, Sole, Findable, OwnSlot, Pioneering, Holding, Herding, IInv, TypeOK
    <2> QED BY <1>1, <1>3, <2>3, <2>4, <2>5 DEF CInv, OwnJobs, Stored
  <1>5. CASE CheckPending(r)
    <2>1. PICK n \in Slots : slot[n].prompt = prompt[r]
                             /\ node' = [node EXCEPT ![r] = n]
      BY <1>5 DEF CheckPending
    <2>2. /\ UNCHANGED <<slot, response>> /\ pc'[r] = "lookup"
      BY <1>5 DEF CheckPending, Goto, engine, IInv, TypeOK
    <2>3. Sole' /\ Findable' /\ OwnSlot'
      BY <1>1, <1>2, <2>1, <2>2
      DEF CInv, Sole, Findable, OwnSlot, Pioneering, Holding, Herding, IInv, TypeOK
    <2>4. Answers'
      BY <1>1, <1>2, <2>2 DEF CInv, Answers, IInv, TypeOK
    <2> QED BY <1>1, <1>3, <2>2, <2>3, <2>4 DEF CInv, OwnJobs, Stored
  <1>6. CASE CheckMiss(r)
    <2>1. PICK n \in Slots : ReserveFor(n, prompt[r])
                             /\ node' = [node EXCEPT ![r] = n]
      BY <1>6 DEF CheckMiss
    <2>2. /\ UNCHANGED response /\ pc'[r] = "register"
      BY <1>6 DEF CheckMiss, Goto, IInv, TypeOK
    <2>3. /\ slot'[n].prompt = prompt[r]
          /\ \A s \in Requests : pc[s] \in Pioneering \cup Herding =>
               slot'[node[s]].prompt = prompt[s] /\ node[s] # n
          /\ \A k \in DOMAIN queue : queue[k].payload = slot'[queue[k].node].prompt
          /\ \A w \in Workers :
               job[w] # None => job[w].payload = slot'[job[w].node].prompt
          /\ \A m \in Slots : slot'[m].state = "filled" =>
               slot'[m].payload = slot'[m].prompt
      BY <1>1, <2>1, CalmReserve
    <2>4. /\ node'[r] = n /\ \A s \in Requests \ {r} : node'[s] = node[s]
          /\ \A s \in Requests \ {r} : pc'[s] = pc[s]
      BY <1>2, <2>1 DEF IInv, TypeOK
    <2>5. Sole' /\ Findable'
      BY <1>1, <2>2, <2>3, <2>4
      DEF CInv, Sole, Findable, Pioneering, Holding, Herding
    <2>6. OwnSlot'
      BY <1>1, <2>2, <2>3, <2>4 DEF OwnSlot
    <2>7. OwnJobs' /\ Stored'
      BY <1>1, <2>3 DEF CInv, OwnJobs, Stored
    <2>8. Answers'
      BY <1>1, <1>2, <2>2 DEF CInv, Answers, IInv, TypeOK
    <2> QED BY <1>3, <2>5, <2>6, <2>7, <2>8 DEF CInv
  <1>7. CASE CheckFails(r)
    <2>1. /\ UNCHANGED <<response, node>> /\ pc'[r] = "forward"
          /\ \A s \in Requests \ {r} : pc'[s] = pc[s]
      BY <1>7 DEF CheckFails, Goto, IInv, TypeOK
    <2>2. /\ \A s \in Requests : pc[s] \in Pioneering \cup Herding =>
               slot'[node[s]].prompt = prompt[s]
          /\ \A k \in DOMAIN queue : queue[k].payload = slot'[queue[k].node].prompt
          /\ \A w \in Workers :
               job[w] # None => job[w].payload = slot'[job[w].node].prompt
          /\ \A m \in Slots : slot'[m].state = "filled" =>
               slot'[m].payload = slot'[m].prompt
      <3>1. CASE UNCHANGED slot
        BY <3>1 DEF CInv, OwnSlot, OwnJobs, Stored
      <3>2. ASSUME NEW n \in Slots, ReserveFor(n, prompt[r])
            PROVE  <2>2!1 /\ <2>2!2 /\ <2>2!3 /\ <2>2!4
        BY <1>1, <3>2, CalmReserve
      <3> QED BY <1>7, <3>1, <3>2 DEF CheckFails
    <2>3. Sole' /\ Findable' /\ OwnSlot'
      BY <1>1, <2>1, <2>2
      DEF CInv, Sole, Findable, OwnSlot, Pioneering, Holding, Herding
    <2>4. OwnJobs' /\ Stored'
      BY <1>1, <2>2 DEF CInv, OwnJobs, Stored
    <2>5. Answers'
      BY <1>1, <1>2, <2>1 DEF CInv, Answers, IInv, TypeOK
    <2> QED BY <1>3, <2>3, <2>4, <2>5 DEF CInv
  <1> QED BY <1>4, <1>5, <1>6, <1>7 DEF Check

(* An answer of the LLM is the one to the request's own prompt.            *)
LEMMA CalmAnswer ==
  ASSUME CInv, TypeOK, NEW r \in Requests, prompt[r] \in Prompts, pc[r] # "new",
         WritePayload(r, prompt[r]), TrySetL0(prompt[r], prompt[r]),
         NEW l, Goto(r, l), l # "new", UNCHANGED <<slot, prompt>>
  PROVE  Answers' /\ Stored'
  <1>1. Answers'
    BY DEF CInv, Answers, WritePayload, Goto, TypeOK
  <1>2. \A p \in Prompts : l0'[p] \in {None, p}
    BY DEF CInv, Stored, TrySetL0, TypeOK
  <1> QED BY <1>1, <1>2 DEF CInv, Stored

LEMMA CalmError ==
  ASSUME CInv, TypeOK, NEW r \in Requests, pc[r] # "new", WriteError(r),
         NEW l, Goto(r, l), l # "new", UNCHANGED <<slot, l0, prompt>>
  PROVE  Answers' /\ Stored'
  BY DEF CInv, Answers, Stored, WriteError, Goto, TypeOK

LEMMA CalmSilence ==
  ASSUME CInv, TypeOK, NEW r \in Requests, pc[r] # "new",
         NEW l, Goto(r, l), l # "new", UNCHANGED <<slot, l0, prompt, response>>
  PROVE  Answers' /\ Stored'
  BY DEF CInv, Answers, Stored, Goto, TypeOK

(* A request goes from one place to another where it needs no more than    *)
(* it has.                                                                 *)
LEMMA CalmMove ==
  ASSUME IInv, CInv, NEW r \in Requests, NEW l, Goto(r, l),
         l \in Pioneering \cup Herding => pc[r] \in Pioneering \cup Herding,
         l \in Pioneering => pc[r] \in Pioneering,
         UNCHANGED <<slot, prompt, node>>
  PROVE  Sole' /\ OwnSlot'
  <1>1. \A s \in Requests :
          /\ pc'[s] \in Pioneering => pc[s] \in Pioneering
          /\ pc'[s] \in Pioneering \cup Herding => pc[s] \in Pioneering \cup Herding
    BY DEF Goto, IInv, TypeOK
  <1> QED BY <1>1 DEF CInv, Sole, OwnSlot

LEMMA CalmForward ==
  ASSUME IInv, CInv, Patient', NEW r \in Requests, Forward(r)
  PROVE  CInv'
  <1>1. /\ UNCHANGED <<slot, registry, promise, queue, job, prompt, node, awaits>>
        /\ pc[r] \in {"forward", "herdcall"} /\ Goto(r, "done")
        /\ prompt[r] \in Prompts
    BY DEF Forward, ForwardAnswered, ForwardFailed, engine, IInv, Equipped
  <1>2. Answers' /\ Stored'
    <2>1. CASE ForwardAnswered(r)
      BY <1>1, <2>1, CalmAnswer DEF ForwardAnswered, IInv
    <2>2. CASE ForwardFailed(r)
      BY <1>1, <2>2, CalmError DEF ForwardFailed, IInv
    <2> QED BY <2>1, <2>2 DEF Forward
  <1>3. Sole' /\ OwnSlot'
    BY <1>1, CalmMove DEF Pioneering, Holding, Herding
  <1>4. Findable' /\ OwnPromise' /\ OwnJobs'
    BY <1>1
    DEF CInv, Findable, OwnPromise, OwnJobs, Holding, Goto, IInv, TypeOK, Equipped
  <1> QED BY <1>2, <1>3, <1>4 DEF CInv

(* Only the slot's one pioneer registers under it and removes from it, and *)
(* the payload it hands on is the slot's.                                  *)
LEMMA CalmPioneer ==
  ASSUME IInv, CInv, Patient', NEW r \in Requests, Pioneer(r)
  PROVE  CInv'
  <1>1. /\ pc[r] \in {"register", "call", "enqueue", "herdenqueue", "fulfill",
                      "unregister"}
        /\ prompt[r] \in Prompts /\ node[r] \in Slots
        /\ UNCHANGED <<slot, job, prompt, node, awaits>>
    BY DEF Pioneer, PioneerRegister, CallAnswered, CallFailed, Enqueue,
           PioneerFulfill, Unregister, engine, IInv, Equipped, Pioneering,
           Holding, Herding
  <1>2. CASE PioneerRegister(r)
    <2>1. Goto(r, "call") /\ pc[r] = "register"
      BY <1>2 DEF PioneerRegister
    <2>2. Sole' /\ OwnSlot' /\ Answers' /\ Stored'
      BY <1>1, <1>2, <2>1, CalmMove, CalmSilence
      DEF PioneerRegister, Pioneering, Holding, Herding, IInv
    <2>3. Findable'
      <3>1. \A s \in Requests \ {r} : pc'[s] \in Holding =>
              pc[s] \in Holding /\ node[s] # node[r]
        BY <2>1 DEF CInv, Sole, Pioneering, Goto, IInv, TypeOK
      <3> QED BY <1>1, <1>2, <3>1 DEF PioneerRegister, CInv, Findable, IInv, TypeOK
    <2>4. OwnPromise'
      BY <1>1, <1>2, <2>1
      DEF PioneerRegister, CInv, OwnPromise, Goto, IInv, TypeOK, Equipped
    <2>5. OwnJobs'
      BY <1>1, <1>2 DEF PioneerRegister, CInv, OwnJobs
    <2> QED BY <2>2, <2>3, <2>4, <2>5 DEF CInv
  <1>3. CASE CallAnswered(r)
    <2>1. Goto(r, "enqueue") /\ pc[r] = "call"
          /\ UNCHANGED <<registry, promise, queue>>
      BY <1>3 DEF CallAnswered
    <2>2. Sole' /\ OwnSlot'
      BY <1>1, <2>1, CalmMove DEF Pioneering, Holding, Herding
    <2>3. Answers' /\ Stored'
      BY <1>1, <1>3, <2>1, CalmAnswer DEF CallAnswered, IInv
    <2>4. Findable' /\ OwnPromise' /\ OwnJobs'
      BY <1>1, <2>1
      DEF CInv, Findable, OwnPromise, OwnJobs, Holding, Goto, IInv, TypeOK, Equipped
    <2> QED BY <2>2, <2>3, <2>4 DEF CInv
  <1>4. CASE CallFailed(r)
    <2>1. Goto(r, "fulfill") /\ pc[r] = "call"
          /\ UNCHANGED <<l0, registry, promise, queue>>
      BY <1>4 DEF CallFailed
    <2>2. Sole' /\ OwnSlot'
      BY <1>1, <2>1, CalmMove DEF Pioneering, Holding, Herding
    <2>3. Answers' /\ Stored'
      BY <1>1, <1>4, <2>1, CalmError DEF CallFailed, IInv
    <2>4. Findable' /\ OwnPromise' /\ OwnJobs'
      BY <1>1, <2>1
      DEF CInv, Findable, OwnPromise, OwnJobs, Holding, Goto, IInv, TypeOK, Equipped
    <2> QED BY <2>2, <2>3, <2>4 DEF CInv
  <1>5. CASE Enqueue(r)
    <2> DEFINE l == IF pc[r] = "enqueue" THEN "fulfill" ELSE "done"
               mine == [node |-> node[r], payload |-> prompt[r]]
    <2>1. Goto(r, l) /\ pc[r] \in {"enqueue", "herdenqueue"}
          /\ UNCHANGED <<l0, registry, promise, response>>
      BY <1>5 DEF Enqueue
    <2>2. Sole' /\ OwnSlot'
      BY <1>1, <2>1, CalmMove DEF Pioneering, Holding, Herding
    <2>3. Answers' /\ Stored'
      BY <1>1, <2>1, CalmSilence DEF IInv
    <2>4. Findable' /\ OwnPromise'
      BY <1>1, <2>1
      DEF CInv, Findable, OwnPromise, Holding, Goto, IInv, TypeOK, Equipped
    <2>5. OwnJobs'
      <3>1. mine.payload = slot[mine.node].prompt
        BY <2>1 DEF CInv, OwnSlot, Pioneering, Holding, Herding
      <3>2. \A k \in DOMAIN queue' : (k \in DOMAIN queue /\ queue'[k] = queue[k])
                                     \/ queue'[k] = mine
        BY <1>5 DEF Enqueue, IInv, TypeOK
      <3> HIDE DEF mine
      <3> QED BY <1>1, <3>1, <3>2 DEF CInv, OwnJobs
    <2> QED BY <2>2, <2>3, <2>4, <2>5 DEF CInv
  <1>6. CASE PioneerFulfill(r)
    <2>1. Goto(r, "unregister") /\ pc[r] = "fulfill"
          /\ UNCHANGED <<l0, registry, queue, response>>
      BY <1>6 DEF PioneerFulfill
    <2>2. Sole' /\ OwnSlot'
      BY <1>1, <2>1, CalmMove DEF Pioneering, Holding, Herding
    <2>3. Answers' /\ Stored'
      BY <1>1, <2>1, CalmSilence DEF IInv
    <2>4. Findable' /\ OwnJobs'
      BY <1>1, <2>1 DEF CInv, Findable, OwnJobs, Holding, Goto, IInv, TypeOK
    <2>5. OwnPromise'
      BY <1>1, <1>6, <2>1
      DEF PioneerFulfill, CInv, OwnPromise, Goto, IInv, TypeOK, Equipped
    <2> QED BY <2>2, <2>3, <2>4, <2>5 DEF CInv
  <1>7. CASE Unregister(r)
    <2>1. Goto(r, "done") /\ pc[r] = "unregister"
          /\ UNCHANGED <<l0, promise, queue, response>>
      BY <1>7 DEF Unregister
    <2>2. Sole' /\ OwnSlot'
      BY <1>1, <2>1, CalmMove DEF Pioneering, Holding, Herding
    <2>3. Answers' /\ Stored'
      BY <1>1, <2>1, CalmSilence DEF IInv
    <2>4. Findable'
      <3>1. \A s \in Requests : pc'[s] \in Holding =>
              pc[s] \in Holding /\ node[s] # node[r]
        BY <2>1 DEF CInv, Sole, Pioneering, Holding, Goto, IInv, TypeOK
      <3>2. \A s \in Requests : pc'[s] \in Holding =>
              registry'[node[s]] = registry[node[s]]
        BY <1>7, <3>1 DEF Unregister, IInv, TypeOK
      <3> QED BY <1>1, <3>1, <3>2 DEF CInv, Findable
    <2>5. OwnPromise' /\ OwnJobs'
      BY <1>1, <2>1 DEF CInv, OwnPromise, OwnJobs, Goto, IInv, TypeOK, Equipped
    <2> QED BY <2>2, <2>3, <2>4, <2>5 DEF CInv
  <1> QED BY <1>2, <1>3, <1>4, <1>5, <1>6, <1>7 DEF Pioneer

(* The promise the herd finds is that of the slot's pioneer, and so of the *)
(* prompt the slot was reserved for.                                       *)
LEMMA CalmHerd ==
  ASSUME IInv, CInv, Patient', NEW r \in Requests, Herd(r) \/ HerdCancelled(r)
  PROVE  CInv'
  <1>1. /\ pc[r] \in {"lookup", "await", "herdcall"}
        /\ prompt[r] \in Prompts /\ node[r] \in Slots
        /\ UNCHANGED <<slot, registry, promise, queue, job, prompt, node>>
    BY DEF Herd, HerdFinds, HerdFindsNone, HerdServed, HerdDisappointed,
           HerdCallAnswered, HerdCancelled, engine, IInv, Equipped, Pioneering,
           Holding, Herding
  <1>2. OwnJobs'
    BY <1>1 DEF CInv, OwnJobs
  <1>3. \E l \in {"await", "herdcall", "herdenqueue", "done"} : Goto(r, l)
    BY DEF Herd, HerdFinds, HerdFindsNone, HerdServed, HerdDisappointed,
           HerdCallAnswered, HerdCancelled
  <1>4. Sole' /\ OwnSlot' /\ Findable'
    <2>1. PICK l \in {"await", "herdcall", "herdenqueue", "done"} : Goto(r, l)
      BY <1>3
    <2>2. Sole' /\ OwnSlot'
      BY <1>1, <2>1, CalmMove DEF Pioneering, Holding, Herding
    <2>3. Findable'
      BY <1>1, <2>1 DEF CInv, Findable, Holding, Goto, IInv, TypeOK
    <2> QED BY <2>2, <2>3
  <1>5. CASE HerdFinds(r)
    <2>1. Goto(r, "await") /\ UNCHANGED <<l0, response>>
      BY <1>5 DEF HerdFinds
    <2>2. Answers' /\ Stored'
      BY <1>1, <2>1, CalmSilence DEF IInv
    <2> DEFINE q == registry[node[r]]
    <2>3. q \in Requests /\ pc[q] \in Holding /\ node[q] = node[r]
      BY <1>1, <1>5 DEF HerdFinds, IInv, Registered, TypeOK
    <2>4. prompt[q] = prompt[r] /\ pc[q] # "new"
      BY <1>1, <1>5, <2>3
      DEF HerdFinds, CInv, OwnSlot, Pioneering, Herding, Holding
    <2>5. awaits' = [awaits EXCEPT ![r] = q]
      BY <1>5 DEF HerdFinds
    <2> HIDE DEF q
    <2>6. \A s \in Requests : pc'[s] = "new" <=> pc[s] = "new"
      BY <1>1, <2>1 DEF Goto, IInv, TypeOK
    <2>7. OwnPromise'
      <3>1. ASSUME NEW s \in Requests, pc'[s] = "await"
            PROVE  prompt[awaits'[s]] = prompt[s] /\ pc[awaits'[s]] # "new"
                   /\ awaits'[s] \in Requests
        <4>1. CASE s = r
          BY <2>3, <2>4, <2>5, <4>1 DEF IInv, TypeOK
        <4>2. CASE s # r
          BY <2>1, <2>5, <3>1, <4>2
          DEF CInv, OwnPromise, Goto, IInv, TypeOK, Equipped
        <4> QED BY <4>1, <4>2
      <3> QED BY <1>1, <2>6, <3>1 DEF CInv, OwnPromise
    <2> QED BY <1>2, <1>4, <2>2, <2>7 DEF CInv
  <1>7. CASE HerdServed(r)
    <2> DEFINE a == promise[awaits[r]].payload
    <2>1. a = prompt[r]
      BY <1>7 DEF HerdServed, CInv, OwnPromise, IInv, Equipped
    <2>2. Goto(r, "done") /\ UNCHANGED awaits /\ WritePayload(r, a)
          /\ TrySetL0(prompt[r], a) /\ pc[r] = "await"
      BY <1>7 DEF HerdServed
    <2> HIDE DEF a
    <2>3. Answers' /\ Stored'
      BY <1>1, <2>1, <2>2, CalmAnswer DEF IInv
    <2>4. OwnPromise'
      BY <1>1, <2>2 DEF CInv, OwnPromise, Goto, IInv, TypeOK, Equipped
    <2> QED BY <1>2, <1>4, <2>3, <2>4 DEF CInv
  <1>8. CASE HerdCallAnswered(r)
    <2>1. Goto(r, "herdenqueue") /\ UNCHANGED awaits /\ WritePayload(r, prompt[r])
          /\ TrySetL0(prompt[r], prompt[r])
      BY <1>8 DEF HerdCallAnswered
    <2>2. Answers' /\ Stored'
      BY <1>1, <2>1, CalmAnswer DEF IInv
    <2>3. OwnPromise'
      BY <1>1, <2>1 DEF CInv, OwnPromise, Goto, IInv, TypeOK, Equipped
    <2> QED BY <1>2, <1>4, <2>2, <2>3 DEF CInv
  <1>9. CASE HerdFindsNone(r) \/ HerdDisappointed(r) \/ HerdCancelled(r)
    <2>1. PICK l \in {"herdcall", "done"} : Goto(r, l)
      BY <1>9 DEF HerdFindsNone, HerdDisappointed, HerdCancelled
    <2>2. UNCHANGED <<l0, awaits, response>>
      BY <1>9 DEF HerdFindsNone, HerdDisappointed, HerdCancelled
    <2>3. Answers' /\ Stored'
      BY <1>1, <2>1, <2>2, CalmSilence DEF IInv
    <2>4. OwnPromise'
      BY <1>1, <2>1, <2>2 DEF CInv, OwnPromise, Goto, IInv, TypeOK, Equipped
    <2> QED BY <1>2, <1>4, <2>3, <2>4 DEF CInv
  <1> QED BY <1>5, <1>7, <1>8, <1>9 DEF Herd

LEMMA CalmNext == IInv /\ CInv /\ [Next /\ Patient']_vars => IInv' /\ CInv'
  <1> SUFFICES ASSUME IInv, CInv, [Next /\ Patient']_vars
               PROVE  IInv' /\ CInv'
    OBVIOUS
  <1>1. IInv'
    BY NextInv
  <1>2. CASE UNCHANGED vars
    BY <1>1, <1>2
    DEF vars, CInv, Patient, Awaiting, UsedBy, Sole, Findable, OwnSlot, OwnJobs,
        OwnPromise, Answers, Stored
  <1>3. CASE Next /\ Patient'
    BY <1>1, <1>3, CalmEngine, CalmL0Evicts, CalmWork, CalmReceive, CalmCheck, CalmForward,
       CalmPioneer, CalmHerd
    DEF Next, Handle
  <1> QED BY <1>1, <1>2, <1>3

LEMMA CalmInvariance == CalmSpec => [](IInv /\ CInv)
  BY InitInv, CalmInit, CalmNext, PTL DEF CalmSpec

(* As long as slots in use are not given away, a pioneer at work is found  *)
(* by its herd: nobody else registers under its slot or removes it.        *)
THEOREM HerdFindsPioneer == CalmSpec => []PioneerFindable
  <1>1. CInv => PioneerFindable
    BY DEF CInv, Findable, PioneerFindable, Holding
  <1> QED BY <1>1, CalmInvariance, PTL

(* And then every client, the exact-match cache and every slot of the      *)
(* engine get the answer to their own prompt.                              *)
THEOREM AnswersOwnPrompt == CalmSpec => []RightAnswer
  <1>1. CInv => RightAnswer
    BY DEF CInv, Answers, Stored, RightAnswer
  <1> QED BY <1>1, CalmInvariance, PTL
=============================================================================
