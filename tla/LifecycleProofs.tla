-------------------------- MODULE LifecycleProofs --------------------------
(***************************************************************************)
(* The invariants of Lifecycle, for every number of runs of `strix serve`, *)
(* of handlers, polls and calls: TypeOK, LateOnlyIfForced and              *)
(* ArenaOutlivesUsers.                                                     *)
(***************************************************************************)
EXTENDS Lifecycle, TLAPS

-----------------------------------------------------------------------------
(* TypeOK.                                                                 *)

(* A process that ends leaves well typed what was in it.                   *)
LEMMA ExitType ==
  ASSUME TypeOK, NEW g \in Gateways, Exit(g)
  PROVE  TypeOK'
  BY LifecycleAssumption
  DEF TypeOK, Exit, Goto, ClosePort, http, supervisor, engine

LEMMA SupervisorType ==
  ASSUME TypeOK, NEW g \in Gateways,
         Poll(g) \/ GiveUp(g) \/ Defers(g)
  PROVE  TypeOK'
  <1> USE LifecycleAssumption
          DEF TypeOK, Goto, http, supervisor, engine
  <1>1. CASE Connect(g)
    BY <1>1 DEF Connect
  <1>2. CASE PingUnavailable(g)
    BY <1>2 DEF PingUnavailable
  <1>3. CASE PingAnswered(g)
    BY <1>3 DEF PingAnswered
  <1>4. CASE GiveUp(g)
    BY <1>4 DEF GiveUp
  <1>5. CASE ShutdownDone(g)
    BY <1>5 DEF ShutdownDone
  <1>6. CASE ShutdownTimeout(g)
    BY <1>6 DEF ShutdownTimeout
  <1>7. CASE StopPool(g)
    BY <1>7 DEF StopPool
  <1>8. CASE CloseConn(g)
    BY <1>8 DEF CloseConn
  <1>9. CASE ClosePipe(g)
    BY <1>9, ExitType DEF ClosePipe
  <1> QED
    BY <1>1, <1>2, <1>3, <1>4, <1>5, <1>6, <1>7, <1>8, <1>9 DEF Poll, Defers

LEMMA ServeType ==
  ASSUME TypeOK, NEW g \in Gateways, Serve(g)
  PROVE  TypeOK'
  <1> USE LifecycleAssumption
          DEF TypeOK, Goto, ClosePort, http, supervisor, engine
  <1>1. CASE Listen(g)
    BY <1>1 DEF Listen
  <1>2. CASE Stop(g)
    BY <1>2 DEF Stop
  <1>3. CASE GatewayCrashed(g)
    BY <1>3 DEF GatewayCrashed
  <1>4. ASSUME NEW h \in Handlers, Accept(g, h)
        PROVE  TypeOK'
    BY <1>4 DEF Accept
  <1>5. ASSUME NEW h \in Handlers, Enqueue(g, h)
        PROVE  TypeOK'
    BY <1>5 DEF Enqueue
  <1>6. ASSUME NEW h \in Handlers, Leave(g, h)
        PROVE  TypeOK'
    BY <1>6 DEF Leave
  <1>7. ASSUME NEW h \in Handlers, ReadRequest(g, h)
        PROVE  TypeOK'
    BY <1>7 DEF ReadRequest
  <1>8. ASSUME NEW h \in Handlers, CloseIdle(g, h)
        PROVE  TypeOK'
    BY <1>8 DEF CloseIdle
  <1> QED
    BY <1>1, <1>2, <1>3, <1>4, <1>5, <1>6, <1>7, <1>8 DEF Serve

LEMMA EngineType ==
  ASSUME TypeOK, NEW e \in Gateways,
         EngineStep(e) \/ Call(e) \/ ReturnCall(e)
  PROVE  TypeOK'
  <1> USE LifecycleAssumption
          DEF TypeOK, Goto, http, supervisor, engine
  <1>1. CASE Bind(e)
    BY <1>1 DEF Bind
  <1>2. CASE Shutdown(e)
    BY <1>2 DEF Shutdown, Disconnected
  <1>3. CASE GcEnds(e)
    BY <1>3 DEF GcEnds
  <1>4. CASE JoinThreads(e)
    BY <1>4 DEF JoinThreads
  <1>5. CASE FreeArena(e)
    BY <1>5 DEF FreeArena
  <1>6. CASE Call(e)
    BY <1>6 DEF Call
  <1>7. CASE ReturnCall(e)
    BY <1>7 DEF ReturnCall
  <1> QED BY <1>1, <1>2, <1>3, <1>4, <1>5, <1>6, <1>7 DEF EngineStep

LEMMA OutsideType ==
  ASSUME TypeOK, NEW g \in Gateways, Outside(g)
  PROVE  TypeOK'
  <1> USE LifecycleAssumption
          DEF TypeOK, Goto, http, supervisor, engine
  <1>1. CASE Start(g)
    BY <1>1 DEF Start
  <1>2. CASE Killed(g)
    BY <1>2, ExitType DEF Killed
  <1>3. CASE SignalHandler(g)
    BY <1>3 DEF SignalHandler
  <1>4. CASE EngineCrashes(g)
    BY <1>4 DEF EngineCrashes, Disconnected
  <1> QED BY <1>1, <1>2, <1>3, <1>4 DEF Outside

LEMMA NextType == TypeOK /\ [Next]_vars => TypeOK'
  <1> SUFFICES ASSUME TypeOK, [Next]_vars
               PROVE  TypeOK'
    OBVIOUS
  <1>1. ASSUME NEW g \in Gateways, Outside(g)
        PROVE  TypeOK'
    BY <1>1, OutsideType
  <1>2. ASSUME NEW g \in Gateways, Poll(g) \/ GiveUp(g) \/ Defers(g)
        PROVE  TypeOK'
    BY <1>2, SupervisorType
  <1>3. ASSUME NEW g \in Gateways, Serve(g)
        PROVE  TypeOK'
    BY <1>3, ServeType
  <1>4. ASSUME NEW g \in Gateways, EngineStep(g) \/ Call(g) \/ ReturnCall(g)
        PROVE  TypeOK'
    BY <1>4, EngineType
  <1>5. CASE UNCHANGED vars
    BY <1>5 DEF vars, TypeOK
  <1> QED BY <1>1, <1>2, <1>3, <1>4, <1>5 DEF Next

LEMMA InitType == Init => TypeOK
  BY LifecycleAssumption DEF Init, TypeOK

(* Every variable keeps its type, and whoever holds the HTTP port serves.  *)
THEOREM TypeCorrect == Spec => []TypeOK
  <1> QED BY InitType, NextType, PTL DEF Spec

-----------------------------------------------------------------------------
(* ArenaOutlivesUsers.                                                     *)

(* The engine's main is past its joins only when nobody is left, and frees *)
(* the arena last.                                                         *)
ArenaInv ==
  \A e \in Gateways :
    /\ eng[e] \in {"joined", "exited"} => calls[e] = 0 /\ gc[e] # "running"
    /\ arena[e] = "freed" => eng[e] = "exited"

LEMMA EngineArena ==
  ASSUME TypeOK, ArenaInv, NEW g \in Gateways,
         EngineStep(g) \/ Call(g) \/ ReturnCall(g)
  PROVE  ArenaInv'
  <1> USE DEF TypeOK, ArenaInv
  <1>1. CASE Bind(g)
    BY <1>1 DEF Bind
  <1>2. CASE Shutdown(g)
    BY <1>2 DEF Shutdown
  <1>3. CASE GcEnds(g)
    BY <1>3 DEF GcEnds
  <1>4. CASE JoinThreads(g)
    BY <1>4 DEF JoinThreads
  <1>5. CASE FreeArena(g)
    BY <1>5 DEF FreeArena
  <1>6. CASE Call(g)
    BY <1>6 DEF Call
  <1>7. CASE ReturnCall(g)
    BY <1>7 DEF ReturnCall
  <1> QED BY <1>1, <1>2, <1>3, <1>4, <1>5, <1>6, <1>7 DEF EngineStep

LEMMA NextArena == TypeOK /\ ArenaInv /\ [Next]_vars => ArenaInv'
  <1> SUFFICES ASSUME TypeOK, ArenaInv, [Next]_vars
               PROVE  ArenaInv'
    OBVIOUS
  <1>1. ASSUME NEW g \in Gateways, Outside(g)
        PROVE  ArenaInv'
    <2> USE DEF TypeOK, ArenaInv
    <2>1. CASE Start(g)
      BY <2>1 DEF Start
    <2>2. CASE Killed(g)
      BY <2>2 DEF Killed, Exit, engine
    <2>3. CASE SignalHandler(g)
      BY <2>3 DEF SignalHandler
    <2>4. CASE EngineCrashes(g)
      BY <2>4 DEF EngineCrashes
    <2> QED BY <1>1, <2>1, <2>2, <2>3, <2>4 DEF Outside
  <1>2. ASSUME NEW g \in Gateways,
               Poll(g) \/ GiveUp(g) \/ Defers(g) \/ Serve(g)
        PROVE  ArenaInv'
    <2>1. UNCHANGED engine
      BY <1>2
      DEF Poll, Connect, PingUnavailable, PingAnswered, GiveUp, Defers,
          ShutdownDone, ShutdownTimeout, StopPool, CloseConn, ClosePipe, Exit,
          Serve, Listen, Stop, GatewayCrashed, Accept, ReadRequest, CloseIdle,
          Enqueue, Leave
    <2> QED BY <2>1 DEF engine, ArenaInv
  <1>3. ASSUME NEW g \in Gateways, EngineStep(g) \/ Call(g) \/ ReturnCall(g)
        PROVE  ArenaInv'
    BY <1>3, EngineArena
  <1>4. CASE UNCHANGED vars
    BY <1>4 DEF vars, ArenaInv
  <1> QED BY <1>1, <1>2, <1>3, <1>4 DEF Next

(* The engine's arena is never freed under a call or under the collector,  *)
(* whenever it is told to stop.                                            *)
THEOREM ArenaSafe == Spec => []ArenaOutlivesUsers
  <1>1. Init => ArenaInv
    BY DEF Init, ArenaInv
  <1>2. ArenaInv => ArenaOutlivesUsers
    BY DEF ArenaInv, ArenaOutlivesUsers
  <1> QED BY InitType, NextType, <1>1, NextArena, <1>2, PTL DEF Spec

-----------------------------------------------------------------------------
(* LateOnlyIfForced.                                                       *)

(* While connections are waited for the queue is open; once it is not so   *)
(* any more, those that are still open were not waited for.                *)
LateInv ==
  \A g \in Gateways :
    /\ gw[g] \in {"serving", "stopping"} => pool[g] = "open"
    /\ \A h \in Handlers :
         /\ handler[g][h] = "panicked" => forced[g]
         /\ Open(g, h) => gw[g] \in {"serving", "stopping"} \/ forced[g]

LEMMA SupervisorLate ==
  ASSUME TypeOK, LateInv, NEW g \in Gateways,
         Poll(g) \/ GiveUp(g) \/ Defers(g) \/ Killed(g)
  PROVE  LateInv'
  <1> USE DEF TypeOK, LateInv, Open, Goto, http
  <1>1. CASE Connect(g)
    BY <1>1 DEF Connect
  <1>2. CASE PingUnavailable(g)
    BY <1>2 DEF PingUnavailable
  <1>3. CASE PingAnswered(g)
    BY <1>3 DEF PingAnswered
  <1>4. CASE GiveUp(g)
    BY <1>4 DEF GiveUp
  <1>5. CASE ShutdownDone(g)
    BY <1>5 DEF ShutdownDone
  <1>6. CASE ShutdownTimeout(g)
    BY <1>6 DEF ShutdownTimeout
  <1>7. CASE StopPool(g)
    BY <1>7 DEF StopPool
  <1>8. CASE CloseConn(g)
    BY <1>8 DEF CloseConn
  <1>9. CASE ClosePipe(g) \/ Killed(g)
    <2>1. /\ gw' = [gw EXCEPT ![g] = "exited"]
          /\ handler' = [handler EXCEPT ![g] = [h \in Handlers |-> "new"]]
          /\ pool' = [pool EXCEPT ![g] = "none"]
          /\ forced' = [forced EXCEPT ![g] = FALSE]
      BY <1>9 DEF ClosePipe, Killed, Exit
    <2>2. \A h \in Handlers : gw'[g] = "exited" /\ handler'[g][h] = "new"
      BY <2>1
    <2>3. \A f \in Gateways \ {g} :
            /\ gw'[f] = gw[f] /\ handler'[f] = handler[f]
            /\ pool'[f] = pool[f] /\ forced'[f] = forced[f]
      BY <2>1
    <2>4. gw'[g] = "exited"
      BY <2>1
    <2> QED
      <3> SUFFICES ASSUME NEW f \in Gateways
                   PROVE  LateInv!(f)'
        OBVIOUS
      <3>1. CASE f = g
        BY <3>1, <2>2, <2>4
      <3>2. CASE f # g
        BY <3>2, <2>3
      <3> QED BY <3>1, <3>2
  <1> QED
    BY <1>1, <1>2, <1>3, <1>4, <1>5, <1>6, <1>7, <1>8, <1>9 DEF Poll, Defers

LEMMA ServeLate ==
  ASSUME TypeOK, LateInv, NEW g \in Gateways, Serve(g)
  PROVE  LateInv'
  <1> USE DEF TypeOK, LateInv, Open, Goto, supervisor
  <1>1. CASE Listen(g)
    BY <1>1 DEF Listen
  <1>2. CASE Stop(g)
    BY <1>2 DEF Stop
  <1>3. CASE GatewayCrashed(g)
    BY <1>3 DEF GatewayCrashed
  <1>4. ASSUME NEW h \in Handlers, Accept(g, h)
        PROVE  LateInv'
    <2>1. gw[g] = "serving"
      BY <1>4, LifecycleAssumption DEF Accept
    <2> QED BY <1>4, <2>1 DEF Accept
  <1>5. ASSUME NEW h \in Handlers, Enqueue(g, h)
        PROVE  LateInv'
    BY <1>5 DEF Enqueue
  <1>6. ASSUME NEW h \in Handlers, Leave(g, h)
        PROVE  LateInv'
    BY <1>6 DEF Leave
  <1>7. ASSUME NEW h \in Handlers, ReadRequest(g, h)
        PROVE  LateInv'
    BY <1>7 DEF ReadRequest
  <1>8. ASSUME NEW h \in Handlers, CloseIdle(g, h)
        PROVE  LateInv'
    BY <1>8 DEF CloseIdle
  <1> QED
    BY <1>1, <1>2, <1>3, <1>4, <1>5, <1>6, <1>7, <1>8 DEF Serve

LEMMA NextLate == TypeOK /\ LateInv /\ [Next]_vars => LateInv'
  <1> SUFFICES ASSUME TypeOK, LateInv, [Next]_vars
               PROVE  LateInv'
    OBVIOUS
  <1>1. ASSUME NEW g \in Gateways,
               Poll(g) \/ GiveUp(g) \/ Defers(g) \/ Killed(g)
        PROVE  LateInv'
    BY <1>1, SupervisorLate
  <1>2. ASSUME NEW g \in Gateways, Serve(g)
        PROVE  LateInv'
    BY <1>2, ServeLate
  <1>3. ASSUME NEW g \in Gateways, Start(g)
        PROVE  LateInv'
    BY <1>3 DEF Start, Goto, http, TypeOK, LateInv, Open
  <1>4. ASSUME NEW g \in Gateways,
               \/ EngineStep(g) \/ Call(g) \/ ReturnCall(g)
               \/ SignalHandler(g) \/ EngineCrashes(g)
        PROVE  LateInv'
    <2>1. UNCHANGED <<gw, http>>
      BY <1>4
      DEF EngineStep, Bind, Shutdown, GcEnds, JoinThreads, FreeArena, Call,
          ReturnCall, SignalHandler, EngineCrashes, supervisor
    <2> QED BY <2>1 DEF http, LateInv, Open
  <1>5. CASE UNCHANGED vars
    BY <1>5 DEF vars, LateInv, Open
  <1> QED BY <1>1, <1>2, <1>3, <1>4, <1>5 DEF Next, Outside

(* A handler that its gateway waits for when it stops finds the queue of   *)
(* the worker pool open.                                                   *)
THEOREM GracefulStop == Spec => []LateOnlyIfForced
  <1>1. Init => LateInv
    <2> SUFFICES ASSUME Init, NEW g \in Gateways
                 PROVE  /\ gw[g] = "off"
                        /\ \A h \in Handlers : handler[g][h] = "new"
      BY DEF LateInv, Open
    <2> QED BY DEF Init
  <1>2. LateInv => LateOnlyIfForced
    BY DEF LateInv, LateOnlyIfForced
  <1> QED BY InitType, NextType, <1>1, NextLate, <1>2, PTL DEF Spec
=============================================================================
