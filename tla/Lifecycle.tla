------------------------------ MODULE Lifecycle ------------------------------
(***************************************************************************)
(* The two processes of Strix from start to end: `strix serve`             *)
(* (gateway/internal/cli/serve.go, server.go and the worker pool's Stop)   *)
(* and the vector engine it forks (engine/src/main.cc).                    *)
(*                                                                         *)
(* The gateway forks its engine with the read end of a pipe, polls it over *)
(* the Unix socket until it answers, serves, and on a signal or an error   *)
(* stops its HTTP server and runs what it deferred: it closes the queue of *)
(* the worker pool, the connection, and the write end of the pipe.  The    *)
(* engine warms up, binds the socket, and on a signal drains its calls,    *)
(* joins its threads and frees the arena.                                  *)
(*                                                                         *)
(* `strix serve` may be run again, also while another still runs.  An      *)
(* engine is named by the gateway that forked it.                          *)
(***************************************************************************)
EXTENDS Integers

CONSTANTS
  Gateways,  \* runs of `strix serve`
  Handlers,  \* HTTP requests of each
  None,
  MaxPolls,  \* pollTimeout, in polls
  MaxCalls   \* bound: RPCs under way in an engine

ASSUME LifecycleAssumption ==
  /\ None \notin Gateways
  /\ MaxPolls \in Nat
  /\ MaxCalls \in Nat

VARIABLES
  gw,       \* where runServe of each gateway stands
  polls,    \* polls made
  port,     \* who listens on the HTTP port
  handler,  \* the handlers of each gateway
  pool,     \* its queue of jobs
  forced,   \* it did not wait for its handlers
  conn,     \* the engine its gRPC connection leads to
  pipe,     \* the write end of its death pipe
  socket,   \* the engine that has bound the socket's path
  eng,      \* where main of each engine stands
  flag,     \* g_shutdown_requested
  gc,       \* its garbage collector's thread
  calls,    \* RPCs under way in it
  arena     \* its memory

http == <<port, handler, pool, forced>>
supervisor == <<gw, polls, conn, pipe>>
engine == <<socket, eng, flag, gc, calls, arena>>
vars == <<gw, polls, port, handler, pool, forced, conn, pipe, socket, eng, flag,
          gc, calls, arena>>

-----------------------------------------------------------------------------
Init ==
  /\ gw = [g \in Gateways |-> "off"]
  /\ polls = [g \in Gateways |-> 0]
  /\ port = None
  /\ handler = [g \in Gateways |-> [h \in Handlers |-> "new"]]
  /\ pool = [g \in Gateways |-> "none"]
  /\ forced = [g \in Gateways |-> FALSE]
  /\ conn = [g \in Gateways |-> None]
  /\ pipe = [g \in Gateways |-> "none"]
  /\ socket = None
  /\ eng = [g \in Gateways |-> "none"]
  /\ flag = [g \in Gateways |-> FALSE]
  /\ gc = [g \in Gateways |-> "none"]
  /\ calls = [g \in Gateways |-> 0]
  /\ arena = [g \in Gateways |-> "none"]

Goto(g, label) == gw' = [gw EXCEPT ![g] = label]

(* The port is closed if it was this gateway's.                            *)
ClosePort(g) == port' = IF port = g THEN None ELSE port

-----------------------------------------------------------------------------
(* The gateway: start.                                                     *)

(* The checks before this point only return; the arena is the first thing  *)
(* that main of the engine makes.                                          *)
Start(g) ==
  /\ gw[g] = "off"
  /\ pipe' = [pipe EXCEPT ![g] = "open"]
  /\ eng' = [eng EXCEPT ![g] = "warming"]
  /\ arena' = [arena EXCEPT ![g] = "live"]
  /\ Goto(g, "polling")
  /\ UNCHANGED <<http, polls, conn, socket, flag, gc, calls>>

(* The connection is made when it is needed, to whoever has the socket.    *)
Connect(g) ==
  /\ gw[g] \in {"polling", "serving", "stopping"}
  /\ conn[g] = None
  /\ socket # None
  /\ eng[socket] = "serving"
  /\ conn' = [conn EXCEPT ![g] = socket]
  /\ UNCHANGED <<gw, polls, pipe, http, engine>>

(* The deadline is looked at once, before the loop.                        *)
PingUnavailable_Unbounded(g) ==
  /\ gw[g] = "polling"
  /\ conn[g] = None
  /\ UNCHANGED vars

PingUnavailable(g) ==
  /\ gw[g] = "polling"
  /\ conn[g] = None
  /\ polls[g] < MaxPolls
  /\ polls' = [polls EXCEPT ![g] = @ + 1]
  /\ UNCHANGED <<gw, conn, pipe, http, engine>>

(* The pool is made, the signals are listened to, the server is started.   *)
PingAnswered(g) ==
  /\ gw[g] = "polling"
  /\ conn[g] # None
  /\ pool' = [pool EXCEPT ![g] = "open"]
  /\ Goto(g, "serving")
  /\ UNCHANGED <<polls, conn, pipe, port, handler, forced, engine>>

(* pollTimeout has passed, or a ping failed otherwise than for want of a   *)
(* connection: it may always exceed its pollInterval.                      *)
GiveUp(g) ==
  /\ gw[g] = "polling"
  /\ Goto(g, "closeConn")
  /\ UNCHANGED <<polls, conn, pipe, http, engine>>

Listen(g) ==
  /\ gw[g] = "serving"
  /\ port = None
  /\ port' = g
  /\ UNCHANGED <<supervisor, handler, pool, forced, engine>>

-----------------------------------------------------------------------------
(* The gateway: its handlers, as far as shutdown meets them.               *)

Accept(g, h) ==
  /\ port = g
  /\ handler[g][h] = "new"
  /\ handler' = [handler EXCEPT ![g][h] = "accepted"]
  /\ UNCHANGED <<supervisor, port, pool, forced, engine>>

(* A connection once accepted is served, also when the listener is closed. *)
ReadRequest(g, h) ==
  /\ handler[g][h] = "accepted"
  /\ handler' = [handler EXCEPT ![g][h] = "running"]
  /\ UNCHANGED <<supervisor, port, pool, forced, engine>>

(* The client goes, ReadTimeout passes, or Shutdown finds it idle.         *)
CloseIdle(g, h) ==
  /\ handler[g][h] = "accepted"
  /\ handler' = [handler EXCEPT ![g][h] = "done"]
  /\ UNCHANGED <<supervisor, port, pool, forced, engine>>

(* TryEnqueue of a closed queue panics, which the HTTP server recovers.    *)
Enqueue(g, h) ==
  /\ handler[g][h] = "running"
  /\ handler' = [handler EXCEPT ![g][h] =
                   IF pool[g] = "open" THEN "done" ELSE "panicked"]
  /\ UNCHANGED <<supervisor, port, pool, forced, engine>>

(* Handlers that have nothing to write back.                               *)
Leave(g, h) ==
  /\ handler[g][h] = "running"
  /\ handler' = [handler EXCEPT ![g][h] = "done"]
  /\ UNCHANGED <<supervisor, port, pool, forced, engine>>

-----------------------------------------------------------------------------
(* The gateway: stop.                                                      *)

(* The listener is left open.                                              *)
Stop_StillListening(g) ==
  /\ gw[g] = "serving"
  /\ Goto(g, "stopping")
  /\ UNCHANGED <<polls, conn, pipe, http, engine>>

(* A signal, or a fatal error: HandleService found no credentials.         *)
Stop(g) ==
  /\ gw[g] = "serving"
  /\ ClosePort(g)
  /\ Goto(g, "stopping")
  /\ UNCHANGED <<polls, conn, pipe, handler, pool, forced, engine>>

(* The server stops without waiting for the handlers.                      *)
ShutdownDone_AtOnce(g) ==
  /\ gw[g] = "stopping"
  /\ Goto(g, "stopPool")
  /\ UNCHANGED <<polls, conn, pipe, http, engine>>

(* Connections that Shutdown waits for, or still has to close.             *)
Open(g, h) == handler[g][h] \in {"accepted", "running"}

ShutdownDone(g) ==
  /\ gw[g] = "stopping"
  /\ \A h \in Handlers : ~Open(g, h)
  /\ Goto(g, "stopPool")
  /\ UNCHANGED <<polls, conn, pipe, http, engine>>

ShutdownTimeout(g) ==
  /\ gw[g] = "stopping"
  /\ \E h \in Handlers : Open(g, h)
  /\ forced' = [forced EXCEPT ![g] = TRUE]
  /\ Goto(g, "stopPool")
  /\ UNCHANGED <<polls, conn, pipe, port, handler, pool, engine>>

(* ListenAndServe failed, at once (the port is taken, perhaps by a program *)
(* that is no gateway) or later: no Stop.                                  *)
GatewayCrashed(g) ==
  /\ gw[g] = "serving"
  /\ ClosePort(g)
  /\ forced' = [forced EXCEPT ![g] = TRUE]
  /\ Goto(g, "stopPool")
  /\ UNCHANGED <<polls, conn, pipe, handler, pool, engine>>

StopPool(g) ==
  /\ gw[g] = "stopPool"
  /\ pool' = [pool EXCEPT ![g] = "closed"]
  /\ Goto(g, "closeConn")
  /\ UNCHANGED <<polls, conn, pipe, port, handler, forced, engine>>

CloseConn(g) ==
  /\ gw[g] = "closeConn"
  /\ conn' = [conn EXCEPT ![g] = None]
  /\ Goto(g, "closePipe")
  /\ UNCHANGED <<polls, pipe, http, engine>>

(* The process ends, and all that was in it.                               *)
Exit(g) ==
  /\ Goto(g, "exited")
  /\ pipe' = [pipe EXCEPT ![g] = "closed"]
  /\ conn' = [conn EXCEPT ![g] = None]
  /\ polls' = [polls EXCEPT ![g] = 0]
  /\ ClosePort(g)
  /\ handler' = [handler EXCEPT ![g] = [h \in Handlers |-> "new"]]
  /\ pool' = [pool EXCEPT ![g] = "none"]
  /\ forced' = [forced EXCEPT ![g] = FALSE]
  /\ UNCHANGED engine

ClosePipe(g) == gw[g] = "closePipe" /\ Exit(g)

(* Killed: also by the first signal, while none is listened to.            *)
Killed(g) == gw[g] \notin {"off", "exited"} /\ Exit(g)

-----------------------------------------------------------------------------
(* The engine.                                                             *)

(* RunServer: the path is unlinked and bound anew, the threads started.    *)
Bind(e) ==
  /\ eng[e] = "warming"
  /\ socket' = e
  /\ gc' = [gc EXCEPT ![e] = "running"]
  /\ eng' = [eng EXCEPT ![e] = "serving"]
  /\ UNCHANGED <<supervisor, http, flag, calls, arena>>

Call(g) ==
  LET e == conn[g] IN
  /\ e # None
  /\ eng[e] = "serving"
  /\ calls[e] < MaxCalls
  /\ calls' = [calls EXCEPT ![e] = @ + 1]
  /\ UNCHANGED <<supervisor, http, socket, eng, flag, gc, arena>>

ReturnCall(e) ==
  /\ eng[e] # "exited"
  /\ calls[e] > 0
  /\ calls' = [calls EXCEPT ![e] = @ - 1]
  /\ UNCHANGED <<supervisor, http, socket, eng, flag, gc, arena>>

(* SIGINT or SIGTERM, from outside.                                        *)
SignalHandler(e) ==
  /\ eng[e] \in {"warming", "serving"}
  /\ flag' = [flag EXCEPT ![e] = TRUE]
  /\ UNCHANGED <<supervisor, http, socket, eng, gc, calls, arena>>

Disconnected(e) == [g \in Gateways |-> IF conn[g] = e THEN None ELSE conn[g]]

(* server->Shutdown: no more calls, and the connections are closed.        *)
Shutdown(e) ==
  /\ eng[e] = "serving"
  /\ flag[e]
  /\ conn' = Disconnected(e)
  /\ eng' = [eng EXCEPT ![e] = "draining"]
  /\ UNCHANGED <<gw, polls, pipe, http, socket, flag, gc, calls, arena>>

(* The collector sleeps on whatever the flag says.                         *)
GcEnds_Sleeping(e) ==
  /\ gc[e] = "running"
  /\ flag[e]
  /\ UNCHANGED vars

GcEnds(e) ==
  /\ gc[e] = "running"
  /\ flag[e]
  /\ gc' = [gc EXCEPT ![e] = "ended"]
  /\ UNCHANGED <<supervisor, http, socket, eng, flag, calls, arena>>

(* The collector's thread is detached and not joined.                      *)
JoinThreads_GrpcOnly(e) ==
  /\ eng[e] = "draining"
  /\ calls[e] = 0
  /\ eng' = [eng EXCEPT ![e] = "joined"]
  /\ UNCHANGED <<supervisor, http, socket, flag, gc, calls, arena>>

(* grpc_thread ends when the last call has returned.                       *)
JoinThreads(e) ==
  /\ eng[e] = "draining"
  /\ calls[e] = 0
  /\ gc[e] = "ended"
  /\ eng' = [eng EXCEPT ![e] = "joined"]
  /\ UNCHANGED <<supervisor, http, socket, flag, gc, calls, arena>>

(* The last thing main does.                                               *)
FreeArena(e) ==
  /\ eng[e] = "joined"
  /\ arena' = [arena EXCEPT ![e] = "freed"]
  /\ eng' = [eng EXCEPT ![e] = "exited"]
  /\ flag' = [flag EXCEPT ![e] = FALSE]
  /\ UNCHANGED <<supervisor, http, socket, gc, calls>>

(* An exception nobody catches: the model is not found, the collector's    *)
(* rescue meets a full arena.                                              *)
EngineCrashes(e) ==
  /\ eng[e] \in {"warming", "serving", "draining"}
  /\ conn' = Disconnected(e)
  /\ eng' = [eng EXCEPT ![e] = "exited"]
  /\ gc' = [gc EXCEPT ![e] = "ended"]
  /\ calls' = [calls EXCEPT ![e] = 0]
  /\ arena' = [arena EXCEPT ![e] = "freed"]
  /\ flag' = [flag EXCEPT ![e] = FALSE]
  /\ UNCHANGED <<gw, polls, pipe, http, socket>>

-----------------------------------------------------------------------------
Poll(g) == Connect(g) \/ PingUnavailable(g) \/ PingAnswered(g)

(* GiveUp when no poll is left.                                            *)
PollTimeout(g) == polls[g] = MaxPolls /\ GiveUp(g)

Defers(g) ==
  \/ ShutdownDone(g) \/ ShutdownTimeout(g)
  \/ StopPool(g) \/ CloseConn(g) \/ ClosePipe(g)

Serve(g) ==
  \/ Listen(g) \/ Stop(g) \/ GatewayCrashed(g)
  \/ \E h \in Handlers :
       \/ Accept(g, h) \/ ReadRequest(g, h) \/ CloseIdle(g, h)
       \/ Enqueue(g, h) \/ Leave(g, h)

EngineStep(e) ==
  \/ Bind(e) \/ Shutdown(e) \/ GcEnds(e)
  \/ JoinThreads(e) \/ FreeArena(e)

Outside(g) == Start(g) \/ Killed(g) \/ SignalHandler(g) \/ EngineCrashes(g)

Next ==
  \E g \in Gateways :
    \/ Outside(g)
    \/ Poll(g) \/ GiveUp(g) \/ Serve(g) \/ Defers(g)
    \/ EngineStep(g) \/ Call(g) \/ ReturnCall(g)

Spec == Init /\ [][Next]_vars

(* Loops and waits with a deadline go on; nobody has to start, signal or   *)
(* kill anything, and no request has to come.                              *)
Fairness ==
  \A g \in Gateways :
    /\ WF_vars(Poll(g)) /\ WF_vars(PollTimeout(g)) /\ WF_vars(Defers(g))
    /\ WF_vars(EngineStep(g)) /\ WF_vars(ReturnCall(g))

FairSpec == Spec /\ Fairness

-----------------------------------------------------------------------------
TypeOK ==
  /\ gw \in [Gateways -> {"off", "polling", "serving", "stopping", "stopPool",
                          "closeConn", "closePipe", "exited"}]
  /\ polls \in [Gateways -> 0 .. MaxPolls]
  /\ port \in Gateways \cup {None}
  /\ port # None => gw[port] = "serving"
  /\ handler \in [Gateways -> [Handlers -> {"new", "accepted", "running",
                                            "done", "panicked"}]]
  /\ pool \in [Gateways -> {"none", "open", "closed"}]
  /\ forced \in [Gateways -> BOOLEAN]
  /\ conn \in [Gateways -> Gateways \cup {None}]
  /\ pipe \in [Gateways -> {"none", "open", "closed"}]
  /\ socket \in Gateways \cup {None}
  /\ eng \in [Gateways -> {"none", "warming", "serving", "draining", "joined",
                           "exited"}]
  /\ flag \in [Gateways -> BOOLEAN]
  /\ gc \in [Gateways -> {"none", "running", "ended"}]
  /\ calls \in [Gateways -> 0 .. MaxCalls]
  /\ arena \in [Gateways -> {"none", "live", "freed"}]

(* A handler meets the closed queue of the worker pool only if the grace   *)
(* period ran out before it was done, or the HTTP server broke down.  Only *)
(* enqueuing is in time in a graceful stop: Stop waits for no worker, and  *)
(* what is queued or under way when the process ends does not reach the    *)
(* engine.                                                                 *)
LateOnlyIfForced ==
  \A g \in Gateways, h \in Handlers : handler[g][h] = "panicked" => forced[g]

(* The arena is not freed under a call or under the collector.             *)
ArenaOutlivesUsers ==
  \A e \in Gateways :
    arena[e] = "freed" => calls[e] = 0 /\ gc[e] # "running"

(* `strix serve` never hangs: it comes to serve or gives up, and once told *)
(* to stop it ends, whatever its handlers and the engine do.               *)
ServeSettles ==
  \A g \in Gateways :
    /\ gw[g] = "polling" ~> gw[g] \in {"serving", "exited"}
    /\ gw[g] \notin {"off", "polling", "serving"} ~> gw[g] = "exited"

(* An engine that is told to stop ends, also when it is told before it     *)
(* serves or while calls are under way.                                    *)
EngineStops == \A e \in Gateways : flag[e] ~> eng[e] = "exited"

(* When the gateway has gone its engine goes too ("the Death Pipe EOF      *)
(* signal causes the Vector Engine to exit cleanly on its own").           *)
EngineFollows ==
  \A g \in Gateways : pipe[g] = "closed" ~> eng[g] = "exited"
=============================================================================
