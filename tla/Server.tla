------------------------------- MODULE Server -------------------------------
(***************************************************************************)
(* The servers of a node: Bind, Serve and Shutdown of implGrpcServer       *)
(* (sprintserver/grpc_server.go), of implHttpServer                        *)
(* (sprintserver/http_server.go) and of the sprint.Server beans an         *)
(* application brings itself.  Serve and Shutdown of one server run in     *)
(* goroutines of their own, so every blocking point of theirs is a step.   *)
(* RunServers.tla says when the three are called.                          *)
(***************************************************************************)
CONSTANTS Grpc, Http,   \* the servers built on *grpc.Server and *http.Server
          Custom        \* the sprint.Server beans of the application

Servers == Grpc \cup Http \cup Custom

VARIABLES listener,     \* listener[s]: the TCP socket, "none", "open", "closed"
          serve,        \* serve[s]: the goroutine of Serve and its result
          shut,         \* shut[s]: the goroutine of Shutdown
          lib           \* lib[s]: the *grpc.Server or *http.Server inside

serverVars == <<listener, serve, shut, lib>>

ServeStates == {"none", "ready", "serving", "nil", "error"}
ShutStates == {"none", "ready", "graceful", "stop", "close", "done"}
LibStates == {"running", "quitting", "stopping", "done"}

ServerTypeOK ==
    /\ listener \in [Servers -> {"none", "open", "closed"}]
    /\ serve \in [Servers -> ServeStates]
    /\ shut \in [Servers -> ShutStates]
    /\ lib \in [Servers -> LibStates]

ServerInit ==
    /\ listener = [s \in Servers |-> "none"]
    /\ serve = [s \in Servers |-> "none"]
    /\ shut = [s \in Servers |-> "none"]
    /\ lib = [s \in Servers |-> "running"]

Returned(s) == serve[s] \in {"nil", "error"}

-----------------------------------------------------------------------------
\* net.Listen succeeds (Bind returns an error otherwise and changes nothing).
Bind(s) ==
    /\ listener' = [listener EXCEPT ![s] = "open"]
    /\ UNCHANGED <<serve, shut, lib>>

\* srv.Serve finds its library server running and accepts connections.
ServeStarts(s) ==
    /\ serve[s] = "ready"
    /\ lib[s] = "running"
    /\ serve' = [serve EXCEPT ![s] = "serving"]
    /\ UNCHANGED <<listener, shut, lib>>

\* srv.Serve after Shutdown got there first: both libraries close the listener.
\* grpc says "the server has been stopped", which Serve returns ...
ServeStopped(s) ==
    /\ s \in Grpc
    /\ serve[s] = "ready"
    /\ lib[s] # "running"
    /\ serve' = [serve EXCEPT ![s] = "error"]
    /\ listener' = [listener EXCEPT ![s] = "closed"]
    /\ UNCHANGED <<shut, lib>>

\* ... and net/http "http: Server closed", which Serve turns into nil.
ServeClosed(s) ==
    /\ s \notin Grpc
    /\ serve[s] = "ready"
    /\ lib[s] # "running"
    /\ serve' = [serve EXCEPT ![s] = "nil"]
    /\ listener' = [listener EXCEPT ![s] = "closed"]
    /\ UNCHANGED <<shut, lib>>

\* srv.Serve returns because of Shutdown.  That of grpc blocks until
\* GracefulStop or Stop is through.
ServeEnds(s) ==
    /\ serve[s] = "serving"
    /\ lib[s] = "done"
    /\ serve' = [serve EXCEPT ![s] = "nil"]
    /\ UNCHANGED <<listener, shut, lib>>

\* srv.Serve fails on its own (Accept failed, a panic turned into an error).
\* Both libraries close the listener they served.
ServeFails(s) ==
    /\ serve[s] = "serving"
    /\ lib[s] = "running"
    /\ serve' = [serve EXCEPT ![s] = "error"]
    /\ listener' = [listener EXCEPT ![s] = "closed"]
    /\ UNCHANGED <<shut, lib>>

\* A server of the application has nothing more to do and returns nil.
ServeFinishes(s) ==
    /\ s \in Custom
    /\ serve[s] = "serving"
    /\ lib[s] = "running"
    /\ serve' = [serve EXCEPT ![s] = "nil"]
    /\ listener' = [listener EXCEPT ![s] = "closed"]
    /\ UNCHANGED <<shut, lib>>

-----------------------------------------------------------------------------
\* implGrpcServer.Shutdown closes shutdownCh and starts GracefulStop, which
\* closes the listeners at once and then waits for the clients.
GracefulStop(s) ==
    /\ s \in Grpc
    /\ shut[s] = "ready"
    /\ shut' = [shut EXCEPT ![s] = "graceful"]
    /\ lib' = [lib EXCEPT ![s] = "quitting"]
    /\ listener' = [listener EXCEPT ![s] = IF serve[s] = "serving" THEN "closed" ELSE @]
    /\ UNCHANGED serve

\* doGracefulStop sees stopCh closed and returns true.
GracefulStopped(s) ==
    /\ shut[s] = "graceful"
    /\ lib[s] = "done"
    /\ shut' = [shut EXCEPT ![s] = "close"]
    /\ UNCHANGED <<listener, serve, lib>>

\* Mutant of GracefulTimeout: Shutdown waits for GracefulStop without a limit.
NoGracefulTimeout(s) == FALSE /\ UNCHANGED serverVars

\* gracefulShutdownTimeout is over: doStop calls Stop.
GracefulTimeout(s) ==
    /\ shut[s] = "graceful"
    /\ shut' = [shut EXCEPT ![s] = "stop"]
    /\ lib' = [lib EXCEPT ![s] = IF @ = "done" THEN @ ELSE "stopping"]
    /\ UNCHANGED <<listener, serve>>

\* doStop sees stopCh closed, or shutdownTimeout is over: the result is not
\* looked at.
StopReturns(s) ==
    /\ shut[s] = "stop"
    /\ shut' = [shut EXCEPT ![s] = "close"]
    /\ UNCHANGED <<listener, serve, lib>>

\* t.listener.Close at the end of implGrpcServer.Shutdown.
CloseListener(s) ==
    /\ shut[s] = "close"
    /\ shut' = [shut EXCEPT ![s] = "done"]
    /\ listener' = [listener EXCEPT ![s] = "closed"]
    /\ UNCHANGED <<serve, lib>>

\* implHttpServer.Shutdown: srv.Close and listener.Close, neither waits.  The
\* servers of an application are taken to do the same.
CloseServer(s) ==
    /\ s \notin Grpc
    /\ shut[s] = "ready"
    /\ shut' = [shut EXCEPT ![s] = "done"]
    /\ lib' = [lib EXCEPT ![s] = "done"]
    /\ listener' = [listener EXCEPT ![s] = "closed"]
    /\ UNCHANGED serve

\* The last client of a *grpc.Server that drains goes away: GracefulStop ends.
Drained(s) ==
    /\ s \in Grpc
    /\ lib[s] = "quitting"
    /\ lib' = [lib EXCEPT ![s] = "done"]
    /\ UNCHANGED <<listener, serve, shut>>

\* Stop of a *grpc.Server has closed every connection.
Stopped(s) ==
    /\ s \in Grpc
    /\ lib[s] = "stopping"
    /\ lib' = [lib EXCEPT ![s] = "done"]
    /\ UNCHANGED <<listener, serve, shut>>

\* The steps of Serve and Shutdown that do not need the outside world.
ServeStep(s) == ServeStarts(s) \/ ServeStopped(s) \/ ServeClosed(s) \/ ServeEnds(s)

ShutdownStep(s) ==
    \/ GracefulStop(s) \/ GracefulStopped(s) \/ GracefulTimeout(s)
    \/ StopReturns(s) \/ CloseListener(s) \/ CloseServer(s)
=============================================================================
