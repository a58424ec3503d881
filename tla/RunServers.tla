----------------------------- MODULE RunServers -----------------------------
(***************************************************************************)
(* One run of a node, from the creation of the server contexts to the exit *)
(* of the process: implRunNode.Run (sprintcmd/run_node.go) with            *)
(* doWithServers and runServers (sprintcmd/utils.go).  The main goroutine  *)
(* binds the servers and waits in an errgroup; a watcher goroutine shuts   *)
(* every server down when the group's context is cancelled; a signal       *)
(* goroutine turns SIGINT, SIGTERM and SIGHUP into Application.Shutdown.   *)
(***************************************************************************)
EXTENDS Server, Naturals, Sequences

CONSTANT MaxSignals     \* bound: signals sent to the process

ASSUME MaxSignalsAssumption == MaxSignals \in Nat

VARIABLES app,          \* the application's shutdown latch
          main,         \* the main goroutine
          todo,         \* servers the bind loop has not tried yet
          bound,        \* boundServers
          cancelled,    \* the errgroup has cancelled groupCtx
          lumberjack,   \* the core context holds a rotating log file
          watcher,      \* the watcher goroutine
          spawnTodo,    \* servers whose Shutdown the watcher has yet to start
          handler,      \* the signal goroutine
          signals,      \* signalCh
          sent,         \* signals sent so far
          core,         \* the core context: "open", "closed", or "failed" to close
          successor     \* the process Start(logger, true) leaves behind

bindVars == <<todo, bound>>
watcherVars == <<watcher, spawnTodo>>
handlerVars == <<handler, signals, sent, lumberjack>>
endVars == <<core, successor>>
vars == <<serverVars, app, main, cancelled, bindVars, watcherVars, handlerVars, endVars>>

Application == INSTANCE ShutdownLatch WITH latch <- app

Signals == {"TERM", "HUP"}      \* SIGINT is handled like SIGTERM
Running == main \notin {"exited", "killed"}
Leaving == {"check", "starting", "returning", "exited"}     \* core.Close has returned
PastWait == main \in Leaving \cup {"closing"}

\* groupCtx.Done(): the errgroup cancels on the first error and when Wait
\* returns; its parent is derived from the application.
GroupDone == cancelled \/ app # "open" \/ PastWait

TypeOK ==
    /\ ServerTypeOK
    /\ app \in Application!LatchStates
    /\ main \in Leaving \cup {"contexts", "bind", "wait", "closing", "killed"}
    /\ todo \subseteq Servers
    /\ bound \subseteq Servers
    /\ cancelled \in BOOLEAN
    /\ lumberjack \in BOOLEAN
    /\ watcher \in {"none", "waiting", "spawning"}
    /\ spawnTodo \subseteq bound
    /\ handler \in {"none", "ready", "select", "ended"}
    /\ signals \in Seq(Signals) /\ Len(signals) <= sent
    /\ sent \in 0..MaxSignals
    /\ core \in {"open", "closed", "failed"}
    /\ successor \in {"none", "started", "failed"}

Init ==
    /\ ServerInit
    /\ Application!LatchInit
    /\ main = "contexts"
    /\ todo = {}
    /\ bound = {}
    /\ cancelled = FALSE
    /\ lumberjack \in BOOLEAN
    /\ watcher = "none"
    /\ spawnTodo = {}
    /\ handler = "none"
    /\ signals = <<>>
    /\ sent = 0
    /\ core = "open"
    /\ successor = "none"

-----------------------------------------------------------------------------
(* The main goroutine. *)

\* Every server context is created and its servers are collected.
CreateContexts ==
    /\ main = "contexts"
    /\ main' = "bind"
    /\ todo' = Servers
    /\ UNCHANGED <<serverVars, app, bound, cancelled, watcherVars, handlerVars, endVars>>

\* A server context or an injection fails: runServers returns the error.
CreateContextsFails ==
    /\ main = "contexts"
    /\ main' = "closing"
    /\ UNCHANGED <<serverVars, app, cancelled, bindVars, watcherVars, handlerVars,
                   endVars>>

BindOne(s) ==
    /\ main = "bind"
    /\ s \in todo
    /\ Bind(s)
    /\ todo' = todo \ {s}
    /\ bound' = bound \cup {s}
    /\ UNCHANGED <<app, main, cancelled, watcherVars, handlerVars, endVars>>

\* A server that cannot bind is logged and left out.
BindFails(s) ==
    /\ main = "bind"
    /\ s \in todo
    /\ todo' = todo \ {s}
    /\ UNCHANGED <<serverVars, app, main, bound, cancelled, watcherVars, handlerVars,
                   endVars>>

\* g.Go(server.Serve) for every bound server, then the two goroutines, then
\* g.Wait.
Spawn ==
    /\ main = "bind"
    /\ todo = {}
    /\ serve' = [s \in Servers |-> IF s \in bound THEN "ready" ELSE serve[s]]
    /\ watcher' = "waiting"
    /\ handler' = "ready"
    /\ main' = "wait"
    /\ UNCHANGED <<listener, shut, lib, app, cancelled, lumberjack, spawnTodo,
                   signals, sent, bindVars, endVars>>

\* Mutant of WaitReturns: the node waits for the first goroutine, not for all.
WaitReturnsOnCancel ==
    /\ main = "wait"
    /\ GroupDone
    /\ main' = "closing"
    /\ UNCHANGED <<serverVars, app, cancelled, bindVars, watcherVars, handlerVars,
                   endVars>>

\* g.Wait returns when no goroutine of the group is running: those that have
\* been started so far, the watcher may still add some.
WaitReturns ==
    /\ main = "wait"
    /\ \A s \in bound : Returned(s) /\ shut[s] \in {"none", "done"}
    /\ main' = "closing"
    /\ UNCHANGED <<serverVars, app, cancelled, bindVars, watcherVars, handlerVars,
                   endVars>>

\* The server contexts and then the core context are closed; an error is only
\* logged.
CloseCore ==
    /\ main = "closing"
    /\ core' \in {"closed", "failed"}
    /\ main' = "check"
    /\ UNCHANGED <<serverVars, app, cancelled, successor, bindVars, watcherVars,
                   handlerVars>>

\* Restarting() is asked once.
CheckRestarting ==
    /\ main = "check"
    /\ main' = IF app = "restart" THEN "starting" ELSE "returning"
    /\ UNCHANGED <<serverVars, app, cancelled, bindVars, watcherVars, handlerVars, endVars>>

\* Start(logger, true), which may fail.  Then Run returns and the process ends,
\* whatever its goroutines are doing.
StartSuccessor ==
    /\ main = "starting"
    /\ successor' \in {"started", "failed"}
    /\ main' = "exited"
    /\ UNCHANGED <<serverVars, app, cancelled, core, bindVars, watcherVars, handlerVars>>

\* Run returns without a successor.  A Shutdown that is called only now is still
\* accepted, and its restart flag is read by nobody.
Return ==
    /\ main = "returning"
    /\ main' = "exited"
    /\ UNCHANGED <<serverVars, app, cancelled, bindVars, watcherVars, handlerVars, endVars>>

-----------------------------------------------------------------------------
(* The watcher goroutine. *)

\* Mutant of WatcherWakes: it goes over servers, not over boundServers.
WatcherTakesAll ==
    /\ Running
    /\ watcher = "waiting"
    /\ GroupDone
    /\ watcher' = "spawning"
    /\ spawnTodo' = Servers
    /\ UNCHANGED <<serverVars, app, main, cancelled, bindVars, handlerVars, endVars>>

WatcherWakes ==
    /\ Running
    /\ watcher = "waiting"
    /\ GroupDone
    /\ watcher' = "spawning"
    /\ spawnTodo' = bound
    /\ UNCHANGED <<serverVars, app, main, cancelled, bindVars, handlerVars, endVars>>

\* g.Go(server.Shutdown).
SpawnShutdown(s) ==
    /\ Running
    /\ s \in spawnTodo
    /\ shut' = [shut EXCEPT ![s] = "ready"]
    /\ spawnTodo' = spawnTodo \ {s}
    /\ UNCHANGED <<listener, serve, lib, app, main, cancelled, watcher, bindVars,
                   handlerVars, endVars>>

-----------------------------------------------------------------------------
(* The signal goroutine. *)

Notify ==
    /\ Running
    /\ handler = "ready"
    /\ handler' = "select"
    /\ UNCHANGED <<serverVars, app, main, cancelled, lumberjack, signals, sent,
                   bindVars, watcherVars, endVars>>

\* The first branch of the select: SIGHUP rotates the log file and waits
\* again, or restarts a node that has none; any other signal stops the node.
TakeSignal ==
    /\ Running
    /\ handler = "select"
    /\ signals # <<>>
    /\ signals' = Tail(signals)
    /\ IF Head(signals) = "HUP" /\ lumberjack
         THEN UNCHANGED <<app, handler>>
         ELSE Application!Shutdown(Head(signals) = "HUP") /\ handler' = "ended"
    /\ UNCHANGED <<serverVars, main, cancelled, lumberjack, sent, bindVars,
                   watcherVars, endVars>>

\* The second branch: the application is done, Shutdown(false) comes too late
\* to matter.
TakeDone ==
    /\ Running
    /\ handler = "select"
    /\ app # "open"
    /\ Application!Shutdown(FALSE)
    /\ handler' = "ended"
    /\ UNCHANGED <<serverVars, main, cancelled, lumberjack, signals, sent, bindVars,
                   watcherVars, endVars>>

-----------------------------------------------------------------------------
(* The environment. *)

\* A signal before signal.Notify ends the process; later ones are queued, and
\* nobody reads them once the signal goroutine has ended.
SendSignal(signal) ==
    /\ Running
    /\ sent < MaxSignals
    /\ sent' = sent + 1
    /\ IF handler \in {"none", "ready"}
         THEN /\ main' = "killed"
              /\ listener' = [s \in Servers |->
                                 IF listener[s] = "open" THEN "closed" ELSE listener[s]]
              /\ UNCHANGED signals
         ELSE /\ signals' = Append(signals, signal)
              /\ UNCHANGED <<main, listener>>
    /\ UNCHANGED <<serve, shut, lib, app, cancelled, lumberjack, handler, bindVars,
                   watcherVars, endVars>>

\* The control server or the autoupdate service calls Application.Shutdown.
RequestShutdown(restart) ==
    /\ Running
    /\ app = "open"
    /\ Application!Shutdown(restart)
    /\ UNCHANGED <<serverVars, main, cancelled, bindVars, watcherVars, handlerVars,
                   endVars>>

-----------------------------------------------------------------------------
\* The errgroup: a goroutine that returns an error cancels groupCtx.
InGroup(A) ==
    /\ Running
    /\ A
    /\ cancelled' = (cancelled \/ \E s \in Servers : serve'[s] = "error")
    /\ UNCHANGED <<app, main, bindVars, watcherVars, handlerVars, endVars>>

Serving(s) == InGroup(ServeStep(s))
ServeReturns(s) == InGroup(ServeFails(s) \/ ServeFinishes(s))
ShuttingDown(s) == InGroup(ShutdownStep(s))
Draining(s) == InGroup(Drained(s))
Stopping(s) == InGroup(Stopped(s))

Main ==
    \/ CreateContexts \/ CreateContextsFails
    \/ (\E s \in Servers : BindOne(s) \/ BindFails(s))
    \/ Spawn \/ WaitReturns \/ CloseCore
    \/ CheckRestarting \/ StartSuccessor \/ Return

Watcher == WatcherWakes \/ \E s \in Servers : SpawnShutdown(s)

Handler == Notify \/ TakeSignal \/ TakeDone

\* The process is gone.
Gone == ~Running /\ UNCHANGED vars

Next ==
    \/ Main \/ Watcher \/ Handler
    \/ \E s \in Servers : \/ Serving(s) \/ ServeReturns(s) \/ ShuttingDown(s)
                          \/ Draining(s) \/ Stopping(s)
    \/ \E signal \in Signals : SendSignal(signal)
    \/ \E restart \in BOOLEAN : RequestShutdown(restart)
    \/ Gone

Spec == Init /\ [][Next]_vars

\* Goroutines are scheduled and timeouts expire.  Clients that leave (Drained),
\* failures, signals and requests are up to the environment.
FairSpec ==
    /\ Spec
    /\ WF_vars(Main) /\ WF_vars(Watcher) /\ WF_vars(Handler)
    /\ \A s \in Servers : /\ WF_vars(Serving(s)) /\ WF_vars(ShuttingDown(s))
                          /\ WF_vars(Stopping(s))

-----------------------------------------------------------------------------
\* When g.Wait has returned every port is free, and a successor that
\* implRunNode.Run starts comes after core.Close, which releases the stores unless
\* it fails: it could not bind or open them otherwise.
SuccessorFindsAllFree ==
    /\ PastWait => \A s \in Servers : listener[s] # "open"
    /\ successor = "started" => core # "open" /\ PastWait

\* Once the application shuts down or a server fails the process ends, though
\* the clients of a gRPC server may never leave and a second signal is ignored.
NodeStops == GroupDone ~> ~Running

\* A restart that was accepted before Run has asked Restarting() is carried out,
\* also when a server fails, a stop signal arrives at the same time or the core
\* does not close.
RestartHonoured ==
    (app = "restart" /\ Running /\ main # "returning")
        ~> (successor # "none" \/ main = "killed")

\* The comment above the watcher goroutine: "if application shutdown or first
\* server stops then groupCtx going to be canceled".
StopCancelsGroup == (\E s \in Servers : Returned(s)) => GroupDone

\* Its second line: "if groupCtx canceled we need to shutdown all servers".
AllShutDown == main = "closing" => \A s \in bound : shut[s] = "done"
=============================================================================
