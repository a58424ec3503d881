------------------------- MODULE RunServersProofs -------------------------
(***************************************************************************)
(* Proofs about RunServers, for any sets of servers and any number of      *)
(* signals: a node that has left g.Wait holds no port, so that a successor *)
(* finds them free.  The steps of the servers are taken care of first, for *)
(* one server at a time, and then those of the node.                       *)
(***************************************************************************)
EXTENDS RunServers, TLAPS

\* Nothing runs before the servers are spawned.
Quiet ==
    main \in {"contexts", "bind"} =>
        /\ watcher = "none" /\ spawnTodo = {} /\ handler = "none"
        /\ \A s \in Servers : serve[s] = "none" /\ shut[s] = "none" /\ lib[s] = "running"

\* Who holds a port.
Ports ==
    /\ main = "contexts" => \A s \in Servers : listener[s] = "none"
    /\ \A s \in Servers \ bound : listener[s] # "open"
    /\ \A s \in Servers : Returned(s) => listener[s] # "open"
    /\ \A s \in Servers : serve[s] = "serving" /\ lib[s] # "running" => listener[s] # "open"
    /\ \A s \in Servers : shut[s] = "graceful" => lib[s] # "running"
    /\ PastWait => \A s \in Servers : listener[s] # "open"

CoreFirst ==
    /\ main \in Leaving => core # "open"
    /\ successor # "none" => main = "exited"

IInv == TypeOK /\ Quiet /\ Ports /\ CoreFirst

\* The variables that are not the servers'.
othersVars == <<app, main, bindVars, watcherVars, handlerVars, endVars>>

USE MaxSignalsAssumption

LEMMA InitIInv == Init => IInv
<1> SUFFICES ASSUME Init
             PROVE  IInv
  OBVIOUS
<1> USE DEF Init, ServerInit
<1>1. TypeOK
  <2>1. ServerTypeOK
    BY DEF ServerTypeOK, ServeStates, ShutStates, LibStates
  <2>2. app \in Application!LatchStates
    BY DEF Application!LatchInit, Application!LatchStates
  <2>3. signals \in Seq(Signals) /\ Len(signals) = 0
    OBVIOUS
  <2>4. cancelled \in BOOLEAN /\ lumberjack \in BOOLEAN
    OBVIOUS
  <2> QED
    BY <2>1, <2>2, <2>3, <2>4 DEF TypeOK
<1>2. Quiet /\ Ports /\ CoreFirst
  BY DEF Quiet, Ports, CoreFirst, Returned, PastWait, Leaving
<1> QED
  BY <1>1, <1>2 DEF IInv

-----------------------------------------------------------------------------
\* What a step of Serve or Shutdown may do: it never opens a port, and it keeps
\* the relation between a server that has stopped and its port.
LEMMA ServerStep ==
    ASSUME ServerTypeOK, Ports, NEW s \in Servers,
           \/ ServeStep(s) \/ ServeFails(s) \/ ServeFinishes(s) \/ ShutdownStep(s)
           \/ Drained(s) \/ Stopped(s)
    PROVE  /\ ServerTypeOK'
           /\ \A r \in Servers : listener'[r] = "open" => listener[r] = "open"
           /\ \A r \in Servers : Returned(r)' => listener'[r] # "open"
           /\ \A r \in Servers :
                serve'[r] = "serving" /\ lib'[r] # "running" => listener'[r] # "open"
           /\ \A r \in Servers : shut'[r] = "graceful" => lib'[r] # "running"
<1> USE DEF ServerTypeOK, ServeStates, ShutStates, LibStates, Ports, Returned
<1>1. CASE ServeStarts(s) \/ ServeStopped(s) \/ ServeClosed(s) \/ ServeEnds(s)
  BY <1>1 DEF ServeStarts, ServeStopped, ServeClosed, ServeEnds
<1>2. CASE ServeFails(s) \/ ServeFinishes(s)
  BY <1>2 DEF ServeFails, ServeFinishes
<1>3. CASE GracefulStop(s) \/ GracefulStopped(s) \/ GracefulTimeout(s)
  BY <1>3 DEF GracefulStop, GracefulStopped, GracefulTimeout
<1>4. CASE StopReturns(s) \/ CloseListener(s) \/ CloseServer(s)
  BY <1>4 DEF StopReturns, CloseListener, CloseServer
<1>5. CASE Drained(s) \/ Stopped(s)
  BY <1>5 DEF Drained, Stopped
<1> QED
  BY <1>1, <1>2, <1>3, <1>4, <1>5 DEF ServeStep, ShutdownStep

\* The servers only move once they have been spawned.
LEMMA ServerMoves ==
    ASSUME Quiet, NEW s \in Servers,
           \/ ServeStep(s) \/ ServeFails(s) \/ ServeFinishes(s) \/ ShutdownStep(s)
           \/ Drained(s) \/ Stopped(s)
    PROVE  main \notin {"contexts", "bind"}
  BY DEF Quiet, ServeStep, ShutdownStep, ServeStarts, ServeStopped, ServeClosed, ServeEnds, ServeFails,
         ServeFinishes, GracefulStop, GracefulStopped, GracefulTimeout, StopReturns,
         CloseListener, CloseServer, Drained, Stopped

LEMMA GroupStep ==
    ASSUME IInv, NEW s \in Servers,
           \/ Serving(s) \/ ServeReturns(s) \/ ShuttingDown(s) \/ Draining(s) \/ Stopping(s)
    PROVE  IInv'
<1>1. /\ \/ ServeStep(s) \/ ServeFails(s) \/ ServeFinishes(s) \/ ShutdownStep(s)
         \/ Drained(s) \/ Stopped(s)
      /\ Running
      /\ cancelled' = (cancelled \/ \E r \in Servers : serve'[r] = "error")
      /\ UNCHANGED othersVars
  BY DEF Serving, ServeReturns, ShuttingDown, Draining, Stopping, InGroup, othersVars,
         bindVars, watcherVars, handlerVars, endVars
<1>2. ServerTypeOK /\ Ports /\ Quiet /\ CoreFirst /\ TypeOK
  BY DEF IInv, TypeOK
<1>3. ServerTypeOK'
  BY <1>1, <1>2, ServerStep
<1>4. TypeOK'
  BY <1>1, <1>2, <1>3 DEF TypeOK, othersVars, bindVars, watcherVars, handlerVars, endVars
<1>5. Quiet'
  BY <1>1, <1>2, ServerMoves DEF Quiet, othersVars, bindVars, watcherVars, handlerVars
<1>6. Ports'
  <2>1. main \notin {"contexts", "bind"} /\ main' = main /\ bound' = bound
    BY <1>1, <1>2, ServerMoves DEF othersVars, bindVars
  <2>2. \A r \in Servers : listener'[r] = "open" => listener[r] = "open"
    BY <1>1, <1>2, ServerStep
  <2>3. \A r \in Servers :
          /\ Returned(r)' => listener'[r] # "open"
          /\ serve'[r] = "serving" /\ lib'[r] # "running" => listener'[r] # "open"
          /\ shut'[r] = "graceful" => lib'[r] # "running"
    BY <1>1, <1>2, ServerStep
  <2> QED
    BY <1>2, <2>1, <2>2, <2>3 DEF Ports, PastWait, Leaving
<1>7. CoreFirst'
  BY <1>1, <1>2 DEF CoreFirst, othersVars, endVars
<1> QED
  BY <1>4, <1>5, <1>6, <1>7 DEF IInv

-----------------------------------------------------------------------------
LEMMA MainStep ==
    ASSUME IInv, Main
    PROVE  IInv'
<1> USE DEF IInv, Quiet, Ports, CoreFirst, Returned, PastWait, Leaving, bindVars,
            watcherVars, handlerVars, endVars, serverVars
<1>0. TypeOK
  OBVIOUS
<1>1. CASE CreateContexts
  <2>1. TypeOK'
    BY <1>0, <1>1 DEF CreateContexts, TypeOK, ServerTypeOK
  <2> QED
    BY <1>1, <2>1 DEF CreateContexts
<1>2. CASE CreateContextsFails
  <2>1. TypeOK'
    BY <1>0, <1>2 DEF CreateContextsFails, TypeOK, ServerTypeOK
  <2> QED
    BY <1>2, <2>1 DEF CreateContextsFails
<1>3. ASSUME NEW s \in Servers, BindOne(s)
      PROVE  IInv'
  <2>1. TypeOK'
    BY <1>0, <1>3 DEF BindOne, Bind, TypeOK, ServerTypeOK
  <2>2. Ports'
    BY <1>0, <1>3 DEF BindOne, Bind, TypeOK, ServerTypeOK
  <2> QED
    BY <1>3, <2>1, <2>2 DEF BindOne, Bind
<1>4. ASSUME NEW s \in Servers, BindFails(s)
      PROVE  IInv'
  <2>1. TypeOK'
    BY <1>0, <1>4 DEF BindFails, TypeOK, ServerTypeOK
  <2> QED
    BY <1>4, <2>1 DEF BindFails
<1>5. CASE Spawn
  <2>1. TypeOK'
    BY <1>0, <1>5 DEF Spawn, TypeOK, ServerTypeOK, ServeStates
  <2> QED
    BY <1>0, <1>5, <2>1 DEF Spawn, TypeOK, ServerTypeOK
<1>6. CASE WaitReturns
  \* Every bound server has returned, and one that is not bound holds nothing.
  <2>1. TypeOK'
    BY <1>0, <1>6 DEF WaitReturns, TypeOK, ServerTypeOK
  <2>2. \A s \in Servers : listener[s] # "open"
    BY <1>6 DEF WaitReturns
  <2> QED
    BY <1>6, <2>1, <2>2 DEF WaitReturns
<1>7. CASE CloseCore
  <2>1. TypeOK'
    BY <1>0, <1>7 DEF CloseCore, TypeOK, ServerTypeOK
  <2> QED
    BY <1>7, <2>1 DEF CloseCore
<1>8. CASE CheckRestarting
  <2>1. TypeOK'
    BY <1>0, <1>8 DEF CheckRestarting, TypeOK, ServerTypeOK
  <2> QED
    BY <1>8, <2>1 DEF CheckRestarting
<1>9. CASE StartSuccessor \/ Return
  <2>1. TypeOK'
    BY <1>0, <1>9 DEF StartSuccessor, Return, TypeOK, ServerTypeOK
  <2> QED
    BY <1>9, <2>1 DEF StartSuccessor, Return
<1> QED
  BY <1>1, <1>2, <1>3, <1>4, <1>5, <1>6, <1>7, <1>8, <1>9 DEF Main

LEMMA WatcherStep ==
    ASSUME IInv, Watcher
    PROVE  IInv'
<1> USE DEF IInv, Quiet, Ports, CoreFirst, Returned, PastWait, Leaving, bindVars,
            watcherVars, handlerVars, endVars, serverVars
<1>1. CASE WatcherWakes
  BY <1>1 DEF WatcherWakes, TypeOK, ServerTypeOK
<1>2. ASSUME NEW s \in Servers, SpawnShutdown(s)
      PROVE  IInv'
  <2>1. TypeOK'
    BY <1>2 DEF SpawnShutdown, TypeOK, ServerTypeOK, ShutStates
  <2> QED
    BY <1>2, <2>1 DEF SpawnShutdown, TypeOK, ServerTypeOK
<1> QED
  BY <1>1, <1>2 DEF Watcher

LEMMA HandlerStep ==
    ASSUME IInv, Handler
    PROVE  IInv'
<1> USE DEF IInv, Quiet, Ports, CoreFirst, Returned, PastWait, Leaving, bindVars,
            watcherVars, handlerVars, endVars, serverVars
<1>1. CASE Notify
  BY <1>1 DEF Notify, TypeOK, ServerTypeOK
<1>2. CASE TakeSignal
  <2>1. Tail(signals) \in Seq(Signals) /\ Len(Tail(signals)) <= sent
    BY <1>2 DEF TakeSignal, TypeOK
  <2>2. app' \in Application!LatchStates
    BY <1>2 DEF TakeSignal, TypeOK, Application!Shutdown, Application!Decision,
                Application!LatchStates, Application!Decisions
  <2>3. TypeOK'
    BY <1>2, <2>1, <2>2 DEF TakeSignal, TypeOK, ServerTypeOK
  <2> QED
    BY <1>2, <2>3 DEF TakeSignal
<1>3. CASE TakeDone
  <2>1. TypeOK'
    BY <1>3 DEF TakeDone, TypeOK, ServerTypeOK, Application!Shutdown, Application!Decision,
                Application!LatchStates, Application!Decisions
  <2> QED
    BY <1>3, <2>1 DEF TakeDone
<1> QED
  BY <1>1, <1>2, <1>3 DEF Handler

LEMMA SignalStep ==
    ASSUME IInv, NEW signal \in Signals, SendSignal(signal)
    PROVE  IInv'
<1> USE DEF IInv, Quiet, Ports, CoreFirst, Returned, PastWait, Leaving, bindVars,
            watcherVars, handlerVars, endVars, serverVars
<1>1. CASE handler \in {"none", "ready"}
  <2>1. TypeOK'
    BY <1>1 DEF SendSignal, TypeOK, ServerTypeOK
  <2>2. Ports' /\ Quiet' /\ CoreFirst'
    BY <1>1 DEF SendSignal, TypeOK, ServerTypeOK, Running
  <2> QED
    BY <2>1, <2>2
<1>2. CASE handler \notin {"none", "ready"}
  <2>1. Append(signals, signal) \in Seq(Signals) /\ Len(Append(signals, signal)) <= sent + 1
    BY DEF TypeOK
  <2>2. TypeOK'
    <3>1. signals' \in Seq(Signals) /\ Len(signals') <= sent' /\ sent' \in 0..MaxSignals
      BY <1>2, <2>1 DEF SendSignal, TypeOK
    <3>2. ServerTypeOK'
      BY <1>2 DEF SendSignal, TypeOK, ServerTypeOK
    <3> QED
      BY <1>2, <3>1, <3>2 DEF SendSignal, TypeOK
  <2>3. Ports' /\ Quiet' /\ CoreFirst'
    BY <1>2 DEF SendSignal
  <2> QED
    BY <2>2, <2>3
<1> QED
  BY <1>1, <1>2

LEMMA RequestStep ==
    ASSUME IInv, NEW restart \in BOOLEAN, RequestShutdown(restart)
    PROVE  IInv'
<1> USE DEF IInv, Quiet, Ports, CoreFirst, Returned, PastWait, Leaving, bindVars,
            watcherVars, handlerVars, endVars, serverVars
<1>1. TypeOK'
  BY DEF RequestShutdown, TypeOK, ServerTypeOK, Application!Shutdown, Application!Decision,
         Application!LatchStates, Application!Decisions
<1> QED
  BY <1>1 DEF RequestShutdown

LEMMA NextIInv == IInv /\ [Next]_vars => IInv'
<1> SUFFICES ASSUME IInv, [Next]_vars
             PROVE  IInv'
  OBVIOUS
<1>1. CASE UNCHANGED vars
  BY <1>1 DEF vars, serverVars, bindVars, watcherVars, handlerVars, endVars, IInv, TypeOK,
              ServerTypeOK, Quiet, Ports, CoreFirst, Returned, PastWait, Leaving
<1>2. CASE Main \/ Watcher \/ Handler
  BY <1>2, MainStep, WatcherStep, HandlerStep
<1>3. ASSUME NEW s \in Servers,
             \/ Serving(s) \/ ServeReturns(s) \/ ShuttingDown(s) \/ Draining(s) \/ Stopping(s)
      PROVE  IInv'
  BY <1>3, GroupStep
<1>4. CASE \E signal \in Signals : SendSignal(signal)
  BY <1>4, SignalStep
<1>5. CASE \E restart \in BOOLEAN : RequestShutdown(restart)
  BY <1>5, RequestStep
<1> QED
  BY <1>1, <1>2, <1>3, <1>4, <1>5 DEF Next, Gone

\* The inductive invariant of a run of a node.
THEOREM Inductive == Spec => []IInv
  BY InitIInv, NextIInv, PTL DEF Spec

\* The variables keep their types for any sets of servers.
THEOREM TypeCorrect == Spec => []TypeOK
<1>1. IInv => TypeOK
  BY DEF IInv
<1> QED
  BY <1>1, Inductive, PTL

\* A node past g.Wait holds no port, and the successor that implRunNode.Run
\* starts comes after the close of the core context with its stores.
THEOREM PortsAreFree == Spec => []SuccessorFindsAllFree
<1>1. IInv => SuccessorFindsAllFree
  BY DEF IInv, Ports, CoreFirst, SuccessorFindsAllFree, PastWait, Leaving
<1> QED
  BY <1>1, Inductive, PTL
=============================================================================
