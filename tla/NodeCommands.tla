---------------------------- MODULE NodeCommands ----------------------------
(***************************************************************************)
(* The commands "node run", "start", "stop" and "restart" (sprintcmd/) and *)
(* the node processes they act on.  A node is started in the background by *)
(* the procedure of StartNode or runs in the foreground; it opens the      *)
(* stores, which only one process can, and serves.  "stop" and "restart"   *)
(* ask the node, which answers at once and shuts down a moment later;      *)
(* "stop" falls back to a signal to the pid of the pid file.  What happens *)
(* inside a node between these points is in RunServers.                    *)
(***************************************************************************)
EXTENDS StartNode

VARIABLES timer,        \* timer[p]: the delayed shutdowns that are pending
          decided,      \* decided[p]: the first Shutdown of the application
          signal,       \* signal[p]: a SIGINT is on its way
          addressed     \* addressed[c]: the node that has the command's stop

nodeVars == <<timer, decided, signal>>
vars == <<autoupdate, proc, file, pidFile, pc, boot, startVars, disturbed, nodeVars, addressed>>

StopPcs == {"kill", "remove pid"}

TypeOK ==
    /\ StartTypeOK
    /\ pc \in [Starters -> StartPcs \cup StopPcs \cup {"idle", "done"}]
    /\ timer \in [Pids -> SUBSET {"stop", "restart"}]
    /\ decided \in [Pids -> {"no", "stop", "restart"}]
    /\ signal \in [Pids -> BOOLEAN]
    /\ addressed \in [Requests -> 0..MaxPid]
    /\ \A p \in Pids : proc[p].life = "launch" <=> pc[p] \in StartPcs
    /\ \A p \in Pids : signal[p] => Alive(p)

Init ==
    /\ StartInit
    /\ pc = [x \in Starters |-> "idle"]
    /\ timer = [p \in Pids |-> {}]
    /\ decided = [p \in Pids |-> "no"]
    /\ signal = [p \in Pids |-> FALSE]
    /\ addressed = [c \in Requests |-> 0]

-----------------------------------------------------------------------------
\* Who may write or remove the pid file: the procedures that have looked at
\* it, the nodes that are going to restart, and those in the foreground, which
\* have not written their pid and may restart.
Restarting(p) == Alive(p) /\ (~proc[p].daemon \/ decided[p] = "restart" \/ "restart" \in timer[p])
Busy == {x \in Starters : pc[x] \in (StartPcs \ {"stat"}) \cup StopPcs} \cup {p \in Pids : Restarting(p)}

\* The process is gone, with its timers and the signals to it.
Exit(p, end) ==
    /\ proc' = [proc EXCEPT ![p] = Remains(p, end)]
    /\ timer' = [timer EXCEPT ![p] = {}]
    /\ signal' = [signal EXCEPT ![p] = FALSE]
    /\ decided' = [decided EXCEPT ![p] = "no"]

\* The file of the application is taken away, or written again.
Deploy ==
    /\ file' = [file EXCEPT !["app"].build = New - @]
    /\ UNCHANGED <<autoupdate, proc, pidFile, pc, boot, startVars, disturbed, nodeVars, addressed>>

-----------------------------------------------------------------------------
(* The commands.                                                           *)

\* node run: the process is the node; it has or is asked for the boot token.
RunForeground(c) ==
    /\ pc[c] = "idle"
    /\ file["app"].build # 0
    /\ \E p \in Free, b \in BOOLEAN :
        /\ \A q \in Free : p <= q
        /\ proc' = [proc EXCEPT ![p] =
                     [life |-> "spawned", end |-> "", exe |-> "app", build |-> file["app"].build,
                      boot |-> b, daemon |-> FALSE, by |-> c]]
    /\ pc' = [pc EXCEPT ![c] = "done"]
    /\ disturbed' = (disturbed \/ Busy # {} \/ \E p \in Pids : Alive(p))
    /\ UNCHANGED <<autoupdate, file, pidFile, boot, startVars, nodeVars, addressed>>

\* node start: PromptProperty for every bootstrap token, then Start.
RunStart(c) ==
    /\ pc[c] = "idle"
    /\ file["app"].build # 0
    /\ \E b \in BOOLEAN : boot' = [boot EXCEPT ![c] = b]
    /\ pc' = [pc EXCEPT ![c] = "stat"]
    /\ UNCHANGED <<autoupdate, proc, file, pidFile, startVars, disturbed, nodeVars, addressed>>

\* The control server takes a stop or a restart: it will happen after
\* ShutdownDelay.
Node(p, request) ==
    /\ proc[p].life = "up"
    /\ timer' = [timer EXCEPT ![p] = @ \cup {request}]
    /\ disturbed' = (disturbed \/ (request = "restart" /\ (signal[p] \/ Busy \ {p} # {})))

\* node stop, answered.
RunStop(c, p) ==
    /\ pc[c] = "idle"
    /\ Node(p, "stop")
    /\ addressed' = [addressed EXCEPT ![c] = p]
    /\ pc' = [pc EXCEPT ![c] = "done"]
    /\ UNCHANGED <<autoupdate, proc, file, pidFile, boot, startVars, decided, signal>>

\* The answer is lost: the node has the request, the command goes on to kill.
RunStopLost(c, p) ==
    /\ pc[c] = "idle"
    /\ Node(p, "stop")
    /\ pc' = [pc EXCEPT ![c] = "kill"]
    /\ UNCHANGED <<autoupdate, proc, file, pidFile, boot, startVars, decided, signal, addressed>>

\* No node answers, or it refuses.
RunStopFails(c) ==
    /\ pc[c] = "idle"
    /\ pc' = [pc EXCEPT ![c] = "kill"]
    /\ UNCHANGED <<autoupdate, proc, file, pidFile, boot, startVars, disturbed, nodeVars, addressed>>

\* KillServer reads the pid and starts "kill -2", which finds the process or not.
\* Mutant: the signal waits for a process that is gone.
KillServerBlindly(c) ==
    /\ pc[c] = "kill"
    /\ pidFile # 0
    /\ addressed' = [addressed EXCEPT ![c] = pidFile]
    /\ signal' = [signal EXCEPT ![pidFile] = TRUE]
    /\ Alone(c, Busy)
    /\ pc' = [pc EXCEPT ![c] = "remove pid"]
    /\ UNCHANGED <<autoupdate, proc, file, pidFile, boot, startVars, timer, decided>>

KillServer(c) ==
    /\ pc[c] = "kill"
    /\ pidFile # 0
    /\ addressed' = [addressed EXCEPT ![c] = IF Alive(pidFile) THEN pidFile ELSE 0]
    /\ signal' = [p \in Pids |-> signal[p] \/ (p = pidFile /\ Alive(p))]
    /\ Alone(c, Busy)
    /\ pc' = [pc EXCEPT ![c] = "remove pid"]
    /\ UNCHANGED <<autoupdate, proc, file, pidFile, boot, startVars, timer, decided>>

KillServerFails(c) ==
    /\ pc[c] = "kill"
    /\ pidFile = 0
    /\ pc' = [pc EXCEPT ![c] = "done"]
    /\ UNCHANGED <<autoupdate, proc, file, pidFile, boot, startVars, disturbed, nodeVars, addressed>>

\* The pid file is removed whether or not the process was found, and may be
\* another one by now.
RemovePid(c) ==
    /\ pc[c] = "remove pid"
    /\ pidFile' = 0
    /\ pc' = [pc EXCEPT ![c] = "done"]
    /\ UNCHANGED <<autoupdate, proc, file, boot, startVars, disturbed, nodeVars, addressed>>

\* node restart; an error is reported and nothing else is done.
RunRestart(c, p) ==
    /\ pc[c] = "idle"
    /\ Node(p, "restart")
    /\ pc' = [pc EXCEPT ![c] = "done"]
    /\ UNCHANGED <<autoupdate, proc, file, pidFile, boot, startVars, decided, signal, addressed>>

-----------------------------------------------------------------------------
(* A node.                                                                 *)

Holds(p) == proc[p].life \in {"up", "closing"}

\* The core context is created: the boot token opens the secure store, the
\* store's lock is taken, the servers are bound and the signals caught.
OpenCore(p) ==
    /\ proc[p].life = "spawned"
    /\ proc[p].boot
    /\ \A q \in Pids : ~Holds(q)
    /\ proc' = [proc EXCEPT ![p].life = "up"]
    /\ UNCHANGED <<autoupdate, file, pidFile, pc, boot, startVars, disturbed, nodeVars, addressed>>

OpenCoreFails(p) ==
    /\ proc[p].life = "spawned"
    /\ \/ /\ ~proc[p].boot
          /\ Exit(p, "noboot")
       \/ /\ proc[p].boot
          /\ \E q \in Pids : Holds(q)
          /\ Exit(p, "locked")
    /\ UNCHANGED <<autoupdate, file, pidFile, pc, boot, startVars, disturbed, addressed>>

\* The signal comes before signal.Notify.  Mutant: it is caught and forgotten.
Forgotten(p) ==
    /\ proc[p].life = "spawned"
    /\ signal[p]
    /\ signal' = [signal EXCEPT ![p] = FALSE]
    /\ UNCHANGED <<autoupdate, proc, file, pidFile, pc, boot, startVars, disturbed, timer, decided, addressed>>

Killed(p) ==
    /\ proc[p].life = "spawned"
    /\ signal[p]
    /\ Exit(p, "killed")
    /\ UNCHANGED <<autoupdate, file, pidFile, pc, boot, startVars, disturbed, addressed>>

Shutdown(p, request) ==
    decided' = [decided EXCEPT ![p] = IF @ = "no" THEN request ELSE @]

\* A timer runs out.
Fire(p, request) ==
    /\ request \in timer[p]
    /\ timer' = [timer EXCEPT ![p] = @ \ {request}]
    /\ Shutdown(p, request)
    /\ UNCHANGED <<autoupdate, proc, file, pidFile, pc, boot, startVars, disturbed, signal, addressed>>

\* The signal goroutine takes the signal; once the node is closing nobody does.
TakeSignal(p) ==
    /\ signal[p]
    /\ proc[p].life \in {"up", "closing", "launch"}
    /\ signal' = [signal EXCEPT ![p] = FALSE]
    /\ IF proc[p].life = "up" THEN Shutdown(p, "stop") ELSE UNCHANGED decided
    /\ UNCHANGED <<autoupdate, proc, file, pidFile, pc, boot, startVars, disturbed, timer, addressed>>

\* runServers returns.
StopServers(p) ==
    /\ proc[p].life = "up"
    /\ decided[p] # "no"
    /\ proc' = [proc EXCEPT ![p].life = "closing"]
    /\ UNCHANGED <<autoupdate, file, pidFile, pc, boot, startVars, disturbed, nodeVars, addressed>>

\* The core is closed and with it the stores; Start(logger, true) follows when
\* the decision was to restart.
CloseCore(p) ==
    /\ proc[p].life = "closing"
    /\ \/ /\ decided[p] = "restart"
          /\ proc' = [proc EXCEPT ![p].life = "launch"]
          /\ pc' = [pc EXCEPT ![p] = "stat"]
          /\ UNCHANGED nodeVars
       \/ /\ decided[p] # "restart"
          /\ Exit(p, "exit")
          /\ UNCHANGED pc
    /\ UNCHANGED <<autoupdate, file, pidFile, boot, startVars, disturbed, addressed>>

\* The process dies at any point.
Crash(p) ==
    /\ Alive(p)
    /\ Cardinality({q \in Pids : proc[q].end = "crashed"}) < MaxCrashes
    /\ Exit(p, "crashed")
    /\ pc' = [pc EXCEPT ![p] = "done"]
    /\ file' = [f \in Paths |-> [file[f] EXCEPT !.writers = @ \ {p}]]
    /\ disturbed' = (disturbed \/ pc[p] = "write")
    /\ target' = [target EXCEPT ![p] = "app"]
    /\ from' = [from EXCEPT ![p] = 0]
    /\ child' = [child EXCEPT ![p] = 0]
    /\ UNCHANGED <<autoupdate, pidFile, boot, addressed>>

\* A step of Start; a node that ends with it takes its timers along.
StartStep(x) ==
    /\ Start(x, Busy)
    /\ IF x \in Pids /\ pc'[x] = "done"
       THEN /\ timer' = [timer EXCEPT ![x] = {}]
            /\ signal' = [signal EXCEPT ![x] = FALSE]
            /\ decided' = [decided EXCEPT ![x] = "no"]
       ELSE UNCHANGED nodeVars
    /\ UNCHANGED addressed

NodeStep(p) ==
    \/ OpenCore(p) \/ OpenCoreFails(p) \/ Killed(p) \/ TakeSignal(p)
    \/ \E r \in {"stop", "restart"} : Fire(p, r)
    \/ StopServers(p) \/ CloseCore(p) \/ StartStep(p)

LaunchStep(c) == StartStep(c)
RequestStep(c) == KillServer(c) \/ KillServerFails(c) \/ RemovePid(c)

\* What the user does.
Launch(c) == RunForeground(c) \/ RunStart(c)
Request(c) ==
    \/ RunStopFails(c)
    \/ \E p \in Pids : RunStop(c, p) \/ RunStopLost(c, p) \/ RunRestart(c, p)

Next ==
    \/ \E c \in Launches : Launch(c) \/ LaunchStep(c)
    \/ \E c \in Requests : Request(c) \/ RequestStep(c)
    \/ \E p \in Pids : NodeStep(p) \/ Crash(p)
    \/ Deploy

Spec == Init /\ [][Next]_vars

\* Processes run; users, deployments and crashes owe nothing.  All that the
\* processes do is finite, so that one that can go on does in the end.
Processing ==
    \/ \E c \in Launches : LaunchStep(c)
    \/ \E c \in Requests : RequestStep(c)
    \/ \E p \in Pids : NodeStep(p)
FairSpec == Spec /\ WF_vars(Processing)

-----------------------------------------------------------------------------
\* A node in the background that nobody has told to go.
Settled(p) ==
    /\ Alive(p) /\ proc[p].daemon /\ proc[p].life # "launch"
    /\ ~signal[p] /\ decided[p] = "no" /\ timer[p] = {}

\* As long as no two procedures have met at the pid file, it names the node in
\* the background whenever nobody is about to change it: after a start, after
\* any number of restarts and after a crash, so that the fallback of "stop"
\* reaches the node and the check of "start" finds it.  implStartNode.Start,
\* implStopNode.KillServer.
PidNamesNode ==
    ~disturbed /\ Busy = {} => \A p \in Pids : Settled(p) => pidFile = p

\* As long as no two procedures have met, a start never puts a second node
\* beside one that runs, whatever was stopped, killed and restarted before.
\* The check of the pid in implStartNode.Start.
OneDaemon ==
    ~disturbed => \A p, q \in Pids : Settled(p) /\ Settled(q) => p = q

\* A start that has found the update never runs what an earlier update left in
\* the spare executable, though removing it, opening, copying or all of them
\* fail, the update is taken away in between, or another start does the same.
\* implStartNode.Start, lines 142 to 160.
NotOlder ==
    [][\A x \in Starters : pc[x] = "spawn" /\ pc'[x] = "write" => proc'[child'[x]].build >= from[x]]_vars

\* A process that p has started has served.
Serves(p) ==
    \E q \in Pids :
        /\ proc[q].by = p
        /\ \/ proc[q].life \in {"up", "closing", "launch"}
           \/ proc[q].end \in {"exit", "restarted", "failed", "refused"}

\* An error of Start, a crash, a signal at the wrong moment, somebody else at
\* the stores, or no pid left within the bound.
Excused(p) ==
    \/ proc[p].end \in {"failed", "crashed"}
    \/ \E q \in Pids : proc[q].by = p /\ proc[q].end \in {"locked", "killed", "crashed"}
    \/ Free = {}

\* A node that has decided to restart is followed by one that serves: Start
\* does not refuse because of the pid file, and the boot token reaches the
\* successor, also from a node whose user typed it.  What is owed stays owed
\* until it is given, so "again and again nothing is owed" says that every
\* restart is honoured.  implRunNode.Run, Environ.
RestartServes ==
    []<>(\A p \in Pids : decided[p] = "restart" \/ proc[p].end = "restarted" => Serves(p) \/ Excused(p))

\* A node that has answered a stop, or whose pid was found by the kill of a
\* stop, ends: also when the signal meets a node that is not ready, that is
\* closing already or is about to restart.  implStopNode.Run.
StopEnds ==
    []<>(\A c \in Requests : addressed[c] # 0 => proc[addressed[c]].life = "dead")
=============================================================================
