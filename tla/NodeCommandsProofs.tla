------------------------- MODULE NodeCommandsProofs -------------------------
(***************************************************************************)
(* Proofs about NodeCommands, for any number of commands, node processes   *)
(* and crashes.  Three invariants on top of each other: the types; which   *)
(* builds the executables can hold, for what a start runs; and, as long as *)
(* no two procedures have met at the pid file, who is named there.         *)
(***************************************************************************)
EXTENDS NodeCommands, TLAPS

Typed ==
    /\ StartTypeOK
    /\ pc \in [Starters -> StartPcs \cup StopPcs \cup {"idle", "done"}]
    /\ timer \in [Pids -> SUBSET {"stop", "restart"}]
    /\ decided \in [Pids -> {"no", "stop", "restart"}]
    /\ signal \in [Pids -> BOOLEAN]
    /\ addressed \in [Requests -> 0..MaxPid]

\* A node that can be told to restart has been up, and it restarts only when
\* that was decided.
Proper(p) ==
    /\ pc[p] \notin StopPcs
    /\ proc[p].life = "launch" <=> pc[p] \in StartPcs
    /\ signal[p] => Alive(p)
    /\ proc[p].life = "closing" => decided[p] # "no"
    /\ proc[p].life = "launch" => decided[p] = "restart"
    /\ proc[p].life \in {"none", "spawned", "dead"} => decided[p] = "no" /\ timer[p] = {}

TInv == Typed /\ \A p \in Pids : Proper(p)

\* The update is the deployed build or is missing, and what has been opened for
\* copying is not the old build any more.
BuildsKnown ==
    /\ file["app"].build # Old
    /\ \A x \in Starters : from[x] # Old
    /\ \A x \in Starters : pc[x] \in {"copy", "spawn"} /\ from[x] # 0 => file[target[x]].build # Old

-----------------------------------------------------------------------------
\* Who may change the pid file, other than a stop that has yet to read it: a
\* start that has passed the check, a stop that is about to remove the file, a
\* node that is to restart.
Late == StartPcs \ {"stat"}
Critical == {c \in Commands : pc[c] \in Late \cup {"remove pid"}} \cup {p \in Pids : Restarting(p)}

\* Who is going to start a node: of those, a command that has passed the check
\* and a node that has not been told to stop before.
Starting(x) ==
    \/ x \in Commands /\ pc[x] \in Late
    \/ x \in Pids /\ Restarting(x) /\ decided[x] # "stop"

\* A node in the background that is not on its way out by a stop.
Staying(p) == Alive(p) /\ proc[p].daemon /\ ~signal[p] /\ decided[p] # "stop"

\* x has started p and is about to write its pid.
Writing(x, p) == pc[x] = "write" /\ child[x] = p

OneAtATime == \A x, y \in Critical : x = y
RestartersUnharmed == \A p \in Pids : Restarting(p) => ~signal[p]
Named == \A p \in Pids : Staying(p) => pidFile = p \/ \E x \in Starters : Writing(x, p)
StartsAlone ==
    \A x \in Starters, p \in Pids : Starting(x) /\ Staying(p) => p = x \/ Writing(x, p)
RemovesAlone ==
    \A c \in Commands, p \in Pids : pc[c] = "remove pid" => ~Staying(p)

Undisturbed == OneAtATime /\ RestartersUnharmed /\ Named /\ StartsAlone /\ RemovesAlone
PidInv == ~disturbed => Undisturbed

IInv == TInv /\ BuildsKnown /\ PidInv

USE StartAssumption

-----------------------------------------------------------------------------
(* The types.                                                              *)

\* Commands and node processes are different starters, and 0 is no pid.
LEMMA Disjoint == Pids \subseteq Starters /\ Commands \subseteq Starters
                    /\ 0 \notin Pids /\ Pids \cap Commands = {} /\ Pids \subseteq 0..MaxPid
                    /\ 0 \in 0..MaxPid
<1>1. MaxPid \in Nat
  BY DEF StartAssumption
<1>2. 0 \notin Pids /\ Pids \subseteq 0..MaxPid /\ Pids \subseteq Nat /\ 0 \in 0..MaxPid
  BY <1>1 DEF Pids
<1>3. Commands \cap Nat = {}
  BY DEF StartAssumption
<1> QED
  BY <1>2, <1>3 DEF Starters

\* The record of a process that has not been started.
LEMMA NoProcessType == NoProcess \in Processes /\ NoProcess.life = "none"
  BY DEF NoProcess, Processes, Lives, Ends, Paths, Builds

\* A process that has ended.
LEMMA RemainsType ==
    ASSUME StartTypeOK, NEW p \in Pids, NEW end \in Ends
    PROVE  /\ Remains(p, end) \in Processes
           /\ Remains(p, end).life = "dead"
<1>1. proc[p].by \in Starters \cup {0}
  BY DEF StartTypeOK, Processes
<1>2. NoProcess \in Processes
  BY NoProcessType
<1>3. ASSUME NEW r \in Processes
      PROVE  /\ [r EXCEPT !.life = "dead", !.end = end, !.by = proc[p].by] \in Processes
             /\ [r EXCEPT !.life = "dead", !.end = end, !.by = proc[p].by].life = "dead"
  BY <1>1 DEF Processes, Lives
<1> QED
  BY <1>2, <1>3 DEF Remains

\* A process that goes on to another stage of its life.
LEMMA LifeType ==
    ASSUME NEW r \in Processes, NEW life \in Lives
    PROVE  /\ [r EXCEPT !.life = life] \in Processes
           /\ [r EXCEPT !.life = life].life = life
           /\ [r EXCEPT !.life = life].daemon = r.daemon
  BY DEF Processes

\* The child of a start, or a node in the foreground.
LEMMA SpawnedType ==
    ASSUME NEW exe \in Paths, NEW build \in Builds, NEW b \in BOOLEAN, NEW d \in BOOLEAN,
           NEW x \in Starters
    PROVE  [life |-> "spawned", end |-> "", exe |-> exe, build |-> build,
            boot |-> b, daemon |-> d, by |-> x] \in Processes
  BY DEF Processes, Lives, Ends

\* The types and the stages hold at first.
LEMMA InitTInv == Init => TInv
<1> SUFFICES ASSUME Init
             PROVE  TInv
  OBVIOUS
<1>1. NoProcess \in Processes /\ NoProcess.life = "none"
  BY NoProcessType
<1>2. StartTypeOK
  <2>1. proc \in [Pids -> Processes]
    BY <1>1 DEF Init, StartInit
  <2>2. file \in [Paths -> [build : Builds, writers : SUBSET Starters]]
    BY DEF Init, StartInit, Builds, Old, New
  <2>3. boot \in [Commands -> BOOLEAN] /\ disturbed \in BOOLEAN
    BY DEF Init, StartInit
  <2> QED
    BY <2>1, <2>2, <2>3 DEF Init, StartInit, StartTypeOK, Paths, Builds
<1>3. \A p \in Pids : proc[p].life = "none" /\ pc[p] = "idle" /\ ~signal[p]
  BY <1>1 DEF Init, StartInit, Starters
<1>4. signal \in [Pids -> BOOLEAN]
  BY DEF Init
<1>5. Typed
  BY <1>2, <1>4 DEF Init, Typed
<1> QED
  BY <1>3, <1>5 DEF Init, TInv, Proper, StartPcs, StopPcs

\* They are what TypeOK says, and more.
LEMMA TInvTypeOK == TInv => TypeOK
  BY DEF TInv, Typed, Proper, TypeOK

\* What a step leaves alone stays proper.
LEMMA SameProper ==
    ASSUME TInv, NEW q \in Pids, proc'[q] = proc[q], pc'[q] = pc[q], signal'[q] = signal[q],
           decided'[q] = decided[q], timer'[q] = timer[q]
    PROVE  Proper(q)'
  BY DEF TInv, Proper, Alive

\* The procedure of x ends, and the node with it.
LEMMA ReturnTInv ==
    ASSUME TInv, NEW x \in Starters, pc[x] \in StartPcs, NEW end \in Ends, Return(x, end),
           autoupdate' = autoupdate, file' = file, pidFile' \in 0..MaxPid, disturbed' \in BOOLEAN,
           addressed' = addressed,
           IF x \in Pids /\ pc'[x] = "done"
           THEN /\ timer' = [timer EXCEPT ![x] = {}]
                /\ signal' = [signal EXCEPT ![x] = FALSE]
                /\ decided' = [decided EXCEPT ![x] = "no"]
           ELSE UNCHANGED nodeVars
    PROVE  TInv'
<1>1. pc' = [pc EXCEPT ![x] = "done"] /\ pc'[x] = "done"
  BY DEF Return, TInv, Typed
<1>2. /\ autoupdate' \in BOOLEAN
      /\ file' \in [Paths -> [build : Builds, writers : SUBSET Starters]]
  BY DEF TInv, Typed, StartTypeOK
<1>3. proc' \in [Pids -> Processes]
  BY RemainsType DEF TInv, Typed, StartTypeOK, Return
<1>4. boot' \in [Commands -> BOOLEAN]
  BY DEF TInv, Typed, StartTypeOK, Return
<1>5. /\ target' \in [Starters -> Paths]
      /\ from' \in [Starters -> Builds]
      /\ child' \in [Starters -> 0..MaxPid]
  BY DEF TInv, Typed, StartTypeOK, Return, Paths, Builds
<1>6. StartTypeOK'
  BY <1>2, <1>3, <1>4, <1>5 DEF StartTypeOK
<1>7. /\ timer' \in [Pids -> SUBSET {"stop", "restart"}]
      /\ decided' \in [Pids -> {"no", "stop", "restart"}]
      /\ signal' \in [Pids -> BOOLEAN]
      /\ addressed' \in [Requests -> 0..MaxPid]
  BY <1>1 DEF TInv, Typed, nodeVars
<1>8. Typed'
  BY <1>1, <1>6, <1>7 DEF TInv, Typed
<1>9. ASSUME NEW q \in Pids
      PROVE  Proper(q)'
  <2>1. CASE q = x
    <3>1. proc'[q].life = "dead"
      BY <2>1, RemainsType DEF TInv, Typed, StartTypeOK, Return
    <3>2. timer'[q] = {} /\ signal'[q] = FALSE /\ decided'[q] = "no"
      BY <1>1, <2>1 DEF TInv, Typed
    <3> QED
      BY <1>1, <2>1, <3>1, <3>2 DEF Proper, StartPcs, StopPcs
  <2>2. CASE q # x
    <3>1. proc'[q] = proc[q] /\ pc'[q] = pc[q]
      BY <2>2, Disjoint DEF TInv, Typed, StartTypeOK, Return
    <3>2. signal'[q] = signal[q] /\ decided'[q] = decided[q] /\ timer'[q] = timer[q]
      BY <1>1, <2>2 DEF TInv, Typed, nodeVars
    <3> QED
      BY <3>1, <3>2, SameProper
  <2> QED
    BY <2>1, <2>2
<1> QED
  BY <1>8, <1>9 DEF TInv

\* A step that moves pc, and of the processes' state nothing else.
LEMMA MoveTInv ==
    ASSUME TInv, StartTypeOK', NEW x \in Starters,
           NEW to \in StartPcs \cup StopPcs \cup {"idle", "done"}, pc' = [pc EXCEPT ![x] = to],
           x \in Pids => pc[x] \in StartPcs /\ to \in StartPcs,
           proc' = proc, nodeVars' = nodeVars, addressed' \in [Requests -> 0..MaxPid]
    PROVE  TInv'
<1>1. Typed'
  BY DEF TInv, Typed, nodeVars
<1>2. ASSUME NEW q \in Pids
      PROVE  Proper(q)'
  <2>1. CASE q = x
    BY <2>1 DEF TInv, Typed, Proper, Alive, nodeVars, StopPcs, StartPcs
  <2>2. CASE q # x
    BY <2>2, Disjoint, SameProper DEF TInv, Typed, nodeVars
  <2> QED
    BY <2>1, <2>2
<1> QED
  BY <1>1, <1>2 DEF TInv

\* What a step of Start leaves alone.
LEMMA StartFrame ==
    ASSUME TInv, NEW x \in Starters, StartStep(x), pc'[x] # "done"
    PROVE  nodeVars' = nodeVars /\ addressed' \in [Requests -> 0..MaxPid]
  BY DEF StartStep, TInv, Typed

\* Every step of Start keeps them,
LEMMA StartTInv ==
    ASSUME TInv, NEW x \in Starters, StartStep(x)
    PROVE  TInv'
<1> USE DEF startVars
<1>0. Start(x, Busy) /\ addressed' = addressed
  BY DEF StartStep
<1>1. CASE StatFails(x) \/ CheckRefuses(x) \/ SpawnFails(x) \/ WritePid(x) \/ WritePidFails(x)
  <2>1. pc[x] \in StartPcs /\ \E end \in Ends : Return(x, end)
    BY <1>1 DEF StatFails, CheckRefuses, SpawnFails, WritePid, WritePidFails, StartPcs, Ends
  <2>2. pidFile' \in 0..MaxPid
    BY <1>1 DEF StatFails, CheckRefuses, SpawnFails, WritePid, WritePidFails, TInv, Typed, StartTypeOK
  <2>3. disturbed' \in BOOLEAN /\ autoupdate' = autoupdate /\ file' = file
    BY <1>1 DEF StatFails, CheckRefuses, SpawnFails, WritePid, WritePidFails, TInv, Typed, StartTypeOK
  <2> QED
    BY <1>0, <2>1, <2>2, <2>3, ReturnTInv DEF StartStep
<1>2. CASE CheckPasses(x, Busy)
  <2>1. StartTypeOK'
    BY <1>2 DEF CheckPasses, Alone, TInv, Typed, StartTypeOK
  <2>2. pc' = [pc EXCEPT ![x] = "find"] /\ pc'[x] = "find"
    BY <1>2 DEF CheckPasses, TInv, Typed
  <2> QED
    BY <1>2, <2>1, <2>2, StartFrame, MoveTInv DEF CheckPasses, StartPcs
<1>3. CASE FindUpdate(x)
  <2>1. file["app"].build \in Builds /\ Executable(x) \in Paths
    BY DEF TInv, Typed, StartTypeOK, Paths, Executable, Processes
  <2>2. target' \in [Starters -> Paths]
    BY <1>3, <2>1 DEF FindUpdate, executableNext, TInv, Typed, StartTypeOK, Paths
  <2>3. from' \in [Starters -> Builds]
    BY <1>3, <2>1 DEF FindUpdate, TInv, Typed, StartTypeOK, Builds
  <2>4. StartTypeOK'
    BY <1>3, <2>2, <2>3 DEF FindUpdate, TInv, Typed, StartTypeOK
  <2>5. \E to \in {"remove", "spawn"} : pc' = [pc EXCEPT ![x] = to] /\ pc'[x] = to
    BY <1>3 DEF FindUpdate, TInv, Typed
  <2> QED
    BY <1>3, <2>4, <2>5, StartFrame, MoveTInv DEF FindUpdate, StartPcs
<1>4. CASE RemoveFile(x)
  <2>1. file' \in [Paths -> [build : Builds, writers : SUBSET Starters]]
    BY <1>4 DEF RemoveFile, TInv, Typed, StartTypeOK, Builds
  <2>2. StartTypeOK'
    BY <1>4, <2>1 DEF RemoveFile, TInv, Typed, StartTypeOK
  <2>3. pc' = [pc EXCEPT ![x] = "open"] /\ pc'[x] = "open"
    BY <1>4 DEF RemoveFile, TInv, Typed
  <2> QED
    BY <1>4, <2>2, <2>3, StartFrame, MoveTInv DEF RemoveFile, StartPcs
<1>5. CASE OpenCopy(x)
  <2>1. file' \in [Paths -> [build : Builds, writers : SUBSET Starters]]
    BY <1>5 DEF OpenCopy, TInv, Typed, StartTypeOK, Builds
  <2>2. from' \in [Starters -> Builds]
    BY <1>5 DEF OpenCopy, TInv, Typed, StartTypeOK, Paths
  <2>3. StartTypeOK'
    BY <1>5, <2>1, <2>2 DEF OpenCopy, TInv, Typed, StartTypeOK
  <2>4. pc' = [pc EXCEPT ![x] = "copy"] /\ pc'[x] = "copy"
    BY <1>5 DEF OpenCopy, TInv, Typed
  <2> QED
    BY <1>5, <2>3, <2>4, StartFrame, MoveTInv DEF OpenCopy, StartPcs
<1>6. CASE CopyDone(x)
  <2>1. file' \in [Paths -> [build : Builds, writers : SUBSET Starters]]
    BY <1>6 DEF CopyDone, TInv, Typed, StartTypeOK
  <2>2. StartTypeOK'
    BY <1>6, <2>1 DEF CopyDone, TInv, Typed, StartTypeOK
  <2>3. pc' = [pc EXCEPT ![x] = "spawn"] /\ pc'[x] = "spawn"
    BY <1>6 DEF CopyDone, TInv, Typed
  <2> QED
    BY <1>6, <2>2, <2>3, StartFrame, MoveTInv DEF CopyDone, StartPcs
<1>7. CASE CopyFails(x)
  <2>1. file' \in [Paths -> [build : Builds, writers : SUBSET Starters]]
    BY <1>7 DEF CopyFails, TInv, Typed, StartTypeOK
  <2>2. StartTypeOK'
    BY <1>7, <2>1 DEF CopyFails, TInv, Typed, StartTypeOK, Paths
  <2>3. pc' = [pc EXCEPT ![x] = "spawn"] /\ pc'[x] = "spawn"
    BY <1>7 DEF CopyFails, TInv, Typed
  <2> QED
    BY <1>7, <2>2, <2>3, StartFrame, MoveTInv DEF CopyFails, StartPcs
<1>8. CASE Spawn(x)
  <2>1. PICK p \in Free : /\ proc' = [proc EXCEPT ![p] =
                               [life |-> "spawned", end |-> "", exe |-> target[x],
                                build |-> file[target[x]].build,
                                boot |-> Environ(x), daemon |-> TRUE, by |-> x]]
                          /\ child' = [child EXCEPT ![x] = p]
    BY <1>8 DEF Spawn
  <2>2. p \in Pids /\ proc[p].life = "none" /\ p \in 0..MaxPid
    BY Disjoint DEF Free
  <2>3. target[x] \in Paths /\ file[target[x]].build \in Builds
    BY DEF TInv, Typed, StartTypeOK
  <2>4. Environ(x) \in BOOLEAN
    BY DEF Environ, TInv, Typed, StartTypeOK, Starters, Processes
  <2>5. proc' \in [Pids -> Processes]
    BY <2>1, <2>2, <2>3, <2>4, SpawnedType DEF TInv, Typed, StartTypeOK
  <2>6. child' \in [Starters -> 0..MaxPid]
    BY <2>1, <2>2 DEF TInv, Typed, StartTypeOK
  <2>7. StartTypeOK'
    BY <1>8, <2>5, <2>6 DEF Spawn, TInv, Typed, StartTypeOK
  <2>8. pc' = [pc EXCEPT ![x] = "write"] /\ pc'[x] = "write" /\ pc[x] = "spawn"
    BY <1>8 DEF Spawn, TInv, Typed
  <2>9. nodeVars' = nodeVars /\ addressed' \in [Requests -> 0..MaxPid]
    BY <2>8, StartFrame
  <2>10. Typed'
    BY <2>7, <2>8, <2>9 DEF TInv, Typed, nodeVars, StartPcs
  <2>11. ASSUME NEW q \in Pids
         PROVE  Proper(q)'
    <3>1. CASE q = x
      <4>1. proc'[q] = proc[q]
        BY <2>1, <2>2, <2>8, <3>1 DEF TInv, Typed, StartTypeOK, Proper, StartPcs
      <4> QED
        BY <2>8, <2>9, <3>1, <4>1 DEF TInv, Proper, Alive, nodeVars, StartPcs, StopPcs
    <3>2. CASE q = p
      <4>1. proc'[q].life = "spawned"
        BY <2>1, <2>2, <3>2 DEF TInv, Typed, StartTypeOK
      <4>2. CASE q # x
        <5>1. pc'[q] = pc[q]
          BY <2>8, <4>2, Disjoint DEF TInv, Typed
        <5> QED
          BY <2>2, <2>9, <3>2, <4>1, <5>1 DEF TInv, Proper, Alive, nodeVars
      <4> QED
        BY <3>1, <4>2
    <3>3. CASE q # x /\ q # p
      BY <2>1, <2>2, <2>8, <2>9, <3>3, Disjoint, SameProper DEF TInv, Typed, StartTypeOK, nodeVars
    <3> QED
      BY <3>1, <3>2, <3>3
  <2> QED
    BY <2>10, <2>11 DEF TInv
<1> QED
  BY <1>0, <1>1, <1>2, <1>3, <1>4, <1>5, <1>6, <1>7, <1>8 DEF Start

\* A node exits; one that was restarting leaves the procedure too.
LEMMA ExitTInv ==
    ASSUME TInv, NEW p \in Pids, NEW end \in Ends, Exit(p, end), StartTypeOK',
           \/ pc' = [pc EXCEPT ![p] = "done"]
           \/ pc' = pc /\ pc[p] \notin StartPcs,
           addressed' = addressed
    PROVE  TInv'
<1>1. Typed'
  BY Disjoint DEF Exit, TInv, Typed
<1>2. ASSUME NEW q \in Pids
      PROVE  Proper(q)'
  <2>1. CASE q = p
    <3>1. proc'[q].life = "dead"
      BY <2>1, RemainsType DEF Exit, TInv, Typed, StartTypeOK
    <3>2. timer'[q] = {} /\ signal'[q] = FALSE /\ decided'[q] = "no"
      BY <2>1 DEF Exit, TInv, Typed
    <3>3. pc'[q] \notin StartPcs /\ pc'[q] \notin StopPcs
      BY <2>1, Disjoint DEF TInv, Typed, Proper, StartPcs, StopPcs
    <3> QED
      BY <3>1, <3>2, <3>3 DEF Proper
  <2>2. CASE q # p
    BY <2>2, Disjoint, SameProper DEF Exit, TInv, Typed, StartTypeOK
  <2> QED
    BY <2>1, <2>2
<1> QED
  BY <1>1, <1>2 DEF TInv

\* A node goes on to another stage of its life.
LEMMA StageTInv ==
    ASSUME TInv, NEW p \in Pids, NEW life \in Lives, proc' = [proc EXCEPT ![p].life = life],
           pc' \in [Starters -> StartPcs \cup StopPcs \cup {"idle", "done"}],
           \A q \in Pids : q # p => pc'[q] = pc[q],
           pc'[p] \notin StopPcs,
           life = "launch" <=> pc'[p] \in StartPcs,
           life = "launch" => decided[p] = "restart",
           life = "closing" => decided[p] # "no",
           life \notin {"none", "spawned", "dead"},
           UNCHANGED <<autoupdate, file, pidFile, boot, startVars, disturbed, nodeVars, addressed>>
    PROVE  TInv'
<1>1. proc' \in [Pids -> Processes]
  BY LifeType DEF TInv, Typed, StartTypeOK
<1>2. StartTypeOK'
  BY <1>1 DEF TInv, Typed, StartTypeOK, startVars
<1>3. Typed'
  BY <1>2 DEF TInv, Typed, nodeVars
<1>4. ASSUME NEW q \in Pids
      PROVE  Proper(q)'
  <2>1. CASE q = p
    <3>1. proc'[q].life = life
      BY <2>1, LifeType DEF TInv, Typed, StartTypeOK
    <3> QED
      BY <2>1, <3>1 DEF TInv, Proper, Alive, nodeVars
  <2>2. CASE q # p
    BY <2>2, SameProper DEF TInv, Typed, StartTypeOK, nodeVars
  <2> QED
    BY <2>1, <2>2
<1> QED
  BY <1>3, <1>4 DEF TInv

\* every step of a node,
LEMMA NodeTInv ==
    ASSUME TInv, NEW p \in Pids, NodeStep(p) \/ Crash(p)
    PROVE  TInv'
<1> USE DEF startVars
<1>1. CASE OpenCore(p)
  <2>1. pc[p] \notin StartPcs /\ pc[p] \notin StopPcs
    BY <1>1 DEF OpenCore, TInv, Proper
  <2> QED
    BY <1>1, <2>1, StageTInv DEF OpenCore, Lives, TInv, Typed
<1>2. CASE OpenCoreFails(p) \/ Killed(p)
  <2>1. PICK end \in Ends : Exit(p, end)
    BY <1>2 DEF OpenCoreFails, Killed, Ends
  <2>2. pc[p] \notin StartPcs /\ pc' = pc
    BY <1>2 DEF OpenCoreFails, Killed, TInv, Proper
  <2>3. proc' \in [Pids -> Processes]
    BY <2>1, RemainsType DEF Exit, TInv, Typed, StartTypeOK
  <2>4. StartTypeOK'
    BY <1>2, <2>3 DEF OpenCoreFails, Killed, TInv, Typed, StartTypeOK
  <2> QED
    BY <1>2, <2>1, <2>2, <2>4, ExitTInv DEF OpenCoreFails, Killed
<1>3. CASE TakeSignal(p)
  <2>1. StartTypeOK'
    BY <1>3 DEF TakeSignal, TInv, Typed, StartTypeOK
  <2>2. decided' \in [Pids -> {"no", "stop", "restart"}] /\ signal' \in [Pids -> BOOLEAN]
    BY <1>3 DEF TakeSignal, Shutdown, TInv, Typed
  <2>3. Typed'
    BY <1>3, <2>1, <2>2 DEF TakeSignal, TInv, Typed
  <2>4. ASSUME NEW q \in Pids
        PROVE  Proper(q)'
    <3>1. CASE q = p
      <4>1. ~signal'[q]
        BY <1>3, <3>1 DEF TakeSignal, TInv, Typed
      <4>2. decided'[q] = decided[q] \/ proc[q].life = "up"
        BY <1>3, <3>1 DEF TakeSignal, Shutdown
      <4> QED
        BY <1>3, <3>1, <4>1, <4>2 DEF TakeSignal, TInv, Proper
    <3>2. CASE q # p
      BY <1>3, <3>2, SameProper DEF TakeSignal, Shutdown, TInv, Typed
    <3> QED
      BY <3>1, <3>2
  <2> QED
    BY <2>3, <2>4 DEF TInv
<1>4. ASSUME NEW r \in {"stop", "restart"}, Fire(p, r)
      PROVE  TInv'
  <2>1. StartTypeOK'
    BY <1>4 DEF Fire, TInv, Typed, StartTypeOK
  <2>2. /\ decided' \in [Pids -> {"no", "stop", "restart"}]
        /\ timer' \in [Pids -> SUBSET {"stop", "restart"}]
    BY <1>4 DEF Fire, Shutdown, TInv, Typed
  <2>3. Typed'
    BY <1>4, <2>1, <2>2 DEF Fire, TInv, Typed
  <2>4. ASSUME NEW q \in Pids
        PROVE  Proper(q)'
    <3>1. CASE q = p
      <4>1. decided'[q] = IF decided[q] = "no" THEN r ELSE decided[q]
        BY <1>4, <3>1 DEF Fire, Shutdown, TInv, Typed
      <4>2. proc[q].life \notin {"none", "spawned", "dead"}
        BY <1>4, <3>1 DEF Fire, TInv, Proper
      <4> QED
        BY <1>4, <3>1, <4>1, <4>2 DEF Fire, TInv, Proper, Alive
    <3>2. CASE q # p
      BY <1>4, <3>2, SameProper DEF Fire, Shutdown, TInv, Typed
    <3> QED
      BY <3>1, <3>2
  <2> QED
    BY <2>3, <2>4 DEF TInv
<1>5. CASE StopServers(p)
  <2>1. pc[p] \notin StartPcs /\ pc[p] \notin StopPcs
    BY <1>5 DEF StopServers, TInv, Proper
  <2> QED
    BY <1>5, <2>1, StageTInv DEF StopServers, Lives, TInv, Typed
<1>6. CASE CloseCore(p)
  <2>1. CASE decided[p] = "restart"
    <3>1. /\ proc' = [proc EXCEPT ![p].life = "launch"]
          /\ pc' = [pc EXCEPT ![p] = "stat"]
          /\ UNCHANGED nodeVars
      BY <1>6, <2>1 DEF CloseCore
    <3>2. /\ pc' \in [Starters -> StartPcs \cup StopPcs \cup {"idle", "done"}]
          /\ pc'[p] = "stat"
          /\ \A q \in Pids : q # p => pc'[q] = pc[q]
      BY <3>1, Disjoint DEF TInv, Typed, StartPcs
    <3> QED
      BY <1>6, <2>1, <3>1, <3>2, StageTInv DEF CloseCore, Lives, StartPcs, StopPcs
  <2>2. CASE decided[p] # "restart"
    <3>1. Exit(p, "exit") /\ pc' = pc /\ "exit" \in Ends
      BY <1>6, <2>2 DEF CloseCore, Ends
    <3>2. proc' \in [Pids -> Processes]
      BY <3>1, RemainsType DEF Exit, TInv, Typed, StartTypeOK
    <3>3. StartTypeOK'
      BY <1>6, <3>2 DEF CloseCore, TInv, Typed, StartTypeOK
    <3>4. pc[p] \notin StartPcs
      BY <1>6 DEF CloseCore, TInv, Proper
    <3> QED
      BY <1>6, <3>1, <3>3, <3>4, ExitTInv DEF CloseCore
  <2> QED
    BY <2>1, <2>2
<1>7. CASE StartStep(p)
  BY <1>7, StartTInv, Disjoint
<1>8. CASE Crash(p)
  <2>1. /\ Exit(p, "crashed") /\ "crashed" \in Ends
        /\ pc' = [pc EXCEPT ![p] = "done"]
        /\ file' = [f \in Paths |-> [file[f] EXCEPT !.writers = @ \ {p}]]
        /\ disturbed' = (disturbed \/ pc[p] = "write")
        /\ target' = [target EXCEPT ![p] = "app"]
        /\ from' = [from EXCEPT ![p] = 0]
        /\ child' = [child EXCEPT ![p] = 0]
        /\ UNCHANGED <<autoupdate, pidFile, boot, addressed>>
    BY <1>8 DEF Crash, Ends
  <2>2. proc' \in [Pids -> Processes]
    BY <2>1, RemainsType DEF Exit, TInv, Typed, StartTypeOK
  <2>3. file' \in [Paths -> [build : Builds, writers : SUBSET Starters]]
    <3>1. ASSUME NEW r \in [build : Builds, writers : SUBSET Starters]
          PROVE  [r EXCEPT !.writers = @ \ {p}] \in [build : Builds, writers : SUBSET Starters]
      OBVIOUS
    <3> QED
      BY <2>1, <3>1 DEF TInv, Typed, StartTypeOK
  <2>4. disturbed' \in BOOLEAN
    BY <2>1 DEF TInv, Typed, StartTypeOK
  <2>5. /\ target' \in [Starters -> Paths]
        /\ from' \in [Starters -> Builds]
        /\ child' \in [Starters -> 0..MaxPid]
    BY <2>1, Disjoint DEF TInv, Typed, StartTypeOK, Paths, Builds
  <2>6. StartTypeOK'
    BY <2>1, <2>2, <2>3, <2>4, <2>5 DEF TInv, Typed, StartTypeOK
  <2> QED
    BY <2>1, <2>6, ExitTInv
<1> QED
  BY <1>1, <1>2, <1>3, <1>4, <1>5, <1>6, <1>7, <1>8 DEF NodeStep

\* the launches, and the steps of a stop that goes on to kill,
LEMMA CommandTInv ==
    ASSUME TInv, NEW c \in Commands, Launch(c) \/ RequestStep(c)
    PROVE  TInv'
<1> USE DEF startVars
<1>0. c \in Starters /\ c \notin Pids
  BY Disjoint
<1>1. CASE RunForeground(c)
  <2>1. PICK p \in Free, b \in BOOLEAN :
          proc' = [proc EXCEPT ![p] =
                    [life |-> "spawned", end |-> "", exe |-> "app", build |-> file["app"].build,
                     boot |-> b, daemon |-> FALSE, by |-> c]]
    BY <1>1 DEF RunForeground
  <2>2. /\ pc' = [pc EXCEPT ![c] = "done"]
        /\ disturbed' = (disturbed \/ Busy # {} \/ \E q \in Pids : Alive(q))
        /\ UNCHANGED <<autoupdate, file, pidFile, boot, startVars, nodeVars, addressed>>
    BY <1>1 DEF RunForeground
  <2>3. p \in Pids /\ proc[p].life = "none"
    BY DEF Free
  <2>4. "app" \in Paths /\ file["app"].build \in Builds
    BY DEF Paths, TInv, Typed, StartTypeOK
  <2>5. proc' \in [Pids -> Processes]
    BY <1>0, <2>1, <2>3, <2>4, SpawnedType DEF TInv, Typed, StartTypeOK
  <2>6. disturbed' \in BOOLEAN
    BY <2>2
  <2>7. Typed'
    BY <1>0, <2>2, <2>5, <2>6 DEF TInv, Typed, StartTypeOK, nodeVars
  <2>8. ASSUME NEW q \in Pids
        PROVE  Proper(q)'
    <3>1. pc'[q] = pc[q]
      BY <1>0, <2>2, Disjoint DEF TInv, Typed
    <3>2. CASE q = p
      <4>1. proc'[q].life = "spawned"
        BY <2>1, <2>3, <3>2 DEF TInv, Typed, StartTypeOK
      <4> QED
        BY <2>2, <2>3, <3>1, <3>2, <4>1 DEF TInv, Proper, Alive, nodeVars
    <3>3. CASE q # p
      BY <2>1, <2>2, <2>3, <3>1, <3>3, SameProper DEF TInv, Typed, StartTypeOK, nodeVars
    <3> QED
      BY <3>2, <3>3
  <2> QED
    BY <2>7, <2>8 DEF TInv
<1>2. CASE RunStart(c)
  <2>1. boot' \in [Commands -> BOOLEAN]
    BY <1>2 DEF RunStart, TInv, Typed, StartTypeOK
  <2>2. StartTypeOK'
    BY <1>2, <2>1 DEF RunStart, TInv, Typed, StartTypeOK
  <2> QED
    BY <1>0, <1>2, <2>2, MoveTInv DEF RunStart, TInv, Typed, StartPcs
<1>3. CASE KillServerFails(c) \/ RemovePid(c)
  <2>1. StartTypeOK'
    BY <1>3, Disjoint DEF KillServerFails, RemovePid, TInv, Typed, StartTypeOK
  <2> QED
    BY <1>0, <1>3, <2>1, MoveTInv DEF KillServerFails, RemovePid, TInv, Typed
<1>4. CASE KillServer(c)
  <2>1. StartTypeOK'
    BY <1>4 DEF KillServer, Alone, TInv, Typed, StartTypeOK
  <2>2. signal' \in [Pids -> BOOLEAN]
    BY <1>4 DEF KillServer
  <2>3. addressed' \in [Requests -> 0..MaxPid] /\ pc' = [pc EXCEPT ![c] = "remove pid"]
    BY <1>4, Disjoint DEF KillServer, TInv, Typed, StartTypeOK
  <2>4. Typed'
    BY <1>0, <1>4, <2>1, <2>2, <2>3 DEF KillServer, TInv, Typed, StopPcs
  <2>5. ASSUME NEW q \in Pids
        PROVE  Proper(q)'
    <3>1. pc'[q] = pc[q] /\ (signal'[q] => Alive(q))
      BY <1>0, <1>4, <2>3, Disjoint DEF KillServer, TInv, Typed, Proper
    <3> QED
      BY <1>4, <3>1 DEF KillServer, TInv, Proper, Alive
  <2> QED
    BY <2>4, <2>5 DEF TInv
<1> QED
  BY <1>1, <1>2, <1>3, <1>4 DEF Launch, RequestStep

\* and every request to a node.
LEMMA RequestTInv ==
    ASSUME TInv, NEW c \in Requests, Request(c)
    PROVE  TInv'
<1> USE DEF startVars
<1>0. c \in Starters /\ c \notin Pids
  BY Disjoint DEF Commands
<1>1. CASE RunStopFails(c)
  <2>1. StartTypeOK'
    BY <1>1 DEF RunStopFails, TInv, Typed, StartTypeOK
  <2> QED
    BY <1>0, <1>1, <2>1, MoveTInv DEF RunStopFails, TInv, Typed, StopPcs
<1>2. ASSUME NEW p \in Pids, RunStop(c, p) \/ RunStopLost(c, p) \/ RunRestart(c, p)
      PROVE  TInv'
  <2>1. PICK r \in {"stop", "restart"} : Node(p, r)
    BY <1>2 DEF RunStop, RunStopLost, RunRestart
  <2>2. /\ \E to \in {"done", "kill"} : pc' = [pc EXCEPT ![c] = to]
        /\ UNCHANGED <<autoupdate, proc, file, pidFile, boot, startVars, decided, signal>>
    BY <1>2 DEF RunStop, RunStopLost, RunRestart
  <2>3. addressed' \in [Requests -> 0..MaxPid]
    BY <1>2, Disjoint DEF RunStop, RunStopLost, RunRestart, TInv, Typed
  <2>4. disturbed' \in BOOLEAN
    BY <2>1 DEF Node
  <2>5. StartTypeOK'
    BY <2>2, <2>4 DEF TInv, Typed, StartTypeOK
  <2>6. timer' \in [Pids -> SUBSET {"stop", "restart"}]
    BY <2>1 DEF Node, TInv, Typed
  <2>7. Typed'
    BY <1>0, <2>2, <2>3, <2>5, <2>6 DEF TInv, Typed, StopPcs
  <2>8. ASSUME NEW q \in Pids
        PROVE  Proper(q)'
    <3>1. pc'[q] = pc[q] /\ proc'[q] = proc[q] /\ decided'[q] = decided[q] /\ signal'[q] = signal[q]
      BY <1>0, <2>2, Disjoint DEF TInv, Typed
    <3>2. timer'[q] = timer[q] \/ proc[q].life = "up"
      BY <2>1 DEF Node, TInv, Typed
    <3> QED
      BY <3>1, <3>2 DEF TInv, Proper, Alive
  <2> QED
    BY <2>7, <2>8 DEF TInv
<1> QED
  BY <1>1, <1>2 DEF Request

\* The types and the stages are inductive.
LEMMA NextTInv == TInv /\ [Next]_vars => TInv'
<1> SUFFICES ASSUME TInv, [Next]_vars
             PROVE  TInv'
  OBVIOUS
<1>0. Launches \subseteq Commands /\ Requests \subseteq Commands /\ Commands \subseteq Starters
  BY Disjoint DEF Commands
<1>1. CASE Deploy
  <2>1. file' \in [Paths -> [build : Builds, writers : SUBSET Starters]]
    <3>1. ASSUME NEW b \in Builds
          PROVE  New - b \in Builds
      BY DEF Builds, New
    <3> QED
      BY <1>1, <3>1 DEF Deploy, TInv, Typed, StartTypeOK, Paths
  <2>2. StartTypeOK'
    BY <1>1, <2>1 DEF Deploy, TInv, Typed, StartTypeOK, startVars
  <2>3. Typed'
    BY <1>1, <2>2 DEF Deploy, TInv, Typed, nodeVars
  <2> QED
    BY <1>1, <2>3, SameProper DEF Deploy, TInv, nodeVars
<1>2. CASE UNCHANGED vars
  BY <1>2 DEF vars, startVars, nodeVars, TInv, Typed, StartTypeOK, Proper, Alive
<1>3. ASSUME NEW c \in Launches, Launch(c) \/ LaunchStep(c)
      PROVE  TInv'
  BY <1>0, <1>3, CommandTInv, StartTInv DEF LaunchStep
<1>4. ASSUME NEW c \in Requests, Request(c) \/ RequestStep(c)
      PROVE  TInv'
  BY <1>0, <1>4, CommandTInv, RequestTInv
<1>5. ASSUME NEW p \in Pids, NodeStep(p) \/ Crash(p)
      PROVE  TInv'
  BY <1>5, NodeTInv
<1> QED
  BY <1>1, <1>2, <1>3, <1>4, <1>5 DEF Next

-----------------------------------------------------------------------------
(* The builds.                                                             *)

\* A file that is not the old build never is again, and everybody who has found
\* an update either goes on as before or with such a file.
LEMMA BuildsKeep ==
    ASSUME TInv, BuildsKnown,
           \A f \in Paths : file[f].build # Old => file'[f].build # Old,
           \A x \in Starters :
              \/ from'[x] = 0
              \/ /\ from'[x] = from[x] /\ target'[x] = target[x]
                 /\ pc'[x] \in {"copy", "spawn"} => pc[x] \in {"copy", "spawn"}
              \/ /\ from'[x] # Old
                 /\ pc'[x] \in {"copy", "spawn"} => file'[target'[x]].build # Old
    PROVE  BuildsKnown'
<1>1. file'["app"].build # Old
  BY DEF BuildsKnown, Paths
<1>2. ASSUME NEW x \in Starters
      PROVE  /\ from'[x] # Old
             /\ pc'[x] \in {"copy", "spawn"} /\ from'[x] # 0 => file'[target'[x]].build # Old
  BY DEF BuildsKnown, TInv, Typed, StartTypeOK, Old
<1> QED
  BY <1>1, <1>2 DEF BuildsKnown

\* Every step of Start keeps what is known of the builds.
LEMMA StartBuilds ==
    ASSUME TInv, BuildsKnown, NEW x \in Starters, StartStep(x)
    PROVE  BuildsKnown'
<1> USE DEF startVars
<1>0. Start(x, Busy)
  BY DEF StartStep
<1>1. CASE StatFails(x) \/ CheckRefuses(x) \/ SpawnFails(x) \/ WritePid(x) \/ WritePidFails(x)
  <2>1. file' = file /\ \E end : Return(x, end)
    BY <1>1 DEF StatFails, CheckRefuses, SpawnFails, WritePid, WritePidFails
  <2>2. ASSUME NEW y \in Starters
        PROVE  from'[y] = 0 \/ (from'[y] = from[y] /\ target'[y] = target[y] /\ pc'[y] = pc[y])
    BY <2>1 DEF Return, TInv, Typed, StartTypeOK
  <2> QED
    BY <2>1, <2>2, BuildsKeep
<1>2. CASE CheckPasses(x, Busy) \/ RemoveFile(x) \/ Spawn(x)
  <2>1. \A f \in Paths : file[f].build # Old => file'[f].build # Old
    <3>1. \/ file' = file
          \/ file' = [file EXCEPT ![target[x]] = [build |-> 0, writers |-> {}]]
      BY <1>2 DEF CheckPasses, RemoveFile, Spawn
    <3>2. CASE file' = file
      BY <3>2
    <3>3. CASE file' = [file EXCEPT ![target[x]] = [build |-> 0, writers |-> {}]]
      <4>1. \A f \in Paths : file'[f] = file[f] \/ file'[f] = [build |-> 0, writers |-> {}]
        BY <3>3 DEF TInv, Typed, StartTypeOK
      <4>2. \A f \in Paths : file'[f] = file[f] \/ file'[f].build = 0
        BY <4>1
      <4> QED
        BY <4>2 DEF Old
    <3> QED
      BY <3>1, <3>2, <3>3
  <2>2. ASSUME NEW y \in Starters
        PROVE  /\ from'[y] = from[y] /\ target'[y] = target[y]
               /\ pc'[y] = pc[y] \/ pc'[y] \notin {"copy", "spawn"}
    BY <1>2 DEF CheckPasses, RemoveFile, Spawn, TInv, Typed
  <2> QED
    BY <2>1, <2>2, BuildsKeep
<1>3. CASE FindUpdate(x)
  <2>1. file' = file /\ from' = [from EXCEPT ![x] = IF autoupdate THEN file["app"].build ELSE 0]
    BY <1>3 DEF FindUpdate
  <2>2. from'[x] # Old /\ (from'[x] # 0 => pc'[x] = "remove")
    BY <1>3 DEF FindUpdate, BuildsKnown, TInv, Typed, StartTypeOK, Old
  <2>3. ASSUME NEW y \in Starters, y # x
        PROVE  from'[y] = from[y] /\ target'[y] = target[y] /\ pc'[y] = pc[y]
    BY <1>3, <2>3 DEF FindUpdate, TInv, Typed, StartTypeOK
  <2> QED
    BY <2>1, <2>2, <2>3, BuildsKeep
<1>4. CASE OpenCopy(x)
  <2>1. \A f \in Paths : file[f].build # Old => file'[f].build # Old
    BY <1>4 DEF OpenCopy, TInv, Typed, StartTypeOK, Old
  <2>2. from'[x] # Old /\ target' = target /\ file'[target[x]].build # Old
    BY <1>4 DEF OpenCopy, BuildsKnown, TInv, Typed, StartTypeOK, Old
  <2>3. ASSUME NEW y \in Starters, y # x
        PROVE  from'[y] = from[y] /\ pc'[y] = pc[y]
    BY <1>4, <2>3 DEF OpenCopy, TInv, Typed, StartTypeOK
  <2> QED
    BY <2>1, <2>2, <2>3, BuildsKeep
<1>5. CASE CopyDone(x)
  <2>1. \A f \in Paths : file[f].build # Old => file'[f].build # Old
    BY <1>5 DEF CopyDone, BuildsKnown, TInv, Typed, StartTypeOK
  <2>2. ASSUME NEW y \in Starters
        PROVE  /\ from'[y] = from[y] /\ target'[y] = target[y]
               /\ pc'[y] = pc[y] \/ pc[y] = "copy"
    BY <1>5 DEF CopyDone, TInv, Typed
  <2> QED
    BY <2>1, <2>2, BuildsKeep
<1>6. CASE CopyFails(x)
  <2>1. \A f \in Paths : file'[f].build = file[f].build
    BY <1>6 DEF CopyFails, TInv, Typed, StartTypeOK
  <2>2. from' = from /\ from[x] # Old /\ target'[x] = "app" /\ file'["app"].build # Old
    BY <1>6, <2>1 DEF CopyFails, BuildsKnown, TInv, Typed, StartTypeOK, Paths
  <2>3. ASSUME NEW y \in Starters, y # x
        PROVE  target'[y] = target[y] /\ pc'[y] = pc[y]
    BY <1>6, <2>3 DEF CopyFails, TInv, Typed, StartTypeOK
  <2> QED
    BY <2>1, <2>2, <2>3, BuildsKeep
<1> QED
  BY <1>0, <1>1, <1>2, <1>3, <1>4, <1>5, <1>6 DEF Start

\* So does every other step: only a deployment writes an executable too.
LEMMA NextBuilds == TInv /\ BuildsKnown /\ [Next]_vars => BuildsKnown'
<1> SUFFICES ASSUME TInv, BuildsKnown, [Next]_vars
             PROVE  BuildsKnown'
  OBVIOUS
<1> USE DEF startVars
<1>0. Launches \subseteq Starters /\ Requests \subseteq Starters /\ Pids \subseteq Starters
  BY Disjoint DEF Commands
<1>1. CASE Deploy
  <2>1. file["app"].build \in Builds /\ file["app"].build # Old
    BY DEF BuildsKnown, TInv, Typed, StartTypeOK, Paths
  <2>2. New - file["app"].build # Old
    BY <2>1 DEF Builds, New, Old
  <2>3. \A f \in Paths : file[f].build # Old => file'[f].build # Old
    BY <1>1, <2>2 DEF Deploy, TInv, Typed, StartTypeOK
  <2> QED
    BY <1>1, <2>3, BuildsKeep DEF Deploy
<1>2. CASE UNCHANGED vars
  BY <1>2, BuildsKeep DEF vars
<1>3. ASSUME NEW x \in Starters, StartStep(x)
      PROVE  BuildsKnown'
  BY <1>3, StartBuilds
<1>4. ASSUME NEW p \in Pids, Crash(p)
      PROVE  BuildsKnown'
  <2>1. /\ pc' = [pc EXCEPT ![p] = "done"]
        /\ file' = [f \in Paths |-> [file[f] EXCEPT !.writers = @ \ {p}]]
        /\ target' = [target EXCEPT ![p] = "app"]
        /\ from' = [from EXCEPT ![p] = 0]
    BY <1>4 DEF Crash
  <2>2. \A f \in Paths : file'[f].build = file[f].build
    BY <2>1 DEF TInv, Typed, StartTypeOK
  <2>3. ASSUME NEW y \in Starters
        PROVE  from'[y] = 0 \/ (from'[y] = from[y] /\ target'[y] = target[y] /\ pc'[y] = pc[y])
    BY <1>0, <2>1 DEF TInv, Typed, StartTypeOK
  <2> QED
    BY <2>2, <2>3, BuildsKeep
<1>5. ASSUME NEW c \in Launches \cup Requests, Launch(c) \/ Request(c) \/ RequestStep(c)
      PROVE  BuildsKnown'
  <2>1. UNCHANGED <<file, startVars>>
    BY <1>5 DEF Launch, RunForeground, RunStart, Request, RunStop, RunStopLost, RunStopFails,
                RunRestart, RequestStep, KillServer, KillServerFails, RemovePid
  <2>2. \E to \in {"done", "stat", "kill", "remove pid"} : pc' = [pc EXCEPT ![c] = to]
    BY <1>5 DEF Launch, RunForeground, RunStart, Request, RunStop, RunStopLost, RunStopFails,
                RunRestart, RequestStep, KillServer, KillServerFails, RemovePid
  <2>3. \A y \in Starters : pc'[y] \in {"copy", "spawn"} => pc[y] \in {"copy", "spawn"}
    BY <1>0, <2>2 DEF TInv, Typed
  <2> QED
    BY <2>1, <2>3, BuildsKeep
<1>6. ASSUME NEW p \in Pids, NodeStep(p), ~StartStep(p)
      PROVE  BuildsKnown'
  <2>1. UNCHANGED <<file, startVars>>
    BY <1>6 DEF NodeStep, OpenCore, OpenCoreFails, Killed, TakeSignal, Fire, StopServers, CloseCore
  <2>2. pc' = pc \/ pc' = [pc EXCEPT ![p] = "stat"]
    BY <1>6 DEF NodeStep, OpenCore, OpenCoreFails, Killed, TakeSignal, Fire, StopServers, CloseCore
  <2>3. \A y \in Starters : pc'[y] \in {"copy", "spawn"} => pc[y] \in {"copy", "spawn"}
    BY <1>0, <2>2 DEF TInv, Typed
  <2> QED
    BY <2>1, <2>3, BuildsKeep
<1> QED
  BY <1>0, <1>1, <1>2, <1>3, <1>4, <1>5, <1>6 DEF Next, LaunchStep

-----------------------------------------------------------------------------
(* The pid file.                                                           *)

\* Whoever is critical is busy in the sense of the specification.
LEMMA CriticalBusy == TInv => Critical \subseteq Busy
  BY Disjoint DEF Critical, Busy, Late, StopPcs

\* Whoever has passed the check is critical and is going to start a node.
LEMMA LateStarting ==
    ASSUME TInv, NEW x \in Starters, pc[x] \in Late
    PROVE  x \in Critical /\ Starting(x) /\ x \in Busy
<1>1. CASE x \in Commands
  BY <1>1, CriticalBusy DEF Critical, Starting
<1>2. CASE x \in Pids
  <2>1. proc[x].life = "launch" /\ decided[x] = "restart"
    BY <1>2 DEF TInv, Proper, Late
  <2>2. Restarting(x)
    BY <1>2, <2>1 DEF Restarting, Alive
  <2> QED
    BY <1>2, <2>1, <2>2, CriticalBusy DEF Critical, Starting
<1> QED
  BY <1>1, <1>2 DEF Starters

\* Whoever is going to start a node is critical.
LEMMA StartingCritical == \A x \in Starters : Starting(x) => x \in Critical
  BY DEF Starting, Critical

\* A step by which q comes no closer to the pid file.
Fades(q) ==
    /\ Restarting(q)' => Restarting(q)
    /\ Staying(q)' => Staying(q)
    /\ signal'[q] => signal[q]
    /\ Restarting(q)' /\ decided'[q] # "stop" => decided[q] # "stop"

\* A node that the step leaves alone,
LEMMA SameFades ==
    ASSUME NEW q \in Pids, proc'[q] = proc[q], signal'[q] = signal[q],
           decided'[q] = decided[q], timer'[q] = timer[q]
    PROVE  Fades(q)
  BY DEF Fades, Restarting, Staying, Alive

\* and one that ends.
LEMMA DeadFades ==
    ASSUME NEW q \in Pids, proc'[q].life = "dead", ~signal'[q]
    PROVE  Fades(q)
  BY DEF Fades, Restarting, Staying, Alive

\* A step by which nobody comes closer to it, and which leaves it and those who
\* are about to write it alone.
LEMMA FadesPidInv ==
    ASSUME TInv, Undisturbed, pidFile' = pidFile,
           \A q \in Pids : Fades(q),
           \A c \in Commands : /\ pc'[c] \in Late => pc[c] \in Late
                               /\ pc'[c] = "remove pid" => pc[c] = "remove pid",
           \A x \in Starters : pc[x] = "write" => pc'[x] = "write" /\ child'[x] = child[x]
    PROVE  Undisturbed'
<1>1. Critical' \subseteq Critical
  BY DEF Critical, Fades
<1>2. \A x \in Starters : Starting(x)' => Starting(x)
  BY DEF Starting, Fades
<1>3. \A x \in Starters, p \in Pids : Writing(x, p) => Writing(x, p)'
  BY DEF Writing
<1>4. OneAtATime'
  BY <1>1 DEF Undisturbed, OneAtATime
<1>5. RestartersUnharmed'
  BY DEF Undisturbed, RestartersUnharmed, Fades
<1>6. Named'
  BY <1>3 DEF Undisturbed, Named, Fades
<1>7. StartsAlone'
  BY <1>2, <1>3 DEF Undisturbed, StartsAlone, Fades
<1>8. RemovesAlone'
  BY DEF Undisturbed, RemovesAlone, Fades
<1> QED
  BY <1>4, <1>5, <1>6, <1>7, <1>8 DEF Undisturbed

\* A step that moves pc, and nobody past the check.
LEMMA MovePidInv ==
    ASSUME TInv, Undisturbed, NEW x \in Starters, NEW to, pc' = [pc EXCEPT ![x] = to],
           pc[x] # "write", x \in Commands /\ to \in Late => pc[x] \in Late, to # "remove pid",
           child' = child, pidFile' = pidFile, proc' = proc, nodeVars' = nodeVars
    PROVE  Undisturbed'
<1>1. \A q \in Pids : Fades(q)
  BY SameFades DEF nodeVars
<1>2. \A y \in Starters : pc'[y] = IF y = x THEN to ELSE pc[y]
  BY DEF TInv, Typed
<1> QED
  BY <1>1, <1>2, FadesPidInv, Disjoint

\* When nobody else is busy, the pid file names who stays.
LEMMA NamedWhenAlone ==
    ASSUME TInv, Undisturbed, NEW x \in Starters, pc[x] # "write", Busy \ {x} = {},
           NEW q \in Pids, Staying(q)
    PROVE  pidFile = q
<1>1. ASSUME NEW y \in Starters, Writing(y, q)
      PROVE  FALSE
  <2>1. y \in Busy
    BY <1>1, LateStarting DEF Writing, Late, StartPcs
  <2> QED
    BY <1>1, <2>1 DEF Writing
<1> QED
  BY <1>1 DEF Undisturbed, Named

\* Nobody stays and only one is critical.
LEMMA LonePidInv ==
    ASSUME NEW x, Critical' \subseteq {x}, RestartersUnharmed', \A q \in Pids : ~Staying(q)'
    PROVE  Undisturbed'
  BY DEF Undisturbed, OneAtATime, Named, StartsAlone, RemovesAlone

\* The procedure of x ends without having started a node.
LEMMA ReturnPidInv ==
    ASSUME TInv, Undisturbed, NEW x \in Starters, StartStep(x), pc[x] # "write",
           NEW end \in Ends, Return(x, end), pidFile' = pidFile
    PROVE  Undisturbed'
<1>1. /\ pc' = [pc EXCEPT ![x] = "done"] /\ pc'[x] = "done"
      /\ child' = [child EXCEPT ![x] = 0]
  BY DEF Return, TInv, Typed
<1>2. ASSUME NEW q \in Pids
      PROVE  Fades(q)
  <2>1. CASE q = x
    <3>1. proc'[q].life = "dead"
      BY <2>1, RemainsType DEF TInv, Typed, StartTypeOK, Return
    <3>2. ~signal'[q]
      BY <1>1, <2>1 DEF StartStep, TInv, Typed
    <3> QED
      BY <3>1, <3>2, DeadFades
  <2>2. CASE q # x
    <3>1. proc'[q] = proc[q]
      BY <2>2 DEF TInv, Typed, StartTypeOK, Return
    <3>2. signal'[q] = signal[q] /\ decided'[q] = decided[q] /\ timer'[q] = timer[q]
      BY <1>1, <2>2 DEF StartStep, TInv, Typed, nodeVars
    <3> QED
      BY <3>1, <3>2, SameFades
  <2> QED
    BY <2>1, <2>2
<1>3. \A y \in Starters : /\ pc'[y] = IF y = x THEN "done" ELSE pc[y]
                          /\ y # x => child'[y] = child[y]
  BY <1>1 DEF TInv, Typed, StartTypeOK
<1>4. "done" \notin Late
  BY DEF Late, StartPcs
<1> QED
  BY <1>2, <1>3, <1>4, FadesPidInv, Disjoint

\* The check passes for a command: nobody else is busy and the process that the
\* file names is gone, so that nobody stays.
LEMMA CheckPassesPidInv ==
    ASSUME TInv, Undisturbed, ~disturbed', NEW x \in Starters, StartStep(x), CheckPasses(x, Busy)
    PROVE  Undisturbed'
<1>1. /\ pc[x] = "stat" /\ ~Refused(x)
      /\ pc' = [pc EXCEPT ![x] = "find"] /\ pc'[x] = "find"
      /\ proc' = proc /\ pidFile' = pidFile /\ child' = child
  BY DEF CheckPasses, startVars, TInv, Typed
<1>2. nodeVars' = nodeVars
  BY <1>1, StartFrame
<1>3. CASE x \in Pids
  BY <1>1, <1>2, <1>3, MovePidInv, Disjoint
<1>4. CASE x \in Commands
  <2>1. Busy \ {x} = {}
    BY DEF CheckPasses, Alone
  <2>2. ~Alive(pidFile)
    BY <1>1, <1>4 DEF Refused
  <2>3. \A q \in Pids : ~Staying(q)'
    <3>1. SUFFICES ASSUME NEW q \in Pids, Staying(q)
                   PROVE  FALSE
      BY <1>1, <1>2 DEF Staying, Alive, nodeVars
    <3>2. pidFile = q /\ Alive(q)
      BY <1>1, <2>1, <3>1, NamedWhenAlone DEF Staying
    <3> QED
      BY <2>2, <3>2
  <2>4. Critical' \subseteq {x}
    <3>1. Critical' \subseteq Critical \cup {x}
      <4>1. \A q \in Pids : Restarting(q)' => Restarting(q)
        BY <1>1, <1>2 DEF Restarting, Alive, nodeVars
      <4>2. \A c \in Commands : c # x => pc'[c] = pc[c]
        BY <1>1, Disjoint DEF TInv, Typed
      <4> QED
        BY <4>1, <4>2 DEF Critical
    <3> QED
      BY <2>1, <3>1, CriticalBusy
  <2>5. RestartersUnharmed'
    BY <1>1, <1>2 DEF Undisturbed, RestartersUnharmed, Restarting, Alive, nodeVars
  <2> QED
    BY <2>3, <2>4, <2>5, LonePidInv
<1> QED
  BY <1>3, <1>4 DEF Starters

\* x starts p, and is the only one who is critical: whoever stays beside p is
\* the node x itself, which is leaving.
LEMMA SpawnPidInv ==
    ASSUME TInv, Undisturbed, NEW x \in Starters, StartStep(x), Spawn(x)
    PROVE  Undisturbed'
<1>1. PICK p \in Free : /\ proc' = [proc EXCEPT ![p] =
                             [life |-> "spawned", end |-> "", exe |-> target[x],
                              build |-> file[target[x]].build,
                              boot |-> Environ(x), daemon |-> TRUE, by |-> x]]
                        /\ child' = [child EXCEPT ![x] = p]
  BY DEF Spawn
<1>2. p \in Pids /\ proc[p].life = "none" /\ decided[p] = "no" /\ timer[p] = {} /\ ~signal[p]
  BY DEF Free, TInv, Proper, Alive
<1>3. /\ pc[x] = "spawn" /\ pidFile' = pidFile
      /\ pc' = [pc EXCEPT ![x] = "write"] /\ pc'[x] = "write"
  BY DEF Spawn, TInv, Typed
<1>4. nodeVars' = nodeVars
  BY <1>3, StartFrame
<1>5. x \in Critical /\ Starting(x)
  BY <1>3, LateStarting DEF Late, StartPcs
<1>6. proc'[p].life = "spawned" /\ proc'[p].daemon
  BY <1>1, <1>2 DEF TInv, Typed, StartTypeOK
<1>7. ASSUME NEW q \in Pids, q # p
      PROVE  proc'[q] = proc[q]
  BY <1>1, <1>7 DEF TInv, Typed, StartTypeOK
<1>8. ~Restarting(p)'
  BY <1>2, <1>4, <1>6 DEF Restarting, nodeVars
<1>9. \A q \in Pids : Restarting(q)' => Restarting(q)
  BY <1>4, <1>7, <1>8 DEF Restarting, Alive, nodeVars
<1>10. \A q \in Pids : q # p /\ Staying(q)' => Staying(q)
  BY <1>4, <1>7 DEF Staying, Alive, nodeVars
<1>11. \A y \in Starters : pc'[y] = (IF y = x THEN "write" ELSE pc[y])
  BY <1>3 DEF TInv, Typed
<1>12. Critical' \subseteq Critical
  BY <1>3, <1>9, <1>11, Disjoint DEF Critical, Late, StartPcs
<1>13. \A y \in Starters : Starting(y)' => Starting(y)
  BY <1>3, <1>4, <1>9, <1>11 DEF Starting, Late, StartPcs, nodeVars
<1>14. Writing(x, p)'
  BY <1>1, <1>3 DEF Writing, TInv, Typed, StartTypeOK
<1>15. \A y \in Starters, q \in Pids : ~Writing(y, q)
  <2>1. SUFFICES ASSUME NEW y \in Starters, NEW q \in Pids, Writing(y, q)
                 PROVE  FALSE
    OBVIOUS
  <2>2. y \in Critical
    BY <2>1, LateStarting DEF Writing, Late, StartPcs
  <2> QED
    BY <1>3, <1>5, <2>1, <2>2 DEF Undisturbed, OneAtATime, Writing
<1>16. OneAtATime'
  BY <1>12 DEF Undisturbed, OneAtATime
<1>17. RestartersUnharmed'
  BY <1>4, <1>9 DEF Undisturbed, RestartersUnharmed, nodeVars
<1>18. Named'
  BY <1>3, <1>10, <1>14, <1>15 DEF Undisturbed, Named
<1>19. StartsAlone'
  <2>1. SUFFICES ASSUME NEW y \in Starters, NEW q \in Pids, Starting(y)', Staying(q)'
                 PROVE  q = y \/ Writing(y, q)'
    BY DEF StartsAlone
  <2>2. y = x
    BY <1>5, <1>13, <2>1, StartingCritical DEF Undisturbed, OneAtATime
  <2>3. CASE q = p
    BY <1>14, <2>2, <2>3
  <2>4. CASE q # p
    BY <1>5, <1>10, <1>15, <2>1, <2>2, <2>4 DEF Undisturbed, StartsAlone
  <2> QED
    BY <2>3, <2>4
<1>20. RemovesAlone'
  <2>1. SUFFICES ASSUME NEW c \in Commands, pc'[c] = "remove pid"
                 PROVE  FALSE
    BY DEF RemovesAlone
  <2>2. pc[c] = "remove pid" /\ c \in Critical
    BY <1>11, <2>1, Disjoint DEF Critical
  <2> QED
    BY <1>3, <1>5, <2>2 DEF Undisturbed, OneAtATime
<1> QED
  BY <1>16, <1>17, <1>18, <1>19, <1>20 DEF Undisturbed

\* x writes the pid of the node that it has started, the only one that stays.
LEMMA WritePidInv ==
    ASSUME TInv, Undisturbed, NEW x \in Starters, StartStep(x), WritePid(x)
    PROVE  Undisturbed'
<1>1. /\ pc[x] = "write" /\ pidFile' = child[x] /\ Return(x, "restarted")
      /\ pc' = [pc EXCEPT ![x] = "done"] /\ pc'[x] = "done"
  BY DEF WritePid, Return, TInv, Typed
<1>2. x \in Critical /\ Starting(x)
  BY <1>1, LateStarting DEF Late, StartPcs
<1>3. \A y \in Critical : y = x
  BY <1>2 DEF Undisturbed, OneAtATime
<1>4. ASSUME NEW q \in Pids
      PROVE  Fades(q) /\ (q = x => ~Alive(q)')
  <2>1. CASE q = x
    <3>1. proc'[q].life = "dead"
      BY <1>1, <2>1, RemainsType DEF TInv, Typed, StartTypeOK, Return, Ends
    <3>2. ~signal'[q]
      BY <1>1, <2>1 DEF StartStep, TInv, Typed
    <3> QED
      BY <3>1, <3>2, DeadFades DEF Alive
  <2>2. CASE q # x
    <3>1. proc'[q] = proc[q]
      BY <1>1, <2>2 DEF TInv, Typed, StartTypeOK, Return
    <3>2. signal'[q] = signal[q] /\ decided'[q] = decided[q] /\ timer'[q] = timer[q]
      BY <1>1, <2>2 DEF StartStep, TInv, Typed, nodeVars
    <3> QED
      BY <2>2, <3>1, <3>2, SameFades
  <2> QED
    BY <2>1, <2>2
<1>5. \A y \in Starters : pc'[y] = IF y = x THEN "done" ELSE pc[y]
  BY <1>1 DEF TInv, Typed
<1>6. Critical' = {}
  <2>1. ASSUME NEW c \in Commands, pc'[c] \in Late \cup {"remove pid"}
        PROVE  FALSE
    <3>1. c # x /\ pc'[c] = pc[c]
      BY <1>5, <2>1, Disjoint DEF Late, StartPcs
    <3> QED
      BY <1>3, <2>1, <3>1 DEF Critical
  <2>2. ASSUME NEW q \in Pids, Restarting(q)'
        PROVE  FALSE
    <3>1. q # x
      BY <1>4, <2>2 DEF Restarting
    <3> QED
      BY <1>3, <1>4, <2>2, <3>1 DEF Critical, Fades
  <2> QED
    BY <2>1, <2>2 DEF Critical
<1>7. \A q \in Pids : ~Restarting(q)'
  BY <1>6 DEF Critical
<1>8. OneAtATime' /\ RestartersUnharmed'
  BY <1>6, <1>7 DEF OneAtATime, RestartersUnharmed
<1>9. Named'
  <2>1. SUFFICES ASSUME NEW q \in Pids, Staying(q)'
                 PROVE  pidFile' = q
    BY DEF Named
  <2>2. Staying(q) /\ q # x
    BY <1>4, <2>1 DEF Fades, Staying
  <2> QED
    BY <1>1, <1>2, <2>2 DEF Undisturbed, StartsAlone, Writing
<1>10. StartsAlone'
  <2>1. \A y \in Starters : ~Starting(y)'
    BY <1>6, <1>7 DEF Starting, Critical
  <2> QED
    BY <2>1 DEF StartsAlone
<1>11. RemovesAlone'
  BY <1>6 DEF Critical, RemovesAlone
<1> QED
  BY <1>8, <1>9, <1>10, <1>11 DEF Undisturbed

\* Every step of Start leaves the pid file as it should be,
LEMMA StartPidInv ==
    ASSUME TInv, Undisturbed, ~disturbed', NEW x \in Starters, StartStep(x)
    PROVE  Undisturbed'
<1> USE DEF startVars
<1>0. Start(x, Busy)
  BY DEF StartStep
<1>1. CASE StatFails(x) \/ CheckRefuses(x) \/ SpawnFails(x)
  <2>1. pc[x] # "write" /\ pidFile' = pidFile /\ \E end \in Ends : Return(x, end)
    BY <1>1 DEF StatFails, CheckRefuses, SpawnFails, Ends
  <2> QED
    BY <2>1, ReturnPidInv
<1>2. CASE CheckPasses(x, Busy)
  BY <1>2, CheckPassesPidInv
<1>3. CASE FindUpdate(x) \/ RemoveFile(x) \/ OpenCopy(x) \/ CopyDone(x) \/ CopyFails(x)
  <2>1. /\ pc[x] \in Late /\ pc[x] # "write"
        /\ child' = child /\ pidFile' = pidFile /\ proc' = proc
    BY <1>3 DEF FindUpdate, RemoveFile, OpenCopy, CopyDone, CopyFails, Late, StartPcs
  <2>2. \E to \in Late : pc' = [pc EXCEPT ![x] = to] /\ pc'[x] = to
    BY <1>3 DEF FindUpdate, RemoveFile, OpenCopy, CopyDone, CopyFails, Late, StartPcs, TInv, Typed
  <2>3. nodeVars' = nodeVars
    BY <2>2, StartFrame DEF Late, StartPcs
  <2>4. "remove pid" \notin Late
    BY DEF Late, StartPcs
  <2> QED
    BY <2>1, <2>2, <2>3, <2>4, MovePidInv
<1>4. CASE Spawn(x)
  BY <1>4, SpawnPidInv
<1>5. CASE WritePid(x)
  BY <1>5, WritePidInv
<1>6. CASE WritePidFails(x)
  BY <1>6 DEF WritePidFails
<1> QED
  BY <1>0, <1>1, <1>2, <1>3, <1>4, <1>5, <1>6 DEF Start

\* A step of the node p that brings it no closer to the pid file.
LEMMA NodeFades ==
    ASSUME TInv, Undisturbed, NEW p \in Pids, pidFile' = pidFile, Fades(p),
           \A q \in Pids : q # p => /\ proc'[q] = proc[q] /\ signal'[q] = signal[q]
                                    /\ decided'[q] = decided[q] /\ timer'[q] = timer[q],
           \A x \in Starters : x # p => pc'[x] = pc[x] /\ child'[x] = child[x],
           pc[p] # "write"
    PROVE  Undisturbed'
<1>1. \A q \in Pids : Fades(q)
  BY SameFades
<1> QED
  BY <1>1, FadesPidInv, Disjoint

\* every step of a node and its crash,
LEMMA NodePidInv ==
    ASSUME TInv, Undisturbed, ~disturbed', NEW p \in Pids, NodeStep(p) \/ Crash(p)
    PROVE  Undisturbed'
<1> USE DEF startVars, nodeVars
<1>0. p \in Starters /\ (proc[p].life # "launch" => pc[p] # "write")
  BY Disjoint DEF TInv, Proper, StartPcs
<1>1. CASE OpenCore(p) \/ StopServers(p)
  <2>1. PICK life \in {"up", "closing"} : proc' = [proc EXCEPT ![p].life = life]
    BY <1>1 DEF OpenCore, StopServers
  <2>2. proc'[p].life = life /\ proc'[p].daemon = proc[p].daemon /\ Alive(p)
    BY <1>1, <2>1 DEF OpenCore, StopServers, TInv, Typed, StartTypeOK, Processes, Alive
  <2>3. UNCHANGED <<pidFile, pc, child, signal, decided, timer>>
    BY <1>1 DEF OpenCore, StopServers
  <2>4. Fades(p)
    BY <2>2, <2>3 DEF Fades, Restarting, Staying, Alive
  <2>5. \A q \in Pids : q # p => proc'[q] = proc[q]
    BY <2>1 DEF TInv, Typed, StartTypeOK
  <2>6. pc[p] # "write"
    BY <1>0, <1>1 DEF OpenCore, StopServers
  <2> QED
    BY <2>3, <2>4, <2>5, <2>6, NodeFades
<1>2. ASSUME NEW end \in Ends, Exit(p, end), pc[p] # "write", pidFile' = pidFile,
             \A x \in Starters : x # p => pc'[x] = pc[x] /\ child'[x] = child[x]
      PROVE  Undisturbed'
  <2>1. proc'[p].life = "dead" /\ ~signal'[p]
    BY <1>2, RemainsType DEF Exit, TInv, Typed, StartTypeOK
  <2>2. \A q \in Pids : q # p => /\ proc'[q] = proc[q] /\ signal'[q] = signal[q]
                                 /\ decided'[q] = decided[q] /\ timer'[q] = timer[q]
    BY <1>2 DEF Exit, TInv, Typed, StartTypeOK
  <2> QED
    BY <1>2, <2>1, <2>2, DeadFades, NodeFades
<1>3. CASE OpenCoreFails(p) \/ Killed(p)
  <2>1. /\ \E end \in Ends : Exit(p, end)
        /\ pc' = pc /\ child' = child /\ pidFile' = pidFile /\ proc[p].life = "spawned"
    BY <1>3 DEF OpenCoreFails, Killed, Ends
  <2> QED
    BY <1>0, <1>2, <2>1
<1>4. CASE Crash(p)
  <2>1. /\ Exit(p, "crashed") /\ "crashed" \in Ends
        /\ pc' = [pc EXCEPT ![p] = "done"]
        /\ child' = [child EXCEPT ![p] = 0]
        /\ pidFile' = pidFile
        /\ disturbed' = (disturbed \/ pc[p] = "write")
    BY <1>4 DEF Crash, Ends
  <2>2. pc[p] # "write"
    BY <2>1
  <2>3. \A x \in Starters : x # p => pc'[x] = pc[x] /\ child'[x] = child[x]
    BY <2>1 DEF TInv, Typed, StartTypeOK
  <2> QED
    BY <1>2, <2>1, <2>2, <2>3
<1>5. CASE TakeSignal(p)
  <2>1. signal[p] /\ UNCHANGED <<proc, pidFile, pc, child, timer>>
    BY <1>5 DEF TakeSignal
  <2>2. ~signal'[p]
    BY <1>5 DEF TakeSignal, TInv, Typed
  <2>3. ~Restarting(p)
    BY <2>1 DEF Undisturbed, RestartersUnharmed
  <2>4. /\ Alive(p) /\ proc[p].daemon /\ decided[p] # "restart" /\ "restart" \notin timer[p]
        /\ proc[p].life # "launch"
    BY <1>5, <2>3 DEF TakeSignal, Restarting, Alive, TInv, Proper
  <2>5. decided'[p] = "stop"
    BY <1>5, <2>4 DEF TakeSignal, Shutdown, TInv, Typed, Proper
  <2>6. Fades(p)
    BY <2>1, <2>2, <2>4, <2>5 DEF Fades, Restarting, Staying, Alive
  <2>7. \A q \in Pids : q # p => signal'[q] = signal[q] /\ decided'[q] = decided[q]
    BY <1>5 DEF TakeSignal, Shutdown, TInv, Typed
  <2> QED
    BY <1>0, <2>1, <2>4, <2>6, <2>7, NodeFades
<1>6. ASSUME NEW r \in {"stop", "restart"}, Fire(p, r)
      PROVE  Undisturbed'
  <2>1. r \in timer[p] /\ UNCHANGED <<proc, pidFile, pc, child, signal>>
    BY <1>6 DEF Fire
  <2>2. /\ timer'[p] = timer[p] \ {r}
        /\ decided'[p] = IF decided[p] = "no" THEN r ELSE decided[p]
    BY <1>6 DEF Fire, Shutdown, TInv, Typed
  <2>3. Fades(p)
    BY <2>1, <2>2 DEF Fades, Restarting, Staying, Alive
  <2>4. \A q \in Pids : q # p => timer'[q] = timer[q] /\ decided'[q] = decided[q]
    BY <1>6 DEF Fire, Shutdown, TInv, Typed
  <2>5. \A q \in Pids : Fades(q)
    BY <2>1, <2>3, <2>4, SameFades
  <2> QED
    BY <2>1, <2>5, FadesPidInv
<1>7. CASE CloseCore(p)
  <2>1. pc[p] # "write" /\ pidFile' = pidFile /\ child' = child
    BY <1>0, <1>7 DEF CloseCore
  <2>2. CASE decided[p] = "restart"
    <3>1. /\ proc' = [proc EXCEPT ![p].life = "launch"] /\ proc[p].life = "closing"
          /\ pc' = [pc EXCEPT ![p] = "stat"]
          /\ UNCHANGED nodeVars
      BY <1>7, <2>2 DEF CloseCore
    <3>2. proc'[p].life = "launch" /\ proc'[p].daemon = proc[p].daemon
      BY <3>1 DEF TInv, Typed, StartTypeOK, Processes
    <3>3. Fades(p)
      BY <2>2, <3>1, <3>2 DEF Fades, Restarting, Staying, Alive
    <3>4. \A q \in Pids : q # p => proc'[q] = proc[q]
      BY <3>1 DEF TInv, Typed, StartTypeOK
    <3>5. \A x \in Starters : x # p => pc'[x] = pc[x]
      BY <3>1 DEF TInv, Typed
    <3> QED
      BY <2>1, <3>1, <3>3, <3>4, <3>5, NodeFades
  <2>3. CASE decided[p] # "restart"
    BY <1>2, <1>7, <2>1, <2>3 DEF CloseCore, Ends
  <2> QED
    BY <2>2, <2>3
<1>8. CASE StartStep(p)
  BY <1>0, <1>8, StartPidInv
<1> QED
  BY <1>1, <1>3, <1>4, <1>5, <1>6, <1>7, <1>8 DEF NodeStep

\* the launches, the kill and the removal of the file,
LEMMA CommandPidInv ==
    ASSUME TInv, Undisturbed, ~disturbed', NEW c \in Commands, Launch(c) \/ RequestStep(c)
    PROVE  Undisturbed'
<1> USE DEF startVars, nodeVars
<1>0. c \in Starters /\ c \notin Pids
  BY Disjoint
<1>1. CASE RunForeground(c)
  <2>1. PICK p \in Free, b \in BOOLEAN :
          proc' = [proc EXCEPT ![p] =
                    [life |-> "spawned", end |-> "", exe |-> "app", build |-> file["app"].build,
                     boot |-> b, daemon |-> FALSE, by |-> c]]
    BY <1>1 DEF RunForeground
  <2>2. /\ pc' = [pc EXCEPT ![c] = "done"]
        /\ disturbed' = (disturbed \/ Busy # {} \/ \E q \in Pids : Alive(q))
        /\ UNCHANGED nodeVars
    BY <1>1 DEF RunForeground
  <2>3. Busy = {} /\ \A q \in Pids : ~Alive(q)
    BY <2>2
  <2>4. p \in Pids /\ ~proc'[p].daemon
    BY <2>1 DEF Free, TInv, Typed, StartTypeOK
  <2>5. \A q \in Pids : q # p => proc'[q] = proc[q]
    BY <2>1, <2>4 DEF TInv, Typed, StartTypeOK
  <2>6. \A q \in Pids : ~Staying(q)' /\ (q # p => ~Restarting(q)')
    BY <2>3, <2>4, <2>5 DEF Staying, Restarting, Alive
  <2>7. \A q \in Pids : ~signal'[q]
    BY <2>2, <2>3 DEF TInv, Proper
  <2>8. \A d \in Commands : pc'[d] = pc[d] \/ pc'[d] = "done"
    BY <1>0, <2>2, Disjoint DEF TInv, Typed
  <2>9. Critical' \subseteq {p}
    <3>1. Critical = {}
      BY <2>3, CriticalBusy
    <3>2. \A d \in Commands : pc'[d] \notin Late \cup {"remove pid"}
      BY <2>8, <3>1 DEF Critical, Late, StartPcs
    <3> QED
      BY <2>6, <3>2 DEF Critical
  <2> QED
    BY <2>6, <2>7, <2>9, LonePidInv DEF RestartersUnharmed
<1>2. CASE RunStart(c) \/ KillServerFails(c)
  <2>1. \E to \in {"stat", "done"} : pc' = [pc EXCEPT ![c] = to]
    BY <1>2 DEF RunStart, KillServerFails
  <2>2. pc[c] # "write" /\ UNCHANGED <<proc, pidFile, child, nodeVars>>
    BY <1>2 DEF RunStart, KillServerFails
  <2> QED
    BY <1>0, <2>1, <2>2, MovePidInv DEF Late, StartPcs
<1>3. CASE RemovePid(c)
  <2>1. /\ pc[c] = "remove pid" /\ pc' = [pc EXCEPT ![c] = "done"]
        /\ UNCHANGED <<proc, child, nodeVars>>
    BY <1>3 DEF RemovePid
  <2>2. c \in Critical /\ \A q \in Pids : ~Staying(q)
    BY <2>1 DEF Critical, Undisturbed, RemovesAlone
  <2>3. \A q \in Pids : Fades(q)
    BY <2>1, SameFades
  <2>4. \A q \in Pids : ~Staying(q)'
    BY <2>2, <2>3 DEF Fades
  <2>5. Critical' \subseteq {c}
    <3>1. \A d \in Commands : pc'[d] = pc[d] \/ pc'[d] = "done"
      BY <1>0, <2>1, Disjoint DEF TInv, Typed
    <3>2. Critical' \subseteq Critical
      BY <2>3, <3>1 DEF Critical, Fades, Late, StartPcs
    <3> QED
      BY <2>2, <3>2 DEF Undisturbed, OneAtATime
  <2>6. RestartersUnharmed'
    BY <2>3 DEF Undisturbed, RestartersUnharmed, Fades
  <2> QED
    BY <2>4, <2>5, <2>6, LonePidInv
<1>4. CASE KillServer(c)
  <2>1. /\ pc[c] = "kill" /\ pc' = [pc EXCEPT ![c] = "remove pid"]
        /\ signal' = [p \in Pids |-> signal[p] \/ (p = pidFile /\ Alive(p))]
        /\ UNCHANGED <<proc, pidFile, timer, decided>>
    BY <1>4 DEF KillServer
  <2>2. Busy \ {c} = {}
    BY <1>4 DEF KillServer, Alone
  <2>3. \A q \in Pids : ~Staying(q)'
    <3>1. SUFFICES ASSUME NEW q \in Pids, Staying(q)'
                   PROVE  FALSE
      OBVIOUS
    <3>2. ~signal'[q] /\ (signal[q] => signal'[q])
      BY <2>1, <3>1 DEF Staying
    <3>3. Staying(q)
      BY <2>1, <3>1, <3>2 DEF Staying, Alive
    <3>4. pidFile = q /\ Alive(q)
      BY <1>0, <2>1, <2>2, <3>3, NamedWhenAlone DEF Staying
    <3> QED
      BY <2>1, <3>2, <3>4
  <2>4. \A q \in Pids : Restarting(q)' => Restarting(q)
    BY <2>1 DEF Restarting, Alive
  <2>5. \A q \in Pids : ~Restarting(q)'
    BY <1>0, <2>2, <2>4, Disjoint DEF Busy
  <2>6. Critical' \subseteq {c}
    <3>1. \A d \in Commands : d # c => pc'[d] = pc[d]
      BY <1>0, <2>1, Disjoint DEF TInv, Typed
    <3> QED
      BY <2>2, <2>5, <3>1, CriticalBusy DEF Critical
  <2> QED
    BY <2>3, <2>5, <2>6, LonePidInv DEF RestartersUnharmed
<1> QED
  BY <1>1, <1>2, <1>3, <1>4 DEF Launch, RequestStep

\* and every request to a node.
LEMMA RequestPidInv ==
    ASSUME TInv, Undisturbed, ~disturbed', NEW c \in Requests, Request(c)
    PROVE  Undisturbed'
<1> USE DEF startVars, nodeVars
<1>0. c \in Starters /\ c \notin Pids /\ c \in Commands
  BY Disjoint DEF Commands
<1>1. CASE RunStopFails(c)
  <2>1. /\ pc' = [pc EXCEPT ![c] = "kill"] /\ pc[c] # "write"
        /\ UNCHANGED <<proc, pidFile, child, nodeVars>>
    BY <1>1 DEF RunStopFails
  <2> QED
    BY <1>0, <2>1, MovePidInv DEF Late, StartPcs
<1>2. ASSUME NEW p \in Pids, RunStop(c, p) \/ RunStopLost(c, p)
      PROVE  Undisturbed'
  <2>1. /\ pc[c] = "idle" /\ timer' = [timer EXCEPT ![p] = @ \cup {"stop"}]
        /\ UNCHANGED <<proc, pidFile, child, decided, signal>>
    BY <1>2 DEF RunStop, RunStopLost, Node
  <2>2. \E to \in {"done", "kill"} : pc' = [pc EXCEPT ![c] = to]
    BY <1>2 DEF RunStop, RunStopLost
  <2>3. \A q \in Pids : "restart" \in timer'[q] => "restart" \in timer[q]
    BY <2>1 DEF TInv, Typed
  <2>4. \A q \in Pids : Fades(q)
    BY <2>1, <2>3 DEF Fades, Restarting, Staying, Alive
  <2>5. \A y \in Starters : pc'[y] = pc[y] \/ (y = c /\ pc'[y] \in {"done", "kill"})
    BY <2>2 DEF TInv, Typed
  <2> QED
    BY <2>1, <2>4, <2>5, FadesPidInv, Disjoint DEF Late, StartPcs
<1>3. ASSUME NEW p \in Pids, RunRestart(c, p)
      PROVE  Undisturbed'
  <2>1. /\ pc[c] = "idle" /\ pc' = [pc EXCEPT ![c] = "done"]
        /\ proc[p].life = "up" /\ timer' = [timer EXCEPT ![p] = @ \cup {"restart"}]
        /\ UNCHANGED <<proc, pidFile, child, decided, signal>>
    BY <1>3 DEF RunRestart, Node
  <2>2. ~signal[p] /\ Busy \ {p} = {}
    BY <1>3 DEF RunRestart, Node
  <2>3. pc[p] # "write" /\ p \in Starters /\ Alive(p)
    BY <2>1, Disjoint DEF TInv, Proper, StartPcs, Alive
  <2>4. \A q \in Pids : /\ Staying(q)' => Staying(q)
                        /\ q # p => ~Restarting(q)'
    <3>1. \A q \in Pids : q # p => timer'[q] = timer[q]
      BY <2>1 DEF TInv, Typed
    <3>2. \A q \in Pids : q # p => ~Restarting(q)
      BY <2>2 DEF Busy
    <3> QED
      BY <2>1, <3>1, <3>2 DEF Staying, Restarting, Alive
  <2>5. \A y \in Starters : pc'[y] = pc[y] \/ (y = c /\ pc'[y] = "done")
    BY <2>1 DEF TInv, Typed
  <2>6. \A y \in Starters, q \in Pids : ~Writing(y, q)
    <3>1. SUFFICES ASSUME NEW y \in Starters, NEW q \in Pids, Writing(y, q)
                   PROVE  FALSE
      OBVIOUS
    <3>2. y \in Busy
      BY <3>1, LateStarting DEF Writing, Late, StartPcs
    <3> QED
      BY <2>2, <2>3, <3>1, <3>2 DEF Writing
  <2>7. \A d \in Commands : pc'[d] \notin Late \cup {"remove pid"}
    <3>1. \A d \in Commands : d \notin Critical
      BY <2>2, CriticalBusy, Disjoint
    <3> QED
      BY <2>5, <3>1, Disjoint DEF Critical, Late, StartPcs
  <2>8. Critical' \subseteq {p}
    BY <2>4, <2>7 DEF Critical
  <2>9. OneAtATime'
    BY <2>8 DEF OneAtATime
  <2>10. RestartersUnharmed'
    BY <2>1, <2>2, <2>4 DEF RestartersUnharmed
  <2>11. Named'
    BY <2>1, <2>4, <2>6 DEF Undisturbed, Named
  <2>12. StartsAlone'
    <3>1. SUFFICES ASSUME NEW q \in Pids, Starting(p)', Staying(q)'
                   PROVE  q = p
      BY <2>4, <2>7 DEF StartsAlone, Starting
    <3>2. Staying(q) /\ decided[p] # "stop"
      BY <2>1, <2>4, <2>7, <3>1, Disjoint DEF Starting
    <3>3. CASE proc[p].daemon
      <4>1. Staying(p)
        BY <2>2, <2>3, <3>2, <3>3 DEF Staying
      <4> QED
        BY <2>6, <3>2, <4>1 DEF Undisturbed, Named
    <3>4. CASE ~proc[p].daemon
      <4>1. Starting(p)
        BY <2>3, <3>2, <3>4 DEF Starting, Restarting
      <4> QED
        BY <2>3, <2>6, <3>2, <4>1 DEF Undisturbed, StartsAlone
    <3> QED
      BY <3>3, <3>4
  <2>13. RemovesAlone'
    BY <2>7 DEF RemovesAlone
  <2> QED
    BY <2>9, <2>10, <2>11, <2>12, <2>13 DEF Undisturbed
<1> QED
  BY <1>1, <1>2, <1>3 DEF Request

\* Once two procedures have met, that is not forgotten.
LEMMA DisturbedStays == disturbed /\ [Next]_vars => disturbed'
<1> SUFFICES ASSUME disturbed, [Next]_vars
             PROVE  disturbed'
  OBVIOUS
<1>1. ASSUME NEW x, Start(x, Busy)
      PROVE  disturbed'
  BY <1>1 DEF Start, StatFails, CheckRefuses, CheckPasses, Alone, FindUpdate, RemoveFile, OpenCopy,
              CopyDone, CopyFails, Spawn, SpawnFails, WritePid, WritePidFails
<1>2. ASSUME NEW c, Launch(c) \/ RequestStep(c)
      PROVE  disturbed'
  BY <1>2 DEF Launch, RunForeground, RunStart, RequestStep, KillServer, KillServerFails, RemovePid, Alone
<1>3. ASSUME NEW c, Request(c)
      PROVE  disturbed'
  BY <1>3 DEF Request, RunStop, RunStopLost, RunStopFails, RunRestart, Node
<1>4. ASSUME NEW p, NodeStep(p), ~StartStep(p)
      PROVE  disturbed'
  BY <1>4 DEF NodeStep, OpenCore, OpenCoreFails, Killed, TakeSignal, Fire, StopServers, CloseCore
<1>5. ASSUME NEW p, Crash(p)
      PROVE  disturbed'
  BY <1>5 DEF Crash
<1>6. CASE Deploy \/ UNCHANGED vars
  BY <1>6 DEF Deploy, vars
<1> QED
  BY <1>1, <1>2, <1>3, <1>4, <1>5, <1>6 DEF Next, LaunchStep, StartStep

\* Nobody is alive and nothing is found at first.
LEMMA InitPidInv == Init => BuildsKnown /\ PidInv
<1> SUFFICES ASSUME Init
             PROVE  BuildsKnown /\ PidInv
  OBVIOUS
<1>1. \A x \in Starters : pc[x] = "idle" /\ from[x] = 0
  BY DEF Init, StartInit
<1>2. file["app"].build = New
  BY DEF Init, StartInit, Paths
<1>3. BuildsKnown
  BY <1>1, <1>2 DEF BuildsKnown, New, Old
<1>4. \A p \in Pids : ~Alive(p)
  BY NoProcessType DEF Init, StartInit, Alive
<1>5. \A p \in Pids : ~Restarting(p) /\ ~Staying(p)
  BY <1>4 DEF Restarting, Staying
<1>6. Critical = {}
  BY <1>1, <1>5, Disjoint DEF Critical, Late, StartPcs
<1>7. Undisturbed
  BY <1>5, <1>6 DEF Undisturbed, OneAtATime, RestartersUnharmed, Named, StartsAlone, RemovesAlone
<1> QED
  BY <1>3, <1>7 DEF PidInv

\* Who is at the pid file is inductive on top of the types.
LEMMA NextPidInv == TInv /\ PidInv /\ [Next]_vars => PidInv'
<1> SUFFICES ASSUME TInv, PidInv, [Next]_vars, ~disturbed'
             PROVE  Undisturbed'
  BY DEF PidInv
<1>0. Undisturbed
  BY DisturbedStays DEF PidInv
<1>1. Launches \subseteq Commands /\ Requests \subseteq Commands /\ Commands \subseteq Starters
  BY Disjoint DEF Commands
<1>2. CASE Deploy \/ UNCHANGED vars
  <2>1. UNCHANGED <<proc, pidFile, pc, child, signal, decided, timer>>
    BY <1>2 DEF Deploy, vars, startVars, nodeVars
  <2>2. \A q \in Pids : Fades(q)
    BY <2>1, SameFades
  <2> QED
    BY <1>0, <2>1, <2>2, FadesPidInv
<1>3. ASSUME NEW c \in Launches, Launch(c) \/ LaunchStep(c)
      PROVE  Undisturbed'
  BY <1>0, <1>1, <1>3, CommandPidInv, StartPidInv DEF LaunchStep
<1>4. ASSUME NEW c \in Requests, Request(c) \/ RequestStep(c)
      PROVE  Undisturbed'
  BY <1>0, <1>1, <1>4, CommandPidInv, RequestPidInv
<1>5. ASSUME NEW p \in Pids, NodeStep(p) \/ Crash(p)
      PROVE  Undisturbed'
  BY <1>0, <1>5, NodePidInv
<1> QED
  BY <1>2, <1>3, <1>4, <1>5 DEF Next

-----------------------------------------------------------------------------
(* The theorems.                                                           *)

\* The inductive invariant holds throughout: the types and stages of the
\* processes, the builds in the executables and, while undisturbed, who is at the
\* pid file.
THEOREM Inductive == Spec => []IInv
<1>1. Init => IInv
  BY InitTInv, InitPidInv DEF IInv
<1>2. IInv /\ [Next]_vars => IInv'
  BY NextTInv, NextBuilds, NextPidInv DEF IInv
<1> QED
  BY <1>1, <1>2, PTL DEF Spec

\* The variables have their types, a node is in Start exactly when it is
\* launching its successor, and no signal waits for a process that is gone.
THEOREM TypeCorrect == Spec => []TypeOK
<1>1. IInv => TypeOK
  BY TInvTypeOK DEF IInv
<1> QED
  BY <1>1, Inductive, PTL

\* implStartNode.Start, implStopNode.KillServer: for any number of commands,
\* nodes, restarts and crashes, the pid file names the node in the background
\* whenever nobody is about to change it, until two procedures have met there.
THEOREM PidFileIsRight == Spec => []PidNamesNode
<1>1. IInv => PidNamesNode
  <2>1. SUFFICES ASSUME IInv, ~disturbed, Busy = {}, NEW p \in Pids, Settled(p)
                 PROVE  pidFile = p
    BY DEF PidNamesNode
  <2>2. Staying(p)
    BY <2>1 DEF Settled, Staying
  <2>3. \A x \in Starters : ~Writing(x, p)
    BY <2>1, LateStarting DEF IInv, Writing, Late, StartPcs
  <2> QED
    BY <2>1, <2>2, <2>3 DEF IInv, PidInv, Undisturbed, Named
<1> QED
  BY <1>1, Inductive, PTL

\* The check of the pid in implStartNode.Start: no start puts a second node
\* beside one that runs, until two procedures have met at the pid file.
THEOREM SecondIsRefused == Spec => []OneDaemon
<1>1. IInv => OneDaemon
  <2>1. SUFFICES ASSUME IInv, ~disturbed, NEW p \in Pids, NEW q \in Pids, Settled(p), Settled(q)
                 PROVE  p = q
    BY DEF OneDaemon
  <2>2. Undisturbed /\ TInv /\ Staying(p) /\ Staying(q)
    BY <2>1 DEF IInv, PidInv, Settled, Staying
  <2>3. ASSUME NEW r \in Pids, NEW s \in Pids, Settled(r), Staying(r), Staying(s),
               NEW x \in Starters, Writing(x, s)
        PROVE  r = s
    <3>1. Starting(x)
      BY <2>2, <2>3, LateStarting DEF Writing, Late, StartPcs
    <3>2. r = x \/ Writing(x, r)
      BY <2>2, <2>3, <3>1 DEF Undisturbed, StartsAlone
    <3>3. r # x
      BY <2>2, <2>3 DEF Settled, TInv, Proper, Writing, StartPcs
    <3> QED
      BY <2>3, <3>2, <3>3 DEF Writing
  <2> QED
    BY <2>1, <2>2, <2>3 DEF Undisturbed, Named
<1> QED
  BY <1>1, Inductive, PTL

\* implStartNode.Start, lines 142 to 160: a start that has found the update
\* never runs an older build, whatever fails and whoever else is at the files.
THEOREM NoOlderBuild == Spec => NotOlder
<1>1. IInv /\ [Next]_vars =>
        [\A x \in Starters : pc[x] = "spawn" /\ pc'[x] = "write" => proc'[child'[x]].build >= from[x]]_vars
  <2>1. SUFFICES ASSUME IInv, [Next]_vars, NEW x \in Starters, pc[x] = "spawn", pc'[x] = "write"
                 PROVE  proc'[child'[x]].build >= from[x]
    OBVIOUS
  <2>2. Spawn(x)
    <3>1. ASSUME NEW y \in Starters, y # x
          PROVE  ~StartStep(y)
      BY <2>1, <3>1 DEF IInv, TInv, Typed, StartStep, Start, StatFails, CheckRefuses, CheckPasses,
         FindUpdate, RemoveFile, OpenCopy, CopyDone, CopyFails, Spawn, SpawnFails, WritePid,
         WritePidFails, Return
    <3>2. StartStep(x) => Spawn(x)
      BY <2>1 DEF IInv, TInv, Typed, StartStep, Start, StatFails, CheckRefuses, CheckPasses,
         FindUpdate, RemoveFile, OpenCopy, CopyDone, CopyFails, SpawnFails, WritePid,
         WritePidFails, Return
    <3>3. ASSUME NEW c \in Commands, Launch(c) \/ Request(c) \/ RequestStep(c)
          PROVE  FALSE
      <4>1. \E to \in {"done", "stat", "kill", "remove pid"} : pc' = [pc EXCEPT ![c] = to]
        BY <3>3 DEF Launch, RunForeground, RunStart, Request, RunStop, RunStopLost, RunStopFails,
                    RunRestart, RequestStep, KillServer, KillServerFails, RemovePid
      <4> QED
        BY <2>1, <4>1 DEF IInv, TInv, Typed
    <3>4. ASSUME NEW p \in Pids, NodeStep(p) \/ Crash(p), ~StartStep(p)
          PROVE  FALSE
      <4>1. \E to \in {"done", "stat"} : pc' = pc \/ pc' = [pc EXCEPT ![p] = to]
        BY <3>4 DEF NodeStep, OpenCore, OpenCoreFails, Killed, TakeSignal, Fire, StopServers,
                    CloseCore, Crash
      <4> QED
        BY <2>1, <4>1 DEF IInv, TInv, Typed
    <3>5. ~Deploy /\ ~UNCHANGED vars
      BY <2>1 DEF Deploy, vars
    <3>6. \E y \in Starters : StartStep(y)
      BY <2>1, <3>3, <3>4, <3>5, Disjoint DEF Next, LaunchStep, Commands
    <3> QED
      BY <3>1, <3>2, <3>6
  <2>3. proc'[child'[x]].build = file[target[x]].build /\ file[target[x]].build # 0
    <3>1. PICK p \in Pids :
            /\ proc' = [proc EXCEPT ![p] =
                         [life |-> "spawned", end |-> "", exe |-> target[x],
                          build |-> file[target[x]].build,
                          boot |-> Environ(x), daemon |-> TRUE, by |-> x]]
            /\ child' = [child EXCEPT ![x] = p]
      BY <2>2 DEF Spawn, Free
    <3>2. child'[x] = p
      BY <2>1, <3>1 DEF IInv, TInv, Typed, StartTypeOK
    <3>3. proc'[p].build = file[target[x]].build
      BY <2>1, <3>1 DEF IInv, TInv, Typed, StartTypeOK
    <3> QED
      BY <2>2, <3>2, <3>3 DEF Spawn, Runs
  <2>4. file[target[x]].build \in Builds /\ from[x] \in Builds
    BY <2>1 DEF IInv, TInv, Typed, StartTypeOK
  <2>5. from[x] # 0 => file[target[x]].build # Old
    BY <2>1 DEF IInv, BuildsKnown
  <2> QED
    BY <2>3, <2>4, <2>5 DEF Builds, Old
<1> QED
  BY <1>1, Inductive, PTL DEF Spec, NotOlder
=============================================================================
