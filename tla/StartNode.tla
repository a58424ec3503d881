----------------------------- MODULE StartNode -----------------------------
(***************************************************************************)
(* The procedure implStartNode.Start (sprintcmd/start_node.go), which the  *)
(* command "node start" runs and which a node that is to restart runs as   *)
(* the last thing it does.  It looks at the pid file, copies the update    *)
(* over the spare one of two executables, starts the process and writes    *)
(* its pid.  Nothing keeps two of these procedures apart, so every access  *)
(* to a file is a step of its own.                                         *)
(***************************************************************************)
EXTENDS Naturals, FiniteSets

CONSTANTS Launches,     \* command processes that run "node run" or "node start"
          Requests,     \* command processes that run "node stop" or "node restart"
          MaxPid,       \* bound: node processes; pids are not used again
          MaxCrashes    \* bound: node processes that die by themselves

\* Each runs one command.
Commands == Launches \cup Requests

ASSUME StartAssumption ==
    /\ MaxPid \in Nat /\ MaxCrashes \in Nat
    /\ Commands \cap Nat = {}

Pids == 1..MaxPid
Starters == Commands \cup Pids
Paths == {"app", "odd", "even"}

\* Builds of the application: what an earlier update has left in the spare
\* executables, and the one that is deployed; 0 for a file that is missing or
\* incomplete.
Builds == 0..2
Old == 1
New == 2

VARIABLES autoupdate,   \* application.autoupdate
          proc,         \* proc[p]: the node process p
          file,         \* file[f]: an executable, and who is writing it
          pidFile,      \* the pid it holds, 0 when there is none
          pc,           \* pc[x]: where the command or the restarting node is
          boot,         \* boot[c]: the boot token is in the command's environment or was typed
          target,       \* target[x]: nextExePath
          from,         \* from[x]: the build of the update that x has found, 0 for none
          child,        \* child[x]: the process x has started
          disturbed     \* history: two procedures have met at the pid file

startVars == <<target, from, child>>

Lives == {"none", "spawned", "up", "closing", "launch", "dead"}
Ends == {"", "exit", "restarted", "failed", "refused", "noboot", "locked", "killed", "crashed"}
Processes == [life : Lives, end : Ends, exe : Paths, build : Builds,
              boot : BOOLEAN, daemon : BOOLEAN, by : Starters \cup {0}]
NoProcess == [life |-> "none", end |-> "", exe |-> "app", build |-> 0,
              boot |-> FALSE, daemon |-> FALSE, by |-> 0]

StartPcs == {"stat", "find", "remove", "open", "copy", "spawn", "write"}

StartTypeOK ==
    /\ autoupdate \in BOOLEAN
    /\ proc \in [Pids -> Processes]
    /\ file \in [Paths -> [build : Builds, writers : SUBSET Starters]]
    /\ pidFile \in 0..MaxPid
    /\ boot \in [Commands -> BOOLEAN]
    /\ target \in [Starters -> Paths]
    /\ from \in [Starters -> Builds]
    /\ child \in [Starters -> 0..MaxPid]
    /\ disturbed \in BOOLEAN

StartInit ==
    /\ autoupdate \in BOOLEAN
    /\ proc = [p \in Pids |-> NoProcess]
    /\ file = [f \in Paths |-> [build |-> IF f = "app" THEN New ELSE Old, writers |-> {}]]
    /\ pidFile = 0
    /\ boot = [c \in Commands |-> FALSE]
    /\ target = [x \in Starters |-> "app"]
    /\ from = [x \in Starters |-> 0]
    /\ child = [x \in Starters |-> 0]
    /\ disturbed = FALSE

-----------------------------------------------------------------------------

\* process.Signal(0) finds the process.
Alive(p) == p \in Pids /\ proc[p].life \notin {"none", "dead"}

Free == {p \in Pids : proc[p].life = "none"}

Executable(x) == IF x \in Pids THEN proc[x].exe ELSE "app"

\* What the process has in os.Environ or in the cache of its resolver, which is
\* what Environ(true) hands to the child.  Mutant: the child gets the
\* environment of the start command only.
EnvironOfCommand(x) == IF x \in Pids THEN FALSE ELSE boot[x]
Environ(x) == IF x \in Pids THEN proc[x].boot ELSE boot[x]

executableNext(current) == IF current = "odd" THEN "even" ELSE "odd"

\* What is left of a process: how it ended and who started it.
Remains(p, end) == [NoProcess EXCEPT !.life = "dead", !.end = end, !.by = proc[p].by]

\* The procedure ends, and its variables with it: a command is done, a node exits.
Return(x, end) ==
    /\ pc' = [pc EXCEPT ![x] = "done"]
    /\ proc' = IF x \in Pids THEN [proc EXCEPT ![x] = Remains(x, end)] ELSE proc
    /\ boot' = [c \in Commands |-> boot[c] /\ c # x]
    /\ target' = [target EXCEPT ![x] = "app"]
    /\ from' = [from EXCEPT ![x] = 0]
    /\ child' = [child EXCEPT ![x] = 0]

\* The directories cannot be made, or the pid file cannot be read or parsed.
StatFails(x) ==
    /\ pc[x] = "stat"
    /\ Return(x, "failed")
    /\ UNCHANGED <<autoupdate, file, pidFile, disturbed>>

\* A restart does not look for a running process: it is the running process.
\* Mutant: neither does a start.
RefusedNever(x) == FALSE
Refused(x) == x \in Commands /\ Alive(pidFile)

CheckRefuses(x) ==
    /\ pc[x] = "stat"
    /\ Refused(x)
    /\ Return(x, "refused")
    /\ UNCHANGED <<autoupdate, file, pidFile, disturbed>>

\* Nobody else is between reading and writing the pid file.
Alone(x, busy) == disturbed' = (disturbed \/ busy \ {x} # {})

CheckPasses(x, busy) ==
    /\ pc[x] = "stat"
    /\ ~Refused(x)
    /\ pc' = [pc EXCEPT ![x] = "find"]
    /\ Alone(x, busy)
    /\ UNCHANGED <<autoupdate, proc, file, pidFile, boot, startVars>>

\* The executable to run, and whether there is an update to copy over it.
FindUpdate(x) ==
    /\ pc[x] = "find"
    /\ target' = [target EXCEPT ![x] =
                    IF autoupdate THEN executableNext(Executable(x)) ELSE Executable(x)]
    /\ from' = [from EXCEPT ![x] = IF autoupdate THEN file["app"].build ELSE 0]
    /\ pc' = [pc EXCEPT ![x] = IF from'[x] # 0 THEN "remove" ELSE "spawn"]
    /\ UNCHANGED <<autoupdate, proc, file, pidFile, boot, child, disturbed>>

\* RemoveFileIfExist; an error is only logged.
RemoveFile(x) ==
    /\ pc[x] = "remove"
    /\ \/ file' = [file EXCEPT ![target[x]] = [build |-> 0, writers |-> {}]]
       \/ UNCHANGED file
    /\ pc' = [pc EXCEPT ![x] = "open"]
    /\ UNCHANGED <<autoupdate, proc, pidFile, boot, startVars, disturbed>>

\* copyFile opens both files and truncates the copy.  A file that a process
\* executes cannot be opened for writing.
OpenCopy(x) ==
    /\ pc[x] = "open"
    /\ file["app"].build # 0
    /\ \A p \in Pids : Alive(p) /\ proc[p].exe = target[x] => file[target[x]].build = 0
    /\ from' = [from EXCEPT ![x] = file["app"].build]
    /\ file' = [file EXCEPT ![target[x]] = [build |-> 0, writers |-> @.writers \cup {x}]]
    /\ pc' = [pc EXCEPT ![x] = "copy"]
    /\ UNCHANGED <<autoupdate, proc, pidFile, boot, target, child, disturbed>>

\* io.Copy and Chmod; the copy may have been unlinked by another RemoveFile.
CopyDone(x) ==
    /\ pc[x] = "copy"
    /\ file' = IF x \in file[target[x]].writers
               THEN [file EXCEPT ![target[x]] = [build |-> from[x], writers |-> @.writers \ {x}]]
               ELSE file
    /\ pc' = [pc EXCEPT ![x] = "spawn"]
    /\ UNCHANGED <<autoupdate, proc, pidFile, boot, startVars, disturbed>>

\* An error of the copy at either point: the update itself is run.
\* Mutant: the file that could not be replaced is run.
CopyFailsQuietly(x) ==
    /\ pc[x] \in {"open", "copy"}
    /\ file' = [file EXCEPT ![target[x]].writers = @ \ {x}]
    /\ pc' = [pc EXCEPT ![x] = "spawn"]
    /\ UNCHANGED <<autoupdate, proc, pidFile, boot, startVars, disturbed>>

CopyFails(x) ==
    /\ pc[x] \in {"open", "copy"}
    /\ file' = [file EXCEPT ![target[x]].writers = @ \ {x}]
    /\ target' = [target EXCEPT ![x] = "app"]
    /\ pc' = [pc EXCEPT ![x] = "spawn"]
    /\ UNCHANGED <<autoupdate, proc, pidFile, boot, from, child, disturbed>>

\* exec refuses a file that is missing, incomplete or open for writing.
Runs(f) == file[f].build # 0 /\ file[f].writers = {}

\* cmd.Start: the child runs "-d node run".
Spawn(x) ==
    /\ pc[x] = "spawn"
    /\ Runs(target[x])
    /\ \E p \in Free :
        /\ \A q \in Free : p <= q
        /\ proc' = [proc EXCEPT ![p] =
                      [life |-> "spawned", end |-> "", exe |-> target[x], build |-> file[target[x]].build,
                       boot |-> Environ(x), daemon |-> TRUE, by |-> x]]
        /\ child' = [child EXCEPT ![x] = p]
    /\ pc' = [pc EXCEPT ![x] = "write"]
    /\ UNCHANGED <<autoupdate, file, pidFile, boot, target, from, disturbed>>

SpawnFails(x) ==
    /\ pc[x] = "spawn"
    /\ ~Runs(target[x])
    /\ Return(x, "failed")
    /\ UNCHANGED <<autoupdate, file, pidFile, disturbed>>

\* The pid file is written, and the child released.  Mutant: only a start
\* writes it.
WritePidOnStart(x) ==
    /\ pc[x] = "write"
    /\ pidFile' = IF x \in Commands THEN child[x] ELSE pidFile
    /\ Return(x, "restarted")
    /\ UNCHANGED <<autoupdate, file, disturbed>>

WritePid(x) ==
    /\ pc[x] = "write"
    /\ pidFile' = child[x]
    /\ Return(x, "restarted")
    /\ UNCHANGED <<autoupdate, file, disturbed>>

\* An error is only logged; from here on the file may be wrong.
WritePidFails(x) ==
    /\ pc[x] = "write"
    /\ disturbed' = TRUE
    /\ Return(x, "restarted")
    /\ UNCHANGED <<autoupdate, file, pidFile>>

Start(x, busy) ==
    \/ StatFails(x) \/ CheckRefuses(x) \/ CheckPasses(x, busy)
    \/ FindUpdate(x) \/ RemoveFile(x) \/ OpenCopy(x) \/ CopyDone(x) \/ CopyFails(x)
    \/ Spawn(x) \/ SpawnFails(x) \/ WritePid(x) \/ WritePidFails(x)
=============================================================================
