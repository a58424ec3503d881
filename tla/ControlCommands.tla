--------------------------- MODULE ControlCommands ---------------------------
(***************************************************************************)
(* The commands that talk to a running node: "config", "storage", "certs", *)
(* "jobs" and "status" (sprintcmd/config_cmd.go, storage_cmd.go, ...).  A  *)
(* command is a process of its own.  It asks the control server of the     *)
(* node.  When that fails with Unavailable, which is what the control      *)
(* client makes of every error, most commands open the core with its       *)
(* stores themselves and do the work there; the others report the error.   *)
(* The store's file lock keeps the node and the commands apart.  Meanwhile *)
(* the node starts and stops, which cuts connections; a handler may go on  *)
(* after its client has given up, and even after the node has closed its   *)
(* core, until the process ends.                                           *)
(***************************************************************************)
EXTENDS Naturals

CONSTANTS Commands,     \* command processes, each runs one command
          Admins,       \* bound: those that are always run with an ADMIN's token
          Keys,         \* keys of the config store
          Hidden,       \* those of IsHiddenProperty: they start with "."
          Secret,       \* those of IsPEMProperty or IsPasswordProperty
          Values,
          NoValue,      \* the empty string, the value of a key that is not there
          Node, Nobody, \* holders of the store's lock beside the commands
          MaxRuns       \* bound: runs of the node

ASSUME CommandsAssumption ==
    /\ Admins \subseteq Commands
    /\ Hidden \subseteq Keys /\ Secret \subseteq Keys
    /\ NoValue \notin Values
    /\ Node # Nobody /\ {Node, Nobody} \cap Commands = {}
    /\ MaxRuns \in Nat

VARIABLES node,         \* the core of the last run: "core" (open, not serving), "up",
                        \* "stopping", or "down" when it is closed
          runs,         \* runs of the node so far
          holder,       \* the process that has the store open
          store,        \* store[k]
          pc,           \* pc[c]: the command's process
          cmd,          \* cmd[c]: what it was asked to do
          role,         \* role[c]: "ADMIN", or "other" for any other token or none
          handler,      \* handler[c]: the goroutine in the control server, or "none"
          home,         \* home[c]: the run in whose process it is, 0 for none
          result,       \* result[c]: how the command ended
          clear,        \* clear[c]: the keys whose value it was shown
          applied       \* history: the commands that have changed the store or were
                        \* passed to the certificate or the job service

nodeVars == <<node, runs>>
askVars == <<cmd, role>>
handlerVars == <<handler, home>>
vars == <<nodeVars, holder, store, pc, askVars, handlerVars, result, clear, applied>>

Writes == {"set", "clean", "restore"}
\* What is done locally when the node does not do it.  "show" stands for config
\* get, of one key, and config list and dump, of all, which differ in how long a
\* value they print; "clean" for storage clean and drop; "dump" for storage dump,
\* compact and list.
Retried == {"show", "set", "clean", "restore", "dump", "cert"}
\* What only a running node can do: "job" stands for its jobs and its certificate
\* manager.
OnlyInNode == {"job", "status"}
Get == [op : {"show"}, keys : {{k} : k \in Keys}]
List == [op |-> "show", keys |-> Keys]
Asked == Get \cup {List}
            \cup [op : {"set"}, key : Keys, value : Values \cup {NoValue}]
            \cup [op : (Retried \cup OnlyInNode) \ {"show", "set"}]
Roles == {"ADMIN", "other"}

TypeOK ==
    /\ node \in {"down", "core", "up", "stopping"}
    /\ runs \in 0..MaxRuns
    /\ holder \in Commands \cup {Node, Nobody}
    /\ holder = Node <=> node # "down"
    /\ store \in [Keys -> Values \cup {NoValue}]
    /\ pc \in [Commands -> {"idle", "call", "wait", "failed", "local", "close", "done"}]
    /\ cmd \in [Commands -> Asked]
    /\ role \in [Commands -> Roles]
    /\ handler \in [Commands -> {"none", "called", "exec", "ok", "refused"}]
    /\ home \in [Commands -> 0..runs]
    /\ result \in [Commands -> {"none", "ok", "error"}]
    /\ clear \in [Commands -> SUBSET Keys]
    /\ applied \subseteq Commands

Init ==
    /\ node = "down"
    /\ runs = 0
    /\ holder = Nobody
    /\ store \in [Keys -> Values \cup {NoValue}]
    /\ pc = [c \in Commands |-> "idle"]
    /\ cmd = [c \in Commands |-> List]
    /\ role = [c \in Commands |-> "other"]
    /\ handler = [c \in Commands |-> "none"]
    /\ home = [c \in Commands |-> 0]
    /\ result = [c \in Commands |-> "none"]
    /\ clear = [c \in Commands |-> {}]
    /\ applied = {}

Goto(c, label) == pc' = [pc EXCEPT ![c] = label]
HandlerGoto(c, label) == handler' = [handler EXCEPT ![c] = label]

-----------------------------------------------------------------------------
(* What a command does to the store and shows of it, in the node or locally. *)

Present == {k \in Keys : store[k] # NoValue}

\* ConfigRepository.Set: an empty value removes the key.
Set(c) ==
    /\ cmd[c].op = "set"
    /\ store' = [store EXCEPT ![cmd[c].key] = cmd[c].value]
    /\ applied' = applied \cup {c}
    /\ UNCHANGED clear

\* StorageService.ExecuteCommand: all records are dropped, or those of a prefix.
Clean(c) ==
    /\ cmd[c].op = "clean"
    /\ \E dropped \in SUBSET Keys :
         store' = [k \in Keys |-> IF k \in dropped THEN NoValue ELSE store[k]]
    /\ applied' = applied \cup {c}
    /\ UNCHANGED clear

\* ... or a backup is loaded: what it has of a key replaces what is there.
Restore(c) ==
    /\ cmd[c].op = "restore"
    /\ \E backup \in [Keys -> Values \cup {NoValue}] :
         store' = [k \in Keys |-> IF backup[k] = NoValue THEN store[k] ELSE backup[k]]
    /\ applied' = applied \cup {c}
    /\ UNCHANGED clear

\* ... or the store is written to a file, compacted, or just named.
Dump(c) ==
    /\ cmd[c].op = "dump"
    /\ UNCHANGED <<store, clear, applied>>

\* The certificate service keeps records of its own.  A context without one says
\* so in the text of a successful answer, so that "cert" is not among Writes.
Certificate(c) ==
    /\ cmd[c].op = "cert"
    /\ applied' = applied \cup {c}
    /\ UNCHANGED <<store, clear>>

\* get, list and dump show the values of all keys they visit but the masked.
Show(c, masked) ==
    /\ cmd[c].op = "show"
    /\ clear' = [clear EXCEPT ![c] = (cmd[c].keys \cap Present) \ masked]
    /\ UNCHANGED <<store, applied>>

\* What is left behind by a command that fails: nothing, or what it has done to
\* the store so far.
HalfWay(c) == Set(c) \/ Clean(c) \/ Restore(c) \/ UNCHANGED <<store, clear, applied>>

-----------------------------------------------------------------------------
(* The command's process. *)

Run(c, asked, token) ==
    /\ pc[c] = "idle"
    /\ c \in Admins => token = "ADMIN"
    /\ cmd' = [cmd EXCEPT ![c] = asked]
    /\ role' = [role EXCEPT ![c] = token]
    /\ Goto(c, "call")
    /\ UNCHANGED <<nodeVars, holder, store, handlerVars, result, clear,
                   applied>>

\* The call reaches the node and gets a goroutine there.
Call(c) ==
    /\ pc[c] = "call"
    /\ node = "up"
    /\ Goto(c, "wait")
    /\ HandlerGoto(c, "called")
    /\ home' = [home EXCEPT ![c] = runs]
    /\ UNCHANGED <<nodeVars, holder, store, askVars, result, clear, applied>>

\* Nobody listens.
CallFails(c) ==
    /\ pc[c] = "call"
    /\ node # "up"
    /\ Goto(c, "failed")
    /\ UNCHANGED <<nodeVars, holder, store, askVars, handlerVars, result, clear, applied>>

\* The answer arrives.  An error of the handler becomes Unavailable (wrapError).
Answer(c) ==
    /\ pc[c] = "wait"
    /\ \/ /\ handler[c] = "ok"
          /\ Goto(c, "done")
          /\ result' = [result EXCEPT ![c] = "ok"]
       \/ /\ handler[c] = "refused"
          /\ Goto(c, "failed")
          /\ UNCHANGED result
    /\ HandlerGoto(c, "none")
    /\ home' = [home EXCEPT ![c] = 0]
    /\ UNCHANGED <<nodeVars, holder, store, askVars, clear, applied>>

\* Mutant of Lost: a client that does not notice.
NeverLost(c) == FALSE /\ UNCHANGED vars

\* The connection is cut by a node that stops, or goes with its process, whatever
\* the handler has done or will do.  The call returns an error.
Lost(c) ==
    /\ pc[c] = "wait"
    /\ node # "up" \/ home[c] # runs
    /\ Goto(c, "failed")
    /\ UNCHANGED <<nodeVars, holder, store, askVars, handlerVars, result, clear, applied>>

\* status.Code(err) == codes.Unavailable: on to doInCore.
Fallback(c) == pc[c] = "failed" /\ cmd[c].op \in Retried

\* The others return the error, or that they need a running server.
GiveUp(c) ==
    /\ pc[c] = "failed"
    /\ cmd[c].op \in OnlyInNode
    /\ Goto(c, "done")
    /\ result' = [result EXCEPT ![c] = "error"]
    /\ UNCHANGED <<nodeVars, holder, store, askVars, handlerVars, clear, applied>>

\* Mutant of OpenCore: the store is opened without a lock.
OpenUnlocked(c) ==
    /\ Fallback(c)
    /\ holder' = c
    /\ Goto(c, "local")
    /\ UNCHANGED <<nodeVars, store, askVars, handlerVars, result, clear, applied>>

\* doInCore creates the core context, which opens the stores, ...
OpenCore(c) ==
    /\ Fallback(c)
    /\ holder = Nobody
    /\ holder' = c
    /\ Goto(c, "local")
    /\ UNCHANGED <<nodeVars, store, askVars, handlerVars, result, clear, applied>>

\* Mutant of OpenFails: the error is printed and then forgotten.
OpenFailsForgets(c) ==
    /\ Fallback(c)
    /\ holder # Nobody
    /\ Goto(c, "done")
    /\ result' = [result EXCEPT ![c] = "ok"]
    /\ UNCHANGED <<nodeVars, holder, store, askVars, handlerVars, clear, applied>>

\* ... or cannot, because somebody else keeps them for longer than the timeout.
OpenFails(c) ==
    /\ Fallback(c)
    /\ holder # Nobody
    /\ Goto(c, "done")
    /\ result' = [result EXCEPT ![c] = "error"]
    /\ UNCHANGED <<nodeVars, holder, store, askVars, handlerVars, clear, applied>>

\* getFromStorage, setInStorage, dumpFromStorage: nothing is masked, and no
\* token is asked for.
LocalConfig(c) ==
    /\ pc[c] = "local"
    /\ Set(c) \/ Show(c, {})
    /\ Goto(c, "close")
    /\ UNCHANGED <<nodeVars, holder, askVars, handlerVars, result>>

LocalStorage(c) ==
    /\ pc[c] = "local"
    /\ Clean(c) \/ Restore(c) \/ Dump(c)
    /\ Goto(c, "close")
    /\ UNCHANGED <<nodeVars, holder, askVars, handlerVars, result>>

LocalCertificate(c) ==
    /\ pc[c] = "local"
    /\ Certificate(c)
    /\ Goto(c, "close")
    /\ UNCHANGED <<nodeVars, holder, askVars, handlerVars, result>>

\* An unknown storage, wrong arguments, a file that cannot be opened, or a failure
\* half-way: the core is closed and the error returned.
LocalFails(c) ==
    /\ pc[c] = "local"
    /\ HalfWay(c)
    /\ holder' = Nobody
    /\ Goto(c, "done")
    /\ result' = [result EXCEPT ![c] = "error"]
    /\ UNCHANGED <<nodeVars, askVars, handlerVars>>

CloseCore(c) ==
    /\ pc[c] = "close"
    /\ holder' = Nobody
    /\ Goto(c, "done")
    /\ result' = [result EXCEPT ![c] = "ok"]
    /\ UNCHANGED <<nodeVars, store, askVars, handlerVars, clear, applied>>

CommandStep(c) ==
    \/ Call(c) \/ CallFails(c) \/ Answer(c) \/ Lost(c) \/ GiveUp(c)
    \/ OpenCore(c) \/ OpenFails(c)
    \/ LocalConfig(c) \/ LocalStorage(c) \/ LocalCertificate(c) \/ LocalFails(c)
    \/ CloseCore(c)

-----------------------------------------------------------------------------
(* The handler in the control server. *)

\* The stores of the core the handler belongs to are open.
Opened(c) == node # "down" /\ home[c] = runs

\* Mutant of Authorize: any user will do.
AuthorizeAnyUser(c) ==
    /\ handler[c] = "called"
    /\ cmd[c].op # "status"
    /\ \E valid \in BOOLEAN : HandlerGoto(c, IF valid THEN "exec" ELSE "refused")
    /\ UNCHANGED <<nodeVars, holder, store, pc, askVars, home, result, clear, applied>>

\* The middleware verifies the token, which may have expired, and looks it up
\* among those that this process has invalidated: a command has it looked up once.
\* The handlers but Status ask for the role ADMIN.
Authorize(c) ==
    /\ handler[c] = "called"
    /\ cmd[c].op # "status"
    /\ \E valid \in BOOLEAN :
         HandlerGoto(c, IF valid /\ role[c] = "ADMIN" THEN "exec" ELSE "refused")
    /\ UNCHANGED <<nodeVars, holder, store, pc, askVars, home, result, clear, applied>>

\* configGet, configSet, configList, configDump.  The values of hidden keys are
\* masked.
Config(c) ==
    /\ handler[c] = "exec"
    /\ Opened(c)
    /\ Set(c) \/ Show(c, Hidden)
    /\ HandlerGoto(c, "ok")
    /\ UNCHANGED <<nodeVars, holder, pc, askVars, home, result>>

Storage(c) ==
    /\ handler[c] = "exec"
    /\ Opened(c)
    /\ Clean(c) \/ Restore(c) \/ Dump(c)
    /\ HandlerGoto(c, "ok")
    /\ UNCHANGED <<nodeVars, holder, pc, askVars, home, result>>

NodeCertificate(c) ==
    /\ handler[c] = "exec"
    /\ Opened(c)
    /\ Certificate(c)
    /\ HandlerGoto(c, "ok")
    /\ UNCHANGED <<nodeVars, holder, pc, askVars, home, result>>

\* JobService.ExecuteCommand: list, cancel, or the goroutine of run is started; or
\* the certificate manager, which only a node has.
Job(c) ==
    /\ handler[c] = "exec"
    /\ cmd[c].op = "job"
    /\ applied' = applied \cup {c}
    /\ HandlerGoto(c, "ok")
    /\ UNCHANGED <<nodeVars, holder, store, pc, askVars, home, result, clear>>

\* The statistics of the components, for everybody.
Status(c) ==
    /\ handler[c] = "called"
    /\ cmd[c].op = "status"
    /\ HandlerGoto(c, "ok")
    /\ UNCHANGED <<nodeVars, holder, store, pc, askVars, home, result, clear, applied>>

\* An error of the service the handler calls, or a panic there (PanicToError), which
\* is also what comes of a store that has been closed.
HandlerFails(c) ==
    /\ handler[c] = "exec"
    /\ IF Opened(c) THEN HalfWay(c) ELSE UNCHANGED <<store, clear, applied>>
    /\ HandlerGoto(c, "refused")
    /\ UNCHANGED <<nodeVars, holder, pc, askVars, home, result>>

HandlerStep(c) ==
    \/ Authorize(c) \/ Status(c) \/ Config(c) \/ Storage(c) \/ NodeCertificate(c)
    \/ Job(c) \/ HandlerFails(c)

-----------------------------------------------------------------------------
(* The node. *)

\* Creating the core context opens the stores; the node ends when it cannot.
StartNode ==
    /\ node = "down"
    /\ runs < MaxRuns
    /\ holder = Nobody
    /\ node' = "core"
    /\ runs' = runs + 1
    /\ holder' = Node
    /\ UNCHANGED <<store, pc, askVars, handlerVars, result, clear, applied>>

Serve ==
    /\ node = "core"
    /\ node' = "up"
    /\ UNCHANGED <<runs, holder, store, pc, askVars, handlerVars, result, clear, applied>>

\* The servers are shut down, or could not be started; handlers get a while to end.
StopServers ==
    /\ node \in {"core", "up"}
    /\ node' = "stopping"
    /\ UNCHANGED <<runs, holder, store, pc, askVars, handlerVars, result, clear, applied>>

\* core.Close: the stores are closed and their lock is free, while handlers that
\* neither GracefulStop nor Stop has waited for may still run.  From now on
\* commands, and with a restart the successor, can open the stores.
StopNode ==
    /\ node = "stopping"
    /\ node' = "down"
    /\ holder' = Nobody
    /\ UNCHANGED <<runs, store, pc, askVars, handlerVars, result, clear, applied>>

\* The process of a run whose core is closed ends, and with it its handlers.
Exit(r) ==
    /\ r < runs \/ node = "down"
    /\ \E c \in Commands : home[c] = r
    /\ handler' = [c \in Commands |-> IF home[c] = r THEN "none" ELSE handler[c]]
    /\ home' = [c \in Commands |-> IF home[c] = r THEN 0 ELSE home[c]]
    /\ UNCHANGED <<nodeVars, holder, store, pc, askVars, result, clear, applied>>

NodeStep == StartNode \/ Serve \/ StopServers \/ StopNode \/ \E r \in 1..runs : Exit(r)

-----------------------------------------------------------------------------
Next ==
    \/ \E c \in Commands : \/ \E asked \in Asked, token \in Roles : Run(c, asked, token)
                           \/ CommandStep(c) \/ HandlerStep(c)
    \/ NodeStep

Spec == Init /\ [][Next]_vars

\* Processes and goroutines are scheduled.  The node owes nothing.  All these
\* steps are finitely many, so that one of them goes on is enough to ask.
Running == \E c \in Commands : CommandStep(c) \/ HandlerStep(c)
FairSpec == Spec /\ WF_vars(Running)

-----------------------------------------------------------------------------
\* A command that reports success has changed the store, in the node or
\* locally, however often the node came and went meanwhile.
ReportedIsApplied ==
    \A c \in Commands : result[c] = "ok" /\ cmd[c].op \in Writes => c \in applied

\* A command that has the store for itself, or has reported success, is not
\* overtaken by its first attempt: the handler of that may still run, in a node
\* that has closed its core and even beside the next one, but it changes nothing
\* any more.
LocalIsLast ==
    [][\A c \in Commands :
         (pc[c] \in {"local", "close"} \/ result[c] = "ok") /\ handler'[c] # handler[c]
            => UNCHANGED <<store, applied>>]_vars

\* A running node changes its store, and shows values of it, only for the token
\* of an ADMIN: a command that was refused does not get there by its retry.
AdminOnly ==
    [][\A c \in Commands :
         node # "down" /\ (c \in applied' \ applied \/ clear'[c] # clear[c])
            => role[c] = "ADMIN"]_vars

\* Every command ends, though the node may stop at any point and the store may
\* be locked.
CommandEnds == []<>(\A c \in Commands : pc[c] \in {"idle", "done"})

\* What "config help" says of list: "List all config entries, hides the
\* passwords and keys."
ListHidesSecrets == \A c \in Commands : cmd[c] = List => clear[c] \cap Secret = {}
=============================================================================
