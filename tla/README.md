# TLA+ models of sprintframework

sprintframework is a Go framework for nodes: a process with a core context
(stores, configuration, jobs), a number of gRPC and HTTP servers, a control
server that is administered from the command line, and a self-update. This
directory models the parts of it where goroutines, timers, streams and processes
meet, and what the HTTP servers answer.
Paths below are relative to the repository.

## Inventory

| component | source | state | operations | hard part | what makes it correct | module |
|---|---|---|---|---|---|---|
| application shutdown | `sprintapp/application.go` | `shutdownOnce`, `restarting`, `shuttingDown`, `applicationErr`, `shutdownCh` | `Shutdown`, `Active`, `Restarting`, `Done`, `Err` | many callers at once; the application is itself a `context.Context` | the first call decides, `Done()` closed implies `Err() != nil`, no caller returns early | `ShutdownLatch`, `Application` |
| servers | `sprintserver/grpc_server.go`, `http_server.go` | listener, library server, `shutdownOnce` | `Bind`, `Serve`, `Shutdown` | `Serve` and `Shutdown` run concurrently; clients that never leave | the port is released, `Shutdown` ends | `Server` |
| node run | `sprintcmd/utils.go`, `run_node.go` | errgroup, watcher, signal goroutine, `boundServers` | `doWithServers`, `runServers`, `implRunNode.Run` | signals, failures and restart requests in any order | the process ends; a successor finds ports and stores free | `RunServers` |
| autoupdate | `sprintcore/autoupdate_service.go` | `freezeMap`, `triggerAfterUnfreeze`, `triggerUpdateTimestamp`, timers | event loop, `Freeze`, `Unfreeze`, `triggerUpdate` | lock-free, every step interleaves | no update is lost, frozen jobs are spared | `Autoupdate` |
| configuration repository | `sprintcore/config_repository.go` | store, `watchMap`, `watchNum`, a channel per watch | `Set`, `Watch`, `Destroy` | setters and watches block on each other; a closed channel panics the setter | watches hear of changes, nobody hangs, goroutines end | `ConfigRepository` |
| job service | `sprintcore/job_service.go` | list of jobs | `AddJob`, `CancelJob`, `RunJob` | cancel beside run | a cancelled job does not run | `JobService` |
| storage console | `sprintclient/control_client.go`, `sprintcore/storage_service.go` | the channel `barrier`, a gRPC stream | prompt, query, answer, `LocalConsole` | two client goroutines and a handler over a stream that may break | prompts and answers in step, nothing left behind | `StorageConsole` |
| config, storage, certs and job commands | `sprintcmd/config_cmd.go`, `storage_cmd.go`, `certs_cmd.go`, `job_cmd.go`, `sprintclient/control_client.go` | the store and its lock | get, set, list, clean, drop, dump, restore, certificates, jobs, status | every error makes most commands try again locally; the node may come and go meanwhile | what is reported was done; a retry does not run beside the first attempt; every command ends | `ControlCommands` |
| control server | `sprintserver/grpc_control_server.go`, `authorization_middleware.go` | `invalidTokens`, pending timers | `Node`, `Job`, `Storage`, `Config`, `Certificate`, `Status`, `StorageConsole` | shutdown is delayed by a timer; handlers outlive their clients | an accepted command is carried out, others are not | `ControlCommands`, `Node` and `Fire` of `NodeCommands`, `RequestShutdown` of `RunServers`, `Authorize` of `StorageConsole` |
| start, stop, restart | `sprintcmd/start_node.go`, `stop_node.go`, `restart_node.go`, `node_cmd.go`, `sprintapp/property.go`, `sprintutils/files.go` | the pid file, two spare executables, the boot token in an environment | run, start, stop, kill, restart | processes race on files; any step fails; a node crashes; answers are lost | one node, named by the pid file; a restart is followed by a node that serves the right build; a stop ends the node | `StartNode`, `NodeCommands` |
| HTTP content | `sprintserver/http_server_factory.go`, `utils.go`, `redirect_https_page.go`, `template_page.go`, `sprintutils/gateway.go` | the multiplexer | `Object`, `ServeHTTP` of assets and pages, `FindGatewayHandler` | one multiplexer for four kinds of handlers, two encodings of one asset | routes kept, content and its label agree | `HttpContent` |
| node service | `sprintcore/node_service.go` | `lastTimestamp`, `clock` | `Issue` | compare-and-swap and reset | ids are unique | not modelled |
| property resolver, rate limiter | `sprintapp/property.go`, `sprintutils/rate_limiter.go` | a cache; the time of the last request | `GetProperty`, `PromptProperty`, `Environ`; `Do` | a sleep under a lock | the boot token reaches a child; spacing | `Environ` of `StartNode`, `RunStart` of `NodeCommands`; the limiter is not modelled |
| other factories, logging, mail, keygen and setup, generated code | `sprintserver/*_factory.go`, `sprintcore/*_factory.go`, `sprintcmd/keygen_cmd.go`, `setup_cmd.go`, `pkg/` | none of their own | construction and I/O | none that a model checker reaches | | not modelled |

How they interact: the signal goroutine of a node's run, the control server's
delayed `Node` command and the timers of the autoupdate service all call
`Application.Shutdown`; the errgroup's context is derived from the application,
so the call wakes the watcher, which shuts the servers down; `g.Wait` returns,
the contexts are closed, and `Run` asks `Restarting()` whether to start a
successor. Setters of the configuration repository are the control server and
the node service. The console runs inside the control server. The one-shot
commands call the control server and open a core of their own when that fails;
the lock of the store's files is all that keeps them and the node apart. The
same lock keeps two nodes apart when the pid file does not; "node start" and the
end of a restarting node run the same procedure, which is why `StartNode` is a
module of its own.

## Modules

* **`ShutdownLatch`**: what `Application.Shutdown` promises: a latch that is
  open until the first call and then says "stop" or "restart" for ever.
* **`Application`**: the detailed version, one action per atomic store, per
  entry and exit of the `sync.Once` and for the close of the channel, with the
  contexts that `context.WithCancel` derives from the application (a goroutine
  that reads `Err()` after `Done()`). `ImplementsLatch` is the refinement
  (`Status` is the mapping: the latch changes when the channel is closed).
* **`Server`**: one instance of `Bind`, `Serve` and `Shutdown` per server. `lib`
  is the `*grpc.Server` or `*http.Server` inside, an external library of which
  the model keeps what `Serve` and `Shutdown` depend on: `GracefulStop` closes
  the listener at once and waits for clients, `Stop` does not wait, `Serve` of a
  stopped server returns at once. Servers an application brings itself
  (`Custom`) may also return nil when they please.
* **`RunServers`** extends `Server` with the goroutines of one process: `main`
  is the main goroutine from the creation of the server contexts to the exit,
  `watcher` and `handler` the two goroutines `runServers` starts. It uses
  `ShutdownLatch` as the application: that is what the refinement above
  licenses. Signals before `signal.Notify` kill the process. The end of `Run` is
  in steps: `core.Close` (which may fail, and `Run` goes on), the one look at
  `Restarting()` (`CheckRestarting`), then `StartSuccessor` or `Return`; the other
  goroutines run on between them.
* **`Autoupdate`**: the event loop, the jobs and the timers as processes; each of
  them can be inside `triggerUpdate`, so each of its accesses to shared state is
  an action with the process as its parameter. A `Range` over the `sync.Map` is
  a snapshot and a second look at what is still there. The restart is
  `ShutdownLatch` again. Of the file the model keeps whether it is there and new:
  a build is copied over it (`WriteFile`, with an event), or the file is removed,
  which ends the watch, and put back (`RemoveFile`, `PutFile`, without an event).
* **`ConfigRepository`**: setters and watches as processes. A prefix is the set of
  keys it matches. The unbuffered channel is a joint step (`Send`); a send on a
  closed channel panics (`SendPanics`) and the caller recovers, as the control
  server does.
* **`JobService`**: the list and the goroutines of `job run`.
* **`StorageConsole`**: the two goroutines of the client, the handler, and the two
  directions of the stream as queues. `Break` may happen at any time and loses
  what is in transit or not, as the receiver finds it. When the stream cannot be
  opened the loop of `LocalConsole` takes its place.
* **`ControlCommands`**: command processes (`pc`), their handlers in the node
  (`handler`), the node itself from the opening of its core to its end, and
  the lock of the store (`holder`). `StopServers`, `StopNode` (`core.Close`, which
  frees the lock) and `Exit` (the end of the process) are separate steps: neither
  `GracefulStop`, which has a timeout, nor `Stop` is sure to wait for the handlers,
  so a handler may be left when the core is closed, and even when a command or
  the next node has the stores. `home` is the run it belongs to. Its store is
  closed then, and a closed store refuses every access (`Opened`, an assumption
  about the store libraries), so the handler can only fail. Of a token the model
  keeps whether it has the role ADMIN and whether it is valid when it is looked up,
  which is once per command (`Authorize`), of a value whether it is empty, of a key
  whether it is hidden (starts with a dot) or a secret. `wrapError` makes
  every error Unavailable, so `Fallback` has no other guard than the failure and
  the kind of command: jobs, the certificate manager and the status exist only in
  a node (`GiveUp`). A service may fail in the node (`HandlerFails`), which also
  sends the command to a core of its own, or there (`LocalFails`); either may have
  changed the store before it fails (`HalfWay`).
* **`StartNode`**: `implStartNode.Start`, one action per access to a file, with a
  failure of each. A starter `x` is a command or the pid of a restarting node.
  `file[f].writers` are the processes that have an executable open for writing:
  the kernel refuses to execute such a file and to write one that is executed.
  Of the update the model keeps which build it is.
* **`NodeCommands`** extends `StartNode` with the four commands and the life of a
  node process: `spawned` (no store yet, signals kill), `up`, `closing`, `launch`
  (inside `Start`), `dead`. What happens between `up` and `closing` is
  `RunServers`, whose results it uses: a decided shutdown ends (`NodeStops`) and
  the stores are free before `Start` (`SuccessorFindsAllFree`). `disturbed` is a history
  variable: two procedures were at the pid file at once, a write of it failed or a
  node died between starting its successor and writing the pid. Nothing in the code
  prevents that, so `PidNamesNode` and `OneDaemon` are claimed without it.
* **`HttpContent`**: `Object` of the HTTP server factory as a state machine over the
  multiplexer, and the handlers as operators of a request. A file is the bundle
  it comes from and its name; a reply says whether its body is compressed and
  whether it is labelled so.
* **`ApplicationProofs`**, **`RunServersProofs`**, **`AutoupdateProofs`**,
  **`ConfigRepositoryProofs`**, **`StorageConsoleProofs`**,
  **`ControlCommandsProofs`**, **`NodeCommandsProofs`**, **`HttpContentProofs`**:
  the theorems about the module of that name, see below.

Operators whose comment begins with "Mutant of" are not part of the
specifications: each is the operator below it with a plausible bug, kept to show
that the properties notice it.

## Runs

| run | question | bounds | result |
|---|---|---|---|
| `application` | do the stores, the close and the once give the `context.Context` contract, and the latch? | 3 callers (a winner, one that waits, one that comes late), 1 derived context | holds |
| `run_servers` | does a node end, releasing everything before a successor starts, and is a restart honoured? | a gRPC server and one of the application (they cover both kinds of `Shutdown` and both results of `Serve`), 2 signals (the second is the ignored one) | holds |
| `stop_cancels_group` | comment `sprintcmd/utils.go:133` | 1 HTTP server, 1 of the application | violated |
| `all_shut_down` | comment `sprintcmd/utils.go:134` | 2 gRPC servers | violated |
| `autoupdate` | is an update ever lost, or fired on a frozen job, and does it happen? | 2 jobs, 2 timers, 2 ticks of the clock (so that one timer supersedes the other), 2 freezes, 1 build copied over the file, which is removed and put back without bound; `UpdateHappens` supposes that the file is there in the end | holds |
| `config_repository` | do registered watches hear of changes, do ended ones leave the map, can a setter or a watch hang? | 2 setters, 2 watches, 1 key, 2 sets | holds |
| `cancel_job` | help text of `job cancel`, `sprintcmd/job_cmd.go:41` | 2 jobs, 1 runner | violated |
| `storage_console` | do prompts and answers stay in step, and does everything end? | 3 queries, 2 results each, 2 records in transit | holds |
| `control_commands` | is what a command reports done, once at a time and with the right token, and does it end? | 2 commands (one in the node, one with the store), of which one always has the token of an ADMIN (`Admins`), 1 key, 2 runs of the node (a restart while a command waits or its handler is left) | holds |
| `list_hides_secrets` | help text of `config list`, `sprintcmd/config_cmd.go:54` | 1 command, a hidden key and a secret one | violated |
| `node_commands` | does the pid file name the one node, which build does a start run, is a restart served, does a stop end the node? | a launch (`c1`), a stop or restart (`c3`) and a command that may be either (`c2`), 3 node processes (a node, its successor, one more), 1 crash; the deployed file comes and goes without bound | holds |
| `http_content` | do clients get what they ask for, at the route it belongs to? | all options, up to 2 pages (one may want the pattern of an asset or of the gateway) and 2 bundles over an index and another file | holds |

The bounds are the CONSTANTS of the cfg files. They are small, but every action
of every module fires in them, and the number of processes is one more than the
races need: a winner and a loser of the once, two timers for superseding, two
watches for one panic hiding the other. The proofs remove the bounds where they
exist. In `autoupdate` a second build (`MaxWrites = 2`) makes some 20 million
states and is not part of the run; the safety properties are theorems for any
bounds, and a second build differs from the first for `UpdateHappens` only in
that it may be requested twice, which the trigger by a job that unfreezes does as
well.

Four runs are expected to fail. They state what a comment or a help text says
and TLC finds a behaviour of the code that contradicts it:

* `StopCancelsGroup`: a server that returns nil from `Serve` does not cancel the
  group, so "first server stops then groupCtx going to be canceled" is not so.
* `AllShutDown`: the watcher is not a member of the group; when every server
  has failed by itself `g.Wait` may return first, and the `Shutdown`s are never
  started ("if groupCtx canceled we need to shutdown all servers").
* `CancelStopsJob`: "Cancel the running job" removes the job from the list and
  leaves the goroutine that executes it alone.
* `ListHidesSecrets`: "List all config entries, hides the passwords and keys"
  hides in the node the keys that start with a dot, which passwords and PEM keys
  need not, and nothing when the command does the work itself.

Deadlock is checked in `run_servers` and `storage_console`, whose behaviours
end in a stuttering step of their own (`Gone`, `Over`). The other systems stop
when their callers have made all the calls the bounds allow.

## Fairness

Weak fairness on the steps of every goroutine, which Go's scheduler gives to a
goroutine that is not blocked, and on the expiry of timers. Never on the outside
world: signals, requests, clients that leave, the user of the console, failures
of a server, changes of files, breaks of a connection, calls of `Set` and
`Watch`. Two assumptions beyond that: a job that froze the autoupdate service
unfreezes it in the end, and a callback of a watch returns. In
`control_commands` the node owes nothing: it may stay down, stay up or hang
while stopping. In `node_commands` users, deployments and crashes owe nothing.

`config_repository`, `control_commands` and `node_commands` ask for less than
fairness of each process: one weak fairness condition on the disjunction of all
steps that processes owe (`Running`, `Processing`). In these three systems every process
takes finitely many steps between inputs, and the inputs are bounded, so a
process that could go on and never did would, once the others have nothing left
to do, be the only one enabled. What they must reach is stated in the form
"again and again nothing is owed", which for a debt that stays until it is paid
says the same as leads-to.

## Proofs

`ApplicationProofs` proves the five facts of `Application` for any sets of
callers and derived contexts. The inductive invariant is

    IInv == TypeOK /\ OneInBody /\ StoresDone

`OneInBody` says that only the caller that entered the once is in the body while
it is "running", and `StoresDone` what has been stored at each point of the
body. `DoneContract` is not inductive by itself: that the error is there when
the channel is closed depends on where the one caller in the body is. The
refinement theorem uses the same invariant: a step is a step of the latch when it
closes the channel and a stutter otherwise, because nobody stores `restarting`
after that.

`RunServersProofs` proves the type invariant and `SuccessorFindsAllFree` of
`RunServers` for any sets of servers and any number of signals, with

    IInv == TypeOK /\ Quiet /\ Ports /\ CoreFirst

`Quiet`: servers that were not bound have no goroutines; `Ports`: a socket that
is open belongs to a bound server whose `Serve` or `Shutdown` will close it;
`CoreFirst`: a successor exists only after `core.Close` has returned.

`ConfigRepositoryProofs` proves `WatchesAreTold` and `ClosedAreUnregistered`
for any sets of setters, watches, keys and prefixes, with

    IInv == TypeOK /\ Registration /\ Counted /\ Notification

`WatchesAreTold` looks only at setters that have returned. What it needs of
those that have not is `Notification`: the watches that must still be told are
ahead of the `Range` (`Ahead`), and match its key (`Listening`). That the shortcut
over `watchNum` loses nobody is `Counted`: zero means that no watch has begun to
register, because the counter is incremented first.

`AutoupdateProofs` proves `FrozenJobsAreSpared` and `NoLostUpdate` for any number
of jobs, timers, freezes, writes and ticks, with

    IInv == TypeOK /\ FreshHandles /\ FrozenJobsAreSpared /\ FlagUp /\ Carried

`FrozenJobsAreSpared` would not survive a handle that is used twice, or a job that
has its handle and not yet stored it while a decision takes its snapshot:
`FreshHandles`. `NoLostUpdate` is not inductive as it stands: a goroutine about
to arm its timer does not carry the update when somebody has stored a later
timestamp in between, since its timer would do nothing. `Carried` counts it only
while its timestamp is the current one; then whoever supersedes it carries the
update instead. `FlagUp`: a goroutine that looks for frozen jobs a second time has
raised the flag that the job will read.

`StorageConsoleProofs` proves `AnswersInStep` for any number of queries and
results, with `IInv == TypeOK /\ Unopened /\ Unanswered /\ InTransit /\ Released /\
Leaving`: at any time the query of the user is in exactly one place, on its
way up (`Unanswered`), with records on their way down of which only the last is
final (`InTransit`), or between the receiver and the barrier (`Released`); the
receiver leaves only when no record can come (`Leaving`).

`ControlCommandsProofs` proves `ReportedIsApplied` and the action properties
`LocalIsLast` and `AdminOnly` for any number of commands and runs of the node, with

    IInv == TypeOK /\ Locked /\ Handled /\ Overtaken /\ Admitted /\ Worked

`LocalIsLast` says that the handler of a command's first attempt changes nothing
once the command has the store for itself or has reported success. The handler
need not be over by then, so the argument is not that it is gone but that it has
lost its core (`Overtaken`): a command that has opened the store found the lock
free (`Locked`), so the core of the last run was closed at that time, and a node
that starts later opens another one, under another run. A handler that has not
got to its work yet, or is in the middle of it, finds its store closed.

`HttpContentProofs` proves `RoutesKept` and `AssetsServed` for any number of pages
and bundles, with `IInv == TypeOK /\ Gateway /\ PagesSoFar /\ AssetsSoFar`: what
`Object` has registered at each of its phases. The multiplexer never replaces a
handler, so what is registered stays. That the last bundle with a file exists is
the one place where well-founded induction is needed; the library's theorem on
minimal elements (`WFMin`) gives it without an operator parameter.

`NodeCommandsProofs` proves `PidNamesNode`, `OneDaemon` and the action property
`NotOlder` for any number of commands, nodes and crashes, with

    IInv == TInv /\ BuildsKnown /\ PidInv

`TInv` is the types and the stages of a node's life. `BuildsKnown` is for
`NotOlder`: the deployed file is never the old build, and once a start has opened
its copy the spare executable never is again, whoever truncates, replaces or
unlinks it. `PidInv` speaks of the time before two procedures have met:

* at most one process is critical, that is, past the check of `Start`, about to
  remove the pid file, or a node that is to restart (`OneAtATime`);
* a node in the background that is not on its way out by a stop is named by the
  pid file, or the starter that is about to write its pid has it as its child
  (`Named`);
* when somebody is going to start a node, nobody stays but that starter itself
  and its child (`StartsAlone`), and when the file is about to be removed nobody
  stays at all (`RemovesAlone`);
* no signal is on its way to a node that is to restart (`RestartersUnharmed`),
  which a node that is closing already would take without effect.

Neither `PidNamesNode` nor `OneDaemon` is inductive: both look at moments when
nobody is at the file, and every restart goes through moments when somebody is.
The proof sorts the steps into those by which nobody comes closer to the file
(`Fades`, `FadesPidInv`) and the seven that need an argument: `RunForeground`,
`CheckPasses`, `Spawn`, `WritePid`, `KillServer`, `RemovePid` and `RunRestart`.

Every safety property of every passing run is a theorem.

Assumptions: the constants' `ASSUME`s only. Each `IInv` was checked by TLC on
the instance of its run before it was proved.

What stays with TLC: liveness (`ShutdownCompletes`, `NodeStops`,
`RestartHonoured`, `UpdateHappens`, `SetEnds`, `WatchesEnd`, `QueryAnswered`,
`ConsoleEnds`, `CommandEnds`, `RestartServes`, `StopEnds`), because the prover has
no `ENABLED`; induction over data and RECURSIVE operators, which no module uses;
and the four violations, whose counterexamples are TLC's.

## What is left out, and why

* Log lines, formats, the `alive` flags and the TLS wrapping of listeners.
* `http_server.go:122` replaces the listener unsynchronised; both values close
  the same socket, so the model has one.
* A callback of a watch that calls `Set` itself: it would deadlock with its own
  watch. Callers must not do it, and the model's do not.
* Values in the configuration repository, and therefore the order in which two
  `Set`s of one key notify: nothing in the repository promises it.
* In `RunServers`, when a server fails by itself the node ends without a decision,
  and a `Shutdown(true)` that is accepted after `run_node.go:167` is read by nobody.
  `RestartHonoured` speaks of those before; see the facts below.
* In `ControlCommands`: breaks of a connection to a node that runs on (client
  and node are on one machine), a core that does not close (its lock would stay
  until the process ends), the prompts of `config set`, limits of what is
  printed, and what the certificate service does. Without such a service the
  command says so and succeeds, so certificates are not among the commands whose
  success means that something was done.
* In `NodeCommands`: a pid is never used again by another program, so a stale
  pid file is only ever refused by `kill`. The store's lock is assumed to fail a
  second opener. `Status` is in `ControlCommands`. `stop` returns an
  error when `kill` cannot be started or the pid file not be removed
  (`stop_node.go:70-76`); in the model both succeed. With three node processes in a run `RestartServes` follows one
  restart after the other only as long as a pid is left.
* A page that panics: `template_page.go:48` and `redirect_https_page.go:57` recover
  and answer 500. Pages of `HttpContent` do not fail.
* In `Autoupdate`: a job that freezes between the decision to restart and the end
  of the timer's second is not looked for by the code. `FrozenJobsAreSpared` is
  about the jobs that the decision has seen.
* The components the inventory lists as not modelled. `Issue` of the node
  service gives two overlapping callers the same id when one stores the clock
  after the other has incremented it; the repository does not say whether calls
  may overlap.

Facts that the models show and nothing in the repository contradicts:

* a restart that is requested while a node whose servers have failed is at its
  end, after the last look at `Restarting()`, is accepted and does not happen;
* a handler of the control server may outlive the core of its node, and run
  beside the next one; it cannot reach a store any more;
* a node in the foreground writes no pid file, so "start" beside it starts a
  second process, which fails at the store;
* a stop within the delay of a restart is answered OK, and the restart happens;
* with autoupdate and no deployed file a start runs whatever is in the spare
  executable (`NotOlder` speaks of starts that have found the update);
* an asset with the pattern of a page is only warned about, and then fails the
  creation of the server;
* `GzipHandler`, which the factory does not use, cuts off the beginning of an
  error text for clients that do not accept gzip (`Unpack`);
* partial replies of compressed assets are not labelled.

## Plan

1. Safety facts that the liveness properties rest on, as theorems: that
   `NodeCommands` never has two holders of the stores, that a stop or a restart
   that was decided is not taken back before the process ends.
2. `NodeService.Issue` with its two atomics, and the parsers of `sprintutils` as
   pure operators.
