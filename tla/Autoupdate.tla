----------------------------- MODULE Autoupdate -----------------------------
(***************************************************************************)
(* The autoupdate service (sprintcore/autoupdate_service.go).  A loop      *)
(* watches the executable's file and asks for a restart one second after   *)
(* the last change; jobs hold restarts off with Freeze and Unfreeze.  No   *)
(* lock protects any of it: freezeMap is a sync.Map, the rest are atomics, *)
(* and the loop, the jobs and the timers all run triggerUpdate, so every   *)
(* access to them is a step of its own.                                    *)
(***************************************************************************)
EXTENDS Naturals

CONSTANTS Loop,         \* the goroutine of foregroundLoop
          Jobs,         \* goroutines that call Freeze and Unfreeze
          Timers,       \* bound: timers of time.AfterFunc pending at once
          MaxFreeze,    \* bound: calls of Freeze
          MaxWrites,    \* bound: builds copied over the file in place
          MaxTime       \* bound: distinct values of time.Now().UnixNano()

ASSUME AutoupdateAssumption ==
    /\ MaxFreeze \in Nat /\ MaxWrites \in Nat /\ MaxTime \in Nat
    /\ Loop \notin Jobs \cup Timers /\ Jobs \cap Timers = {}

VARIABLES app,          \* the application's shutdown latch
          freezeNextId,
          freezeMap,    \* the handles in freezeMap
          triggerAfterUnfreeze,
          triggerUpdateTimestamp,   \* 0 before the first call
          clock,        \* the last value of time.Now()
          pc,           \* pc[p]: where p is
          handle,       \* handle[j]: what Freeze returned to job j
          snap,         \* snap[p]: what a Range of p started from
          current,      \* current[p]: the local of triggerUpdate
          file,         \* the executable: "old", "new" or "missing"
          watching,     \* fsnotify still watches the file
          events,       \* Write events in watcher.Events
          writes,       \* builds copied over the file so far
          requested     \* history: the loop has seen a changed file

vars == <<app, freezeNextId, freezeMap, triggerAfterUnfreeze, triggerUpdateTimestamp,
          clock, pc, handle, snap, current, file, watching, events, writes, requested>>

Application == INSTANCE ShutdownLatch WITH latch <- app

Procs == {Loop} \cup Jobs \cup Timers
Handles == 1..MaxFreeze
Times == 1..MaxTime

\* Inside triggerUpdate, before the timer is armed.
Triggering == {"check", "checking", "flag", "recheck", "rechecking",
               "stamp", "store", "arm"}

Labels ==
    Triggering
    \cup {"select", "stopped"}                      \* the loop
    \cup {"idle", "freeze", "frozen", "unfreeze", "unfreezing", "flagged"} \* jobs
    \cup {"pending", "fired", "due"}                \* timers

TypeOK ==
    /\ app \in Application!LatchStates
    /\ freezeNextId \in 0..MaxFreeze
    /\ freezeMap \subseteq 1..freezeNextId
    /\ triggerAfterUnfreeze \in BOOLEAN
    /\ clock \in 0..MaxTime
    /\ triggerUpdateTimestamp \in 0..clock
    /\ pc \in [Procs -> Labels]
    /\ handle \in [Jobs -> 0..freezeNextId]
    /\ snap \in [Procs -> SUBSET Handles]
    /\ current \in [Procs -> 0..clock]
    /\ file \in {"old", "new", "missing"}
    /\ watching \in BOOLEAN
    /\ events \in 0..writes
    /\ writes \in 0..MaxWrites
    /\ requested \in BOOLEAN

Init ==
    /\ Application!LatchInit
    /\ freezeNextId = 0
    /\ freezeMap = {}
    /\ triggerAfterUnfreeze = FALSE
    /\ clock = 0
    /\ triggerUpdateTimestamp = 0
    /\ pc = [p \in Procs |-> IF p = Loop THEN "select" ELSE "idle"]
    /\ handle = [j \in Jobs |-> 0]
    /\ snap = [p \in Procs |-> {}]
    /\ current = [p \in Procs |-> 0]
    /\ file = "old"
    /\ watching = TRUE
    /\ events = 0
    /\ writes = 0
    /\ requested = FALSE

-----------------------------------------------------------------------------
Goto(p, label) == pc' = [pc EXCEPT ![p] = label]

freezeVars == <<freezeNextId, freezeMap, handle>>
timeVars == <<triggerUpdateTimestamp, clock, current>>
fileVars == <<file, watching, events, writes>>

\* Where a process continues when triggerUpdate returns.
Resume(p) == IF p = Loop THEN "select" ELSE "idle"

\* hasFreezeJob: Range goes over the handles present when it started, and
\* reports the first one that is still there when it gets to it.
StartRange(p, from, to) ==
    /\ pc[p] = from
    /\ snap' = [snap EXCEPT ![p] = freezeMap]
    /\ Goto(p, to)
    /\ UNCHANGED <<app, freezeVars, triggerAfterUnfreeze, timeVars, fileVars, requested>>

HasFreezeJob(p) == snap[p] \cap freezeMap # {}

EndRange(p, from, found, empty) ==
    /\ pc[p] = from
    /\ LET to == IF HasFreezeJob(p) THEN found ELSE empty
       IN  /\ Goto(p, to)
           /\ snap' = [snap EXCEPT ![p] = IF to = "stamp" THEN @ ELSE {}]
    /\ UNCHANGED <<app, freezeVars, triggerAfterUnfreeze, timeVars, fileVars, requested>>

-----------------------------------------------------------------------------
(* triggerUpdate, run by the loop, by a job in Unfreeze or by a timer. *)

Check(p) == StartRange(p, "check", "checking")
CheckDone(p) == EndRange(p, "checking", "flag", "stamp")

\* Mutant of SetFlag: the flag is raised and nobody looks again.
SetFlagAndReturn(p) ==
    /\ pc[p] = "flag"
    /\ triggerAfterUnfreeze' = TRUE
    /\ Goto(p, Resume(p))
    /\ UNCHANGED <<app, freezeVars, timeVars, snap, fileVars, requested>>

SetFlag(p) ==
    /\ pc[p] = "flag"
    /\ triggerAfterUnfreeze' = TRUE
    /\ Goto(p, "recheck")
    /\ UNCHANGED <<app, freezeVars, timeVars, snap, fileVars, requested>>

Recheck(p) == StartRange(p, "recheck", "rechecking")

\* Mutant of RecheckDone: it goes on although a job is still frozen.
RecheckIgnored(p) == EndRange(p, "rechecking", "stamp", "stamp")

RecheckDone(p) == EndRange(p, "rechecking", Resume(p), "stamp")

\* current := time.Now().UnixNano(): two goroutines may read the same value.
Stamp(p) ==
    /\ pc[p] = "stamp"
    /\ \E now \in Times :
         /\ now \in clock..(clock + 1)
         /\ clock' = now
         /\ current' = [current EXCEPT ![p] = now]
    /\ Goto(p, "store")
    /\ UNCHANGED <<app, freezeVars, triggerAfterUnfreeze, triggerUpdateTimestamp, snap,
                   fileVars, requested>>

StoreTimestamp(p) ==
    /\ pc[p] = "store"
    /\ triggerUpdateTimestamp' = current[p]
    /\ Goto(p, "arm")
    /\ UNCHANGED <<app, freezeVars, triggerAfterUnfreeze, clock, current, snap, fileVars,
                   requested>>

\* time.AfterFunc(time.Second, ...): the closure keeps current, and triggerUpdate
\* returns.  A timer that triggers again is its own successor.
TimerFor(p) == IF p \in Timers THEN p ELSE CHOOSE t \in Timers : pc[t] = "idle"

Arm(p) ==
    /\ pc[p] = "arm"
    /\ p \in Timers \/ \E t \in Timers : pc[t] = "idle"
    /\ \E t \in Timers :
         /\ t = TimerFor(p)
         /\ pc' = [pc EXCEPT ![p] = Resume(p), ![t] = "pending"]
         /\ current' = [current EXCEPT ![p] = 0, ![t] = current[p]]
         /\ snap' = [snap EXCEPT ![p] = {}, ![t] = snap[p]]
    /\ UNCHANGED <<app, freezeVars, triggerAfterUnfreeze, triggerUpdateTimestamp, clock,
                   fileVars, requested>>

TriggerUpdate(p) ==
    \/ Check(p) \/ CheckDone(p) \/ SetFlag(p) \/ Recheck(p) \/ RecheckDone(p)
    \/ Stamp(p) \/ StoreTimestamp(p) \/ Arm(p)

-----------------------------------------------------------------------------
(* The function of a timer. *)

\* The closure is left and its copy of current with it.
LeaveTimer(t, label) ==
    /\ Goto(t, label)
    /\ current' = [current EXCEPT ![t] = 0]
    /\ snap' = [snap EXCEPT ![t] = {}]

\* A timer that a later call of triggerUpdate has superseded does nothing.
Fire(t) ==
    /\ pc[t] = "pending"
    /\ IF triggerUpdateTimestamp = current[t]
         THEN Goto(t, "fired") /\ UNCHANGED <<current, snap>>
         ELSE LeaveTimer(t, "idle")
    /\ UNCHANGED <<app, freezeVars, triggerAfterUnfreeze, triggerUpdateTimestamp, clock,
                   fileVars, requested>>

\* Mutant of TestLock: a file that cannot be opened is not tried again.
TestLockOnce(t) ==
    /\ pc[t] = "fired"
    /\ IF file = "missing"
         THEN LeaveTimer(t, "idle")
         ELSE Goto(t, "due") /\ UNCHANGED <<current, snap>>
    /\ UNCHANGED <<app, freezeVars, triggerAfterUnfreeze, triggerUpdateTimestamp, clock,
                   fileVars, requested>>

\* isFileLocked: the file cannot be opened for reading, try again.
TestLock(t) ==
    /\ pc[t] = "fired"
    /\ IF file = "missing"
         THEN LeaveTimer(t, "check")
         ELSE Goto(t, "due") /\ UNCHANGED <<current, snap>>
    /\ UNCHANGED <<app, freezeVars, triggerAfterUnfreeze, triggerUpdateTimestamp, clock,
                   fileVars, requested>>

Restart(t) ==
    /\ pc[t] = "due"
    /\ Application!Shutdown(TRUE)
    /\ LeaveTimer(t, "idle")
    /\ UNCHANGED <<freezeVars, triggerAfterUnfreeze, triggerUpdateTimestamp, clock, fileVars,
                   requested>>

TimerStep(t) == Fire(t) \/ TestLock(t) \/ Restart(t) \/ TriggerUpdate(t)

-----------------------------------------------------------------------------
(* A job: Freeze, some work, Unfreeze. *)

\* Mutant of TakeHandle: the id before the increment.
TakeOldHandle(j) ==
    /\ pc[j] = "idle"
    /\ freezeNextId < MaxFreeze
    /\ freezeNextId' = freezeNextId + 1
    /\ handle' = [handle EXCEPT ![j] = freezeNextId]
    /\ Goto(j, "freeze")
    /\ UNCHANGED <<app, freezeMap, triggerAfterUnfreeze, timeVars, snap, fileVars, requested>>

\* Freeze: id := t.freezeNextId.Inc()
TakeHandle(j) ==
    /\ pc[j] = "idle"
    /\ freezeNextId < MaxFreeze
    /\ freezeNextId' = freezeNextId + 1
    /\ handle' = [handle EXCEPT ![j] = freezeNextId + 1]
    /\ Goto(j, "freeze")
    /\ UNCHANGED <<app, freezeMap, triggerAfterUnfreeze, timeVars, snap, fileVars, requested>>

StoreHandle(j) ==
    /\ pc[j] = "freeze"
    /\ freezeMap' = freezeMap \cup {handle[j]}
    /\ Goto(j, "frozen")
    /\ UNCHANGED <<app, freezeNextId, handle, triggerAfterUnfreeze, timeVars, snap, fileVars,
                   requested>>

\* Unfreeze: the handle goes first, then hasFreezeJob, then the flag.
DeleteHandle(j) ==
    /\ pc[j] = "frozen"
    /\ freezeMap' = freezeMap \ {handle[j]}
    /\ handle' = [handle EXCEPT ![j] = 0]
    /\ Goto(j, "unfreeze")
    /\ UNCHANGED <<app, freezeNextId, triggerAfterUnfreeze, timeVars, snap, fileVars, requested>>

OtherJobs(j) == StartRange(j, "unfreeze", "unfreezing")
OtherJobsDone(j) == EndRange(j, "unfreezing", "idle", "flagged")

LoadFlag(j) ==
    /\ pc[j] = "flagged"
    /\ Goto(j, IF triggerAfterUnfreeze THEN "check" ELSE "idle")
    /\ UNCHANGED <<app, freezeVars, triggerAfterUnfreeze, timeVars, snap, fileVars, requested>>

JobStep(j) ==
    \/ StoreHandle(j) \/ DeleteHandle(j) \/ OtherJobs(j) \/ OtherJobsDone(j) \/ LoadFlag(j)
    \/ TriggerUpdate(j)

-----------------------------------------------------------------------------
(* The loop. *)

\* onEvent: a Write event, the file is there and is not the cached one.
OnEvent ==
    /\ pc[Loop] = "select"
    /\ events > 0
    /\ events' = events - 1
    /\ Goto(Loop, IF file = "new" THEN "check" ELSE "select")
    /\ requested' = (requested \/ file = "new")
    /\ UNCHANGED <<app, freezeVars, triggerAfterUnfreeze, timeVars, snap, file, watching,
                   writes>>

StopLoop ==
    /\ pc[Loop] = "select"
    /\ app # "open"
    /\ Goto(Loop, "stopped")
    /\ UNCHANGED <<app, freezeVars, triggerAfterUnfreeze, timeVars, snap, fileVars, requested>>

LoopStep == OnEvent \/ StopLoop \/ TriggerUpdate(Loop)

\* Destroy closes the watcher and what it had queued is gone.
Destroy ==
    /\ watching' = FALSE
    /\ events' = 0
    /\ UNCHANGED <<app, freezeVars, triggerAfterUnfreeze, timeVars, pc, snap, file, writes,
                   requested>>

-----------------------------------------------------------------------------
(* The file system and fsnotify, as the loop uses them. *)

\* A new build is copied over the file.
WriteFile ==
    /\ file # "missing"
    /\ writes < MaxWrites
    /\ writes' = writes + 1
    /\ file' = "new"
    /\ events' = IF watching THEN events + 1 ELSE events
    /\ UNCHANGED <<app, freezeVars, triggerAfterUnfreeze, timeVars, pc, snap, watching,
                   requested>>

\* A file that is removed or replaced loses its watch, ...
RemoveFile ==
    /\ file # "missing"
    /\ file' = "missing"
    /\ watching' = FALSE
    /\ UNCHANGED <<app, freezeVars, triggerAfterUnfreeze, timeVars, pc, snap, events, writes,
                   requested>>

\* ... and the watcher does not come back for the one that takes its place.
PutFile ==
    /\ file = "missing"
    /\ file' = "new"
    /\ UNCHANGED <<app, freezeVars, triggerAfterUnfreeze, timeVars, pc, snap, watching, events,
                   writes, requested>>

-----------------------------------------------------------------------------
Next ==
    \/ LoopStep \/ Destroy
    \/ \E j \in Jobs : TakeHandle(j) \/ JobStep(j)
    \/ \E t \in Timers : TimerStep(t)
    \/ WriteFile \/ RemoveFile \/ PutFile

Spec == Init /\ [][Next]_vars

\* Goroutines are scheduled, timers expire, and a job that has frozen the
\* service unfreezes it in the end.
FairSpec ==
    /\ Spec
    /\ WF_vars(LoopStep)
    /\ \A j \in Jobs : WF_vars(JobStep(j))
    /\ \A t \in Timers : WF_vars(TimerStep(t))

-----------------------------------------------------------------------------
\* What the comment in triggerUpdate worries about: once the loop has seen a
\* new file somebody is always left to carry the restart on.  Some goroutine
\* is inside triggerUpdate, or a timer that has not been superseded is armed or
\* running, or the flag is up and a job that has yet to read it is frozen or
\* unfreezing.
NoLostUpdate ==
    requested /\ app = "open" =>
        \/ \E p \in Procs : pc[p] \in Triggering
        \/ \E t \in Timers : \/ pc[t] = "pending" /\ current[t] = triggerUpdateTimestamp
                             \/ pc[t] \in {"fired", "due"}
        \/ /\ triggerAfterUnfreeze
           /\ freezeMap # {} \/ \E j \in Jobs : pc[j] \in {"unfreeze", "unfreezing", "flagged"}

\* A restart never hits a job that was frozen when the restart was decided:
\* from the decision to the call of Application.Shutdown no handle the decision
\* saw is in freezeMap.
FrozenJobsAreSpared ==
    \A p \in Procs :
        pc[p] \in {"stamp", "store", "arm", "pending", "fired", "due"} => ~HasFreezeJob(p)

\* Once the loop has seen a new file the node restarts when the jobs are done,
\* also when the file disappears for a while in between and comes back.
UpdateHappens == <>[](file # "missing") => (requested ~> app # "open")
=============================================================================
