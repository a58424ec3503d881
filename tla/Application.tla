---------------------------- MODULE Application ----------------------------
(***************************************************************************)
(* The shutdown path of the application, atomic step by atomic step        *)
(* (sprintapp/application.go): Shutdown runs its body under a sync.Once    *)
(* while any number of goroutines call it (signal handler, control server  *)
(* timers, autoupdate timers) and any number of contexts derived from the  *)
(* application wait on Done() and then read Err().                         *)
(***************************************************************************)
CONSTANTS Callers,      \* goroutines that call Shutdown, once each
          Derived       \* contexts created with context.WithCancel(application)

VARIABLES once,         \* sync.Once: "new", "running" or "done"
          pc,           \* pc[c]: where caller c is inside Shutdown
          arg,          \* arg[c]: the restart argument of caller c
          restarting,   \* atomic.Bool
          shuttingDown, \* atomic.Bool
          applicationErr, \* atomic.Error: "nil" or "closed"
          closed,       \* shutdownCh has been closed
          ctxErr        \* ctxErr[d]: what d got from Err(), "none" before that

vars == <<once, pc, arg, restarting, shuttingDown, applicationErr, closed, ctxErr>>

CallerStates == {"idle", "called", "store", "flag", "error", "close", "leave",
                 "returned", "panicked"}

TypeOK ==
    /\ once \in {"new", "running", "done"}
    /\ pc \in [Callers -> CallerStates]
    /\ arg \in [Callers -> BOOLEAN]
    /\ restarting \in BOOLEAN
    /\ shuttingDown \in BOOLEAN
    /\ applicationErr \in {"nil", "closed"}
    /\ closed \in BOOLEAN
    /\ ctxErr \in [Derived -> {"none", "nil", "closed"}]

Init ==
    /\ once = "new"
    /\ pc = [c \in Callers |-> "idle"]
    /\ arg = [c \in Callers |-> FALSE]
    /\ restarting = FALSE
    /\ shuttingDown = FALSE
    /\ applicationErr = "nil"
    /\ closed = FALSE
    /\ ctxErr = [d \in Derived |-> "none"]

-----------------------------------------------------------------------------
Goto(c, label) == pc' = [pc EXCEPT ![c] = label]

Call(c, restart) ==
    /\ pc[c] = "idle"
    /\ Goto(c, "called")
    /\ arg' = [arg EXCEPT ![c] = restart]
    /\ UNCHANGED <<once, restarting, shuttingDown, applicationErr, closed, ctxErr>>

\* Mutant of EnterOnce: Shutdown without the sync.Once.
EnterWithoutOnce(c) ==
    /\ pc[c] = "called"
    /\ once' = "running"
    /\ Goto(c, "store")
    /\ UNCHANGED <<arg, restarting, shuttingDown, applicationErr, closed, ctxErr>>

\* shutdownOnce.Do: the first caller runs the body, a caller that arrives
\* while the body runs blocks until it has finished.
EnterOnce(c) ==
    /\ pc[c] = "called"
    /\ once = "new"
    /\ once' = "running"
    /\ Goto(c, "store")
    /\ UNCHANGED <<arg, restarting, shuttingDown, applicationErr, closed, ctxErr>>

\* Mutant of SkipOnce: a compare-and-swap that does not wait for the winner.
SkipWithoutWaiting(c) ==
    /\ pc[c] = "called"
    /\ once # "new"
    /\ Goto(c, "returned")
    /\ UNCHANGED <<once, arg, restarting, shuttingDown, applicationErr, closed, ctxErr>>

SkipOnce(c) ==
    /\ pc[c] = "called"
    /\ once = "done"
    /\ Goto(c, "returned")
    /\ UNCHANGED <<once, arg, restarting, shuttingDown, applicationErr, closed, ctxErr>>

StoreRestarting(c) ==
    /\ pc[c] = "store"
    /\ restarting' = arg[c]
    /\ Goto(c, "flag")
    /\ UNCHANGED <<once, arg, shuttingDown, applicationErr, closed, ctxErr>>

\* Mutant of StoreShuttingDown: the error is forgotten.
StoreFlagOnly(c) ==
    /\ pc[c] = "flag"
    /\ shuttingDown' = TRUE
    /\ Goto(c, "close")
    /\ UNCHANGED <<once, arg, restarting, applicationErr, closed, ctxErr>>

StoreShuttingDown(c) ==
    /\ pc[c] = "flag"
    /\ shuttingDown' = TRUE
    /\ Goto(c, "error")
    /\ UNCHANGED <<once, arg, restarting, applicationErr, closed, ctxErr>>

StoreErr(c) ==
    /\ pc[c] = "error"
    /\ applicationErr' = "closed"
    /\ Goto(c, "close")
    /\ UNCHANGED <<once, arg, restarting, shuttingDown, closed, ctxErr>>

\* Closing a closed channel panics.
CloseCh(c) ==
    /\ pc[c] = "close"
    /\ Goto(c, IF closed THEN "panicked" ELSE "leave")
    /\ closed' = TRUE
    /\ UNCHANGED <<once, arg, restarting, shuttingDown, applicationErr, ctxErr>>

\* Mutant of LeaveOnce: the once stays locked.
LeaveLocked(c) ==
    /\ pc[c] = "leave"
    /\ Goto(c, "returned")
    /\ UNCHANGED <<once, arg, restarting, shuttingDown, applicationErr, closed, ctxErr>>

LeaveOnce(c) ==
    /\ pc[c] = "leave"
    /\ once' = "done"
    /\ Goto(c, "returned")
    /\ UNCHANGED <<arg, restarting, shuttingDown, applicationErr, closed, ctxErr>>

\* Mutant of Propagate: the child makes up an error of its own.
PropagateCanceled(d) ==
    /\ ctxErr[d] = "none"
    /\ closed
    /\ ctxErr' = [ctxErr EXCEPT ![d] = "canceled"]
    /\ UNCHANGED <<once, pc, arg, restarting, shuttingDown, applicationErr, closed>>

\* The goroutine that context.WithCancel starts for a parent of a foreign
\* type: it waits for Done() and cancels the child with the parent's Err().
Propagate(d) ==
    /\ ctxErr[d] = "none"
    /\ closed
    /\ ctxErr' = [ctxErr EXCEPT ![d] = applicationErr]
    /\ UNCHANGED <<once, pc, arg, restarting, shuttingDown, applicationErr, closed>>

CallerStep(c) ==
    \/ EnterOnce(c) \/ SkipOnce(c)
    \/ StoreRestarting(c) \/ StoreShuttingDown(c) \/ StoreErr(c)
    \/ CloseCh(c) \/ LeaveOnce(c)

Next ==
    \/ \E c \in Callers : (\E restart \in BOOLEAN : Call(c, restart)) \/ CallerStep(c)
    \/ \E d \in Derived : Propagate(d)

Spec == Init /\ [][Next]_vars

\* Goroutines that are not blocked are scheduled.
FairSpec ==
    /\ Spec
    /\ \A c \in Callers : WF_vars(CallerStep(c))
    /\ \A d \in Derived : WF_vars(Propagate(d))

-----------------------------------------------------------------------------
\* The accessors of the application.
Active == ~shuttingDown
Done == closed
Err == applicationErr

\* The caller whose body the sync.Once ran or runs.
InBody(c) == pc[c] \in {"store", "flag", "error", "close", "leave", "panicked"}

\* The context.Context contract the derived contexts rely on: whoever finds
\* Done() closed also finds a non-nil Err(), an inactive application, and, if
\* it is a derived context that has been cancelled, it was cancelled with a
\* real error.  context.WithCancel panics on a nil error, so the order of the
\* stores and the close in Shutdown matters.
DoneContract ==
    /\ Done => Err # "nil" /\ ~Active
    /\ \A d \in Derived : ctxErr[d] # "nil"

\* A caller that has returned from Shutdown, the winner or one that lost the
\* race and only waited, leaves behind an application that is closed, and no
\* caller dies closing the channel a second time.
ReturnedMeansClosed ==
    \A c \in Callers :
        /\ pc[c] = "returned" => closed /\ shuttingDown
        /\ pc[c] # "panicked"

\* Every call of Shutdown returns, and every derived context is cancelled once
\* some call was made.
ShutdownCompletes ==
    /\ \A c \in Callers : (pc[c] = "called") ~> (pc[c] = "returned")
    /\ \A d \in Derived : (\E c \in Callers : pc[c] = "called") ~> (ctxErr[d] = "closed")

\* The refinement: the latch is open until the channel is closed.
Status == IF closed THEN (IF restarting THEN "restart" ELSE "stop") ELSE "open"

Latch == INSTANCE ShutdownLatch WITH latch <- Status

\* Shutdown implements the one-shot latch: the first accepted call decides, and
\* the signal goroutine of runServers may call Shutdown(false) after Done()
\* without turning a restart into a stop.
ImplementsLatch == Latch!LatchSpec
=============================================================================
