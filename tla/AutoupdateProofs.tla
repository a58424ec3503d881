-------------------------- MODULE AutoupdateProofs --------------------------
(***************************************************************************)
(* Proofs about Autoupdate, for any number of jobs, timers, calls of       *)
(* Freeze, writes of the file and ticks of the clock.  Handles are never   *)
(* used twice, so a handle that a decision to restart has seen leave does  *)
(* not come back; and every step that drops an update leaves somebody else *)
(* to carry it.                                                            *)
(***************************************************************************)
EXTENDS Autoupdate, TLAPS

\* freezeNextId is ahead of all handles, and no two jobs have the same one.
FreshHandles ==
    /\ \A p \in Procs : snap[p] \subseteq 1..freezeNextId
    /\ \A j, k \in Jobs : handle[j] = handle[k] /\ handle[j] # 0 => j = k
    /\ \A j \in Jobs : pc[j] = "freeze" =>
         /\ handle[j] # 0 /\ handle[j] \notin freezeMap
         /\ \A p \in Procs : handle[j] \notin snap[p]

\* A goroutine that looks for frozen jobs again has raised the flag.
FlagUp == \A p \in Procs : pc[p] \in {"recheck", "rechecking"} => triggerAfterUnfreeze

\* Inside triggerUpdate, before the timestamp is stored.
Early == Triggering \ {"arm"}

\* Who carries the update.  A goroutine about to arm its timer counts only
\* while nobody has stored a later timestamp: its timer would do nothing.
InTrigger == \/ \E p \in Procs : pc[p] \in Early
             \/ \E p \in Procs : pc[p] = "arm" /\ current[p] = triggerUpdateTimestamp
InTimer == \E t \in Timers : \/ pc[t] = "pending" /\ current[t] = triggerUpdateTimestamp
                             \/ pc[t] \in {"fired", "due"}
InJob == /\ triggerAfterUnfreeze
         /\ freezeMap # {} \/ \E j \in Jobs : pc[j] \in {"unfreeze", "unfreezing", "flagged"}
Carried == requested /\ app = "open" => InTrigger \/ InTimer \/ InJob

IInv == TypeOK /\ FreshHandles /\ FrozenJobsAreSpared /\ FlagUp /\ Carried

USE AutoupdateAssumption

LEMMA InitIInv == Init => IInv
<1> SUFFICES ASSUME Init
             PROVE  IInv
  OBVIOUS
<1>1. TypeOK
  <2>1. app \in Application!LatchStates
    BY DEF Init, Application!LatchInit, Application!LatchStates
  <2>2. pc \in [Procs -> Labels]
    BY DEF Init, Labels
  <2>3. triggerAfterUnfreeze \in BOOLEAN /\ watching \in BOOLEAN /\ requested \in BOOLEAN
    BY DEF Init
  <2> QED
    BY <2>1, <2>2, <2>3 DEF Init, TypeOK
<1>2. FreshHandles
  BY DEF Init, FreshHandles, Procs
<1>3. FrozenJobsAreSpared /\ FlagUp
  BY DEF Init, FrozenJobsAreSpared, FlagUp
<1>4. Carried
  BY DEF Init, Carried
<1> QED
  BY <1>1, <1>2, <1>3, <1>4 DEF IInv
-----------------------------------------------------------------------------
\* triggerUpdate, whoever runs it.
LEMMA TriggerIInv ==
    ASSUME IInv, NEW p \in Procs, TriggerUpdate(p)
    PROVE  IInv'
<1> USE DEF IInv, freezeVars, timeVars, fileVars, Goto, Resume, Labels, Triggering, Early,
            Procs, Handles, Times
<1>1. CASE Check(p)
  <2>1. TypeOK'
    BY <1>1 DEF Check, StartRange, TypeOK
  <2>2. FreshHandles'
    BY <1>1 DEF Check, StartRange, TypeOK, FreshHandles
  <2>3. FrozenJobsAreSpared'
    BY <1>1 DEF Check, StartRange, TypeOK, FreshHandles, FrozenJobsAreSpared, HasFreezeJob
  <2>4. FlagUp'
    BY <1>1 DEF Check, StartRange, TypeOK, FlagUp
  <2>5. Carried'
    BY <1>1 DEF Check, StartRange, TypeOK, Carried, InTrigger, InTimer, InJob
  <2> QED
    BY <2>1, <2>2, <2>3, <2>4, <2>5
<1>2. CASE CheckDone(p)
  <2>1. TypeOK'
    BY <1>2 DEF CheckDone, EndRange, TypeOK
  <2>2. FreshHandles'
    BY <1>2 DEF CheckDone, EndRange, TypeOK, FreshHandles
  <2>3. FrozenJobsAreSpared'
    BY <1>2 DEF CheckDone, EndRange, TypeOK, FreshHandles, FrozenJobsAreSpared, HasFreezeJob
  <2>4. FlagUp'
    BY <1>2 DEF CheckDone, EndRange, TypeOK, FlagUp
  <2>5. Carried'
    BY <1>2 DEF CheckDone, EndRange, TypeOK, Carried, InTrigger, InTimer, InJob
  <2> QED
    BY <2>1, <2>2, <2>3, <2>4, <2>5
<1>3. CASE SetFlag(p)
  <2>1. TypeOK'
    BY <1>3 DEF SetFlag, TypeOK
  <2>2. FreshHandles'
    BY <1>3 DEF SetFlag, TypeOK, FreshHandles
  <2>3. FrozenJobsAreSpared'
    BY <1>3 DEF SetFlag, TypeOK, FreshHandles, FrozenJobsAreSpared, HasFreezeJob
  <2>4. FlagUp'
    BY <1>3 DEF SetFlag, TypeOK, FlagUp
  <2>5. Carried'
    BY <1>3 DEF SetFlag, TypeOK, Carried, InTrigger, InTimer, InJob
  <2> QED
    BY <2>1, <2>2, <2>3, <2>4, <2>5
<1>4. CASE Recheck(p)
  <2>1. TypeOK'
    BY <1>4 DEF Recheck, StartRange, TypeOK
  <2>2. FreshHandles'
    BY <1>4 DEF Recheck, StartRange, TypeOK, FreshHandles
  <2>3. FrozenJobsAreSpared'
    BY <1>4 DEF Recheck, StartRange, TypeOK, FreshHandles, FrozenJobsAreSpared, HasFreezeJob
  <2>4. FlagUp'
    BY <1>4 DEF Recheck, StartRange, TypeOK, FlagUp
  <2>5. Carried'
    BY <1>4 DEF Recheck, StartRange, TypeOK, Carried, InTrigger, InTimer, InJob
  <2> QED
    BY <2>1, <2>2, <2>3, <2>4, <2>5
<1>5. CASE RecheckDone(p)
  <2>1. TypeOK'
    BY <1>5 DEF RecheckDone, EndRange, TypeOK
  <2>2. FreshHandles'
    BY <1>5 DEF RecheckDone, EndRange, TypeOK, FreshHandles
  <2>3. FrozenJobsAreSpared'
    BY <1>5 DEF RecheckDone, EndRange, TypeOK, FreshHandles, FrozenJobsAreSpared, HasFreezeJob
  <2>4. FlagUp'
    BY <1>5 DEF RecheckDone, EndRange, TypeOK, FlagUp
  <2>5. Carried'
    BY <1>5 DEF RecheckDone, EndRange, HasFreezeJob, TypeOK, FlagUp, Carried, InTrigger, InTimer,
                InJob
  <2> QED
    BY <2>1, <2>2, <2>3, <2>4, <2>5
<1>6. CASE Stamp(p)
  <2>1. TypeOK'
    BY <1>6 DEF Stamp, TypeOK
  <2>2. FreshHandles'
    BY <1>6 DEF Stamp, TypeOK, FreshHandles
  <2>3. FrozenJobsAreSpared'
    BY <1>6 DEF Stamp, TypeOK, FreshHandles, FrozenJobsAreSpared, HasFreezeJob
  <2>4. FlagUp'
    BY <1>6 DEF Stamp, TypeOK, FlagUp
  <2>5. Carried'
    BY <1>6 DEF Stamp, TypeOK, Carried, InTrigger, InTimer, InJob
  <2> QED
    BY <2>1, <2>2, <2>3, <2>4, <2>5
<1>7. CASE StoreTimestamp(p)
  <2>1. TypeOK'
    BY <1>7 DEF StoreTimestamp, TypeOK
  <2>2. FreshHandles'
    BY <1>7 DEF StoreTimestamp, TypeOK, FreshHandles
  <2>3. FrozenJobsAreSpared'
    BY <1>7 DEF StoreTimestamp, TypeOK, FreshHandles, FrozenJobsAreSpared, HasFreezeJob
  <2>4. FlagUp'
    BY <1>7 DEF StoreTimestamp, TypeOK, FlagUp
  <2>5. Carried'
    BY <1>7 DEF StoreTimestamp, TypeOK, Carried, InTrigger, InTimer, InJob
  <2> QED
    BY <2>1, <2>2, <2>3, <2>4, <2>5
<1>8. CASE Arm(p)
  <2> USE DEF TypeOK
  <2>1. pc[p] = "arm"
    BY <1>8 DEF Arm
  <2>2. TimerFor(p) = p \/ pc[TimerFor(p)] = "idle"
    BY <1>8 DEF Arm, TimerFor
  <2>3. PICK t \in Timers :
          /\ pc[t] = "idle" \/ t = p
          /\ pc' = [pc EXCEPT ![p] = Resume(p), ![t] = "pending"]
          /\ current' = [current EXCEPT ![p] = 0, ![t] = current[p]]
          /\ snap' = [snap EXCEPT ![p] = {}, ![t] = snap[p]]
    BY <1>8, <2>2 DEF Arm
  <2>4. UNCHANGED <<app, freezeVars, triggerAfterUnfreeze, triggerUpdateTimestamp, clock,
                    fileVars, requested>>
    BY <1>8 DEF Arm
  <2>5. TypeOK'
    BY <2>1, <2>3, <2>4
  <2>6. FreshHandles'
    BY <2>1, <2>3, <2>4 DEF FreshHandles
  <2>7. FrozenJobsAreSpared'
    BY <2>1, <2>3, <2>4 DEF FreshHandles, FrozenJobsAreSpared, HasFreezeJob
  <2>8. FlagUp'
    BY <2>1, <2>3, <2>4 DEF FlagUp
  <2>9. Carried'
    BY <2>1, <2>3, <2>4 DEF Carried, InTrigger, InTimer, InJob
  <2> QED
    BY <2>5, <2>6, <2>7, <2>8, <2>9
<1> QED
  BY <1>1, <1>2, <1>3, <1>4, <1>5, <1>6, <1>7, <1>8 DEF TriggerUpdate

\* The function of a timer.
LEMMA TimerIInv ==
    ASSUME IInv, NEW t \in Timers, Fire(t) \/ TestLock(t) \/ Restart(t)
    PROVE  IInv'
<1> USE DEF IInv, freezeVars, timeVars, fileVars, Goto, LeaveTimer, Labels, Triggering, Early,
            Procs, Handles
<1>1. CASE Fire(t)
  <2>1. TypeOK'
    BY <1>1 DEF Fire, TypeOK
  <2>2. FreshHandles'
    BY <1>1 DEF Fire, TypeOK, FreshHandles
  <2>3. FrozenJobsAreSpared'
    BY <1>1 DEF Fire, TypeOK, FreshHandles, FrozenJobsAreSpared, HasFreezeJob
  <2>4. FlagUp'
    BY <1>1 DEF Fire, TypeOK, FlagUp
  <2>5. Carried'
    BY <1>1 DEF Fire, TypeOK, Carried, InTrigger, InTimer, InJob
  <2> QED
    BY <2>1, <2>2, <2>3, <2>4, <2>5
<1>2. CASE TestLock(t)
  <2>1. TypeOK'
    BY <1>2 DEF TestLock, TypeOK
  <2>2. FreshHandles'
    BY <1>2 DEF TestLock, TypeOK, FreshHandles
  <2>3. FrozenJobsAreSpared'
    BY <1>2 DEF TestLock, TypeOK, FreshHandles, FrozenJobsAreSpared, HasFreezeJob
  <2>4. FlagUp'
    BY <1>2 DEF TestLock, TypeOK, FlagUp
  <2>5. Carried'
    BY <1>2 DEF TestLock, TypeOK, Carried, InTrigger, InTimer, InJob
  <2> QED
    BY <2>1, <2>2, <2>3, <2>4, <2>5
<1>3. CASE Restart(t)
  <2>1. TypeOK'
    <3>1. app' \in Application!LatchStates
      BY <1>3 DEF Restart, TypeOK, Application!Shutdown, Application!Decision,
                  Application!LatchStates, Application!Decisions
    <3> QED
      BY <1>3, <3>1 DEF Restart, TypeOK
  <2>2. FreshHandles'
    BY <1>3 DEF Restart, TypeOK, FreshHandles
  <2>3. FrozenJobsAreSpared'
    BY <1>3 DEF Restart, TypeOK, FreshHandles, FrozenJobsAreSpared, HasFreezeJob
  <2>4. FlagUp'
    BY <1>3 DEF Restart, TypeOK, FlagUp
  <2>5. Carried'
    BY <1>3 DEF Restart, Carried, Application!Shutdown, Application!Decision
  <2> QED
    BY <2>1, <2>2, <2>3, <2>4, <2>5
<1> QED
  BY <1>1, <1>2, <1>3

\* A job outside triggerUpdate.
LEMMA JobIInv ==
    ASSUME IInv, NEW j \in Jobs,
           \/ TakeHandle(j) \/ StoreHandle(j) \/ DeleteHandle(j) \/ OtherJobs(j)
           \/ OtherJobsDone(j) \/ LoadFlag(j)
    PROVE  IInv'
<1> USE DEF IInv, freezeVars, timeVars, fileVars, Goto, Labels, Triggering, Early,
            Procs, Handles
<1>1. CASE TakeHandle(j)
  <2>1. TypeOK'
    BY <1>1 DEF TakeHandle, TypeOK
  <2>2. FreshHandles'
    BY <1>1 DEF TakeHandle, TypeOK, FreshHandles
  <2>3. FrozenJobsAreSpared'
    BY <1>1 DEF TakeHandle, TypeOK, FreshHandles, FrozenJobsAreSpared, HasFreezeJob
  <2>4. FlagUp'
    BY <1>1 DEF TakeHandle, TypeOK, FlagUp
  <2>5. Carried'
    BY <1>1 DEF TakeHandle, TypeOK, Carried, InTrigger, InTimer, InJob
  <2> QED
    BY <2>1, <2>2, <2>3, <2>4, <2>5
<1>2. CASE StoreHandle(j)
  <2>1. TypeOK'
    <3>1. handle[j] \in 1..freezeNextId
      BY <1>2 DEF StoreHandle, TypeOK, FreshHandles
    <3> QED
      BY <1>2, <3>1 DEF StoreHandle, TypeOK
  <2>2. FreshHandles'
    BY <1>2 DEF StoreHandle, TypeOK, FreshHandles
  <2>3. FrozenJobsAreSpared'
    BY <1>2 DEF StoreHandle, TypeOK, FreshHandles, FrozenJobsAreSpared, HasFreezeJob
  <2>4. FlagUp'
    BY <1>2 DEF StoreHandle, TypeOK, FlagUp
  <2>5. Carried'
    BY <1>2 DEF StoreHandle, TypeOK, Carried, InTrigger, InTimer, InJob
  <2> QED
    BY <2>1, <2>2, <2>3, <2>4, <2>5
<1>3. CASE DeleteHandle(j)
  <2>1. TypeOK'
    <3>1. handle' \in [Jobs -> 0..freezeNextId]
      BY <1>3 DEF DeleteHandle, TypeOK
    <3> QED
      BY <1>3, <3>1 DEF DeleteHandle, TypeOK
  <2>2. FreshHandles'
    BY <1>3 DEF DeleteHandle, TypeOK, FreshHandles
  <2>3. FrozenJobsAreSpared'
    BY <1>3 DEF DeleteHandle, TypeOK, FreshHandles, FrozenJobsAreSpared, HasFreezeJob
  <2>4. FlagUp'
    BY <1>3 DEF DeleteHandle, TypeOK, FlagUp
  <2>5. Carried'
    BY <1>3 DEF DeleteHandle, TypeOK, Carried, InTrigger, InTimer, InJob
  <2> QED
    BY <2>1, <2>2, <2>3, <2>4, <2>5
<1>4. CASE OtherJobs(j)
  <2>1. TypeOK'
    BY <1>4 DEF OtherJobs, StartRange, TypeOK
  <2>2. FreshHandles'
    BY <1>4 DEF OtherJobs, StartRange, TypeOK, FreshHandles
  <2>3. FrozenJobsAreSpared'
    BY <1>4 DEF OtherJobs, StartRange, TypeOK, FreshHandles, FrozenJobsAreSpared, HasFreezeJob
  <2>4. FlagUp'
    BY <1>4 DEF OtherJobs, StartRange, TypeOK, FlagUp
  <2>5. Carried'
    BY <1>4 DEF OtherJobs, StartRange, TypeOK, Carried, InTrigger, InTimer, InJob
  <2> QED
    BY <2>1, <2>2, <2>3, <2>4, <2>5
<1>5. CASE OtherJobsDone(j)
  <2>1. TypeOK'
    BY <1>5 DEF OtherJobsDone, EndRange, TypeOK
  <2>2. FreshHandles'
    BY <1>5 DEF OtherJobsDone, EndRange, TypeOK, FreshHandles
  <2>3. FrozenJobsAreSpared'
    BY <1>5 DEF OtherJobsDone, EndRange, TypeOK, FreshHandles, FrozenJobsAreSpared, HasFreezeJob
  <2>4. FlagUp'
    BY <1>5 DEF OtherJobsDone, EndRange, TypeOK, FlagUp
  <2>5. Carried'
    BY <1>5 DEF OtherJobsDone, EndRange, HasFreezeJob, TypeOK, Carried, InTrigger, InTimer, InJob
  <2> QED
    BY <2>1, <2>2, <2>3, <2>4, <2>5
<1>6. CASE LoadFlag(j)
  <2>1. TypeOK'
    BY <1>6 DEF LoadFlag, TypeOK
  <2>2. FreshHandles'
    BY <1>6 DEF LoadFlag, TypeOK, FreshHandles
  <2>3. FrozenJobsAreSpared'
    BY <1>6 DEF LoadFlag, TypeOK, FreshHandles, FrozenJobsAreSpared, HasFreezeJob
  <2>4. FlagUp'
    BY <1>6 DEF LoadFlag, TypeOK, FlagUp
  <2>5. Carried'
    BY <1>6 DEF LoadFlag, TypeOK, Carried, InTrigger, InTimer, InJob
  <2> QED
    BY <2>1, <2>2, <2>3, <2>4, <2>5
<1> QED
  BY <1>1, <1>2, <1>3, <1>4, <1>5, <1>6

\* The loop outside triggerUpdate, and the file.
LEMMA LoopIInv ==
    ASSUME IInv, OnEvent \/ StopLoop \/ Destroy \/ WriteFile \/ RemoveFile \/ PutFile
    PROVE  IInv'
<1> USE DEF IInv, freezeVars, timeVars, fileVars, Goto, Labels, Triggering, Early,
            Procs, Handles
<1>1. CASE OnEvent
  <2>1. TypeOK'
    BY <1>1 DEF OnEvent, TypeOK
  <2>2. FreshHandles'
    BY <1>1 DEF OnEvent, TypeOK, FreshHandles
  <2>3. FrozenJobsAreSpared'
    BY <1>1 DEF OnEvent, TypeOK, FreshHandles, FrozenJobsAreSpared, HasFreezeJob
  <2>4. FlagUp'
    BY <1>1 DEF OnEvent, TypeOK, FlagUp
  <2>5. Carried'
    BY <1>1 DEF OnEvent, TypeOK, Carried, InTrigger, InTimer, InJob
  <2> QED
    BY <2>1, <2>2, <2>3, <2>4, <2>5
<1>2. CASE StopLoop
  <2>1. TypeOK'
    BY <1>2 DEF StopLoop, TypeOK
  <2>2. FreshHandles'
    BY <1>2 DEF StopLoop, TypeOK, FreshHandles
  <2>3. FrozenJobsAreSpared'
    BY <1>2 DEF StopLoop, TypeOK, FreshHandles, FrozenJobsAreSpared, HasFreezeJob
  <2>4. FlagUp'
    BY <1>2 DEF StopLoop, TypeOK, FlagUp
  <2>5. Carried'
    BY <1>2 DEF StopLoop, TypeOK, Carried, InTrigger, InTimer, InJob
  <2> QED
    BY <2>1, <2>2, <2>3, <2>4, <2>5
<1>3. CASE Destroy \/ WriteFile \/ RemoveFile \/ PutFile
  <2>1. TypeOK'
    <3>1. events' \in 0..writes' /\ writes' \in 0..MaxWrites
      <4>1. CASE Destroy
        BY <1>3, <4>1 DEF Destroy, TypeOK
      <4>2. CASE WriteFile
        BY <1>3, <4>2 DEF WriteFile, TypeOK
      <4>3. CASE RemoveFile
        BY <1>3, <4>3 DEF RemoveFile, TypeOK
      <4>4. CASE PutFile
        BY <1>3, <4>4 DEF PutFile, TypeOK
      <4> QED
        BY <1>3, <4>1, <4>2, <4>3, <4>4
    <3>2. watching' \in BOOLEAN
      BY <1>3 DEF Destroy, WriteFile, RemoveFile, PutFile, TypeOK
    <3> QED
      BY <1>3, <3>1, <3>2 DEF Destroy, WriteFile, RemoveFile, PutFile, TypeOK
  <2>2. FreshHandles'
    BY <1>3 DEF Destroy, WriteFile, RemoveFile, PutFile, TypeOK, FreshHandles
  <2>3. FrozenJobsAreSpared'
    BY <1>3 DEF Destroy, WriteFile, RemoveFile, PutFile, TypeOK, FreshHandles, FrozenJobsAreSpared, HasFreezeJob
  <2>4. FlagUp'
    BY <1>3 DEF Destroy, WriteFile, RemoveFile, PutFile, TypeOK, FlagUp
  <2>5. Carried'
    BY <1>3 DEF Destroy, WriteFile, RemoveFile, PutFile, TypeOK, Carried, InTrigger, InTimer, InJob
  <2> QED
    BY <2>1, <2>2, <2>3, <2>4, <2>5
<1> QED
  BY <1>1, <1>2, <1>3

LEMMA NextIInv == IInv /\ [Next]_vars => IInv'
<1> SUFFICES ASSUME IInv, [Next]_vars
             PROVE  IInv'
  OBVIOUS
<1>1. ASSUME NEW p \in Procs, TriggerUpdate(p)
      PROVE  IInv'
  BY <1>1, TriggerIInv
<1>2. ASSUME NEW t \in Timers, Fire(t) \/ TestLock(t) \/ Restart(t)
      PROVE  IInv'
  BY <1>2, TimerIInv
<1>3. ASSUME NEW j \in Jobs,
             \/ TakeHandle(j) \/ StoreHandle(j) \/ DeleteHandle(j) \/ OtherJobs(j)
             \/ OtherJobsDone(j) \/ LoadFlag(j)
      PROVE  IInv'
  BY <1>3, JobIInv
<1>4. CASE OnEvent \/ StopLoop \/ Destroy \/ WriteFile \/ RemoveFile \/ PutFile
  BY <1>4, LoopIInv
<1>5. CASE UNCHANGED vars
  BY <1>5 DEF vars, IInv, TypeOK, FreshHandles, FrozenJobsAreSpared, HasFreezeJob, FlagUp,
              Carried, InTrigger, InTimer, InJob
<1> QED
  BY <1>1, <1>2, <1>3, <1>4, <1>5 DEF Next, LoopStep, JobStep, TimerStep, Procs

-----------------------------------------------------------------------------
\* The invariant of the service, from which the others follow.
THEOREM Inductive == Spec => []IInv
  BY InitIInv, NextIInv, PTL DEF Spec

\* The type invariant: in particular no timestamp is ahead of the clock and
\* every handle in freezeMap has been given out by freezeNextId.
THEOREM TypeCorrect == Spec => []TypeOK
<1>1. IInv => TypeOK
  BY DEF IInv
<1> QED
  BY <1>1, Inductive, PTL

\* From hasFreezeJob's answer to Application.Shutdown no job that was frozen
\* when triggerUpdate decided is still frozen.
THEOREM Spared == Spec => []FrozenJobsAreSpared
<1>1. IInv => FrozenJobsAreSpared
  BY DEF IInv
<1> QED
  BY <1>1, Inductive, PTL

\* Once onEvent has seen a new file, and until the application is told to
\* restart, triggerUpdate is running, or a timer that nobody has superseded is
\* pending, or the flag is up and a job has yet to unfreeze.
THEOREM NothingLost == Spec => []NoLostUpdate
<1>1. IInv => NoLostUpdate
  BY DEF IInv, Carried, InTrigger, InTimer, InJob, Early, Triggering, NoLostUpdate
<1> QED
  BY <1>1, Inductive, PTL
=============================================================================
