------------------------- MODULE ApplicationProofs -------------------------
(***************************************************************************)
(* Proofs about Application, for any number of callers and of derived      *)
(* contexts.  Everything rests on the inductive invariant IInv: the        *)
(* sync.Once lets one caller into the body of Shutdown, and the stores of  *)
(* the body have happened up to where that caller is.                      *)
(***************************************************************************)
EXTENDS Application, TLAPS

\* Past the store of shuttingDown, and past that of the error.
AfterFlag == {"error", "close", "leave"}
AfterErr == {"close", "leave"}

\* sync.Once: the body is entered by one caller, and nobody is past it or in it
\* when once says otherwise.
OneInBody ==
    /\ \A c1, c2 \in Callers : InBody(c1) /\ InBody(c2) => c1 = c2
    /\ \A c \in Callers : InBody(c) => once = "running"
    /\ \A c \in Callers : pc[c] = "returned" => once = "done"

\* The stores so far.
StoresDone ==
    /\ \A c \in Callers : pc[c] \in AfterFlag => shuttingDown
    /\ \A c \in Callers : pc[c] \in AfterErr => applicationErr = "closed"
    /\ \A c \in Callers : pc[c] = "leave" => closed
    /\ \A c \in Callers : InBody(c) /\ pc[c] # "leave" => ~closed
    /\ \A c \in Callers : pc[c] # "panicked"
    /\ once = "new" => ~closed
    /\ once = "done" => closed
    /\ closed => shuttingDown /\ applicationErr = "closed"

IInv == TypeOK /\ OneInBody /\ StoresDone /\ \A d \in Derived : ctxErr[d] # "nil"

LEMMA InitIInv == Init => IInv
  BY DEF Init, IInv, TypeOK, OneInBody, StoresDone, InBody, CallerStates,
         AfterFlag, AfterErr

LEMMA NextIInv == IInv /\ [Next]_vars => IInv'
<1> SUFFICES ASSUME IInv, [Next]_vars
             PROVE  IInv'
  OBVIOUS
<1> USE DEF IInv, TypeOK, OneInBody, StoresDone, InBody, CallerStates, AfterFlag, AfterErr,
            Goto
<1>1. ASSUME NEW c \in Callers, NEW restart \in BOOLEAN, Call(c, restart)
      PROVE  IInv'
  BY <1>1 DEF Call
<1>2. ASSUME NEW c \in Callers, EnterOnce(c)
      PROVE  IInv'
  BY <1>2 DEF EnterOnce
<1>3. ASSUME NEW c \in Callers, SkipOnce(c)
      PROVE  IInv'
  BY <1>3 DEF SkipOnce
<1>4. ASSUME NEW c \in Callers, StoreRestarting(c)
      PROVE  IInv'
  BY <1>4 DEF StoreRestarting
<1>5. ASSUME NEW c \in Callers, StoreShuttingDown(c)
      PROVE  IInv'
  BY <1>5 DEF StoreShuttingDown
<1>6. ASSUME NEW c \in Callers, StoreErr(c)
      PROVE  IInv'
  BY <1>6 DEF StoreErr
<1>7. ASSUME NEW c \in Callers, CloseCh(c)
      PROVE  IInv'
  BY <1>7 DEF CloseCh
<1>8. ASSUME NEW c \in Callers, LeaveOnce(c)
      PROVE  IInv'
  BY <1>8 DEF LeaveOnce
<1>9. ASSUME NEW d \in Derived, Propagate(d)
      PROVE  IInv'
  BY <1>9 DEF Propagate
<1>10. ASSUME UNCHANGED vars
       PROVE  IInv'
  BY <1>10 DEF vars
<1> QED
  BY <1>1, <1>2, <1>3, <1>4, <1>5, <1>6, <1>7, <1>8, <1>9, <1>10 DEF Next, CallerStep

\* The inductive invariant holds of every reachable state of the application.
THEOREM Inductive == Spec => []IInv
  BY InitIInv, NextIInv, PTL DEF Spec

\* The variables keep their types whoever calls Shutdown and when.
THEOREM TypeCorrect == Spec => []TypeOK
<1>1. IInv => TypeOK
  BY DEF IInv
<1> QED
  BY <1>1, Inductive, PTL

\* Shutdown stores the error and the flag before it closes the channel, so a
\* context derived from the application never sees Done() without an Err().
THEOREM DoneIsKept == Spec => []DoneContract
<1>1. IInv => DoneContract
  BY DEF IInv, StoresDone, DoneContract, Done, Err, Active
<1> QED
  BY <1>1, Inductive, PTL

\* Nobody returns from Shutdown before the channel is closed, and nobody closes
\* it twice.
THEOREM ReturnedIsClosed == Spec => []ReturnedMeansClosed
<1>1. IInv => ReturnedMeansClosed
  BY DEF IInv, OneInBody, StoresDone, ReturnedMeansClosed
<1> QED
  BY <1>1, Inductive, PTL

-----------------------------------------------------------------------------
\* A step of the application is a step of the latch or leaves it alone: the
\* latch moves when the channel is closed, and after that restarting does not
\* change, because its store is only reached with the channel open.
LEMMA StepRefines == IInv /\ [Next]_vars => [Latch!LatchNext]_Status
<1> SUFFICES ASSUME IInv, [Next]_vars
             PROVE  Latch!LatchNext \/ UNCHANGED Status
  OBVIOUS
<1> USE DEF Status
<1>1. ASSUME NEW c \in Callers, StoreRestarting(c)
      PROVE  UNCHANGED Status
  \* The caller has not closed the channel yet, so nobody has.
  <2>1. ~closed
    BY <1>1 DEF StoreRestarting, IInv, StoresDone, InBody
  <2> QED
    BY <1>1, <2>1 DEF StoreRestarting
<1>2. ASSUME NEW c \in Callers, CloseCh(c)
      PROVE  Latch!LatchNext
  <2>1. ~closed /\ closed' /\ restarting \in BOOLEAN /\ restarting' = restarting
    BY <1>2 DEF CloseCh, IInv, TypeOK, StoresDone, InBody
  <2>2. Latch!Shutdown(restarting)
    BY <2>1 DEF Latch!Shutdown, Latch!Decision
  <2> QED
    BY <2>1, <2>2 DEF Latch!LatchNext
<1>3. ASSUME NEW c \in Callers, NEW restart \in BOOLEAN, Call(c, restart)
      PROVE  UNCHANGED Status
  BY <1>3 DEF Call
<1>4. ASSUME NEW c \in Callers, EnterOnce(c) \/ SkipOnce(c) \/ LeaveOnce(c)
      PROVE  UNCHANGED Status
  BY <1>4 DEF EnterOnce, SkipOnce, LeaveOnce
<1>5. ASSUME NEW c \in Callers, StoreShuttingDown(c) \/ StoreErr(c)
      PROVE  UNCHANGED Status
  BY <1>5 DEF StoreShuttingDown, StoreErr
<1>6. ASSUME NEW d \in Derived, Propagate(d)
      PROVE  UNCHANGED Status
  BY <1>6 DEF Propagate
<1>7. ASSUME UNCHANGED vars
      PROVE  UNCHANGED Status
  BY <1>7 DEF vars
<1> QED
  BY <1>1, <1>2, <1>3, <1>4, <1>5, <1>6, <1>7 DEF Next, CallerStep

\* The step-by-step Shutdown implements the one-shot latch that RunServers and
\* Autoupdate take the application to be.
THEOREM Refinement == Spec => ImplementsLatch
<1>1. Init => Latch!LatchInit
  BY DEF Init, Latch!LatchInit, Status
<1> QED
  BY <1>1, StepRefines, Inductive, PTL DEF Spec, ImplementsLatch, Latch!LatchSpec
=============================================================================
