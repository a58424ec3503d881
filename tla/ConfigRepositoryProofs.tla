----------------------- MODULE ConfigRepositoryProofs -----------------------
(***************************************************************************)
(* Proofs about ConfigRepository, for any sets of setters, watches, keys   *)
(* and prefixes: a watch that was registered when the store took a change  *)
(* hears of it before Set returns, though Set looks at watchNum first and  *)
(* no lock covers the store, watchNum and watchMap.                        *)
(***************************************************************************)
EXTENDS ConfigRepository, TLAPS

\* A watch is in watchMap from Register to Unregister.
Registration == \A w \in watchMap : wpc[w] \in {"select", "callback", "unregister"}

\* watchNum is incremented before anything else is done for a watch, so that
\* zero says that there is none.
Counted == watchNum = 0 => \A w \in Watches : wpc[w] = "idle"

\* The watches that have yet to hear of a change have been registered for its
\* key, and do not come back once they are gone.
Listening(s) ==
    \A w \in untold[s] :
        /\ wpc[w] \notin {"idle", "store"}
        /\ pc[s] \in {"num", "range", "visit", "send"} => key[s] \in prefix[w]

\* Those that are still registered are ahead of the Range.
Ahead(s) ==
    /\ pc[s] \in {"idle", "doSet"} => untold[s] \cap watchMap = {}
    /\ pc[s] = "visit" => untold[s] \cap watchMap \subseteq left[s]
    /\ pc[s] = "send" => untold[s] \cap watchMap \subseteq left[s] \cup {target[s]}

Notification == \A s \in Setters : Listening(s) /\ Ahead(s)

IInv == TypeOK /\ Registration /\ Counted /\ Notification

USE ConfigAssumption

LEMMA InitIInv == Init => IInv
  BY DEF Init, IInv, TypeOK, Registration, Counted, Notification, Listening, Ahead,
         SetStates, WatchStates

-----------------------------------------------------------------------------
\* A step of Set leaves the watches alone, but for the one it hands a change to.
LEMMA SetIInv ==
    ASSUME IInv, NEW s \in Setters, SetStep(s) \/ \E k \in Keys : Call(s, k)
    PROVE  IInv'
<1> USE DEF IInv, watchVars, setVars, rangeVars, destroyVars, Goto, GotoW
<1> USE DEF SetStates, WatchStates
<1>1. ASSUME NEW k \in Keys, Call(s, k)
      PROVE  IInv'
  <2>1. TypeOK'
    BY <1>1 DEF Call, TypeOK
  <2>2. Registration' /\ Counted'
    BY <1>1 DEF Call, Registration, Counted
  <2>3. Notification'
    BY <1>1 DEF Call, Notification, Listening, Ahead, TypeOK
  <2> QED
    BY <2>1, <2>2, <2>3
<1>2. CASE DoSet(s)
  <2>1. TypeOK'
    BY <1>2 DEF DoSet, TypeOK, Registered
  <2>2. Registration' /\ Counted'
    BY <1>2 DEF DoSet, Registration, Counted
  <2>3. Notification'
    BY <1>2 DEF DoSet, Notification, Listening, Ahead, TypeOK, Registered
  <2> QED
    BY <2>1, <2>2, <2>3
<1>3. CASE LoadWatchNum(s)
  <2>1. TypeOK'
    BY <1>3 DEF LoadWatchNum, TypeOK
  <2>2. Registration' /\ Counted'
    BY <1>3 DEF LoadWatchNum, Registration, Counted
  <2>3. watchNum = 0 => watchMap = {}
    BY DEF Registration, Counted, TypeOK
  <2>4. Notification'
    BY <1>3, <2>3 DEF LoadWatchNum, Notification, Listening, Ahead, TypeOK
  <2> QED
    BY <2>1, <2>2, <2>4
<1>4. CASE StartRange(s)
  <2>1. TypeOK'
    BY <1>4 DEF StartRange, TypeOK
  <2>2. Registration' /\ Counted'
    BY <1>4 DEF StartRange, Registration, Counted
  <2>3. Notification'
    BY <1>4 DEF StartRange, Notification, Listening, Ahead, TypeOK
  <2> QED
    BY <2>1, <2>2, <2>3
<1>5. ASSUME NEW w \in Watches, Visit(s, w)
      PROVE  IInv'
  <2>1. TypeOK'
    BY <1>5 DEF Visit, TypeOK
  <2>2. Registration' /\ Counted'
    BY <1>5 DEF Visit, Registration, Counted
  \* The watch that is skipped is not one that has to be told.
  <2>3. w \in untold[s] \cap watchMap => w \in Registered(key[s])
    BY <1>5 DEF Visit, Notification, Listening, Registered
  <2>4. Notification'
    BY <1>5, <2>3 DEF Visit, Notification, Listening, Ahead, TypeOK
  <2> QED
    BY <2>1, <2>2, <2>4
<1>6. CASE Return(s)
  <2>1. TypeOK'
    BY <1>6 DEF Return, TypeOK
  <2>2. Registration' /\ Counted'
    BY <1>6 DEF Return, Registration, Counted
  <2>3. Notification'
    BY <1>6 DEF Return, Notification, Listening, Ahead, TypeOK
  <2> QED
    BY <2>1, <2>2, <2>3
<1>7. CASE Send(s)
  <2>1. target[s] \in Watches
    BY <1>7 DEF Send, TypeOK
  <2>2. TypeOK'
    BY <1>7, <2>1 DEF Send, TypeOK
  <2>3. Registration' /\ Counted'
    BY <1>7, <2>1 DEF Send, Registration, Counted, TypeOK
  <2>4. Notification'
    BY <1>7, <2>1 DEF Send, Notification, Listening, Ahead, TypeOK
  <2> QED
    BY <2>2, <2>3, <2>4
<1>8. CASE SendPanics(s)
  <2>1. TypeOK'
    BY <1>8 DEF SendPanics, TypeOK
  <2>2. Registration' /\ Counted'
    BY <1>8 DEF SendPanics, Registration, Counted
  <2>3. Notification'
    BY <1>8 DEF SendPanics, Notification, Listening, Ahead, TypeOK
  <2> QED
    BY <2>1, <2>2, <2>3
<1>9. CASE Recover(s)
  <2>1. TypeOK'
    BY <1>9 DEF Recover, TypeOK
  <2>2. Registration' /\ Counted'
    BY <1>9 DEF Recover, Registration, Counted
  <2>3. Notification'
    BY <1>9 DEF Recover, Notification, Listening, Ahead, TypeOK
  <2> QED
    BY <2>1, <2>2, <2>3
<1> QED
  BY <1>1, <1>2, <1>3, <1>4, <1>5, <1>6, <1>7, <1>8, <1>9 DEF SetStep

-----------------------------------------------------------------------------
\* A step of a watch leaves Set alone; the watch that Register puts into
\* watchMap is none that a Set has to tell.
LEMMA WatchIInv ==
    ASSUME IInv, NEW w \in Watches,
           (\E keys \in Prefixes : Watch(w, keys)) \/ WatchStep(w) \/ Cancel(w)
    PROVE  IInv'
<1> USE DEF IInv, watchVars, setVars, rangeVars, destroyVars, GotoW
<1> USE DEF SetStates, WatchStates
<1>1. ASSUME NEW keys \in Prefixes, Watch(w, keys)
      PROVE  IInv'
  <2>1. TypeOK'
    BY <1>1 DEF Watch, TypeOK
  <2>2. Registration' /\ Counted'
    BY <1>1 DEF Watch, Registration, Counted, TypeOK
  <2>3. Notification'
    BY <1>1 DEF Watch, Notification, Listening, Ahead, TypeOK
  <2> QED
    BY <2>1, <2>2, <2>3
<1>2. CASE Register(w)
  <2>1. TypeOK'
    BY <1>2 DEF Register, TypeOK
  <2>2. Registration' /\ Counted'
    BY <1>2 DEF Register, Registration, Counted, TypeOK
  <2>3. \A s \in Setters : w \notin untold[s]
    BY <1>2 DEF Register, Notification, Listening
  <2>4. Notification'
    BY <1>2, <2>3 DEF Register, Notification, Listening, Ahead, TypeOK
  <2> QED
    BY <2>1, <2>2, <2>4
<1>3. CASE ContextDone(w) \/ Callback(w)
  <2>1. TypeOK'
    BY <1>3 DEF ContextDone, Callback, TypeOK
  <2>2. Registration' /\ Counted'
    BY <1>3 DEF ContextDone, Callback, Registration, Counted, TypeOK
  <2>3. Notification'
    BY <1>3 DEF ContextDone, Callback, Notification, Listening, Ahead, TypeOK
  <2> QED
    BY <2>1, <2>2, <2>3
<1>4. CASE Unregister(w)
  <2>1. TypeOK'
    BY <1>4 DEF Unregister, TypeOK
  <2>2. Registration' /\ Counted'
    BY <1>4 DEF Unregister, Registration, Counted, TypeOK
  <2>3. Notification'
    BY <1>4 DEF Unregister, Notification, Listening, Ahead, TypeOK
  <2> QED
    BY <2>1, <2>2, <2>3
<1>5. CASE Close(w)
  <2>1. TypeOK'
    BY <1>5 DEF Close, TypeOK
  <2>2. Registration' /\ Counted'
    BY <1>5 DEF Close, Registration, Counted, TypeOK
  <2>3. Notification'
    BY <1>5 DEF Close, Notification, Listening, Ahead, TypeOK
  <2> QED
    BY <2>1, <2>2, <2>3
<1>6. CASE Cancel(w)
  BY <1>6 DEF Cancel, TypeOK, Registration, Counted, Notification, Listening, Ahead
<1> QED
  BY <1>1, <1>2, <1>3, <1>4, <1>5, <1>6 DEF WatchStep

\* Destroy only cancels.
LEMMA DestroyIInv ==
    ASSUME IInv, StartDestroy \/ DestroyStep
    PROVE  IInv'
<1>1. TypeOK'
  BY DEF IInv, StartDestroy, DestroyStep, DestroyRange, DestroyCancel, DestroyReturns,
         TypeOK, watchVars, setVars, rangeVars
<1>2. UNCHANGED <<watchNum, prefix, watchMap, wpc, pc, key, rangeVars>>
  BY DEF StartDestroy, DestroyStep, DestroyRange, DestroyCancel, DestroyReturns,
         watchVars, setVars
<1> QED
  BY <1>1, <1>2 DEF IInv, Registration, Counted, Notification, Listening, Ahead, rangeVars

LEMMA NextIInv == IInv /\ [Next]_vars => IInv'
<1> SUFFICES ASSUME IInv, [Next]_vars
             PROVE  IInv'
  OBVIOUS
<1>1. ASSUME NEW s \in Setters, SetStep(s) \/ \E k \in Keys : Call(s, k)
      PROVE  IInv'
  BY <1>1, SetIInv
<1>2. ASSUME NEW w \in Watches,
             (\E keys \in Prefixes : Watch(w, keys)) \/ WatchStep(w) \/ Cancel(w)
      PROVE  IInv'
  BY <1>2, WatchIInv
<1>3. CASE StartDestroy \/ DestroyStep
  BY <1>3, DestroyIInv
<1>4. CASE UNCHANGED vars
  BY <1>4 DEF vars, watchVars, setVars, rangeVars, destroyVars, IInv, TypeOK, Registration,
              Counted, Notification, Listening, Ahead
<1> QED
  BY <1>1, <1>2, <1>3, <1>4 DEF Next

-----------------------------------------------------------------------------
\* The invariant of the repository, from which the others follow.
THEOREM Inductive == Spec => []IInv
  BY InitIInv, NextIInv, PTL DEF Spec

\* The type invariant: in particular what is in watchMap has been counted and
\* stored by registerWatch, and a Set has a watch to send to exactly while it
\* is sending or has panicked over it.
THEOREM TypeCorrect == Spec => []TypeOK
<1>1. IInv => TypeOK
  BY DEF IInv
<1> QED
  BY <1>1, Inductive, PTL

\* Set returns only after every watch that was registered for the key when the
\* store took the change has received it or has left watchMap: neither the
\* check of watchNum nor the Range over a map that changes meanwhile loses one.
THEOREM Told == Spec => []WatchesAreTold
<1>1. IInv => WatchesAreTold
  BY DEF IInv, Notification, Ahead, WatchesAreTold
<1> QED
  BY <1>1, Inductive, PTL

\* The deferred function of a watch takes the entry out of watchMap before it
\* closes the channel, so that Range never hands a Set a closed channel.
THEOREM NoClosedEntry == Spec => []ClosedAreUnregistered
<1>1. IInv => ClosedAreUnregistered
  BY DEF IInv, Registration, ClosedAreUnregistered
<1> QED
  BY <1>1, Inductive, PTL
=============================================================================
