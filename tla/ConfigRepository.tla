-------------------------- MODULE ConfigRepository --------------------------
(***************************************************************************)
(* The configuration repository (sprintcore/config_repository.go).  Set    *)
(* writes to the store and then hands the change to every watch whose      *)
(* prefix matches, over an unbuffered channel, so a Set and the goroutine  *)
(* of a watch block on each other.  watchMap is a sync.Map and no lock     *)
(* covers the two.  A watch ends when its callback says so, when its       *)
(* context is cancelled, or when Destroy cancels it; then it takes itself  *)
(* out of watchMap and closes its channel, and a Set that is still sending *)
(* panics.                                                                 *)
(***************************************************************************)
EXTENDS Naturals

CONSTANTS Setters,      \* goroutines that call Set, over and over
          Watches,      \* calls of Watch
          Keys,         \* property keys
          Prefixes,     \* a prefix is the set of the keys that start with it
          MaxSets,      \* bound: calls of Set
          NoWatch       \* no watch

ASSUME ConfigAssumption ==
    MaxSets \in Nat /\ Prefixes \subseteq SUBSET Keys /\ NoWatch \notin Watches

VARIABLES calls,        \* calls of Set so far
          watchNum,
          watchMap,     \* the watches in watchMap
          prefix,       \* prefix[w]
          wpc,          \* wpc[w]: the goroutine of watch w
          cancelled,    \* watches whose context is done
          pc,           \* pc[s]: where s is inside Set
          key,          \* key[s]: the argument of Set
          left,         \* left[s]: what Range has yet to visit
          target,       \* target[s]: the watch s sends to
          untold,       \* untold[s]: history, watches that were registered for
                        \* the key when the store took it and have yet to hear
          destroy,      \* Destroy: "idle", "load", "range", "done"
          cancelLeft    \* what the Range of Destroy has yet to visit

watchVars == <<watchNum, prefix, cancelled>>
setVars == <<calls, key>>
rangeVars == <<left, target, untold>>
destroyVars == <<destroy, cancelLeft>>
vars == <<watchMap, wpc, pc, watchVars, setVars, rangeVars, destroyVars>>

SetStates == {"idle", "doSet", "num", "range", "visit", "send", "panicked"}
WatchStates == {"idle", "store", "select", "callback", "unregister", "close", "closed"}

TypeOK ==
    /\ calls \in 0..MaxSets
    /\ watchNum \in Nat
    /\ watchMap \subseteq {w \in Watches : wpc[w] \notin {"idle", "store"}}
    /\ prefix \in [Watches -> Prefixes \cup {{}}]
    /\ wpc \in [Watches -> WatchStates]
    /\ cancelled \subseteq Watches
    /\ pc \in [Setters -> SetStates]
    /\ key \in [Setters -> Keys]
    /\ left \in [Setters -> SUBSET Watches]
    /\ target \in [Setters -> Watches \cup {NoWatch}]
    /\ \A s \in Setters : target[s] # NoWatch <=> pc[s] \in {"send", "panicked"}
    /\ untold \in [Setters -> SUBSET Watches]
    /\ destroy \in {"idle", "load", "range", "done"}
    /\ cancelLeft \subseteq Watches

Init ==
    /\ calls = 0
    /\ watchNum = 0
    /\ watchMap = {}
    /\ prefix = [w \in Watches |-> {}]
    /\ wpc = [w \in Watches |-> "idle"]
    /\ cancelled = {}
    /\ pc = [s \in Setters |-> "idle"]
    /\ key \in [Setters -> Keys]
    /\ left = [s \in Setters |-> {}]
    /\ target = [s \in Setters |-> NoWatch]
    /\ untold = [s \in Setters |-> {}]
    /\ destroy = "idle"
    /\ cancelLeft = {}

Goto(s, label) == pc' = [pc EXCEPT ![s] = label]
GotoW(w, label) == wpc' = [wpc EXCEPT ![w] = label]

-----------------------------------------------------------------------------
(* Set. *)

Call(s, k) ==
    /\ pc[s] = "idle"
    /\ calls < MaxSets
    /\ calls' = calls + 1
    /\ Goto(s, "doSet")
    /\ key' = [key EXCEPT ![s] = k]
    /\ untold' = [untold EXCEPT ![s] = {}]
    /\ UNCHANGED <<watchMap, wpc, left, target, watchVars, destroyVars>>

Registered(k) == {w \in watchMap : k \in prefix[w]}

\* doSet writes to the store; an error of the store ends Set.
DoSet(s) ==
    /\ pc[s] = "doSet"
    /\ \/ untold' = [untold EXCEPT ![s] = Registered(key[s])] /\ Goto(s, "num")
       \/ Goto(s, "idle") /\ UNCHANGED untold
    /\ UNCHANGED <<watchMap, wpc, left, target, watchVars, setVars, destroyVars>>

\* Mutant of LoadWatchNum: a single watch is not enough.
LoadWatchNumOffByOne(s) ==
    /\ pc[s] = "num"
    /\ Goto(s, IF watchNum > 1 THEN "range" ELSE "idle")
    /\ UNCHANGED <<watchMap, wpc, watchVars, setVars, rangeVars, destroyVars>>

\* Without a call of Watch so far nobody is notified.
LoadWatchNum(s) ==
    /\ pc[s] = "num"
    /\ Goto(s, IF watchNum # 0 THEN "range" ELSE "idle")
    /\ UNCHANGED <<watchMap, wpc, watchVars, setVars, rangeVars, destroyVars>>

\* notifyAll: Range starts from what watchMap holds now.
StartRange(s) ==
    /\ pc[s] = "range"
    /\ left' = [left EXCEPT ![s] = watchMap]
    /\ Goto(s, "visit")
    /\ UNCHANGED <<watchMap, wpc, target, untold, watchVars, setVars, destroyVars>>

\* Range skips a watch that has been deleted meanwhile, and notifyAll one whose
\* prefix does not match.
Visit(s, w) ==
    /\ pc[s] = "visit"
    /\ w \in left[s]
    /\ left' = [left EXCEPT ![s] = @ \ {w}]
    /\ IF w \in Registered(key[s])
         THEN Goto(s, "send") /\ target' = [target EXCEPT ![s] = w]
         ELSE UNCHANGED <<pc, target>>
    /\ UNCHANGED <<watchMap, wpc, untold, watchVars, setVars, destroyVars>>

Return(s) ==
    /\ pc[s] = "visit"
    /\ left[s] = {}
    /\ Goto(s, "idle")
    /\ UNCHANGED <<watchMap, wpc, watchVars, setVars, rangeVars, destroyVars>>

\* wc.ch <- e and e := <-ch: the two sides meet, and the watch goes on to its
\* callback.
Send(s) ==
    /\ pc[s] = "send"
    /\ wpc[target[s]] = "select"
    /\ GotoW(target[s], "callback")
    /\ Goto(s, "visit")
    /\ target' = [target EXCEPT ![s] = NoWatch]
    /\ untold' = [untold EXCEPT ![s] = @ \ {target[s]}]
    /\ UNCHANGED <<watchMap, left, watchVars, setVars, destroyVars>>

\* Mutant of SendPanics: the channel of a watch that ends is not closed.
SendHangs(s) == FALSE /\ UNCHANGED vars

\* A send on a closed channel, or a blocked one when it is closed.
SendPanics(s) ==
    /\ pc[s] = "send"
    /\ wpc[target[s]] = "closed"
    /\ Goto(s, "panicked")
    /\ UNCHANGED <<watchMap, wpc, watchVars, setVars, rangeVars, destroyVars>>

\* The caller recovers (PanicToError in the control server) and calls again.
Recover(s) ==
    /\ pc[s] = "panicked"
    /\ Goto(s, "idle")
    /\ left' = [left EXCEPT ![s] = {}]
    /\ target' = [target EXCEPT ![s] = NoWatch]
    /\ untold' = [untold EXCEPT ![s] = {}]
    /\ UNCHANGED <<watchMap, wpc, watchVars, setVars, destroyVars>>

SetStep(s) ==
    \/ DoSet(s) \/ LoadWatchNum(s) \/ StartRange(s)
    \/ (\E w \in Watches : Visit(s, w))
    \/ Return(s) \/ Send(s) \/ SendPanics(s) \/ Recover(s)

-----------------------------------------------------------------------------
(* Watch and its goroutine. *)

\* Mutant of Watch: the watch is stored before it is counted.
WatchStoresFirst(w, keys) ==
    /\ wpc[w] = "idle"
    /\ watchNum' = watchNum + 1
    /\ watchMap' = watchMap \cup {w}
    /\ prefix' = [prefix EXCEPT ![w] = keys]
    /\ GotoW(w, "store")
    /\ UNCHANGED <<pc, cancelled, setVars, rangeVars, destroyVars>>

\* registerWatch: the handle is watchNum.Inc, and only then the watch goes
\* into watchMap.
Watch(w, keys) ==
    /\ wpc[w] = "idle"
    /\ watchNum' = watchNum + 1
    /\ prefix' = [prefix EXCEPT ![w] = keys]
    /\ GotoW(w, "store")
    /\ UNCHANGED <<watchMap, pc, cancelled, setVars, rangeVars, destroyVars>>

\* ... and Watch starts the goroutine and returns.
Register(w) ==
    /\ wpc[w] = "store"
    /\ watchMap' = watchMap \cup {w}
    /\ GotoW(w, "select")
    /\ UNCHANGED <<pc, watchVars, setVars, rangeVars, destroyVars>>

\* <-ctx.Done(): when a change is there too the select takes either.
ContextDone(w) ==
    /\ wpc[w] = "select"
    /\ w \in cancelled
    /\ GotoW(w, "unregister")
    /\ UNCHANGED <<watchMap, pc, watchVars, setVars, rangeVars, destroyVars>>

\* cb returns true, or false or panics.
Callback(w) ==
    /\ wpc[w] = "callback"
    /\ GotoW(w, "select") \/ GotoW(w, "unregister")
    /\ UNCHANGED <<watchMap, pc, watchVars, setVars, rangeVars, destroyVars>>

\* Mutant of Unregister: the entry stays in watchMap.
KeepRegistered(w) ==
    /\ wpc[w] = "unregister"
    /\ GotoW(w, "close")
    /\ UNCHANGED <<watchMap, pc, watchVars, setVars, rangeVars, destroyVars>>

\* The deferred function: unregisterWatch, then close(ch).
Unregister(w) ==
    /\ wpc[w] = "unregister"
    /\ watchMap' = watchMap \ {w}
    /\ GotoW(w, "close")
    /\ UNCHANGED <<pc, watchVars, setVars, rangeVars, destroyVars>>

Close(w) ==
    /\ wpc[w] = "close"
    /\ GotoW(w, "closed")
    /\ UNCHANGED <<watchMap, pc, watchVars, setVars, rangeVars, destroyVars>>

WatchStep(w) ==
    \/ Register(w) \/ ContextDone(w) \/ Callback(w) \/ Unregister(w) \/ Close(w)

\* The parent context ends, or the caller of Watch uses its CancelFunc.  A
\* goroutine that is already on its way out does not look.
Cancel(w) ==
    /\ wpc[w] \in {"store", "select", "callback"}
    /\ cancelled' = cancelled \cup {w}
    /\ UNCHANGED <<watchMap, wpc, pc, watchNum, prefix, setVars, rangeVars, destroyVars>>

-----------------------------------------------------------------------------
(* Destroy. *)

\* GetProperty gives nothing any more.
shuttingDown == destroy # "idle"

StartDestroy ==
    /\ destroy = "idle"
    /\ destroy' = "load"
    /\ UNCHANGED <<watchMap, wpc, pc, watchVars, setVars, rangeVars, cancelLeft>>

DestroyRange ==
    /\ destroy = "load"
    /\ destroy' = IF watchNum > 0 THEN "range" ELSE "done"
    /\ cancelLeft' = IF watchNum > 0 THEN watchMap ELSE {}
    /\ UNCHANGED <<watchMap, wpc, pc, watchVars, setVars, rangeVars>>

\* Mutant of DestroyCancel: nothing is cancelled.
DestroySkips(w) ==
    /\ w \in cancelLeft
    /\ cancelLeft' = cancelLeft \ {w}
    /\ UNCHANGED <<watchMap, wpc, pc, watchVars, setVars, rangeVars, destroy>>

DestroyCancel(w) ==
    /\ w \in cancelLeft
    /\ cancelLeft' = cancelLeft \ {w}
    /\ cancelled' = IF w \in watchMap THEN cancelled \cup {w} ELSE cancelled
    /\ UNCHANGED <<watchMap, wpc, pc, watchNum, prefix, setVars, rangeVars, destroy>>

DestroyReturns ==
    /\ destroy = "range"
    /\ cancelLeft = {}
    /\ destroy' = "done"
    /\ UNCHANGED <<watchMap, wpc, pc, watchVars, setVars, rangeVars, cancelLeft>>

DestroyStep == DestroyRange \/ (\E w \in Watches : DestroyCancel(w)) \/ DestroyReturns

-----------------------------------------------------------------------------
Next ==
    \/ \E s \in Setters : (\E k \in Keys : Call(s, k)) \/ SetStep(s)
    \/ \E w \in Watches : \/ \E keys \in Prefixes : Watch(w, keys)
                          \/ WatchStep(w) \/ Cancel(w)
    \/ StartDestroy \/ DestroyStep

Spec == Init /\ [][Next]_vars

\* Goroutines are scheduled and callbacks return.
Running == (\E s \in Setters : SetStep(s)) \/ (\E w \in Watches : WatchStep(w)) \/ DestroyStep
FairSpec == Spec /\ WF_vars(Running)

-----------------------------------------------------------------------------
\* A watch that was registered when the store took a change is told of it
\* before Set returns, unless the watch has ended (or Set panicked on another
\* one).  The check of watchNum that spares Set the Range must not cost a watch
\* its change.
WatchesAreTold ==
    \A s \in Setters : pc[s] = "idle" => untold[s] \cap watchMap = {}

\* A watch whose channel is closed is no longer in watchMap, so that only a Set
\* that had already picked it can panic on it.
ClosedAreUnregistered == \A w \in watchMap : wpc[w] # "closed"

\* Set ends, returning or panicking, whatever the watches do meanwhile.
SetEnds == []<>(\A s \in Setters : pc[s] = "idle")

\* A cancelled watch, and every watch that is registered when Destroy begins,
\* ends: its goroutine does not leak.
WatchesEnd ==
    \A w \in Watches :
        (w \in cancelled \/ (destroy = "load" /\ w \in watchMap)) ~> (wpc[w] = "closed")
=============================================================================
