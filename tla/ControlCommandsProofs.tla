------------------------ MODULE ControlCommandsProofs ------------------------
(***************************************************************************)
(* Proofs about ControlCommands, for any number of commands, keys, values  *)
(* and runs of the node.  The argument is the store's lock: a command that *)
(* works locally has it, so the core of the node that its first attempt    *)
(* went to is closed, and the next node opens another one.                 *)
(***************************************************************************)
EXTENDS ControlCommands, TLAPS

\* The lock is with the command that has opened the core.
Locked == \A c \in Commands : holder = c <=> pc[c] \in {"local", "close"}

\* A command that has not called yet has no handler.
Handled == \A c \in Commands : pc[c] \in {"idle", "call"} => handler[c] = "none"

\* The handler of a command that has the store, or has reported success, has lost
\* its core if it is still there.
Overtaken ==
    \A c \in Commands :
        pc[c] \in {"local", "close"} \/ result[c] = "ok"
            => handler[c] = "none" \/ (cmd[c].op \in Retried /\ ~Opened(c))

\* Only the token of an ADMIN gets past the middleware and the check of the
\* handler.
Admitted == \A c \in Commands : handler[c] = "exec" => role[c] = "ADMIN"

\* Whoever is about to say "ok", or has, has done the work.
Done(c) == cmd[c].op \in Writes => c \in applied
Worked ==
    \A c \in Commands :
        /\ handler[c] = "ok" => Done(c)
        /\ pc[c] = "close" => Done(c)
        /\ result[c] = "ok" => Done(c)
        /\ result[c] # "none" => pc[c] = "done"

IInv == TypeOK /\ Locked /\ Handled /\ Overtaken /\ Admitted /\ Worked

USE CommandsAssumption

\* What a command is asked to set is a key and a value of the store.
LEMMA AskedToSet ==
    ASSUME NEW a \in Asked, a.op = "set"
    PROVE  a.key \in Keys /\ a.value \in Values \cup {NoValue}
  BY DEF Asked, Get, List

LEMMA InitIInv == Init => IInv
<1> SUFFICES ASSUME Init
             PROVE  IInv
  OBVIOUS
<1>1. List \in Asked
  BY DEF Asked
<1>2. TypeOK
  BY <1>1 DEF Init, TypeOK, Roles
<1> QED
  BY <1>2 DEF Init, IInv, Locked, Handled, Overtaken, Opened, Admitted, Worked,
           Done

-----------------------------------------------------------------------------
\* What a command does to the store, in the node or locally: it keeps the store
\* a store, and is noted in applied if it is one that writes.
LEMMA Work ==
    ASSUME TypeOK, NEW c \in Commands, NEW masked,
           \/ Set(c) \/ Clean(c) \/ Restore(c) \/ Dump(c) \/ Certificate(c)
           \/ Show(c, masked)
    PROVE  /\ store' \in [Keys -> Values \cup {NoValue}]
           /\ clear' \in [Commands -> SUBSET Keys]
           /\ applied' \in {applied, applied \cup {c}}
           /\ cmd[c].op \in Writes => c \in applied'
           /\ \A d \in Commands : d # c => clear'[d] = clear[d]
<1> USE DEF TypeOK
<1>1. CASE Set(c)
  <2>1. cmd[c].key \in Keys /\ cmd[c].value \in Values \cup {NoValue}
    BY <1>1, AskedToSet DEF Set
  <2> QED
    BY <1>1, <2>1 DEF Set
<1>2. CASE Clean(c)
  BY <1>2 DEF Clean
<1>3. CASE Restore(c)
  BY <1>3 DEF Restore
<1>4. CASE Dump(c)
  BY <1>4 DEF Dump, Writes
<1>5. CASE Certificate(c)
  BY <1>5 DEF Certificate
<1>6. CASE Show(c, masked)
  BY <1>6 DEF Show, Present, Writes
<1> QED
  BY <1>1, <1>2, <1>3, <1>4, <1>5, <1>6

\* The same of a command that fails half-way.
LEMMA WorkHalfWay ==
    ASSUME TypeOK, NEW c \in Commands, HalfWay(c)
    PROVE  /\ store' \in [Keys -> Values \cup {NoValue}]
           /\ clear' \in [Commands -> SUBSET Keys]
           /\ applied' \in {applied, applied \cup {c}}
           /\ \A d \in Commands : d # c => clear'[d] = clear[d]
<1>1. CASE Set(c) \/ Clean(c) \/ Restore(c)
  BY <1>1, Work
<1>2. CASE UNCHANGED <<store, clear, applied>>
  BY <1>2 DEF TypeOK
<1> QED
  BY <1>1, <1>2 DEF HalfWay

-----------------------------------------------------------------------------
\* The steps of a command's process that leave the store alone.
LEMMA CommandIInv ==
    ASSUME IInv, NEW c \in Commands,
           \/ Call(c) \/ CallFails(c) \/ Lost(c) \/ Answer(c) \/ GiveUp(c) \/ OpenFails(c)
           \/ OpenCore(c) \/ CloseCore(c)
    PROVE  IInv'
<1> USE DEF nodeVars, askVars, handlerVars, Goto, HandlerGoto, IInv
<1>1. CASE Call(c)
  <2>1. TypeOK'
    BY <1>1 DEF Call, TypeOK
  <2> QED
    BY <1>1, <2>1 DEF Call, TypeOK, Locked, Handled, Overtaken, Opened, Admitted, Worked, Done
<1>2. CASE CallFails(c) \/ Lost(c)
  <2>1. TypeOK'
    BY <1>2 DEF CallFails, Lost, TypeOK
  <2> QED
    BY <1>2, <2>1
       DEF CallFails, Lost, TypeOK, Locked, Handled, Overtaken, Opened, Admitted, Worked, Done
<1>3. CASE Answer(c)
  <2>1. TypeOK'
    BY <1>3 DEF Answer, TypeOK
  <2>2. Overtaken'
    BY <1>3 DEF Answer, TypeOK, Overtaken, Opened
  <2> QED
    BY <1>3, <2>1, <2>2 DEF Answer, TypeOK, Locked, Handled, Admitted, Worked, Done
<1>4. CASE GiveUp(c) \/ OpenFails(c)
  <2>1. TypeOK'
    BY <1>4 DEF GiveUp, OpenFails, Fallback, TypeOK
  <2> QED
    BY <1>4, <2>1 DEF GiveUp, OpenFails, Fallback, TypeOK, Locked, Handled, Overtaken, Opened,
                      Admitted, Worked, Done
<1>5. CASE OpenCore(c)
  \* The lock is free, so no core is open.
  <2>1. TypeOK'
    BY <1>5 DEF OpenCore, Fallback, TypeOK
  <2>2. Overtaken'
    BY <1>5 DEF OpenCore, Fallback, TypeOK, Overtaken, Opened
  <2> QED
    BY <1>5, <2>1, <2>2 DEF OpenCore, Fallback, TypeOK, Locked, Handled, Admitted, Worked, Done
<1>6. CASE CloseCore(c)
  <2>1. holder = c
    BY <1>6 DEF CloseCore, Locked
  <2>2. TypeOK'
    BY <1>6, <2>1 DEF CloseCore, TypeOK
  <2>3. Overtaken'
    BY <1>6 DEF CloseCore, TypeOK, Overtaken, Opened
  <2> QED
    BY <1>6, <2>1, <2>2, <2>3 DEF CloseCore, TypeOK, Locked, Handled, Admitted, Worked, Done
<1> QED
  BY <1>1, <1>2, <1>3, <1>4, <1>5, <1>6

\* Those that work on it.
LEMMA LocalWork ==
    ASSUME IInv, NEW c \in Commands,
           LocalConfig(c) \/ LocalStorage(c) \/ LocalCertificate(c) \/ LocalFails(c)
    PROVE  /\ pc[c] = "local"
           /\ store' \in [Keys -> Values \cup {NoValue}]
           /\ clear' \in [Commands -> SUBSET Keys]
           /\ applied' \in {applied, applied \cup {c}}
           /\ UNCHANGED <<node, runs, cmd, role, handler, home>>
           /\ \/ /\ pc' = [pc EXCEPT ![c] = "close"]
                 /\ cmd[c].op \in Writes => c \in applied'
                 /\ UNCHANGED <<holder, result>>
              \/ /\ pc' = [pc EXCEPT ![c] = "done"]
                 /\ holder' = Nobody
                 /\ result' = [result EXCEPT ![c] = "error"]
<1> USE DEF nodeVars, askVars, handlerVars, Goto, IInv
<1>1. CASE LocalConfig(c)
  BY <1>1, Work DEF LocalConfig
<1>2. CASE LocalStorage(c)
  BY <1>2, Work DEF LocalStorage
<1>3. CASE LocalCertificate(c)
  BY <1>3, Work DEF LocalCertificate
<1>4. CASE LocalFails(c)
  BY <1>4, WorkHalfWay DEF LocalFails
<1> QED
  BY <1>1, <1>2, <1>3, <1>4

LEMMA LocalIInv ==
    ASSUME IInv, NEW c \in Commands,
           LocalConfig(c) \/ LocalStorage(c) \/ LocalCertificate(c) \/ LocalFails(c)
    PROVE  IInv'
<1> USE DEF IInv
<1>1. /\ pc[c] = "local" /\ holder = c
      /\ store' \in [Keys -> Values \cup {NoValue}]
      /\ clear' \in [Commands -> SUBSET Keys]
      /\ applied' \in {applied, applied \cup {c}}
      /\ UNCHANGED <<node, runs, cmd, role, handler, home>>
  BY LocalWork DEF Locked
<1>2. CASE /\ pc' = [pc EXCEPT ![c] = "close"]
           /\ cmd[c].op \in Writes => c \in applied'
           /\ UNCHANGED <<holder, result>>
  <2>1. TypeOK'
    BY <1>1, <1>2 DEF TypeOK
  <2>2. Overtaken'
    BY <1>1, <1>2 DEF TypeOK, Overtaken, Opened
  <2> QED
    BY <1>1, <1>2, <2>1, <2>2 DEF TypeOK, Locked, Handled, Admitted, Worked, Done
<1>3. CASE /\ pc' = [pc EXCEPT ![c] = "done"]
           /\ holder' = Nobody
           /\ result' = [result EXCEPT ![c] = "error"]
  <2>1. TypeOK'
    BY <1>1, <1>3 DEF TypeOK
  <2>2. Overtaken'
    BY <1>1, <1>3 DEF TypeOK, Overtaken, Opened
  <2> QED
    BY <1>1, <1>3, <2>1, <2>2 DEF TypeOK, Locked, Handled, Admitted, Worked, Done
<1> QED
  BY <1>2, <1>3, LocalWork

-----------------------------------------------------------------------------
\* The handlers that reach a service of the node, taken together.
LEMMA HandlerWork ==
    ASSUME IInv, NEW c \in Commands,
           Config(c) \/ Storage(c) \/ NodeCertificate(c) \/ Job(c) \/ HandlerFails(c)
    PROVE  /\ handler[c] = "exec"
           /\ \/ /\ handler' = [handler EXCEPT ![c] = "ok"]
                 /\ cmd[c].op \in Writes => c \in applied'
              \/ handler' = [handler EXCEPT ![c] = "refused"]
           /\ store' \in [Keys -> Values \cup {NoValue}]
           /\ clear' \in [Commands -> SUBSET Keys]
           /\ applied' \in {applied, applied \cup {c}}
           /\ \A d \in Commands : d # c => clear'[d] = clear[d]
           /\ UNCHANGED <<node, runs, holder, pc, cmd, role, home, result>>
           /\ Opened(c) \/ cmd[c].op = "job" \/ UNCHANGED <<store, applied>>
<1> USE DEF nodeVars, askVars, HandlerGoto, IInv
<1>1. CASE Config(c)
  BY <1>1, Work DEF Config
<1>2. CASE Storage(c)
  BY <1>2, Work DEF Storage
<1>3. CASE NodeCertificate(c)
  BY <1>3, Work DEF NodeCertificate
<1>4. CASE Job(c)
  BY <1>4 DEF Job, TypeOK, Writes
<1>5. CASE HandlerFails(c)
  <2>1. CASE Opened(c)
    BY <1>5, <2>1, WorkHalfWay DEF HandlerFails
  <2>2. CASE ~Opened(c)
    BY <1>5, <2>2 DEF HandlerFails, TypeOK
  <2> QED
    BY <2>1, <2>2
<1> QED
  BY <1>1, <1>2, <1>3, <1>4, <1>5

\* Every step of a handler keeps the invariant,
LEMMA HandlerIInv ==
    ASSUME IInv, NEW c \in Commands, HandlerStep(c)
    PROVE  IInv'
<1> USE DEF nodeVars, askVars, HandlerGoto, IInv
<1>1. CASE Authorize(c) \/ Status(c)
  <2>1. TypeOK'
    BY <1>1 DEF Authorize, Status, TypeOK
  <2>2. ~ \E d \in Commands : d = c /\ handler'[d] = "ok" /\ cmd[d].op \in Writes
    BY <1>1 DEF Authorize, Status, TypeOK, Writes
  <2>3. Overtaken'
    BY <1>1 DEF Authorize, Status, TypeOK, Overtaken, Opened
  <2>4. Admitted'
    BY <1>1 DEF Authorize, Status, TypeOK, Admitted
  <2> QED
    BY <1>1, <2>1, <2>2, <2>3, <2>4
       DEF Authorize, Status, TypeOK, Locked, Handled, Worked, Done
<1>2. CASE Config(c) \/ Storage(c) \/ NodeCertificate(c) \/ Job(c) \/ HandlerFails(c)
  <2>1. /\ handler[c] = "exec"
        /\ store' \in [Keys -> Values \cup {NoValue}]
        /\ clear' \in [Commands -> SUBSET Keys]
        /\ applied' \in {applied, applied \cup {c}}
        /\ UNCHANGED <<node, runs, holder, pc, cmd, role, home, result>>
    BY <1>2, HandlerWork
  <2>2. PICK outcome \in {"ok", "refused"} :
          /\ handler' = [handler EXCEPT ![c] = outcome]
          /\ outcome = "ok" => Done(c)'
    BY <1>2, <2>1, HandlerWork DEF Done
  <2>3. TypeOK'
    BY <2>1, <2>2 DEF TypeOK
  <2>4. Overtaken'
    BY <2>1, <2>2 DEF TypeOK, Overtaken, Opened
  <2>5. Worked'
    BY <2>1, <2>2 DEF TypeOK, Worked, Done
  <2> QED
    BY <2>1, <2>2, <2>3, <2>4, <2>5 DEF TypeOK, Locked, Handled, Admitted
<1> QED
  BY <1>1, <1>2 DEF HandlerStep

-----------------------------------------------------------------------------
\* and every step of the node behind it.
LEMMA NodeIInv ==
    ASSUME IInv, NodeStep
    PROVE  IInv'
<1> USE DEF askVars, handlerVars, nodeVars, IInv
<1>1. CASE StartNode
  \* No handler belongs to the new run.
  <2>1. TypeOK'
    BY <1>1 DEF StartNode, TypeOK
  <2>2. Overtaken'
    BY <1>1 DEF StartNode, TypeOK, Overtaken, Opened
  <2> QED
    BY <1>1, <2>1, <2>2 DEF StartNode, TypeOK, Locked, Handled, Admitted, Worked, Done
<1>2. CASE Serve \/ StopServers \/ StopNode
  <2>1. TypeOK'
    BY <1>2 DEF Serve, StopServers, StopNode, TypeOK
  <2>2. Overtaken'
    BY <1>2 DEF Serve, StopServers, StopNode, TypeOK, Overtaken, Opened
  <2> QED
    BY <1>2, <2>1, <2>2
       DEF Serve, StopServers, StopNode, TypeOK, Locked, Handled, Admitted, Worked, Done
<1>3. ASSUME NEW r \in 1..runs, Exit(r)
      PROVE  IInv'
  <2>1. TypeOK'
    BY <1>3 DEF Exit, TypeOK
  <2>2. Overtaken'
    BY <1>3 DEF Exit, TypeOK, Overtaken, Opened
  <2> QED
    BY <1>3, <2>1, <2>2 DEF Exit, TypeOK, Locked, Handled, Admitted, Worked, Done
<1> QED
  BY <1>1, <1>2, <1>3 DEF NodeStep

LEMMA NextIInv == IInv /\ [Next]_vars => IInv'
<1> SUFFICES ASSUME IInv, [Next]_vars
             PROVE  IInv'
  OBVIOUS
<1>1. ASSUME NEW c \in Commands, NEW asked \in Asked, NEW token \in Roles,
             Run(c, asked, token)
      PROVE  IInv'
  <2> USE DEF IInv, Run, Goto, nodeVars, handlerVars
  <2>1. TypeOK'
    BY <1>1 DEF TypeOK
  <2>2. Overtaken'
    BY <1>1 DEF TypeOK, Overtaken, Opened, Handled
  <2> QED
    BY <1>1, <2>1, <2>2 DEF TypeOK, Locked, Handled, Admitted, Worked, Done
<1>2. ASSUME NEW c \in Commands, CommandStep(c)
      PROVE  IInv'
  BY <1>2, CommandIInv, LocalIInv DEF CommandStep
<1>3. ASSUME NEW c \in Commands, HandlerStep(c)
      PROVE  IInv'
  BY <1>3, HandlerIInv
<1>4. CASE NodeStep
  BY <1>4, NodeIInv
<1>5. CASE UNCHANGED vars
  BY <1>5 DEF vars, nodeVars, askVars, handlerVars, IInv, TypeOK, Locked, Handled, Overtaken,
              Opened, Admitted, Worked, Done
<1> QED
  BY <1>1, <1>2, <1>3, <1>4, <1>5 DEF Next

-----------------------------------------------------------------------------
\* The invariant of the commands and the node, from which the others follow.
THEOREM Inductive == Spec => []IInv
  BY InitIInv, NextIInv, PTL DEF Spec

\* The type invariant: in particular the node has the store's lock exactly
\* while its core is open.
THEOREM TypeCorrect == Spec => []TypeOK
<1>1. IInv => TypeOK
  BY DEF IInv
<1> QED
  BY <1>1, Inductive, PTL

\* A set, clean or restore whose command reports success has been applied, by
\* the handler in the node or by doInCore, whatever became of the first attempt.
THEOREM Reported == Spec => []ReportedIsApplied
<1>1. IInv => ReportedIsApplied
  BY DEF IInv, Worked, Done, ReportedIsApplied
<1> QED
  BY <1>1, Inductive, PTL

\* The steps that can change the store, or show values of it.
LEMMA Changes ==
    ASSUME [Next]_vars
    PROVE  \/ \E d \in Commands :
                Config(d) \/ Storage(d) \/ NodeCertificate(d) \/ Job(d) \/ HandlerFails(d)
           \/ \E d \in Commands :
                LocalConfig(d) \/ LocalStorage(d) \/ LocalCertificate(d) \/ LocalFails(d)
           \/ UNCHANGED <<store, clear, applied>>
<1>1. ASSUME NEW d \in Commands, CommandStep(d)
      PROVE  \/ LocalConfig(d) \/ LocalStorage(d) \/ LocalCertificate(d) \/ LocalFails(d)
             \/ UNCHANGED <<store, clear, applied>>
  BY <1>1 DEF CommandStep, Call, CallFails, Answer, Lost, GiveUp, OpenCore, OpenFails, CloseCore
<1>2. ASSUME NEW d \in Commands, HandlerStep(d)
      PROVE  \/ Config(d) \/ Storage(d) \/ NodeCertificate(d) \/ Job(d) \/ HandlerFails(d)
             \/ UNCHANGED <<store, clear, applied>>
  BY <1>2 DEF HandlerStep, Authorize, Status
<1>3. ASSUME NEW d \in Commands, NEW asked \in Asked, NEW token \in Roles,
             Run(d, asked, token)
      PROVE  UNCHANGED <<store, clear, applied>>
  BY <1>3 DEF Run
<1>4. ASSUME NodeStep
      PROVE  UNCHANGED <<store, clear, applied>>
  BY <1>4 DEF NodeStep, StartNode, Serve, StopServers, StopNode, Exit
<1>5. ASSUME UNCHANGED vars
      PROVE  UNCHANGED <<store, clear, applied>>
  BY <1>5 DEF vars
<1> QED
  BY <1>1, <1>2, <1>3, <1>4, <1>5 DEF Next

\* Once doInCore has the stores, or the command has reported success, the handler
\* of the first attempt changes nothing, though it may outlive the core it was
\* called in and run beside the next node: the lock was that core's.
THEOREM LocalAfterHandler == Spec => LocalIsLast
<1>1. ASSUME IInv, [Next]_vars, NEW c \in Commands,
             pc[c] \in {"local", "close"} \/ result[c] = "ok",
             handler'[c] # handler[c]
      PROVE  UNCHANGED <<store, applied>>
  <2> USE DEF IInv
  <2>1. ASSUME NEW d \in Commands,
               Config(d) \/ Storage(d) \/ NodeCertificate(d) \/ Job(d) \/ HandlerFails(d)
        PROVE  UNCHANGED <<store, applied>>
    <3>1. /\ handler[d] = "exec"
          /\ \A e \in Commands : e # d => handler'[e] = handler[e]
          /\ Opened(d) \/ cmd[d].op = "job" \/ UNCHANGED <<store, applied>>
      BY <1>1, <2>1, HandlerWork DEF TypeOK
    <3>2. c = d
      BY <1>1, <3>1
    <3>3. cmd[c].op \in Retried /\ ~Opened(c)
      BY <1>1, <3>1, <3>2 DEF Overtaken
    <3> QED
      BY <3>1, <3>2, <3>3 DEF Retried
  <2>2. ASSUME NEW d \in Commands,
               LocalConfig(d) \/ LocalStorage(d) \/ LocalCertificate(d) \/ LocalFails(d)
        PROVE  FALSE
    BY <1>1, <2>2, LocalWork
  <2> QED
    BY <1>1, <2>1, <2>2, Changes
<1>2. IInv /\ [Next]_vars =>
        [\A c \in Commands :
           (pc[c] \in {"local", "close"} \/ result[c] = "ok") /\ handler'[c] # handler[c]
              => UNCHANGED <<store, applied>>]_vars
  BY <1>1
<1> QED
  BY <1>2, Inductive, PTL DEF Spec, LocalIsLast

\* A step that changes the store or shows values of it while a node has its core
\* open is one of a handler that has passed HasUserRole: doInCore waits for the
\* lock.
THEOREM OnlyAdmins == Spec => AdminOnly
<1>1. ASSUME IInv, [Next]_vars, NEW c \in Commands, node # "down",
             c \in applied' \ applied \/ clear'[c] # clear[c]
      PROVE  role[c] = "ADMIN"
  <2> USE DEF IInv
  <2>1. ASSUME NEW d \in Commands,
               Config(d) \/ Storage(d) \/ NodeCertificate(d) \/ Job(d) \/ HandlerFails(d)
        PROVE  role[c] = "ADMIN"
    <3>1. /\ handler[d] = "exec"
          /\ applied' \in {applied, applied \cup {d}}
          /\ \A e \in Commands : e # d => clear'[e] = clear[e]
      BY <1>1, <2>1, HandlerWork
    <3>2. c = d
      BY <1>1, <3>1
    <3> QED
      BY <1>1, <3>1, <3>2 DEF Admitted
  <2>2. ASSUME NEW d \in Commands,
               LocalConfig(d) \/ LocalStorage(d) \/ LocalCertificate(d) \/ LocalFails(d)
        PROVE  FALSE
    <3>1. pc[d] = "local"
      BY <1>1, <2>2, LocalWork
    <3> QED
      BY <1>1, <3>1 DEF Locked, TypeOK
  <2>3. CASE UNCHANGED <<store, clear, applied>>
    BY <1>1, <2>3
  <2> QED
    BY <1>1, <2>1, <2>2, <2>3, Changes
<1>2. IInv /\ [Next]_vars =>
        [\A c \in Commands :
           node # "down" /\ (c \in applied' \ applied \/ clear'[c] # clear[c])
              => role[c] = "ADMIN"]_vars
  BY <1>1
<1> QED
  BY <1>2, Inductive, PTL DEF Spec, AdminOnly
=============================================================================
