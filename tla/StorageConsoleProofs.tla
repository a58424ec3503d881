------------------------ MODULE StorageConsoleProofs ------------------------
(***************************************************************************)
(* Proofs about StorageConsole, for any number of queries and results and  *)
(* any window of the stream: the console works in turns.  What makes a     *)
(* turn is that a query is in one place only: with the server, in the      *)
(* stream as the final record, with the receiver, or in the barrier.       *)
(***************************************************************************)
EXTENDS StorageConsole, TLAPS

\* The server is at work on a query.
Busy == server \in {"query", "failed", "answered"}

Final(i) == responses[i].status = 100

\* Before the stream is opened nothing has happened.
Unopened ==
    main \in {"open", "local"} =>
        receiver = "ended" /\ barrier = <<>> /\ requests = <<>> /\ responses = <<>>

\* A query that the server has yet to answer: nothing downstream says that it is
\* over.  While the stream works the user waits for it.
Unanswered ==
    /\ Busy => requests # <<>>
    /\ requests # <<>> =>
         /\ requests = <<asked>>
         /\ main # "prompt" /\ receiver # "ready" /\ barrier # <<1>>
         /\ \A i \in 1..Len(responses) : ~Final(i)
         /\ broken \/ server = "ended" \/ main = "wait"

\* Records in transit are those of the query the user waits for, and the final
\* one is the last.
InTransit ==
    responses # <<>> =>
        /\ main = "wait" /\ receiver = "recv" /\ barrier = <<>>
        /\ \A i \in 1..Len(responses) :
             responses[i].query = asked /\ (Final(i) => i = Len(responses))

\* The receiver has the final record, or has released the barrier for it.
Released ==
    receiver = "ready" \/ barrier = <<1>> =>
        main = "wait" /\ (receiver = "ready" => barrier = <<>>)

\* The receiver leaves when no record can come any more.
Leaving ==
    /\ receiver \in {"leaving", "ended"} => responses = <<>> /\ (broken \/ server = "ended")
    /\ barrier = <<-1>> => receiver = "ended"

IInv == TypeOK /\ Unopened /\ Unanswered /\ InTransit /\ Released /\ Leaving

USE ConsoleAssumption

LEMMA InitIInv == Init => IInv
<1> SUFFICES ASSUME Init
             PROVE  IInv
  OBVIOUS
<1>1. TypeOK
  <2>1. responses \in Seq(Responses) /\ Len(responses) <= Window
    BY DEF Init
  <2>2. closed \in BOOLEAN /\ broken \in BOOLEAN
    BY DEF Init
  <2> QED
    BY <2>1, <2>2 DEF Init, TypeOK
<1>2. Unopened /\ Unanswered /\ InTransit /\ Released /\ Leaving
  BY DEF Init, Unopened, Unanswered, InTransit, Released, Leaving, Busy
<1> QED
  BY <1>1, <1>2 DEF IInv

\* A record at the end of the stream, and the record at its front taken out.
LEMMA AppendOne ==
    ASSUME NEW S, NEW s \in Seq(S), NEW r \in S
    PROVE  /\ Append(s, r) \in Seq(S) /\ Append(s, r) # <<>>
           /\ Len(Append(s, r)) = Len(s) + 1
           /\ \A i \in 1..Len(s) : Append(s, r)[i] = s[i]
           /\ Append(s, r)[Len(s) + 1] = r
  OBVIOUS

\* What a receiver leaves in the stream.
LEMMA TailOne ==
    ASSUME NEW S, NEW s \in Seq(S), s # <<>>
    PROVE  /\ Tail(s) \in Seq(S)
           /\ Len(s) \in Nat \ {0} /\ Len(Tail(s)) = Len(s) - 1
           /\ Head(s) = s[1]
           /\ \A i \in 1..(Len(s) - 1) : Tail(s)[i] = s[i + 1]
           /\ Len(s) = 1 => Tail(s) = <<>>
  OBVIOUS

-----------------------------------------------------------------------------
\* The main goroutine of the client.
LEMMA MainIInv ==
    ASSUME IInv,
           \/ Open \/ OpenFails \/ LocalQuery \/ LocalExit
           \/ Send \/ SendFails \/ Exit \/ Wait \/ CloseSend
    PROVE  IInv'
<1> USE DEF IInv, serverVars, streamVars
<1>1. CASE Open
  <2>1. TypeOK'
    BY <1>1 DEF Open, TypeOK
  <2> QED
    BY <1>1, <2>1
       DEF Open, TypeOK, Unopened, Unanswered, InTransit, Released, Leaving, Busy, Final
<1>2. CASE OpenFails \/ LocalExit
  <2>1. TypeOK'
    BY <1>2 DEF OpenFails, LocalExit, TypeOK
  <2> QED
    BY <1>2, <2>1
       DEF OpenFails, LocalExit, TypeOK, Unopened, Unanswered, InTransit, Released, Leaving,
           Busy, Final
<1>3. CASE LocalQuery
  <2>1. TypeOK'
    BY <1>3 DEF LocalQuery, TypeOK
  <2> QED
    BY <1>3, <2>1
       DEF LocalQuery, TypeOK, Unopened, Unanswered, InTransit, Released, Leaving, Busy, Final
<1>4. CASE Send
  <2>1. requests = <<>> /\ responses = <<>> /\ receiver # "ready" /\ barrier # <<1>> /\ ~Busy
    BY <1>4 DEF Send, Unanswered, InTransit, Released
  <2>2. requests' \in {<<>>, <<asked + 1>>}
    BY <1>4, <2>1 DEF Send
  <2>3. TypeOK'
    BY <1>4, <2>2 DEF Send, TypeOK, Queries
  <2> QED
    BY <1>4, <2>1, <2>2, <2>3
       DEF Send, TypeOK, Unopened, Unanswered, InTransit, Released, Leaving, Busy, Final
<1>5. CASE SendFails \/ Exit
  <2>1. TypeOK'
    BY <1>5 DEF SendFails, Exit, TypeOK
  <2> QED
    BY <1>5, <2>1
       DEF SendFails, Exit, TypeOK, Unopened, Unanswered, InTransit, Released, Leaving, Busy,
           Final
<1>6. CASE Wait
  <2>1. /\ \/ barrier = <<1>> /\ main' = "prompt"
           \/ barrier = <<-1>> /\ main' = "closing"
        /\ barrier' = <<>>
    <3>1. CASE barrier = <<1>>
      BY <1>6, <3>1 DEF Wait
    <3>2. CASE barrier = <<-1>>
      BY <1>6, <3>2 DEF Wait
    <3> QED
      BY <1>6, <3>1, <3>2 DEF Wait, TypeOK
  <2>2. responses = <<>>
    BY <2>1 DEF InTransit
  <2>3. TypeOK'
    BY <1>6, <2>1 DEF Wait, TypeOK
  <2> QED
    BY <1>6, <2>1, <2>2, <2>3
       DEF Wait, TypeOK, Unopened, Unanswered, InTransit, Released, Leaving, Busy, Final
<1>7. CASE CloseSend
  <2>1. closed' \in BOOLEAN
    BY <1>7 DEF CloseSend
  <2>2. TypeOK'
    BY <1>7, <2>1 DEF CloseSend, TypeOK
  <2> QED
    BY <1>7, <2>2
       DEF CloseSend, TypeOK, Unopened, Unanswered, InTransit, Released, Leaving, Busy, Final
<1> QED
  BY <1>1, <1>2, <1>3, <1>4, <1>5, <1>6, <1>7

-----------------------------------------------------------------------------
\* The receiving goroutine of the client.
LEMMA ReceiverIInv ==
    ASSUME IInv, ReceiverStep
    PROVE  IInv'
<1> USE DEF IInv, serverVars, streamVars
<1>1. CASE Recv
  <2>1. /\ Len(responses) \in Nat \ {0}
        /\ responses' \in Seq(Responses) /\ Len(responses') = Len(responses) - 1
        /\ \A i \in 1..(Len(responses) - 1) : responses'[i] = responses[i + 1]
        /\ Len(responses) = 1 => responses' = <<>>
        /\ receiver' = IF Final(1) THEN "ready" ELSE "recv"
    BY <1>1, TailOne DEF Recv, TypeOK, Final
  <2>2. TypeOK'
    BY <1>1, <2>1 DEF Recv, TypeOK
  <2>3. main = "wait" /\ barrier = <<>> /\ responses # <<>>
    BY <1>1 DEF Recv, InTransit
  <2>4. Final(1) => responses' = <<>> /\ requests = <<>>
    BY <2>1, <2>3 DEF InTransit, Unanswered
  <2>5. Unanswered'
    BY <1>1, <2>1, <2>3, <2>4 DEF Recv, Unanswered, Busy, Final
  <2>6. InTransit'
    <3> SUFFICES ASSUME responses' # <<>>
                 PROVE  /\ main' = "wait" /\ receiver' = "recv" /\ barrier' = <<>>
                        /\ \A i \in 1..Len(responses') :
                             /\ responses'[i].query = asked'
                             /\ responses'[i].status = 100 => i = Len(responses')
      BY DEF InTransit, Final
    <3>1. main' = "wait" /\ receiver' = "recv" /\ barrier' = <<>> /\ asked' = asked
      BY <1>1, <2>1, <2>3, <2>4 DEF Recv
    <3>2. ASSUME NEW i \in 1..Len(responses')
          PROVE  /\ responses'[i].query = asked'
                 /\ responses'[i].status = 100 => i = Len(responses')
      <4>1. i + 1 \in 1..Len(responses) /\ responses'[i] = responses[i + 1]
        BY <2>1, <3>2
      <4>2. responses[i + 1].query = asked /\ (Final(i + 1) => i + 1 = Len(responses))
        BY <2>3, <4>1 DEF InTransit
      <4> QED
        BY <2>1, <3>1, <3>2, <4>1, <4>2 DEF Final
    <3> QED
      BY <3>1, <3>2
  <2> QED
    BY <1>1, <2>1, <2>2, <2>3, <2>5, <2>6 DEF Recv, Unopened, Released, Leaving
<1>2. CASE RecvFails
  <2>1. responses' \in Seq(Responses) /\ Len(responses') = 0
    BY <1>2 DEF RecvFails
  <2>2. TypeOK'
    BY <1>2, <2>1 DEF RecvFails, TypeOK
  <2> QED
    BY <1>2, <2>1, <2>2
       DEF RecvFails, Unopened, Unanswered, InTransit, Released, Leaving, Busy, TypeOK
<1>3. CASE Release
  <2>1. TypeOK'
    BY <1>3 DEF Release, TypeOK
  <2> QED
    BY <1>3, <2>1
       DEF Release, TypeOK, Unopened, Unanswered, InTransit, Released, Leaving, Busy, Final
<1>4. CASE ReleaseLast
  <2>1. TypeOK'
    BY <1>4 DEF ReleaseLast, TypeOK
  <2>2. barrier' # <<1>> /\ barrier' # <<>>
    BY <1>4 DEF ReleaseLast
  <2> QED
    BY <1>4, <2>1, <2>2
       DEF ReleaseLast, TypeOK, Unopened, Unanswered, InTransit, Released, Leaving, Busy, Final
<1> QED
  BY <1>1, <1>2, <1>3, <1>4 DEF ReceiverStep

-----------------------------------------------------------------------------
\* A record the server sends for the query it is at work on: it is lost, or
\* the user waits for it and it is the last in the stream.
Replied(status) ==
    /\ responses' \in Seq(Responses) /\ Len(responses') <= Window
    /\ \/ broken /\ responses' = responses
       \/ /\ ~broken /\ responses' # <<>>
          /\ main = "wait" /\ receiver = "recv" /\ barrier = <<>>
          /\ Len(responses') = Len(responses) + 1
          /\ \A i \in 1..Len(responses) : responses'[i] = responses[i]
          /\ responses'[Len(responses')] = [status |-> status, query |-> asked]

\* What the answer of the server does to the stream.
LEMMA ReplySends ==
    ASSUME IInv, Busy, NEW status \in {100, 200, 501}, Reply(status)
    PROVE  Replied(status)
<1> USE DEF Replied
<1> USE DEF IInv
<1>1. CASE broken
  BY <1>1 DEF Reply, TypeOK
<1>2. CASE ~broken
  <2>1. requests = <<asked>> /\ asked \in Queries
    BY DEF Unanswered, TypeOK
  <2>2. main = "wait" /\ receiver = "recv" /\ barrier = <<>>
    BY <1>2, <2>1 DEF Unanswered, Leaving, Busy, TypeOK
  <2>3. [status |-> status, query |-> asked] \in Responses
    BY <2>1 DEF Responses
  <2>4. /\ Len(responses) < Window
        /\ responses' = Append(responses, [status |-> status, query |-> asked])
    BY <1>2, <2>1 DEF Reply
  <2> QED
    BY <1>2, <2>2, <2>3, <2>4, AppendOne DEF TypeOK
<1> QED
  BY <1>1, <1>2

\* Every step of the server keeps the invariant.
LEMMA ServerIInv ==
    ASSUME IInv, ServerStep
    PROVE  IInv'
<1> USE DEF IInv, clientVars, streamVars, Replied
<1>1. CASE Authorize
  <2>1. TypeOK'
    BY <1>1 DEF Authorize, TypeOK
  <2> QED
    BY <1>1, <2>1
       DEF Authorize, Unopened, Unanswered, InTransit, Released, Leaving, Busy, Final
<1>2. CASE RecvQuery
  <2>1. TypeOK'
    BY <1>2 DEF RecvQuery, TypeOK
  <2> QED
    BY <1>2, <2>1
       DEF RecvQuery, Unopened, Unanswered, InTransit, Released, Leaving, Busy, Final
<1>3. CASE RecvEnds
  <2>1. TypeOK'
    BY <1>3 DEF RecvEnds, TypeOK
  <2> QED
    BY <1>3, <2>1
       DEF RecvEnds, Unopened, Unanswered, InTransit, Released, Leaving, Busy, Final
<1>4. CASE QueryEnds
  <2>1. TypeOK'
    BY <1>4 DEF QueryEnds, TypeOK
  <2> QED
    BY <1>4, <2>1
       DEF QueryEnds, Unopened, Unanswered, InTransit, Released, Leaving, Busy, Final
<1>5. CASE Result \/ Report
  <2>1. PICK status \in {200, 501} : Reply(status)
    BY <1>5 DEF Result, Report
  <2>2. Busy /\ Busy' /\ UNCHANGED <<main, receiver, barrier, asked, requests, closed, broken>>
    BY <1>5 DEF Result, Report, Busy
  <2>3. Replied(status)
    BY <2>1, <2>2, ReplySends
  <2>4. TypeOK'
    BY <1>5, <2>2, <2>3 DEF Result, Report, TypeOK
  <2>5. CASE responses' = responses
    BY <2>2, <2>4, <2>5 DEF Unopened, Unanswered, InTransit, Released, Leaving, Busy, Final
  <2>6. CASE responses' # responses
    <3>1. requests # <<>> /\ (\A i \in 1..Len(responses) : ~Final(i))
      BY <2>2 DEF Unanswered
    <3>2. \A i \in 1..Len(responses') : responses'[i].query = asked /\ ~Final(i)'
      BY <2>1, <2>3, <2>4, <2>6, <3>1 DEF InTransit, Final, TypeOK
    <3>3. Unanswered'
      BY <2>2, <3>1, <3>2 DEF Unanswered, Busy
    <3>4. InTransit'
      BY <2>2, <2>3, <2>6, <3>2 DEF InTransit
    <3>5. Unopened' /\ Released' /\ Leaving'
      BY <2>2, <2>3, <2>6 DEF Unopened, Released, Leaving
    <3> QED
      BY <2>4, <3>3, <3>4, <3>5
  <2> QED
    BY <2>5, <2>6
<1>6. CASE Answer
  <2>1. Busy /\ ~Busy' /\ UNCHANGED <<main, receiver, barrier, asked, closed, broken, sent>>
    BY <1>6 DEF Answer, Busy
  <2>2. requests # <<>> /\ requests' = <<>>
    BY <1>6, <2>1 DEF Answer, Unanswered
  <2>3. Replied(100)
    BY <1>6, <2>1, ReplySends DEF Answer
  <2>4. TypeOK'
    BY <1>6, <2>1, <2>2, <2>3 DEF Answer, TypeOK
  <2>5. InTransit'
    <3>1. CASE responses' = responses
      BY <2>1, <3>1 DEF InTransit, Final
    <3>2. CASE responses' # responses
      <4>1. \A i \in 1..Len(responses) : ~Final(i)
        BY <2>2 DEF Unanswered
      <4>2. \A i \in 1..Len(responses') :
              responses'[i].query = asked /\ (Final(i)' => i = Len(responses'))
        BY <2>3, <3>2, <4>1 DEF InTransit, Final, TypeOK
      <4> QED
        BY <2>1, <2>3, <3>2, <4>2 DEF InTransit
    <3> QED
      BY <3>1, <3>2
  <2>6. Unanswered'
    BY <2>1, <2>2 DEF Unanswered
  <2>7. Unopened' /\ Released' /\ Leaving'
    BY <1>6, <2>1, <2>2, <2>3 DEF Answer, Unopened, Released, Leaving
  <2> QED
    BY <2>4, <2>5, <2>6, <2>7
<1> QED
  BY <1>1, <1>2, <1>3, <1>4, <1>5, <1>6 DEF ServerStep

-----------------------------------------------------------------------------
LEMMA NextIInv == IInv /\ [Next]_vars => IInv'
<1> SUFFICES ASSUME IInv, [Next]_vars
             PROVE  IInv'
  OBVIOUS
<1>1. CASE \/ Open \/ OpenFails \/ LocalQuery \/ LocalExit
           \/ Send \/ SendFails \/ Exit \/ MainStep
  BY <1>1, MainIInv DEF MainStep
<1>2. CASE ReceiverStep
  BY <1>2, ReceiverIInv
<1>3. CASE ServerStep
  BY <1>3, ServerIInv
<1>4. CASE Break
  <2>1. broken' \in BOOLEAN /\ broken'
    BY <1>4 DEF Break
  <2>2. UNCHANGED <<main, receiver, barrier, server, sent, asked, requests, responses, closed>>
    BY <1>4 DEF Break, clientVars, serverVars
  <2> QED
    BY <2>1, <2>2 DEF IInv, TypeOK, Unopened, Unanswered, InTransit, Released, Leaving,
                      Busy, Final
<1>5. CASE UNCHANGED vars
  BY <1>5 DEF vars, IInv, TypeOK, Unopened, Unanswered, InTransit, Released, Leaving, Busy, Final
<1> QED
  BY <1>1, <1>2, <1>3, <1>4, <1>5 DEF Next, Over

\* The invariant of the console, from which the others follow.
THEOREM Inductive == Spec => []IInv
  BY InitIInv, NextIInv, PTL DEF Spec

\* The type invariant: in particular the barrier never holds two values, the
\* server never has two queries and the stream no more than its window.
THEOREM TypeCorrect == Spec => []TypeOK
<1>1. IInv => TypeOK
  BY DEF IInv
<1> QED
  BY <1>1, Inductive, PTL

\* The main goroutine prompts only when the handler, the stream, the receiver
\* and the barrier are done with the previous query, and every record in
\* transit belongs to the query it waits for.
THEOREM InStep == Spec => []AnswersInStep
<1>1. IInv => AnswersInStep
  <2> SUFFICES ASSUME IInv
               PROVE  AnswersInStep
    OBVIOUS
  <2> USE DEF IInv
  <2>1. ASSUME main = "prompt"
        PROVE  /\ barrier # <<1>> /\ receiver # "ready"
               /\ requests = <<>> \/ broken
               /\ server \in {"authorize", "recv", "ended"}
    BY <2>1 DEF Unanswered, Released, Busy, TypeOK
  <2>2. ASSUME NEW i \in DOMAIN responses
        PROVE  responses[i].query = asked /\ main = "wait"
    <3>1. i \in 1..Len(responses) /\ responses # <<>>
      BY <2>2 DEF TypeOK
    <3> QED
      BY <3>1 DEF InTransit
  <2> QED
    BY <2>1, <2>2 DEF AnswersInStep
<1> QED
  BY <1>1, Inductive, PTL
=============================================================================
