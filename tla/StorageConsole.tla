--------------------------- MODULE StorageConsole ---------------------------
(***************************************************************************)
(* The interactive storage console.  The client (StorageConsole of         *)
(* sprintclient/control_client.go) is two goroutines over one gRPC stream: *)
(* the main one prompts, sends a query and waits on the channel "barrier"; *)
(* the receiver prints what arrives and releases the barrier.  The server  *)
(* (Console of sprintcore/storage_service.go) answers a query with its     *)
(* results, an error record if it failed, and a final record, status 100.  *)
(* Without a node the command opens the stores itself and runs the loop of *)
(* LocalConsole.                                                           *)
(***************************************************************************)
EXTENDS Integers, Sequences

CONSTANTS MaxQueries,   \* bound: queries the user types
          MaxResults,   \* bound: results of one query
          Window        \* the responses gRPC's flow control lets be in transit

ASSUME ConsoleAssumption ==
    MaxQueries \in Nat /\ MaxResults \in Nat /\ Window \in Nat \ {0}

VARIABLES main,         \* the main goroutine of the client
          receiver,     \* its receiving goroutine
          barrier,      \* make(chan int, 1)
          server,       \* the handler's goroutine
          sent,         \* results sent so far for the current query
          asked,        \* queries sent so far
          requests,     \* the stream from client to server, up to and including the
                        \* query being answered
          responses,    \* the stream from server to client
          closed,       \* the client has called CloseSend
          broken        \* the connection is gone

vars == <<main, receiver, barrier, server, sent, asked, requests, responses, closed, broken>>

Queries == 1..MaxQueries
Responses == [status : {100, 200, 501}, query : Queries]

TypeOK ==
    /\ main \in {"open", "local", "prompt", "wait", "closing", "returned"}
    /\ receiver \in {"recv", "ready", "leaving", "ended"}
    /\ barrier \in {<<>>, <<1>>, <<-1>>}
    /\ server \in {"authorize", "recv", "query", "failed", "answered", "ended"}
    /\ sent \in 0..MaxResults
    /\ asked \in 0..MaxQueries
    /\ requests \in {<<>>} \cup {<<q>> : q \in Queries}
    /\ responses \in Seq(Responses) /\ Len(responses) <= Window
    /\ closed \in BOOLEAN
    /\ broken \in BOOLEAN

Init ==
    /\ main = "open"
    /\ receiver = "ended"
    /\ barrier = <<>>
    /\ server = "ended"
    /\ sent = 0
    /\ asked = 0
    /\ requests = <<>>
    /\ responses = <<>>
    /\ closed = FALSE
    /\ broken = FALSE

-----------------------------------------------------------------------------
(* The main goroutine of the client. *)

serverVars == <<server, sent>>
streamVars == <<requests, responses, closed, broken>>

\* The stream is opened, which starts the handler, and the receiver started.
Open ==
    /\ main = "open"
    /\ ~broken
    /\ main' = "prompt"
    /\ receiver' = "recv"
    /\ server' = "authorize"
    /\ UNCHANGED <<barrier, sent, asked, streamVars>>

\* There is no node: on to LocalConsole, unless the core cannot be opened either.
OpenFails ==
    /\ main = "open"
    /\ main' \in {"local", "returned"}
    /\ UNCHANGED <<receiver, barrier, serverVars, asked, streamVars>>

\* LocalConsole: a query, its results and its error are all in this goroutine.
LocalQuery ==
    /\ main = "local"
    /\ asked < MaxQueries
    /\ asked' = asked + 1
    /\ UNCHANGED <<main, receiver, barrier, serverVars, streamVars>>

LocalExit ==
    /\ main = "local"
    /\ main' = "returned"
    /\ UNCHANGED <<receiver, barrier, serverVars, asked, streamVars>>

\* The user types a query and stream.Send accepts it; it is lost if the stream
\* is over by then.
Send ==
    /\ main = "prompt"
    /\ asked < MaxQueries
    /\ asked' = asked + 1
    /\ requests' = IF broken \/ server = "ended" THEN requests ELSE Append(requests, asked + 1)
    /\ main' = "wait"
    /\ UNCHANGED <<receiver, barrier, serverVars, responses, closed, broken>>

\* stream.Send fails once the stream is over.
SendFails ==
    /\ main = "prompt"
    /\ broken \/ server = "ended"
    /\ main' = "closing"
    /\ UNCHANGED <<receiver, barrier, serverVars, asked, streamVars>>

\* The user types "exit".
Exit ==
    /\ main = "prompt"
    /\ main' = "closing"
    /\ UNCHANGED <<receiver, barrier, serverVars, asked, streamVars>>

\* Mutant of Wait: the next prompt comes at once.
PromptAtOnce ==
    /\ main = "wait"
    /\ main' = "prompt"
    /\ UNCHANGED <<receiver, barrier, serverVars, asked, streamVars>>

\* <-barrier
Wait ==
    /\ main = "wait"
    /\ barrier # <<>>
    /\ main' = IF Head(barrier) = -1 THEN "closing" ELSE "prompt"
    /\ barrier' = Tail(barrier)
    /\ UNCHANGED <<receiver, serverVars, asked, streamVars>>

CloseSend ==
    /\ main = "closing"
    /\ main' = "returned"
    /\ closed' = TRUE
    /\ UNCHANGED <<receiver, barrier, serverVars, asked, requests, responses, broken>>

MainStep == Wait \/ CloseSend

-----------------------------------------------------------------------------
(* The receiving goroutine of the client. *)

\* Mutant of Recv: every status but 200 ends the query.
RecvEndsQuery ==
    /\ receiver = "recv"
    /\ responses # <<>>
    /\ responses' = Tail(responses)
    /\ receiver' = IF Head(responses).status # 200 THEN "ready" ELSE "recv"
    /\ UNCHANGED <<main, barrier, serverVars, asked, requests, closed, broken>>

\* stream.Recv returns a record: 200 and errors are printed, 100 ends the query.
Recv ==
    /\ receiver = "recv"
    /\ responses # <<>>
    /\ responses' = Tail(responses)
    /\ receiver' = IF Head(responses).status = 100 THEN "ready" ELSE "recv"
    /\ UNCHANGED <<main, barrier, serverVars, asked, requests, closed, broken>>

\* stream.Recv returns an error, io.EOF after the server's last record included.
RecvFails ==
    /\ receiver = "recv"
    /\ broken \/ (server = "ended" /\ responses = <<>>)
    /\ responses' = <<>>
    /\ receiver' = "leaving"
    /\ UNCHANGED <<main, barrier, serverVars, asked, requests, closed, broken>>

\* barrier <- 1
Release ==
    /\ receiver = "ready"
    /\ barrier = <<>>
    /\ barrier' = <<1>>
    /\ receiver' = "recv"
    /\ UNCHANGED <<main, serverVars, asked, streamVars>>

\* Mutant of ReleaseLast: an unbuffered channel, taken only by a main goroutine
\* that waits.
ReleaseUnbuffered ==
    /\ receiver = "leaving"
    /\ main = "wait"
    /\ barrier = <<>>
    /\ barrier' = <<-1>>
    /\ receiver' = "ended"
    /\ UNCHANGED <<main, serverVars, asked, streamVars>>

\* The deferred barrier <- -1
ReleaseLast ==
    /\ receiver = "leaving"
    /\ barrier = <<>>
    /\ barrier' = <<-1>>
    /\ receiver' = "ended"
    /\ UNCHANGED <<main, serverVars, asked, streamVars>>

ReceiverStep == Recv \/ RecvFails \/ Release \/ ReleaseLast

-----------------------------------------------------------------------------
(* The server. *)

clientVars == <<main, receiver, barrier, asked>>

\* HasUserRole(stream.Context(), "ADMIN"); a stream the check refuses ends here.
Authorize ==
    /\ server = "authorize"
    /\ server' \in {"recv", "ended"}
    /\ UNCHANGED <<clientVars, sent, streamVars>>

RecvQuery ==
    /\ server = "recv"
    /\ requests # <<>>
    /\ ~broken
    /\ server' = "query"
    /\ UNCHANGED <<clientVars, sent, streamVars>>

\* stream.Recv fails: the client is gone, or has closed its side and all is read.
RecvEnds ==
    /\ server = "recv"
    /\ broken \/ (closed /\ requests = <<>>)
    /\ server' = "ended"
    /\ requests' = <<>>
    /\ UNCHANGED <<clientVars, sent, responses, closed, broken>>

\* stream.Send: it waits for room, and on a broken stream the record is lost.
Reply(status) ==
    IF broken
      THEN UNCHANGED responses
      ELSE /\ Len(responses) < Window
           /\ responses' = Append(responses, [status |-> status, query |-> Head(requests)])

\* The callback of ExecuteQuery sends one more result.
Result ==
    /\ server = "query"
    /\ sent < MaxResults
    /\ Reply(200)
    /\ sent' = sent + 1
    /\ UNCHANGED <<clientVars, server, requests, closed, broken>>

\* ExecuteQuery returns; PanicToError makes an error of a panic.
QueryEnds ==
    /\ server = "query"
    /\ sent' = 0
    /\ server' \in {"answered", "failed"}
    /\ UNCHANGED <<clientVars, streamVars>>

\* Mutant of Report: on to the next query without the final record.
ReportAndContinue ==
    /\ server = "failed"
    /\ Reply(501)
    /\ server' = "recv"
    /\ requests' = Tail(requests)
    /\ UNCHANGED <<clientVars, sent, closed, broken>>

\* The error of this Send is overwritten by the next one's.
Report ==
    /\ server = "failed"
    /\ Reply(501)
    /\ server' = "answered"
    /\ UNCHANGED <<clientVars, sent, requests, closed, broken>>

\* The final record; Console returns if it cannot be sent.
Answer ==
    /\ server = "answered"
    /\ Reply(100)
    /\ \/ server' = "recv"
       \/ broken /\ server' = "ended"
    /\ requests' = Tail(requests)
    /\ UNCHANGED <<clientVars, sent, closed, broken>>

ServerStep == Authorize \/ RecvQuery \/ RecvEnds \/ Result \/ QueryEnds \/ Report \/ Answer

-----------------------------------------------------------------------------
\* The connection breaks, or the server is stopped.
Break ==
    /\ ~broken
    /\ broken' = TRUE
    /\ UNCHANGED <<clientVars, serverVars, requests, responses, closed>>

\* Both ends have returned.
Over ==
    /\ main = "returned" /\ receiver = "ended" /\ server = "ended"
    /\ UNCHANGED vars

Next ==
    \/ Open \/ OpenFails \/ LocalQuery \/ LocalExit
    \/ Send \/ SendFails \/ Exit \/ MainStep
    \/ ReceiverStep
    \/ ServerStep
    \/ Break
    \/ Over

Spec == Init /\ [][Next]_vars

\* Goroutines are scheduled and every query ends; the user owes nothing and the
\* connection need not break.
FairSpec == Spec /\ WF_vars(MainStep) /\ WF_vars(ReceiverStep) /\ WF_vars(ServerStep)

-----------------------------------------------------------------------------
\* The user is prompted only when the previous query is over on both sides, and
\* what is printed belongs to the query the user waits for: no record, and no
\* release of the barrier, is left over from an earlier one.
AnswersInStep ==
    /\ main = "prompt" =>
         /\ barrier # <<1>> /\ receiver # "ready"
         /\ requests = <<>> \/ broken
         /\ server \in {"authorize", "recv", "ended"}
    /\ \A i \in DOMAIN responses : responses[i].query = asked /\ main = "wait"

\* Every query ends, with its answer or with the stream.
QueryAnswered == main = "wait" ~> main # "wait"

\* Once the user leaves, the receiving goroutine and the handler end as well.
ConsoleEnds == main = "returned" ~> (receiver = "ended" /\ server = "ended")
=============================================================================
