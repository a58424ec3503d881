----------------------------- MODULE JobService -----------------------------
(***************************************************************************)
(* The job service (sprintcore/job_service.go): a list of jobs under a     *)
(* mutex, and one goroutine for every "job run" command, which looks the   *)
(* job up under the mutex and executes it outside.                         *)
(***************************************************************************)
EXTENDS Naturals, Sequences, SequencesExt

CONSTANTS Names,        \* job names; AddJob does not look for duplicates
          Runners,      \* goroutines started by "job run"
          MaxJobs       \* bound: calls of AddJob

VARIABLES jobs,         \* t.jobs: a sequence of [name, id]
          added,        \* calls of AddJob so far
          runner,       \* runner[r]: "idle", "find", "running"
          wanted,       \* wanted[r]: the argument of "job run"
          executing,    \* executing[r]: id of the job r executes, 0 for none
          cancelledJobs \* history: ids of the jobs CancelJob has returned nil for

vars == <<jobs, added, runner, wanted, executing, cancelledJobs>>

Init ==
    /\ jobs = <<>>
    /\ added = 0
    /\ runner = [r \in Runners |-> "idle"]
    /\ wanted \in [Runners -> Names]
    /\ executing = [r \in Runners |-> 0]
    /\ cancelledJobs = {}

\* The index of the first job of that name, 0 if there is none.
IndexOf(name) == SelectInSeq(jobs, LAMBDA job : job.name = name)

AddJob(name) ==
    /\ added < MaxJobs
    /\ added' = added + 1
    /\ jobs' = Append(jobs, [name |-> name, id |-> added + 1])
    /\ UNCHANGED <<runner, wanted, executing, cancelledJobs>>

\* The first job of that name leaves the list (otherwise ErrJobNotFound).
CancelJob(name) ==
    /\ IndexOf(name) # 0
    /\ cancelledJobs' = cancelledJobs \cup {jobs[IndexOf(name)].id}
    /\ jobs' = RemoveAt(jobs, IndexOf(name))
    /\ UNCHANGED <<added, runner, wanted, executing>>

\* ExecuteCommand("run"): it answers OK and leaves the rest to a goroutine.
StartRun(r, name) ==
    /\ runner[r] = "idle"
    /\ runner' = [runner EXCEPT ![r] = "find"]
    /\ wanted' = [wanted EXCEPT ![r] = name]
    /\ UNCHANGED <<jobs, added, executing, cancelledJobs>>

\* RunJob: findJob, then the job's ExecutionFn with context.Background().
FindJob(r) ==
    /\ runner[r] = "find"
    /\ LET i == IndexOf(wanted[r]) IN
         IF i = 0
           THEN runner' = [runner EXCEPT ![r] = "idle"] /\ UNCHANGED executing
           ELSE /\ runner' = [runner EXCEPT ![r] = "running"]
                /\ executing' = [executing EXCEPT ![r] = jobs[i].id]
    /\ UNCHANGED <<jobs, added, wanted, cancelledJobs>>

\* The job is over, with or without an error.
EndRun(r) ==
    /\ runner[r] = "running"
    /\ runner' = [runner EXCEPT ![r] = "idle"]
    /\ executing' = [executing EXCEPT ![r] = 0]
    /\ UNCHANGED <<jobs, added, wanted, cancelledJobs>>

\* "job list" changes nothing, "job cancel" cancels before it answers.
ExecuteCommand(r, name) == StartRun(r, name) \/ CancelJob(name)

Next ==
    \/ \E name \in Names : AddJob(name)
    \/ \E r \in Runners, name \in Names : ExecuteCommand(r, name)
    \/ \E r \in Runners : FindJob(r) \/ EndRun(r)

Spec == Init /\ [][Next]_vars

\* What "job help" says of cancel: "Cancel the running job and remove from
\* schedule list."  No goroutine executes a job that was cancelled.
CancelStopsJob == \A r \in Runners : executing[r] \notin cancelledJobs
=============================================================================
