------------------------------ MODULE LocalRun ------------------------------
(***************************************************************************)
(* sparkflowctl run (cmdRun): one process that submits one run to its own  *)
(* in-memory store, then calls Schedule, executes what it returns and      *)
(* reports the results, until the run has ended.  It is the scheduler of   *)
(* FIFOScheduler under a single thread of control: nothing happens         *)
(* between the steps of a Submit or a Schedule call.                       *)
(***************************************************************************)
EXTENDS FIFOScheduler

VARIABLES
  main,     \* where cmdRun stands
  batch     \* the instances of the last ready list still to be executed

localVars == <<vars, main, batch>>

LocalInit ==
  /\ Init
  /\ main = "start"
  /\ batch = <<>>

\* The DAG is saved before it is submitted.
Save ==
  /\ main = "start"
  /\ SaveDAG
  /\ main' = "submit"
  /\ UNCHANGED batch

\* The call of Submit.
Submit ==
  /\ main = "submit"
  /\ \E r \in Runs :
       /\ SubmitStep(r)
       /\ main' = IF sub'[r] = "done" THEN "loop" ELSE "submit"
  /\ UNCHANGED batch

\* A step inside the call of Schedule.
InSchedule(s) ==
  /\ main = "loop"
  /\ ~(pc[s] = "list" /\ todo[s] = {})
  /\ ScheduleStep(s)
  /\ UNCHANGED <<main, batch>>

\* Mutant of AfterSchedule: the loop ends as soon as nothing is ready.
AfterSchedule_NoCheck(s) ==
  /\ main = "loop"
  /\ Return(s)
  /\ batch' = ready[s]
  /\ main' = IF ready[s] # <<>> THEN "execute"
             ELSE IF \E r \in Runs : runStatus[r] = "failed" THEN "exit1"
             ELSE "exit0"

\* Schedule has returned.  With nothing ready the process exits if the run
\* has ended, with code 1 if it Failed, and else sleeps and tries again.
AfterSchedule(s) ==
  /\ main = "loop"
  /\ Return(s)
  /\ batch' = ready[s]
  /\ main' = IF ready[s] # <<>> THEN "execute"
             ELSE IF \E r \in Runs : runStatus[r] = "failed" THEN "exit1"
             ELSE IF \E r \in Runs : runStatus[r] = "success" THEN "exit0"
             ELSE "loop"

\* Mutant of Execute: the rest of the list is forgotten.
Execute_FirstOnly(s) ==
  /\ main = "execute"
  /\ \E res \in Results :
       ReportCompletion(s, Head(batch)[1], Head(batch)[2], res, "ok")
  /\ batch' = <<>>
  /\ main' = "loop"

\* The next instance of the list is executed to its end and reported; an
\* executor that is not registered, or that returns an error, is a failure.
Execute(s) ==
  /\ main = "execute"
  /\ \E res \in Results :
       ReportCompletion(s, Head(batch)[1], Head(batch)[2], res, "ok")
  /\ batch' = Tail(batch)
  /\ main' = IF Tail(batch) = <<>> THEN "loop" ELSE "execute"

LocalNext ==
  \/ Save
  \/ Submit
  \/ \E s \in Schedulers : InSchedule(s) \/ AfterSchedule(s) \/ Execute(s)

\* The process runs until it exits; an execution ends.
LocalSpec ==
  LocalInit /\ [][LocalNext]_localVars /\ WF_localVars(LocalNext)
-----------------------------------------------------------------------------
(* Properties *)

\* The exit code tells the truth: the process exits only after every task of
\* the DAG was executed, with 0 when all succeeded and with 1 otherwise.
ExitCodeIsTrue ==
  \A r \in Runs :
    /\ main = "exit0" => \A t \in Tasks : inst[r][t] = "success"
    /\ main = "exit1" => /\ \A t \in Tasks : IsTerminal(inst[r][t])
                         /\ \E t \in Tasks : inst[r][t] = "failed"

\* Once the DAG is saved the process exits, unless a failed task has a
\* dependent.
ExitsOrBlocked ==
  (main # "start") ~> (main \in {"exit0", "exit1"} \/ \E r \in Runs : Blocked(r))
=============================================================================
