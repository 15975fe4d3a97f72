---------------------------- MODULE DagVersions ----------------------------
(***************************************************************************)
(* pkg/scheduler when the definition of a DAG changes while its runs are   *)
(* open.  One DAG ID has a definition in the store and one in dagIndex; a  *)
(* run has the instances of the definition it was submitted with and is    *)
(* scheduled by the one in dagIndex.  Any definition may be submitted at   *)
(* any time: RegisterDAG adds cron entries, nothing removes them, so that  *)
(* those of replaced definitions go on submitting them.                    *)
(*                                                                         *)
(* Every access to dagIndex or to the stored definition is a step.  What   *)
(* goes on inside Submit and Schedule otherwise is the subject of          *)
(* FIFOScheduler, so here the creation of a run, and the visit of a run    *)
(* with a definition in hand, is one step.                                 *)
(***************************************************************************)
EXTENDS Naturals

CONSTANTS
  Definitions,   \* functions from the tasks of a DAG to their Dependencies
  Submissions,   \* runs
  MaxRestarts    \* how often the process may be restarted

\* A DAG has tasks (Validate), so the empty function stands for none.
NoDefinition == [t \in {} |-> {}]

ASSUME VersionsAssumption ==
  /\ MaxRestarts \in Nat /\ NoDefinition \notin Definitions
  /\ \A d \in Definitions : \A t \in DOMAIN d : d[t] \subseteq DOMAIN d

VARIABLES
  saved,      \* the definition in the store
  indexed,    \* dagIndex[d.ID]
  saving,     \* definitions RegisterDAG has saved and not yet indexed
  given,      \* given[r]: the definition r was submitted with
  submit,     \* submit[r]: where Submit stands
  status,     \* status[r]: the status of the run
  insts,      \* insts[r]: the status of each of its instances
  visit,      \* visit[r]: where Schedule stands with r
  executing,  \* executing[r]: its tasks whose execution is under way
  restarts

definitionState == <<saved, indexed, saving, restarts>>
runState == <<given, submit, status, insts, visit, executing>>
versionsVars == <<definitionState, runState>>

NoInsts == [t \in {} |-> "pending"]

VersionsInit ==
  /\ saved = NoDefinition /\ indexed = NoDefinition
  /\ saving = {} /\ restarts = 0
  /\ given = [r \in Submissions |-> NoDefinition]
  /\ submit = [r \in Submissions |-> "none"]
  /\ status = [r \in Submissions |-> "none"]
  /\ insts = [r \in Submissions |-> NoInsts]
  /\ visit = [r \in Submissions |-> [at |-> "idle", dag |-> NoDefinition]]
  /\ executing = [r \in Submissions |-> {}]
-----------------------------------------------------------------------------
(* RegisterDAG, Submit and restarts *)

SaveVersion(d) ==
  /\ d \notin saving
  /\ saved' = d
  /\ saving' = saving \cup {d}
  /\ UNCHANGED <<indexed, restarts, runState>>

IndexVersion(d) ==
  /\ d \in saving
  /\ indexed' = d
  /\ saving' = saving \ {d}
  /\ UNCHANGED <<saved, restarts, runState>>

\* Store.DeleteDAG, which the scheduler does not hear of.
DeleteVersion ==
  /\ saved # NoDefinition
  /\ saved' = NoDefinition
  /\ UNCHANGED <<indexed, saving, restarts, runState>>

\* Submit, by a caller or a cron entry.
SubmitVersion(r, d) ==
  /\ submit[r] = "none"
  /\ given' = [given EXCEPT ![r] = d]
  /\ submit' = [submit EXCEPT ![r] = "created"]
  /\ status' = [status EXCEPT ![r] = "running"]
  /\ insts' = [insts EXCEPT ![r] = [t \in DOMAIN d |-> "pending"]]
  /\ UNCHANGED <<definitionState, visit, executing>>

\* Its last step puts the submitted definition into dagIndex, also when a
\* newer one is there.
IndexSubmitted(r) ==
  /\ submit[r] = "created"
  /\ indexed' = given[r]
  /\ submit' = [submit EXCEPT ![r] = "done"]
  /\ UNCHANGED <<saved, saving, restarts, given, status, insts, visit, executing>>

\* A new process: dagIndex is gone, and the calls under way.  The executions
\* die with the old one, or live on in workers of their own.  Nobody takes up
\* an instance that is Queued in the store.
RestartScheduler ==
  /\ restarts < MaxRestarts
  /\ restarts' = restarts + 1
  /\ indexed' = NoDefinition /\ saving' = {}
  /\ submit' = [r \in Submissions |->
                  IF submit[r] = "created" THEN "done" ELSE submit[r]]
  /\ visit' = [r \in Submissions |-> [at |-> "idle", dag |-> NoDefinition]]
  /\ executing' \in {executing, [r \in Submissions |-> {}]}
  /\ UNCHANGED <<saved, given, status, insts>>
-----------------------------------------------------------------------------
(* Schedule *)

Idle(r) == visit' = [visit EXCEPT ![r] = [at |-> "idle", dag |-> NoDefinition]]

\* ReadyTasks of definition d.  A dependency without an instance is not
\* successful, and a ready task without an instance is passed over.
ReadyUnder(r, d) ==
  {t \in DOMAIN d \cap DOMAIN insts[r] :
     /\ insts[r][t] = "pending"
     /\ \A u \in d[t] : u \in DOMAIN insts[r] /\ insts[r][u] = "success"}

\* Mutant of Verdict: the run is judged by the definition in hand.
Verdict_ByDefinition(r, d) ==
  IF \E t \in DOMAIN d : t \notin DOMAIN insts[r]
                          \/ insts[r][t] \notin {"success", "failed"}
  THEN "running"
  ELSE IF \E t \in DOMAIN insts[r] : insts[r][t] = "failed" THEN "failed"
  ELSE "success"

\* The run is judged by its instances, whatever the definition says.
Verdict(r, d) ==
  IF \E t \in DOMAIN insts[r] : insts[r][t] \notin {"success", "failed"}
  THEN "running"
  ELSE IF \E t \in DOMAIN insts[r] : insts[r][t] = "failed" THEN "failed"
  ELSE "success"

\* The visit of a run with definition d in hand.  Its ready instances are
\* Queued in the store and either executed or lost: Start's loop drops the
\* list.
VisitWith(r, d) ==
  /\ insts' = [insts EXCEPT ![r] =
       [t \in DOMAIN @ |-> IF t \in ReadyUnder(r, d) THEN "queued" ELSE @[t]]]
  /\ status' = [status EXCEPT ![r] = Verdict(r, d)]
  /\ \E list \in {ReadyUnder(r, d), {}} :
       executing' = [executing EXCEPT ![r] = @ \cup list]
  /\ Idle(r)

\* The definition is looked up in dagIndex,
LookupIndex(r) ==
  /\ status[r] = "running" /\ visit[r].at = "idle"
  /\ \/ indexed # NoDefinition /\ VisitWith(r, indexed)
     \/ /\ indexed = NoDefinition
        /\ visit' = [visit EXCEPT ![r].at = "load"]
        /\ UNCHANGED <<insts, status, executing>>
  /\ UNCHANGED <<definitionState, given, submit>>

\* else in the store; without one there the run is passed over.
LoadVersion(r) ==
  /\ visit[r].at = "load"
  /\ \/ saved = NoDefinition /\ Idle(r)
     \/ /\ saved # NoDefinition
        /\ visit' = [visit EXCEPT ![r] = [at |-> "index", dag |-> saved]]
  /\ UNCHANGED <<definitionState, given, submit, status, insts, executing>>

\* What was loaded goes into dagIndex, over whatever is there by now.
IndexLoaded(r) ==
  /\ visit[r].at = "index"
  /\ indexed' = visit[r].dag
  /\ VisitWith(r, visit[r].dag)
  /\ UNCHANGED <<saved, saving, restarts, given, submit>>

ScheduleRun(r) == LookupIndex(r) \/ LoadVersion(r) \/ IndexLoaded(r)

\* An execution ends and is reported with status s; a report that the store
\* refuses leaves the instance Queued.
ReportTask(r, t, s) ==
  /\ t \in executing[r]
  /\ executing' = [executing EXCEPT ![r] = @ \ {t}]
  /\ insts' = [insts EXCEPT ![r][t] = s]
  /\ UNCHANGED <<definitionState, given, submit, status, visit>>
-----------------------------------------------------------------------------
Report(r) ==
  \E t \in executing[r], s \in {"success", "failed", "queued"} : ReportTask(r, t, s)

VersionsNext ==
  \/ \E d \in Definitions : SaveVersion(d) \/ IndexVersion(d)
  \/ DeleteVersion \/ RestartScheduler
  \/ \E r \in Submissions :
       \/ \E d \in Definitions : SubmitVersion(r, d)
       \/ IndexSubmitted(r) \/ ScheduleRun(r) \/ Report(r)

\* The ticker calls Schedule again and again, and executions under way end.
VersionsFairness ==
  \A r \in Submissions :
    WF_versionsVars(ScheduleRun(r)) /\ WF_versionsVars(Report(r))
-----------------------------------------------------------------------------
(* Properties *)

\* The definition Schedule would use, and whether it can finish run r: every
\* task of the run is in it and depends on tasks of the run only.
InForce == IF indexed # NoDefinition THEN indexed ELSE saved

Suits(r) ==
  /\ InForce # NoDefinition
  /\ \A t \in DOMAIN insts[r] :
       t \in DOMAIN InForce /\ InForce[t] \subseteq DOMAIN insts[r]

\* An instance is Queued and nobody executes it: the list it was on was
\* dropped, or the execution was lost in a restart, or its report.
Stranded(r) ==
  \E t \in DOMAIN insts[r] \ executing[r] : insts[r][t] = "queued"

\* A run survives that its definition is replaced, deleted or forgotten by a
\* restart: it ends, or is blocked by a failed task or held up by a stranded
\* one, if from some time on the definition in force suits it, whatever
\* definitions were in force before and however its tasks were scheduled by
\* them.
EndsOnceSuited ==
  \A r \in Submissions :
    <>[]Suits(r) =>
      (status[r] = "running" ~>
         \/ status[r] # "running"
         \/ \E t \in DOMAIN insts[r] : insts[r][t] = "failed"
         \/ Stranded(r))
=============================================================================
