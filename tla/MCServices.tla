----------------------------- MODULE MCServices -----------------------------
(* The programs and libraries that stand alone: one scheduler whose callers  *)
(* execute what it returns, sparkflowctl run, the server from main to exit,  *)
(* Policy.Do, a dead letter queue, and the scheduler of a DAG whose          *)
(* definition changes.  They share nothing, so a behaviour is one of one of  *)
(* them, named by `part', and no interleaving of two is lost.                *)
EXTENDS SchedulerRefinement, LocalRun, Server, DeadLetterQueue, RetryPolicy, DagVersions, TLC

VARIABLE part

\* 2 and 3 need 1, 4 needs 2 and 3.
DiamondDeps == 1 :> {} @@ 2 :> {1} @@ 3 :> {1} @@ 4 :> {2, 3}
DiamondPriority == 1 :> 0 @@ 2 :> 0 @@ 3 :> 5 @@ 4 :> 0

\* Policies of every strategy, with and without jitter and check, and factors
\* that grow, shrink, vanish and alternate; with MaxInt = 31 the products of
\* 5 * 3^2 and 5 * (1 + 3 * 2) overflow, and so does the jitter at 28.
RetryPolicies ==
  [maxRetries : {3}, initial : {-5, 0, 5}, max : {-2, 4, 20, 28},
   factor : {-3, 0, 1, 2, 6}, per : {2}, strategy : Strategies,
   jitter : BOOLEAN, check : {FALSE}]
  \cup
  [maxRetries : {-1, 0, 2}, initial : {5}, max : {20}, factor : {6}, per : {2},
   strategy : {"exponential"}, jitter : {FALSE}, check : BOOLEAN]

\* A chain; its dependency turned round; a third task.
SomeDefinitions ==
  {1 :> {} @@ 2 :> {1}, 1 :> {2} @@ 2 :> {}, 1 :> {} @@ 2 :> {1} @@ 3 :> {1}}

servicesVars == <<part, localVars, serverVars, dlqVars, doVars, versionsVars>>

\* What the executors that cmdRun registers report: success or failed.
NoneCancelled == \A r \in Runs, t \in Tasks : inst[r][t] # "cancelled"

\* Only the part that moves has a choice of initial states.
ServicesInit ==
  /\ part \in {"scheduler", "sparkflowctl", "server", "queue", "policy",
              "versions"}
  /\ LocalInit /\ ServerInit /\ DLQInit /\ DoInit /\ VersionsInit
  /\ part # "server" => ~dsn
  /\ part # "policy" => policy = CHOOSE p \in RetryPolicies : TRUE

ServicesNext ==
  /\ UNCHANGED part
  /\ \/ /\ part = "scheduler"
        /\ Next /\ UNCHANGED <<main, batch, serverVars, dlqVars, doVars,
                              versionsVars>>
     \/ /\ part = "sparkflowctl"
        /\ LocalNext /\ NoneCancelled'
        /\ UNCHANGED <<serverVars, dlqVars, doVars, versionsVars>>
     \/ /\ part = "server"
        /\ ServerNext /\ UNCHANGED <<localVars, dlqVars, doVars, versionsVars>>
     \/ /\ part = "queue"
        /\ DLQNext /\ UNCHANGED <<localVars, serverVars, doVars, versionsVars>>
     \/ /\ part = "policy"
        /\ DoNext /\ UNCHANGED <<localVars, serverVars, dlqVars, versionsVars>>
     \/ /\ part = "versions"
        /\ VersionsNext /\ UNCHANGED <<localVars, serverVars, dlqVars, doVars>>

\* Fairness of FIFOScheduler, asked of the part "scheduler" only.
SchedulerFairness ==
  /\ \A s \in Schedulers : WF_vars(part = "scheduler" /\ ScheduleStep(s))
  /\ \A r \in Runs :
       WF_vars(part = "scheduler" /\ sub[r] # "new" /\ SubmitStep(r))
  /\ \A s \in Schedulers, r \in Runs, t \in Tasks :
       WF_vars(part = "scheduler" /\ ExecuteStep(s, r, t))

\* The fairness of the part that moves; that of the others asks for nothing.
ServicesSpec ==
  /\ ServicesInit /\ [][ServicesNext]_servicesVars
  /\ SchedulerFairness
  /\ WF_localVars(part = "sparkflowctl" /\ LocalNext)
  /\ part = "server" => ServerFairness
  /\ WF_doVars(part = "policy" /\ DoStep)
  /\ VersionsFairness
=============================================================================
