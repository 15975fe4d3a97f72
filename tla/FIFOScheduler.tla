--------------------------- MODULE FIFOScheduler ---------------------------
(***************************************************************************)
(* pkg/scheduler: the FIFO scheduler over the shared store.  Submit,       *)
(* Schedule and ReportCompletion hold no lock across their store calls, so *)
(* every store call is an action of its own and the calls of different     *)
(* goroutines, or of different server replicas, interleave between them.   *)
(*                                                                         *)
(* A member of Schedulers is one FIFOScheduler object with one goroutine   *)
(* calling Schedule: the ticker loop of Start, or a caller that executes   *)
(* what Schedule returns (sparkflowctl run, a worker pool).  The goroutine *)
(* that calls Submit for run r is the process of sub[r].                   *)
(***************************************************************************)
EXTENDS Store, Sequences

CONSTANTS
  Schedulers,   \* scheduler objects, one Schedule loop each
  Tickers,      \* those whose loop is Start's, which drops the ready list
  Results,      \* statuses an execution may end with
  CanCrash      \* whether a scheduler process may die and restart

ASSUME SchedulerAssumption ==
  /\ Tickers \subseteq Schedulers
  /\ Results \subseteq Terminal
  /\ CanCrash \in BOOLEAN

VARIABLES
  dagStored,    \* whether SaveDAG has stored the DAG
  dagIndex,     \* dagIndex[s]: whether s has the DAG in its dagIndex
  sub,          \* sub[r]: progress of the Submit call that creates run r
  owner,        \* owner[r]: the scheduler that call runs on
  pc,           \* pc[s]: where the Schedule call of s stands
  todo,         \* todo[s]: the runs of ListRuns not yet visited
  cur,          \* cur[s]: the run being visited
  snap,         \* snap[s]: its instances as s knows them
  toQueue,      \* toQueue[s]: ready instances still to be queued
  toCheck,      \* toCheck[s]: instances still to be re-read
  ready,        \* ready[s]: the list Schedule will return
  job,          \* job[s][r][t]: the execution of a returned instance
  claims,       \* history: how often s has put an instance on a ready list
  partial       \* history: runs whose instances were listed too early

dagVars == <<dagStored, dagIndex>>
subVars == <<sub, owner>>
callVars == <<pc, todo, cur, snap, toQueue, toCheck, ready>>
history == <<claims, partial>>
vars == <<storeVars, dagVars, subVars, callVars, job, history>>

\* The locals of Schedule outside the loop over runs.
NoRun == -1
NoInstances == [t \in Tasks |-> NoInstance]

\* The types of the state, and what Schedule relies on without checking it:
\* while it looks up the DAG or works, it is visiting a run.
TypeOK ==
  /\ StoreTypeOK
  /\ dagStored \in BOOLEAN
  /\ dagIndex \in [Schedulers -> BOOLEAN]
  /\ sub \in [Runs -> {"new", "creating", "done", "failed"}]
  /\ owner \in [Runs -> Schedulers]
  /\ pc \in [Schedulers -> {"idle", "list", "lookup", "work"}]
  /\ todo \in [Schedulers -> SUBSET Runs]
  /\ cur \in [Schedulers -> Runs \cup {NoRun}]
  /\ \A s \in Schedulers : pc[s] \in {"lookup", "work"} => cur[s] \in Runs
  /\ snap \in [Schedulers -> [Tasks -> InstStatus]]
  /\ toQueue \in [Schedulers -> SUBSET Tasks]
  /\ toCheck \in [Schedulers -> SUBSET Tasks]
  /\ ready \in [Schedulers -> Seq(Runs \X Tasks)]
  /\ job \in [Schedulers -> [Runs -> [Tasks -> {"no", "dispatched", "running"}]]]
  /\ claims \in [Schedulers -> [Runs -> [Tasks -> Nat]]]
  /\ partial \in [Runs -> BOOLEAN]

Init ==
  /\ StoreInit
  /\ dagStored = FALSE
  /\ dagIndex = [s \in Schedulers |-> FALSE]
  /\ sub = [r \in Runs |-> "new"]
  /\ owner \in [Runs -> Schedulers]
  /\ pc = [s \in Schedulers |-> "idle"]
  /\ todo = [s \in Schedulers |-> {}]
  /\ cur = [s \in Schedulers |-> NoRun]
  /\ snap = [s \in Schedulers |-> NoInstances]
  /\ toQueue = [s \in Schedulers |-> {}]
  /\ toCheck = [s \in Schedulers |-> {}]
  /\ ready = [s \in Schedulers |-> <<>>]
  /\ job = [s \in Schedulers |-> [r \in Runs |-> [t \in Tasks |-> "no"]]]
  /\ claims = [s \in Schedulers |-> [r \in Runs |-> [t \in Tasks |-> 0]]]
  /\ partial = [r \in Runs |-> FALSE]
-----------------------------------------------------------------------------
(* RegisterDAG and Submit *)

\* A client saves the DAG in the store (sparkflowctl run, the tests).
SaveDAG ==
  /\ ~dagStored
  /\ dagStored' = TRUE
  /\ UNCHANGED <<storeVars, dagIndex, subVars, callVars, job, history>>

\* RegisterDAG: SaveDAG, then the index.  The two steps are one: whoever
\* runs between them misses the index and loads the same DAG from the store.
RegisterDAG(s, o) ==
  /\ dagStored' = (dagStored \/ Applied(o))
  /\ dagIndex' = [dagIndex EXCEPT ![s] = @ \/ ~Failed(o)]
  /\ UNCHANGED <<storeVars, subVars, callVars, job, history>>

\* Submit, first call: CreateRun with status Running.
CreateRun(r, o) ==
  /\ sub[r] = "new"
  /\ PutRun(r, o)
  /\ sub' = [sub EXCEPT ![r] = IF Failed(o) THEN "failed" ELSE "creating"]
  /\ UNCHANGED <<inst, dagVars, owner, callVars, job, history>>

\* Submit, loop: CreateTaskInstance with status Pending, in map order.  An
\* error ends Submit and leaves the run with the instances made so far.
CreateTaskInstance(r, t, o) ==
  /\ sub[r] = "creating"
  /\ inst[r][t] = NoInstance
  /\ PutTaskInstance(r, t, "pending", o)
  /\ sub' = IF Failed(o) THEN [sub EXCEPT ![r] = "failed"] ELSE sub
  /\ UNCHANGED <<runStatus, dagVars, owner, callVars, job, history>>

\* Submit, end: every instance exists, the DAG goes into the index.
IndexDAG(r) ==
  /\ sub[r] = "creating"
  /\ \A t \in Tasks : inst[r][t] # NoInstance
  /\ dagIndex' = [dagIndex EXCEPT ![owner[r]] = TRUE]
  /\ sub' = [sub EXCEPT ![r] = "done"]
  /\ UNCHANGED <<storeVars, dagStored, owner, callVars, job, history>>
-----------------------------------------------------------------------------
(* Schedule *)

\* Schedule starts: ListRuns(Running).  An error ends the call with nothing
\* changed.
ListRuns(s) ==
  /\ pc[s] = "idle"
  /\ pc' = [pc EXCEPT ![s] = "list"]
  /\ todo' = [todo EXCEPT ![s] = ListRunningRuns]
  /\ UNCHANGED <<storeVars, dagVars, subVars, cur, snap, toQueue, toCheck,
                 ready, job, history>>

\* Mutant of ListInstances: the loop variable is not set.
ListInstances_NoRun(s, r, o) ==
  /\ pc[s] = "list"
  /\ IsNewest(r, todo[s])
  /\ todo' = [todo EXCEPT ![s] = @ \ {r}]
  /\ pc' = [pc EXCEPT ![s] = "lookup"]
  /\ UNCHANGED <<storeVars, dagVars, subVars, cur, snap, toQueue, toCheck,
                 ready, job, history>>

\* The next run, newest first: ListTaskInstances.  An error skips the run.
ListInstances(s, r, o) ==
  /\ pc[s] = "list"
  /\ IsNewest(r, todo[s])
  /\ todo' = [todo EXCEPT ![s] = @ \ {r}]
  /\ \/ /\ Failed(o)
        /\ UNCHANGED <<pc, cur, snap, partial>>
     \/ /\ ~Failed(o)
        /\ pc' = [pc EXCEPT ![s] = "lookup"]
        /\ cur' = [cur EXCEPT ![s] = r]
        /\ snap' = [snap EXCEPT ![s] = ListTaskInstances(r)]
        /\ partial' = [partial EXCEPT
                         ![r] = @ \/ \E t \in Tasks : inst[r][t] = NoInstance]
  /\ UNCHANGED <<storeVars, dagVars, subVars, toQueue, toCheck, ready, job,
                 claims>>

\* The end of an iteration: its locals are gone.
Leave(s) ==
  /\ cur' = [cur EXCEPT ![s] = NoRun]
  /\ snap' = [snap EXCEPT ![s] = NoInstances]

\* The DAG comes from dagIndex or else from GetDAG, and the ready tasks are
\* computed from the snapshot.  A DAG that cannot be loaded skips the run.
LookupDAG(s, o) ==
  LET found == dagIndex[s] \/ (dagStored /\ ~Failed(o))
      queue == {t \in ReadyTasks(snap[s]) : snap[s][t] = "pending"}
  IN  /\ pc[s] = "lookup"
      /\ dagIndex' = [dagIndex EXCEPT ![s] = found]
      /\ pc' = [pc EXCEPT ![s] = IF found THEN "work" ELSE "list"]
      /\ toQueue' = [toQueue EXCEPT ![s] = IF found THEN queue ELSE {}]
      /\ toCheck' = [toCheck EXCEPT ![s] =
                       IF found THEN {t \in Tasks \ queue :
                                        snap[s][t] \in {"pending", "running"}}
                                ELSE {}]
      /\ IF found THEN UNCHANGED <<cur, snap>> ELSE Leave(s)
      /\ UNCHANGED <<storeVars, dagStored, subVars, todo, ready, job,
                     history>>

\* Mutant of Enqueue: the instance is handed out without UpdateTaskInstance.
Enqueue_NotStored(s, t, o) ==
  /\ pc[s] = "work"
  /\ IsFirst(t, toQueue[s])
  /\ toQueue' = [toQueue EXCEPT ![s] = @ \ {t}]
  /\ snap' = [snap EXCEPT ![s][t] = "queued"]
  /\ ready' = [ready EXCEPT ![s] = Append(@, <<cur[s], t>>)]
  /\ claims' = [claims EXCEPT ![s][cur[s]][t] = @ + 1]
  /\ UNCHANGED <<storeVars, dagVars, subVars, pc, todo, cur, toCheck, job,
                 partial>>

\* One ready instance becomes Queued: the copy of the snapshot is written
\* back whole.  The copy keeps Queued, and the instance stays off the ready
\* list, when the store reports an error.
Enqueue(s, t, o) ==
  /\ pc[s] = "work"
  /\ IsFirst(t, toQueue[s])
  /\ toQueue' = [toQueue EXCEPT ![s] = @ \ {t}]
  /\ snap' = [snap EXCEPT ![s][t] = "queued"]
  /\ PutTaskInstance(cur[s], t, "queued", o)
  /\ IF Failed(o)
       THEN UNCHANGED <<ready, claims>>
       ELSE /\ ready' = [ready EXCEPT ![s] = Append(@, <<cur[s], t>>)]
            /\ claims' = [claims EXCEPT ![s][cur[s]][t] = @ + 1]
  /\ UNCHANGED <<runStatus, dagVars, subVars, pc, todo, cur, toCheck, job,
                 partial>>

\* The completion check re-reads an instance that was neither terminal nor
\* Queued, in ID order.  The old copy is used when the read fails.
Recheck(s, t, o) ==
  /\ pc[s] = "work"
  /\ toQueue[s] = {}
  /\ t \in toCheck[s] /\ \A u \in toCheck[s] : t <= u
  /\ toCheck' = [toCheck EXCEPT ![s] = @ \ {t}]
  /\ snap' = IF Failed(o) THEN snap
                          ELSE [snap EXCEPT ![s][t] = inst[cur[s]][t]]
  /\ UNCHANGED <<storeVars, dagVars, subVars, pc, todo, cur, toQueue, ready,
                 job, history>>

\* allComplete and anyFailed, over the instances the snapshot lists.
Listed(s) == {t \in Tasks : snap[s][t] # NoInstance}
\* Mutant of AllComplete: an instance that is queued counts as done.
AllComplete_Queued(s) ==
  \A t \in Listed(s) : IsTerminal(snap[s][t]) \/ snap[s][t] = "queued"

AllComplete(s) == \A t \in Listed(s) : IsTerminal(snap[s][t])
AnyFailed(s) == \E t \in Listed(s) : snap[s][t] = "failed"

\* The run is finished with UpdateRun when every listed instance is
\* terminal; an error is only logged.
Conclude(s, o) ==
  /\ pc[s] = "work"
  /\ toQueue[s] = {} /\ toCheck[s] = {}
  /\ IF AllComplete(s)
       THEN UpdateRun(cur[s], IF AnyFailed(s) THEN "failed" ELSE "success", o)
       ELSE UNCHANGED runStatus
  /\ pc' = [pc EXCEPT ![s] = "list"]
  /\ Leave(s)
  /\ UNCHANGED <<inst, dagVars, subVars, todo, toQueue, toCheck, ready, job,
                 history>>

\* Mutant of Return: the list is dropped by every caller.
Return_Drops(s) ==
  /\ pc[s] = "list"
  /\ todo[s] = {}
  /\ pc' = [pc EXCEPT ![s] = "idle"]
  /\ ready' = [ready EXCEPT ![s] = <<>>]
  /\ UNCHANGED <<storeVars, dagVars, subVars, todo, cur, snap, toQueue,
                 toCheck, job, history>>

\* Schedule returns.  The ticker loop of Start drops the list; another
\* caller executes every instance of it.
Return(s) ==
  /\ pc[s] = "list"
  /\ todo[s] = {}
  /\ pc' = [pc EXCEPT ![s] = "idle"]
  /\ ready' = [ready EXCEPT ![s] = <<>>]
  /\ job' = IF s \in Tickers THEN job
            ELSE [job EXCEPT ![s] =
                    [r \in Runs |-> [t \in Tasks |->
                       IF \E i \in DOMAIN ready[s] : ready[s][i] = <<r, t>>
                         THEN "dispatched" ELSE @[r][t]]]]
  /\ UNCHANGED <<storeVars, dagVars, subVars, todo, cur, snap, toQueue,
                 toCheck, history>>
-----------------------------------------------------------------------------
(* Executions *)

\* A worker takes the instance and stores Running (executeTask).  It gives
\* the instance up when the store reports an error.
Begin(s, r, t, o) ==
  /\ job[s][r][t] = "dispatched"
  /\ PutTaskInstance(r, t, "running", o)
  /\ job' = [job EXCEPT ![s][r][t] = IF Failed(o) THEN "no" ELSE "running"]
  /\ UNCHANGED <<runStatus, dagVars, subVars, callVars, history>>

\* Mutant of ReportCompletion: a report that saw an error is made again.
ReportCompletion_Again(s, r, t, res, o) ==
  /\ job[s][r][t] # "no"
  /\ PutTaskInstance(r, t, res, o)
  /\ job' = IF Failed(o) THEN job ELSE [job EXCEPT ![s][r][t] = "no"]
  /\ UNCHANGED <<runStatus, dagVars, subVars, callVars, history>>

\* ReportCompletion stores the result over whatever status is there.  Its
\* GetTaskInstance only supplies fields the model leaves out.
ReportCompletion(s, r, t, res, o) ==
  /\ job[s][r][t] # "no"
  /\ PutTaskInstance(r, t, res, o)
  /\ job' = [job EXCEPT ![s][r][t] = "no"]
  /\ UNCHANGED <<runStatus, dagVars, subVars, callVars, history>>

\* The process of scheduler s dies and restarts: its Schedule and Submit
\* calls and its index are gone.  The database lives on; the executions die
\* with the process, or live on in workers of their own.
Crash(s) ==
  /\ CanCrash
  /\ dagIndex' = [dagIndex EXCEPT ![s] = FALSE]
  /\ sub' = [r \in Runs |-> IF owner[r] = s /\ sub[r] = "creating"
                              THEN "failed" ELSE sub[r]]
  /\ pc' = [pc EXCEPT ![s] = "idle"]
  /\ todo' = [todo EXCEPT ![s] = {}]
  /\ Leave(s)
  /\ toQueue' = [toQueue EXCEPT ![s] = {}]
  /\ toCheck' = [toCheck EXCEPT ![s] = {}]
  /\ ready' = [ready EXCEPT ![s] = <<>>]
  /\ \/ UNCHANGED job
     \/ job' = [job EXCEPT ![s] = [r \in Runs |-> [t \in Tasks |-> "no"]]]
  /\ UNCHANGED <<storeVars, dagStored, owner, history>>
-----------------------------------------------------------------------------
SubmitStep(r) ==
  \/ \E o \in Outcomes : CreateRun(r, o)
  \/ \E t \in Tasks, o \in Outcomes : CreateTaskInstance(r, t, o)
  \/ IndexDAG(r)

ScheduleStep(s) ==
  \/ ListRuns(s)
  \/ \E r \in Runs, o \in Outcomes : ListInstances(s, r, o)
  \/ \E o \in Outcomes : LookupDAG(s, o)
  \/ \E t \in Tasks, o \in Outcomes : Enqueue(s, t, o)
  \/ \E t \in Tasks, o \in Outcomes : Recheck(s, t, o)
  \/ \E o \in Outcomes : Conclude(s, o)
  \/ Return(s)

ExecuteStep(s, r, t) ==
  \/ \E o \in Outcomes : Begin(s, r, t, o)
  \/ \E res \in Results, o \in Outcomes : ReportCompletion(s, r, t, res, o)

Next ==
  \/ SaveDAG
  \/ \E s \in Schedulers, o \in Outcomes : RegisterDAG(s, o)
  \/ \E r \in Runs : SubmitStep(r)
  \/ \E s \in Schedulers : ScheduleStep(s)
  \/ \E s \in Schedulers, r \in Runs, t \in Tasks : ExecuteStep(s, r, t)
  \/ \E s \in Schedulers : Crash(s)

Spec == Init /\ [][Next]_vars

\* The ticker, or the loop of sparkflowctl run, calls Schedule again and
\* again; a Submit that has begun goes on; an executor returns (the caller
\* waits for it).  Nobody has to submit a run, and nothing is assumed about
\* the results.
Fairness ==
  /\ \A s \in Schedulers : WF_vars(ScheduleStep(s))
  /\ \A r \in Runs : WF_vars(sub[r] # "new" /\ SubmitStep(r))
  /\ \A s \in Schedulers, r \in Runs, t \in Tasks :
       WF_vars(ExecuteStep(s, r, t))

LiveSpec == Spec /\ Fairness
-----------------------------------------------------------------------------
(* Properties *)

\* An instance is put on at most one ready list, over all Schedule calls: it
\* is handed out for execution once.  Schedule reads Pending in a snapshot
\* and writes Queued several store calls later without looking again.
ClaimedAtMostOnce ==
  \A s, u \in Schedulers, r \in Runs, t \in Tasks :
    /\ claims[s][r][t] <= 1
    /\ claims[s][r][t] > 0 /\ claims[u][r][t] > 0 => s = u

\* An instance leaves Pending only when all its dependencies are Success in
\* the store, and they stay so: Schedule decides from a snapshot that may be
\* old when it acts, and no later write may take a Success back.
DependenciesFirst ==
  \A r \in Runs, t \in Tasks :
    inst[r][t] \notin {NoInstance, "pending"} =>
      \A d \in Deps[t] : inst[r][d] = "success"

\* A step that leaves the terminal statuses of instances and runs alone.
KeepsTerminal ==
  /\ \A r \in Runs, t \in Tasks :
       IsTerminal(inst[r][t]) => inst'[r][t] = inst[r][t]
  /\ \A r \in Runs :
       IsTerminal(runStatus[r]) => runStatus'[r] = runStatus[r]

\* A terminal status is final: no write of Schedule, of a worker or of
\* ReportCompletion replaces the terminal status of an instance or a run.
TerminalIsFinal == [][KeepsTerminal]_vars

\* The verdict on a run: Success or Failed only after every task of the DAG
\* is terminal, Failed exactly when some task Failed.  It is claimed for the
\* runs whose instances were never listed while Submit was still creating
\* them.
VerdictIsSound ==
  \A r \in Runs : IsTerminal(runStatus[r]) /\ ~partial[r] =>
    /\ \A t \in Tasks : IsTerminal(inst[r][t])
    /\ runStatus[r] = "failed" <=> \E t \in Tasks : inst[r][t] = "failed"

\* A run waits for ever for a dependency that ended without Success.
Blocked(r) ==
  \E t \in Tasks : \E d \in Deps[t] :
    IsTerminal(inst[r][d]) /\ inst[r][d] # "success"

\* Every submitted run ends, and with it all its tasks, unless a task
\* downstream of a failure is blocked or the run was listed too early.
RunsEnd ==
  \A r \in Runs :
    sub[r] = "done" ~> \/ /\ IsTerminal(runStatus[r])
                          /\ \A t \in Tasks : IsTerminal(inst[r][t])
                       \/ Blocked(r)
                       \/ partial[r]

\* With several schedulers on one store an instance can be handed out more
\* than once, but by each of them at most once: nobody writes Pending back,
\* so a scheduler that has queued an instance never finds it ready again,
\* not even after a restart.
ClaimedOncePerScheduler ==
  \A s \in Schedulers, r \in Runs, t \in Tasks : claims[s][r][t] <= 1
-----------------------------------------------------------------------------
(* Why these hold with one scheduler: the inductive invariant *)

Visiting(s) == pc[s] \in {"lookup", "work"}

\* What Schedule has read stays true while it works on it: only Schedule
\* itself moves an instance out of Pending, and nobody out of a terminal
\* status.
SnapshotIsCurrent ==
  \A s \in Schedulers : Visiting(s) => \A t \in Tasks :
    snap[s][t] = "pending" \/ IsTerminal(snap[s][t])
      => inst[cur[s]][t] = snap[s][t]

\* The snapshot lists every task, and the store still does, or the run is
\* recorded as listed too early.
SnapshotIsWhole ==
  \A s \in Schedulers : Visiting(s) /\ ~partial[cur[s]] =>
    \A t \in Tasks : /\ snap[s][t] # NoInstance
                    /\ inst[cur[s]][t] # NoInstance

\* The runs a Schedule call has still to conclude are Running.
VisitedIsRunning ==
  \A s \in Schedulers :
    /\ \A r \in todo[s] : pc[s] # "idle" => runStatus[r] = "running"
    /\ Visiting(s) => runStatus[cur[s]] = "running"
    /\ Visiting(s) => cur[s] \notin todo[s]

\* What is about to be queued was found ready in the snapshot.
QueueIsReady ==
  \A s \in Schedulers : pc[s] = "work" => \A t \in toQueue[s] :
    /\ snap[s][t] = "pending"
    /\ \A d \in Deps[t] : snap[s][d] = "success"

\* What is on a ready list is Queued and not being executed.
ReadyIsQueued ==
  \A s \in Schedulers, r \in Runs, t \in Tasks :
    (\E i \in DOMAIN ready[s] : ready[s][i] = <<r, t>>) =>
      inst[r][t] = "queued" /\ job[s][r][t] = "no"

\* The store knows every execution in progress.
JobIsStored ==
  \A s \in Schedulers, r \in Runs, t \in Tasks :
    /\ job[s][r][t] = "dispatched" => inst[r][t] = "queued"
    /\ job[s][r][t] = "running" => inst[r][t] = "running"

\* What is Pending has not been handed out, and nothing has been twice.
ClaimsMatchStore ==
  \A s \in Schedulers, r \in Runs, t \in Tasks :
    /\ claims[s][r][t] <= 1
    /\ inst[r][t] \in {NoInstance, "pending"} => claims[s][r][t] = 0

\* The inductive invariant of a store used by one scheduler.
IInv ==
  /\ TypeOK
  /\ SnapshotIsCurrent
  /\ SnapshotIsWhole
  /\ VisitedIsRunning
  /\ QueueIsReady
  /\ ReadyIsQueued
  /\ JobIsStored
  /\ ClaimsMatchStore
  /\ DependenciesFirst
  /\ VerdictIsSound
-----------------------------------------------------------------------------
(* What the documentation says and the code does not do *)

\* "Check if the run is complete": a run that Schedule ends has all its
\* tasks terminal, whenever its instances were listed.
EndedRunIsComplete ==
  \A r \in Runs : IsTerminal(runStatus[r]) =>
    \A t \in Tasks : IsTerminal(inst[r][t])

\* TestFIFOScheduler_RunFailure: a run with a failed task becomes Failed.
\* (Runs listed too early are left out here.)
FailureEndsRun ==
  \A r \in Runs :
    ~partial[r] /\ (\E t \in Tasks : inst[r][t] = "failed")
      ~> runStatus[r] = "failed"

\* "Periodic DAG execution with cron expressions": what cron submits to the
\* server is executed.
SubmittedRunsExecute ==
  \A r \in Runs : sub[r] = "done" ~> \E t \in Tasks : IsTerminal(inst[r][t])
=============================================================================
