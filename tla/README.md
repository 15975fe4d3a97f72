# SparkFlow in TLA+

A verification development for SparkFlow: TLA+ modules translated from the Go
and Python source, TLC runs that check them on small instances, and TLAPS
proofs of all their safety properties for every value of the constants: every
DAG, any number of runs, workers, executions, nodes and calls. Source paths are
relative to the repository. `PROJECT.json` maps every definition to the lines
it models and lists runs, mutants, findings, hazards and theorems.

    tlc -workers 2 -config OneScheduler.cfg MCFIFOScheduler
    tlapm FIFOSchedulerProofs.tla

## 1. The system

SparkFlow runs DAGs of tasks. A DAG is parsed from YAML or built by the Python
SDK, saved in a metadata store and submitted to a scheduler, which creates a
run and one task instance per task. `Schedule` decides which instances may run
and ends runs; executors run them; the results go back into the store.

| component | state | operations | interacts with |
|---|---|---|---|
| `pkg/dag` | tasks, dependencies, edge lists | `AddTask`, `AddEdge`, `BuildEdgesFromDependencies`, `Validate`, `DetectCycle`, `TopologicalSort`, `Get*`, `ReadyTasks` | called by the parser, the scheduler, the CLI |
| `pkg/dag` parser | none | `Parse`, `ParseFile`, `ParseBytes` | `pkg/dag` |
| `pkg/store` | DAGs, runs, task instances, idempotency index | create, get, update, list | shared by schedulers, workers, server, CLI |
| `pkg/scheduler` | `dagIndex`, cron entries, stop channel | `Submit`, `Schedule`, `ReportCompletion`, `RegisterDAG`, `Start`, `Stop` | store calls without a lock across them |
| `internal/worker` | task channel, goroutines, dead letter queue, stop channel | `Dispatch`, `Submit`, execution loop, `Stop` | store, executors, context |
| `pkg/retry` | dead letter queue | `Delay`, `ShouldRetry`, `Do`, queue operations | worker |
| `pkg/executor` | running commands by task ID | `Execute`, `Cancel`, `Validate` | processes, Docker, YARN, Spark, HDFS |
| `pkg/consensus` | replicated key/value FSM | `Apply`, `Get`, snapshot, restore, membership | hashicorp/raft |
| `internal/server`, `cmd/*` | which servers and goroutines run | start-up, shutdown, read-only HTTP handlers | all of the above |
| Python SDK | current builder and pending tasks, module globals | decorators, builder, client | YAML, HTTP |

What makes it hard:

* **No lock and no compare-and-set.** `Schedule` reads a snapshot of a run's
  instances, decides, and writes its copies back whole several store calls
  later, while `Submit`, `ReportCompletion`, workers, and possibly another
  server replica write to the same rows.
* **Partial failure.** Every store call may fail before or after taking
  effect, and the code logs and continues in most places; a process may die
  between two calls.
* **Control flow that never ends.** Runs blocked behind a failed task, ready
  lists nobody executes, goroutines racing with `Stop`.
* **State that outlives its caller.** HTTP requests and YARN applications that
  a timed-out client leaves behind, module globals of the SDK, `dagIndex`
  entries of replaced definitions, a store closed under a running `Schedule`.
* **Bounds.** Task channels of `2 * Concurrency`, a dead letter queue that
  evicts, retry counts from user input.

The full list, at its lines, is `hazards` in `PROJECT.json`.

What makes each component correct: an instance is handed out once, after its
dependencies succeeded, and a terminal status is final; a run's verdict agrees
with its tasks and every run comes to an end; a worker neither loses nor
doubles what it accepted, and stops; a dead letter is a task whose retries are
exhausted, and the queue loses only its oldest entries; cycles are found
exactly when present, and an order exists exactly when they are not; the exit
code of `sparkflowctl run` tells the truth; a result of Success means that the
work was done; replicas of the state machine agree; the two stores cannot be
told apart; a signal ends the server.

## 2. Modules

| module | models | extends or uses |
|---|---|---|
| `Dag` | statuses, `ReadyTasks` and its order | |
| `Store` | `store.Store` as its clients use it | `Dag` |
| `FIFOScheduler` | `pkg/scheduler/scheduler.go` | `Store` |
| `DagExecution` | abstract: what the scheduler promises | |
| `SchedulerRefinement` | refinement mapping | `FIFOScheduler`, instance of `DagExecution` |
| `LocalRun` | `cmdRun` of `cmd/sparkflowctl`, composed with the scheduler | `FIFOScheduler` |
| `Worker` | `internal/worker/worker.go` | |
| `DeadLetterQueue` | the queue of `pkg/retry` | |
| `RetryPolicy` | `Delay`, `ShouldRetry` and `Do` of `pkg/retry` | |
| `DagGraph` | the graph algorithms of `pkg/dag` | |
| `DagDefinition` | the SDK's decorators, the parser, `AddTask` to `Validate` | |
| `DagVersions` | the scheduler when a DAG's definition changes | |
| `Executor` | `Execute` and `Cancel` of `pkg/executor` | |
| `HttpTasks` | the hdfs executor and Spark Connect | |
| `Server` | `internal/server`, `cmd/sparkflow-server` | |
| `Stores` | `MemoryStore` beside `PostgresStore` | |
| `Consensus` | `pkg/consensus/raft.go` | |
| `FIFOSchedulerProofs` | theorems on the scheduler, its refinement, `cmdRun` | `SchedulerRefinement`, `LocalRun` |
| `WorkerProofs` | theorems on the pool of workers | `Worker` |
| `ExecutorProofs` | theorems on executions and HTTP tasks | `Executor`, `HttpTasks` |
| `DagGraphProofs`, `DagDefinitionProofs` | theorems on the algorithms and on definitions | `DagGraph`, `DagDefinition`, `Iteration` |
| `StorageProofs` | theorems on the replicated state machine and the stores | `Consensus`, `Stores` |
| `ServicesProofs` | theorems on the queue, `Do` and the shutdown | `DeadLetterQueue`, `RetryPolicy`, `Server`, `Iteration` |
| `Iteration` | lemmas: least numbers, functions defined by iteration | |
| `MC*` | constants for TLC | the modules they check |

`MCServices`, `MCStorage`, `MCDagGraph` and `MCExecutor` check several modules
that share no state. A variable `part` says which of them a behaviour is about,
the others stay in their initial states. Modules that share nothing have no
interleavings worth checking, so nothing is lost, and the state spaces add up
instead of multiplying. In `MCServices` the scheduler and `sparkflowctl run` are
two programs that use the variables of `FIFOScheduler`, each in its own
behaviours; `SchedulerFairness` is `Fairness` asked of the first.

### Dag and Store

A task is the rank of its ID among the IDs, the only thing the code does with
an ID being to compare it. `NoInstance` is an instance that does not exist;
`Lookup` gives Go's zero value for a missing key, which is Pending. What
`Validate` guarantees (dependencies exist, no cycle) is assumed of `Deps`.

Every store operation holds the store's mutex or is one SQL statement, so it
is one step. A call answers `ok`, `rejected` (no effect) or `unknown` (it took
effect and the caller sees an error); the last two are PostgreSQL's, the
memory store never fails on a row that exists. Updates replace the row without
looking at it, as the code does. A run is named by its `CreatedAt` order; its
UUID is abstracted away.

### FIFOScheduler

One action per store call of `Submit` (`CreateRun`, `CreateTaskInstance`,
`IndexDAG`), of `Schedule` (`ListRuns`, `ListInstances`, `LookupDAG`,
`Enqueue`, `Recheck`, `Conclude`, `Return`), of the executions (`Begin`, the
worker's Running; `ReportCompletion`), `SaveDAG`, `RegisterDAG` and `Crash`. A
crash forgets the `Schedule` call and `dagIndex`; the executions die with the
process or go on elsewhere.
`Schedule`'s locals are per-scheduler variables: the runs still to visit
(`todo`), the run (`cur`), the copies of its instances (`snap`), what is to be
queued and re-read, and the list to return. `snap` keeps `queued` for an
instance whose update failed, as the code's copy does.

`job` is what becomes of a returned list: `sparkflowctl run` or a worker pool
executes it, the ticker loop of `Start` (a member of `Tickers`) drops it.
`claims` and `partial` are history: how often each scheduler put an instance on
a ready list, and whether a run's instances were listed before `Submit` had
created them all.

`Begin` followed by `ReportCompletion` stands for an execution: the caller of
`sparkflowctl run` reports without `Begin`, a worker writes Running and then a
result. `Worker` shows (`Lifecycle`) that these are the writes it makes.

### LocalRun

`cmdRun` is the scheduler under one thread of control: it saves, submits, and
alternates `Schedule` with the execution of its list; it exits when the list
is empty and the run has ended.

### Worker

A goroutine of `executionLoop` is a record: where it stands, its instance, the
instance's `Attempt`, the last answer of `Execute`. `Dispatch` and `TryNext`
are the attempts of `Pool.Dispatch` at the channels in order. `Take` and
`Leave` are the select; a cancelled context or a closed stop channel may lose
against a waiting task. `Update` records in `troubled` the instances one of
whose store calls failed. The heartbeat goroutine leaves at the same signals
and does nothing else; it is left out of `Wait`.

### DeadLetterQueue and RetryPolicy

Each method of the queue holds its mutex and is a step; `gone` and `pushed`
are history. `RetryPolicy` is one call of `Do`: `Attempt` begins an iteration
and computes its delay, `Wait` is the select of timer and context, `Call` is
`fn` and what follows. `Delay` gives the set of durations the jitter and the
processor's conversion of an overflowing float may produce; the worker calls the
same function between its attempts (`Worker!Backoff`). The fields of a policy
are as unchecked as in the code: the parser replaces a factor of 0 and nothing
else, and a `Policy` literal may have that too, so factors are any rational
numbers, durations and the number of retries may be negative, and a strategy may
be none of the three. Products are exact; the rounding of floats, infinities and
NaN are left out.

### DagGraph

In `DagGraph` a graph is built edge by edge in every order, then
searched and sorted, or walked. A loop iteration or a call of `dfs` is a step;
`TopologicalSort` leaves the edge slices sorted in place, as the code does.
The walks of `GetDownstream` and `GetUpstream` visit in any order, since their
result is sorted afterwards.

### DagDefinition

The Python side is a stack of calls of dag functions (`frames`) over the two
module globals `current` and `pending`; functions call tasks, each other,
return, raise and catch. What a builder returned last is `yaml`, which
`ParseBytes` turns into a Go DAG or an error. The Go side is any sequence of
`AddTask`, `AddEdge`, `BuildEdgesFromDependencies` and `Validate` on that DAG
or on a new one; a call of `BuildEdgesFromDependencies` that meets an unknown
dependency leaves some of the edges, and `AddEdge` and `AddTask` let edges and
dependencies differ. `answers` is history: what dag functions have returned but
a builder of their own ("foreign", or "lost" and "none" for None, without and
after a call of another dag function). `DetectCycle` is replaced by what it
decides, which is `DagGraph`'s `DetectsCycles`.

### DagVersions

`FIFOScheduler` has one definition of the DAG. Here there are several, and the
subject is which one `Schedule` uses: the definition in the store (`saved`),
in `dagIndex` (`indexed`), the ones `RegisterDAG` has saved and not yet
indexed, and the one `Schedule` has loaded and not yet indexed. Each access is
a step; the visit of a run with a definition in hand is one step, its inner
interleavings being `FIFOScheduler`'s subject. `executing` holds the instances
whose execution is under way: the caller of `Schedule` executes the list or, as
`Start`'s loop does, drops it; a restart may lose executions, and the store may
refuse a report. What is Queued and not executing stays so (`Stranded`).

### Executor

An execution is a call of `Execute` with a task (`req`) whose executor starts
a command (shell, python, spark-submit), a container or a YARN application;
`ext` is that piece of the outside world. A command goes through `Track`,
`StartCommand`, `WaitCommand`, `Drain` and `Untrack`, a container through
`CreateContainer`, `TrackContainer`, `StartContainer`, `WaitContainer` or
`WaitFails`, `Untrack` and `Remove`, an application through
`CreateApplication`, `SubmitApplication` and `Poll` or `GiveUp`. `Reject`,
`ContextEnds` and the two halves of `Cancel` may come at any time. Each of the
command executors has a map of its own; `command` stands for one of them.
`child` is what lives on of the processes that an ended or killed command has
started: the executors know nothing of them, but `Run` waits for the output
pipe, which they may hold ("piped"); those that write elsewhere ("detached")
outlive `Execute`. `Exit` and `ChildrenEnd` are the outside world.

### HttpTasks

A task of the hdfs executor, or of the spark executor's connect mode, is one
request. `wire` holds the requests sent and not yet served; a client that
gives up (`GiveUpRequest`) leaves its request there, and it may be served after
the retry or during the next task. WebHDFS (`Served`, `Possible`) is external:
what it does to a path and which boolean it answers. `ReadResponse` looks at
the status code only, as the code does; `blind` and `stray` are history.

### Server

The main goroutine stands at one of its blocking calls (`mainAt`); the
scheduler's loop, handlers and gRPC calls go on between any two of them. `Stop`
of the scheduler closes a channel and waits for nothing. `late` is history: who
called the store after it was closed. Main calls `Stop` once, so that the
channel is closed once.

### Stores

Every call is made on both stores. `Mem*` and `Pg*` are the two
implementations; the tables carry the constraints of `Migrate`. `apart` names
the reason when a call takes them apart (below), and the comparison ends there.

### Consensus

hashicorp/raft is external and reduced to what it promises: one log of
committed entries, applied on every node in order, snapshots it asks for,
persists, installs and restores, and futures that answer or fail. Several nodes
may believe to lead. `FSMApply`, `Copied`, `Persist`, `InstallSnapshot`
(`FSM.Restore`), `NewNode` and `Apply` are the code's. A nil value comes back
from a snapshot as an empty one, so contents are compared by `Copied`.
`versions` is history: what each prefix of the log describes.

## 3. Runs

Passing runs:

| run | instance | shows |
|---|---|---|
| `one_scheduler` | 1 scheduler, 2 runs of a chain of 2 tasks, all store outcomes, crashes | `ClaimedAtMostOnce`, `DependenciesFirst`, `VerdictIsSound`, `TerminalIsFinal`, and the inductive invariant `IInv` |
| `two_schedulers` | 2 schedulers, crashes | `ClaimedOncePerScheduler`: each replica hands an instance out at most once |
| `services` | 1 scheduler, 1 run of a diamond of 4 tasks, no store errors; `sparkflowctl run` on the same DAG; the server with 2 HTTP and 2 gRPC connections; a queue of 2 with 4 pushes; 486 policies over durations of 6 bits; a run under 3 definitions with a restart | `RunsEnd`, and the refinement `ImplementsDagExecution`, which is proved with store errors and crashes; `ExitCodeIsTrue`, `ExitsOrBlocked`; `OnlyLoopIsLate`, `ShutdownEnds`; `HoldsLatest`; `AnswerIsTrue`, `BacksOff`, `DoReturns`; `EndsOnceSuited` |
| `storage` | 2 Raft nodes, 2 calls, 1 stop; 2 DAGs, runs and instances | `ReplicasFollowLog`, `ReadsItsWrites`; `StoresAgree` |
| `worker_pool` | 2 workers of 1 goroutine, 3 instances (2, 1 and 0 attempts), stop and cancel | `AcceptedIsKept`, `DeadLettersExhausted`, `Lifecycle`, `AcceptedEnds`, `StopReturns` |
| `dag_graph` | all graphs of 4 tasks and 4 edges; 2 dag functions, one without an ID, 3 tasks, 3 edits | `DetectsCycles`, `PathIsCycle`, `SortIsTopological`, `WalkIsReachable`, `WalkMeetsBoundary`, `AlgorithmsEnd`; `BuilderHoldsOwnTasks`, `ValidatedCanFinish` |
| `executor` | every pair of a command with children, a container, a kept container, an application; chains of 2 or 3 HTTP tasks with 2 attempts each | `VerdictIsTrue`, `NothingRunsOn`, `EntryIsLive`, `SoleExecutionIsTracked`, `TimeoutEndsExecution`; `SuccessMeansDone` |

`worker_pool` uses the outcomes ok and unknown: after a rejected write the
worker goes on exactly as after an unknown one, and the store keeps an earlier
status.

Runs that end in a violation, each a disagreement between a sentence or an
assertion of the repository and its code (`findings`):

| run | what the code does |
|---|---|
| `two_schedulers_claim` | two replicas on one store hand an instance out twice |
| `early_listing` | `Schedule` during `Submit` ends the run as Success with nothing executed |
| `blocked_run` | a failed task with a dependent leaves the run Running for ever |
| `server_ticker` | the server's loop drops the ready list: queued instances are never executed |
| `dag_function_none` | a dag function that calls another one returns None |

Other things the models show about the code, for which there is no run: a
replica with an old snapshot writes Queued over a terminal status
(`TerminalIsFinal` needs one scheduler); the scheduler visits the newest run
first (`IsNewest`); `sparkflowctl run` loops for ever on a blocked run (hence
`ExitsOrBlocked`); `Dispatch` fills the first worker before the second, also
when it was stopped, and `Stop` leaves what is in its channel (hence `stopping`
in `AcceptedEnds`); `max_retries: -1` leaves an instance Running without an
execution (hence `MaxAttempts` in `AcceptedIsKept`); executions of one task in
two runs delete each other's entry (hence the second case of
`SoleExecutionIsTracked`); children of a command that do not hold its output
pipe outlive `Execute` (hence only "piped" in `NothingRunsOn`); a delay that
overflows is negative on amd64 and means no pause at all (hence `Overflows` in
`BacksOff`), jitter comes after the cap, so a delay may exceed `MaxBackoff` by a
quarter, and with a factor below one the waits shrink (hence `Grows` and
`Shrinks`); an error that the policy does not
retry is reported as "exhausted"; a rename that WebHDFS answers with false is a
Success (`blind`), and a request left behind by an earlier task may undo what a
later one has done (`stray`); an open gRPC stream keeps the server from shutting
down (`ShutdownEnds`), and the scheduler's loop may call a closed store
(`OnlyLoopIsLate`); an unreachable PostgreSQL silently becomes a store in
memory; `dagIndex` may be overwritten by an older definition, at every Submit of
a cron entry that nothing removes (`Suits` in `EndsOnceSuited`), and an instance
whose ready list or execution is lost is Queued for ever (`Stranded`); a dag
function that calls another one and then a task raises, and one that catches the
other's exception goes on with its builder (`caught`); a task that was added
after `BuildEdgesFromDependencies` has dependencies and no edges, so that
`Validate` accepts a DAG that never ends (hence the condition on edges in
`ValidatedCanFinish`), and an edge that only `AddEdge` has added orders the sort
and not the execution; `Cancel` before a command's process exists returns nil
and kills nothing (`CancelKill`), and later it kills the shell and not what the
shell has started.

The two stores come apart (`apart`) when a DAG with runs is deleted, a run of
an unsaved DAG or an instance of no run is created, a key is used twice (also
the empty one, which the memory store does not index), a missing row is updated
(nil from PostgreSQL), or an update changes a column that PostgreSQL's SET
clause leaves out. Four reads differ without a call that separates them:
integers in a task's `Config`, which come back as floats so that the `.(int)`
of the hadoop executor misses them; filters by tag and owner, which PostgreSQL
ignores; an offset past the end, which the memory store ignores; and the
instance with an empty key. `sparkflowctl run` saves its DAG first, and
`RegisterDAG` does, so that `Submit` works on both.

**Bounds.** Two runs are needed for a `Schedule` call to hold one run's
snapshot while another run changes and for order between runs; two tasks with
a dependency for a stale dependency; a diamond (4 tasks) for a dependency
set and priorities. A third replica or run adds no new kind of interleaving: the
properties relate one instance, its run and one or two `Schedule` calls. In
`worker_pool` three instances fill a channel of two, so that a dispatch moves
on to the second worker. In `services` twice the capacity is pushed, and with three
retries of a largest duration of 31 some policies overflow at the last delay,
others are cut by the cap, and others are neither.
Four edges on four tasks include the diamond, two disjoint cycles, loops and
double edges. In `executor` two executions suffice: they interact only through
the entry of a common task. Two HTTP connections and two channels let one be
opened while another is awaited; one run suffices for `DagVersions`, since runs
meet only in `dagIndex`, which any definition may enter at any time. Two nodes
and one stop give a restart from a snapshot, an installed snapshot and a lost
leadership; three dag tasks give a cycle, a join and a name taken twice, and
dag functions nest to depth two. Executions are alike, so that `executor` takes
each pair of requests in one order (`Pairs`). Two attempts and chains of three tasks let a
request be overtaken by its own retry and by the next task. The bounds are the
constants `Runs`, `Tasks`, `MaxPushes`, `MaxEdges`, `MaxInt`, `Policies`,
`Instances`, `Executions`, `MaxTries`, `MaxStops`, `MaxLimit`, `MaxDepth`,
`MaxDefs`, `MaxEdits`, `MaxRestarts`, and `Defining` and `Editing` in
`DagDefinition`, which let a DAG be edited only after it was defined; no counter
is capped otherwise. The runs that say
`CHECK_DEADLOCK FALSE` are of things that stop: a process that exits, a
stopped pool, an algorithm that has answered, an execution that has returned,
a bounded number of pushes.

**Fairness.** `FIFOScheduler!Fairness`: the ticker or the loop of `cmdRun`
calls `Schedule` again and again and a call goes on to its end; a `Submit` that
has begun goes on; an execution that was begun ends, since its caller waits
for it. Nobody has to submit, and nothing is assumed of results. `Worker!LiveSpec`:
goroutines are scheduled and executors return; `Pool.Stop`, once called, goes
on. `LocalRun` and `DagGraph`: the process, or the call, runs. `Executor`: a
call of `Execute` goes on, a deadline passes, a request under a finished
context returns, and the Docker daemon answers the removal, which has no
deadline; the work itself need not end, its children need not close the
pipe, and no call has to fail. `RetryPolicy`: `Do` goes on, that is, `fn`
returns and the timer fires; nobody has to cancel. `ServerFairness`: main goes
on, handlers and unary calls return; nobody has to send a signal, and a stream
need not end. `VersionsFairness`: the ticker calls `Schedule` again and again,
and executions that are under way end. Nobody has to execute what `Schedule`
returns, and nobody takes up what a restart has lost: `EndsOnceSuited` says of a
run that does not end that one of its instances is stranded or has failed.

## 4. Proofs

Every safety invariant and every action property that a passing run checks is
also a theorem (S stands for one scheduler, see below):

| theorem | property | holds for |
|---|---|---|
| `TypeCorrect` | `TypeOK` | any number of schedulers, every DAG |
| `OncePerScheduler` | `ClaimedOncePerScheduler` | any number of schedulers |
| `SchedulerSafety` | `IInv` | S, every DAG, any number of runs |
| `AtMostOnce`, `DependencyOrder`, `VerdictSoundness`, `TerminalStatusesAreFinal` | `ClaimedAtMostOnce`, `DependenciesFirst`, `VerdictIsSound`, `TerminalIsFinal` | S |
| `Refinement` | `ImplementsDagExecution` | S |
| `ExitCodeTheorem` | `ExitCodeIsTrue` | `sparkflowctl run` (`OneRun`) of every DAG |
| `AcceptedTheorem`, `DeadLetterTheorem`, `LifecycleTheorem` | `AcceptedIsKept`, `DeadLettersExhausted`, `Lifecycle` | any workers, goroutines, instances, retries |
| `VerdictTheorem`, `NothingRunsOnTheorem`, `EntryTheorem`, `TrackedTheorem` | `VerdictIsTrue`, `NothingRunsOn`, `EntryIsLive`, `SoleExecutionIsTracked` | any executions and tasks |
| `HttpSuccessIsReal` | `SuccessMeansDone` | any chains of tasks and attempts |
| `DetectTheorem`, `PathTheorem`, `SortTheorem` | `DetectsCycles`, `PathIsCycle`, `SortIsTopological` | every graph |
| `WalkTheorem`, `BoundaryTheorem` | `WalkIsReachable`, `WalkMeetsBoundary` | every graph |
| `FunctionsReturnTheirTasks`, `ValidatedTheorem` | `BuilderHoldsOwnTasks`, `ValidatedCanFinish` | any tasks, depth of calls, edits |
| `ConsensusTyped`, `ReplicasCorrect`, `ClientsReadTheirWrites` | `ConsensusTypeOK`, `ReplicasFollowLog`, `ReadsItsWrites` | any nodes, calls, keys, number of stops |
| `StoresTheorem` | `StoresAgree` | any identifiers, keys, statuses and calls |
| `DLQCorrect` | `HoldsLatest` | every capacity |
| `DoIsTruthful`, `WaitsBackOff` | `AnswerIsTrue`, `BacksOff` | every policy and width of a duration |
| `OnlyLoopUsesClosedStore` | `OnlyLoopIsLate` | any number of connections and channels |

**Assumptions.** Those of the constants, which TLC evaluates in the runs:
`DagAssumption`, `StoreAssumption`, `SchedulerAssumption`, `WorkerAssumption`, `ExecutorAssumption`, `HttpAssumption`,
`DagGraphAssumption`, `DefinitionAssumption`, `ConsensusAssumption`,
`StoresAssumption`, `DLQAssumption`, `RetryAssumption`. Some of them say that
`"none"` or `"nokey"`, which stand for Go's nil or the empty key, name no
execution, instance or key. S, in the theorems, is `SoleScheduler`: one
scheduler object with one `Schedule` loop uses the store. It is needed:
`two_schedulers_claim` refutes `AtMostOnce` without it. `OneRun` is what
`cmdRun` fixes: one scheduler, one run, and Success or Failed as the only
results it reports. Store errors of both kinds and crashes are inside the
theorems. That the DAG of the scheduler has no cycle (`AcyclicAssumption`) is
used by liveness only.

**The argument.** `ClaimedAtMostOnce` and `DependenciesFirst` are not
inductive: `Enqueue` writes on the strength of a snapshot. `IInv` adds that the
snapshot is right where it matters. `SnapshotIsCurrent`: what was read as
Pending or terminal is still so in the store, because only `Schedule` moves an
instance out of Pending and, by `JobIsStored` and `ReadyIsQueued`, an execution
writes only over Queued or Running. `QueueIsReady` carries the readiness found
in the snapshot to the moment of the write; `ClaimsMatchStore` turns "still
Pending" into "not yet claimed". `SnapshotIsWhole` and `VisitedIsRunning` give
`VerdictIsSound`: a run is judged on all of its tasks, or it is marked
`partial`, and only while it is Running. There is one lemma per action
(`InvEnqueue`, `InvConclude`, ...), and `InvFrame` for the actions that touch
nothing `IInv` speaks of. TLC checks `IInv` in `one_scheduler`.

For the refinement, `doneBar` shows an instance once it is terminal and
`verdictBar` a verdict that was not given too early; `IInv` makes
`ReportCompletion` a `Finish` (the task was still open and its dependencies
had succeeded) and `Conclude` a `Decide`.

Several schedulers have neither of these: a snapshot may be overtaken. What is
left is the scheduler's own reading. `UnclaimedBefore` says that a scheduler
which may still claim an instance, because it holds a copy of it as Pending or
because the instance is Pending and may be read, has not claimed it. A claim
uses up the copy and writes Queued, and no step makes an instance Pending again
(`QueuedWasPending`, `ClaimStep`); each action is shown to be such a step.

`LocalRun` adds its program counter to `IInv`: no `Schedule` begins before
`Submit` has returned, so that no run is `partial` and `VerdictIsSound`
applies to it. Each of its steps is a step of the scheduler (`LocalStep`).

For `Worker`, `WorkerInv` says where each instance is: in one channel at one
place or with one goroutine (`Places`), else `Settled`; `Consistent` ties the
line a goroutine is at to the status in the store and to the number of
executions; `Letters` says what a dead letter says. An action concerns one
goroutine and one instance: `Keeps`, `Releases` and `Only` carry the rest over.

For `Executor`, `ExecutionInv` says for each kind what the outside world holds
where an `Execute` stands (`CommandPlace`, `ContainerPlace`,
`ApplicationPlace`). Executions meet only in the maps that `Cancel` reads, and
`EntriesStep` carries the two properties of these over a step together: an
entry is a live execution of its task (`Entries`), and an execution without an
entry has shared its task with another one.

For `DagGraph`, there is an invariant per algorithm. A walk visits only what is
reachable, and has no frontier at its end. In the search, the stack's frames
lead to each other by edges (`FrameLinks`), the gray tasks are those on it, and
the black ones are closed under edges and on no cycle; a target that is gray
therefore closes a cycle, and `Tracing` follows the parents around it. In the
sort a counter is the number of edges from tasks that are not yet in the order
(`CountersRight`), with their multiplicity; when the queue is empty each task
left has a source that is left, which is a cycle. That each walk without a cycle
meets a root or leaf rests on `SuccessorsCycle`: a set whose members all have
a successor in it contains a set whose members all have a predecessor in it.

For `DagDefinition`, `DagInv` says that an accepted DAG is acyclic and that its
dependencies are among its edges until it is edited; `RoundsRunAll` then shows
that each round runs a further task as long as one is left, so that after as many
rounds as there are tasks none is. Its rounds, like the powers in `BacksOff`,
are a function defined by recursion on numbers; `Iteration` proves that such a
function exists and satisfies its equation, by taking least counterexamples.
This, and no induction over data, is what the proofs use.

For `Stores`, `StoresInv` says that as long as the two are not `apart`, their
rows are the same but for integers in a `Config`, and MemoryStore's index leads
from each key to the one instance that has it (`IndexRight`), as the UNIQUE
column does.

For `RetryPolicy`, powers of the two parts of a factor are compared (`PowOrder`):
a factor of at least one makes the product no less than the initial backoff, one
between zero and one no more (`ProductBounds`), truncation included; `Delay`
keeps these bounds, and that of the cap, through the conversion, which only an
overflow breaks, and the jitter.

For `Consensus`, the inductive invariant `StorageProofs!IInv` has four parts.
`LogInv`: each version is the one before with its entry applied, and shows
every write until it is overwritten. `FrameInv`: the
functions have their domains and the other variables their types. `NodeInv`: a node's state, its snapshot under
way and its stored snapshot describe prefixes of the log. `CallInv`: a call that
has become an entry is that entry of the log, and one that was answered nil is
below what its node has applied, until the node stops. Nodes and calls meet
only in the log, which only grows: `NodeStays` and `CallStays` carry the parts
of the others over, so that each action needs an argument about one node or one
call. The crucial lemma is `CopyThenApply`: applying an entry after the copy of
a snapshot and copying after applying give the same content, although the copy
turns nil values into empty ones. `ConsensusTypeOK` is proved and not in a run,
since TLC cannot compare a command with the "none" of a new call. TLC's instance
has `set` and `delete`; commands of an unknown type, which `Apply` answers with
nil although the FSM refuses them, are covered by the theorems.

For `Server`, `ShutdownOrder` says that the store is closed last: main gets to
`CloseStore` only with the listener down and no request left, so that a handler
at work means an open store. For `DagDefinition`, `GlobalsAreInner` ties the
two module globals of the SDK to the innermost dag function on the call stack
until it calls another; from the return of that one on the builder is None, so
that the outer one raises or returns None (`ReturnsBuilder` is refuted). It is
lost when a function catches an exception, which is why `BuilderHoldsOwnTasks`
excludes `caught`. For `HttpTasks`,
`AnswerInv` carries the purpose of a task from the moment the request is served
to the moment the client reads the answer; `ServedAgain`, that a second request
of the same task undoes nothing, keeps it true while earlier attempts are still
served, and `WireInv` that every other request is of an earlier task.

**Only model-checked.** Liveness (`RunsEnd`, `AcceptedEnds`, `StopReturns`,
`ExitsOrBlocked`, `AlgorithmsEnd`, `TimeoutEndsExecution`, `DoReturns`,
`ShutdownEnds`, and the only property of `DagVersions`, `EndsOnceSuited`) and
everything with ENABLED are beyond the prover. The runs that end in a violation
have no theorem, as what they check is false.
Outside of the scheduler, type invariants (`TypeOK`, `ServerTypeOK`,
`HttpTypeOK`, ...) document the variables and are part of no run; the proofs
use them, or parts of them, as conjuncts of their inductive invariants.

## 5. Not modelled, and the plan

Not modelled: the YAML syntax, field defaults, durations and retry policies of
the parser (only a possible error), observability, deployment, generated API
code, what the read-only HTTP handlers write, the metrics server, the Python
client, Raft and PostgreSQL themselves (its collation included), aliasing of rows
in MemoryStore, whose copies share their maps with the caller's, and the clients under `internal/spark`
and `internal/hadoop`, which no package of the repository uses: they repeat the
requests of the executors without state of their own.

Left to do, in this order:

1. `Executor` under the worker's retries: how many pieces of work of one
   instance may be alive at once.
2. `DagVersions`: a safety property that says which definition a verdict was
   given by, and its proof.
3. An abstract specification of the pool of workers (`Begin` and
   `ReportCompletion` of the scheduler), of which `Lifecycle` is a part, and
   the refinement.
