------------------------------- MODULE Worker -------------------------------
(***************************************************************************)
(* internal/worker: a pool of workers, each with a bounded task channel,   *)
(* Concurrency goroutines that execute tasks with retries, a dead letter   *)
(* queue and a stop channel.  Every store call, every call of an executor  *)
(* and every select is a step, so goroutines, Dispatch, Stop and a         *)
(* cancelled context interleave.                                           *)
(*                                                                         *)
(* The dead letter queue of a worker is the sequence of its pushes; its    *)
(* capacity of 1000 and the eviction are modelled in DeadLetterQueue.      *)
(***************************************************************************)
EXTENDS Integers, Sequences, FiniteSets

CONSTANTS
  Instances,     \* the task instances that may be dispatched
  MaxAttempts,   \* MaxAttempts[i]: MaxRetries + 1, or 1 without a policy
  PoolSize,      \* the workers of the pool, in the order of Add
  Concurrency,   \* Config.Concurrency
  Outcomes,      \* what a store call may answer, as in Store
  CanStop        \* whether Pool.Stop and a cancelled context may happen

ASSUME WorkerAssumption ==
  /\ MaxAttempts \in [Instances -> Int]
  /\ PoolSize \in Nat \ {0} /\ Concurrency \in Nat \ {0}
  /\ "ok" \in Outcomes /\ Outcomes \subseteq {"ok", "rejected", "unknown"}
  /\ CanStop \in BOOLEAN
  /\ "none" \notin Instances

Workers == 1..PoolSize
Loops == 1..Concurrency
QueueSize == 2 * Concurrency

VARIABLES
  status,      \* status[i]: the instance's Status in the store
  accepted,    \* the instances some Dispatch has returned nil for
  offer,       \* offer[i]: the worker that Dispatch(i) tries next
  taskCh,      \* taskCh[w]: the channel of worker w
  loop,        \* loop[w][k]: goroutine k of worker w
  ctxDone,     \* the context the pool was started with is cancelled
  stopping,    \* Pool.Stop has been called
  stopped,     \* stopped[w]: stopCh is closed
  joined,      \* joined[w]: wg.Wait has returned
  dlq,         \* dlq[w]: entries <<instance, attempts>> pushed so far
  executed,    \* history: calls of Execute per instance
  troubled     \* history: instances one of whose store calls failed

dispatchVars == <<accepted, offer>>
stopVars == <<ctxDone, stopping, stopped, joined>>
poolVars == <<dispatchVars, stopVars>>
vars == <<status, poolVars, taskCh, loop, dlq, executed, troubled>>

Terminal == {"success", "failed", "cancelled"}
Failed(o) == o # "ok"
Applied(o) == o # "rejected"

\* A goroutine of executionLoop: where it stands, the instance it works on,
\* the Attempt field of that instance and the last answer of Execute, which
\* is a result's status or "error".
None == "none"
Idle == [at |-> "select", ti |-> None, attempt |-> 1, res |-> None]

\* The channels never exceed the capacity New gives them, and every local of
\* a goroutine is a value of its type.
TypeOK ==
  /\ status \in [Instances -> {"queued", "running"} \cup Terminal]
  /\ accepted \subseteq Instances
  /\ offer \in [Instances -> Workers]
  /\ \A w \in Workers : Len(taskCh[w]) <= QueueSize
  /\ loop \in [Workers -> [Loops ->
       [at : {"select", "start", "prepare", "execute", "backoff", "finish",
              "bury", "gone"},
        ti : Instances \cup {None},
        attempt : Nat,
        res : Terminal \cup {"error", None}]]]
  /\ stopped \in [Workers -> BOOLEAN] /\ joined \in [Workers -> BOOLEAN]
  /\ troubled \subseteq Instances

Init ==
  /\ status = [i \in Instances |-> "queued"]
  /\ accepted = {}
  /\ offer = [i \in Instances |-> 1]
  /\ taskCh = [w \in Workers |-> <<>>]
  /\ loop = [w \in Workers |-> [k \in Loops |-> Idle]]
  /\ ctxDone = FALSE
  /\ stopping = FALSE
  /\ stopped = [w \in Workers |-> FALSE]
  /\ joined = [w \in Workers |-> FALSE]
  /\ dlq = [w \in Workers |-> <<>>]
  /\ executed = [i \in Instances |-> 0]
  /\ troubled = {}
-----------------------------------------------------------------------------
(* Pool.Dispatch and Worker.Submit *)

HasRoom(w) == Len(taskCh[w]) < QueueSize

\* Dispatch tries the workers in order; Submit takes the instance if the
\* channel has room and never blocks.
Dispatch(i, w) ==
  /\ i \notin accepted /\ offer[i] = w
  /\ HasRoom(w)
  /\ taskCh' = [taskCh EXCEPT ![w] = Append(@, i)]
  /\ accepted' = accepted \cup {i}
  /\ offer' = [offer EXCEPT ![i] = 1]
  /\ UNCHANGED <<status, loop, stopVars, dlq, executed, troubled>>

\* Submit reports a full channel and Dispatch goes on to the next worker,
\* or returns an error after the last one; its caller may try again.
TryNext(i, w) ==
  /\ i \notin accepted /\ offer[i] = w
  /\ ~HasRoom(w)
  /\ offer' = [offer EXCEPT ![i] = IF w = PoolSize THEN 1 ELSE w + 1]
  /\ UNCHANGED <<status, accepted, taskCh, loop, stopVars, dlq,
                 executed, troubled>>
-----------------------------------------------------------------------------
(* executionLoop and executeTask of goroutine k of worker w *)

Goto(w, k, g) == loop' = [loop EXCEPT ![w][k] = g]

\* UpdateTaskInstance on the goroutine's instance.
Update(i, s, o) ==
  /\ status' = IF Applied(o) THEN [status EXCEPT ![i] = s] ELSE status
  /\ troubled' = IF Failed(o) THEN troubled \cup {i} ELSE troubled

\* The select may take a task even when stopCh or the context is ready.
Take(w, k) ==
  /\ loop[w][k].at = "select"
  /\ taskCh[w] # <<>>
  /\ Goto(w, k, [Idle EXCEPT !.at = "start", !.ti = Head(taskCh[w])])
  /\ taskCh' = [taskCh EXCEPT ![w] = Tail(@)]
  /\ UNCHANGED <<status, poolVars, dlq, executed, troubled>>

\* Mutant of Leave: only the context ends the loop.
Leave_OnlyContext(w, k) ==
  /\ loop[w][k].at = "select"
  /\ ctxDone
  /\ Goto(w, k, [Idle EXCEPT !.at = "gone"])
  /\ UNCHANGED <<status, poolVars, taskCh, dlq, executed, troubled>>

\* The goroutine ends at a closed stopCh or a cancelled context.
Leave(w, k) ==
  /\ loop[w][k].at = "select"
  /\ stopped[w] \/ ctxDone
  /\ Goto(w, k, [Idle EXCEPT !.at = "gone"])
  /\ UNCHANGED <<status, poolVars, taskCh, dlq, executed, troubled>>

\* The instance becomes Running; it is given up if the store says no.
Start(w, k, o) ==
  LET g == loop[w][k] IN
  /\ g.at = "start"
  /\ Update(g.ti, "running", o)
  /\ Goto(w, k, IF Failed(o) THEN Idle ELSE [g EXCEPT !.at = "prepare"])
  /\ UNCHANGED <<poolVars, taskCh, dlq, executed>>

\* failTask: Failed is stored, an error of the store is ignored, and nothing
\* goes to the dead letter queue.
FailTask(w, k, o) ==
  /\ Update(loop[w][k].ti, "failed", o)
  /\ Goto(w, k, Idle)
  /\ UNCHANGED <<poolVars, taskCh, dlq, executed>>

\* The DAG, its task and the executor are looked up; any of them may be
\* missing.
Prepare(w, k) ==
  LET g == loop[w][k] IN
  /\ g.at = "prepare"
  /\ \/ \E o \in Outcomes : FailTask(w, k, o)
     \/ /\ Goto(w, k, [g EXCEPT !.at = IF MaxAttempts[g.ti] > 0
                                         THEN "execute" ELSE "finish"])
        /\ UNCHANGED <<status, poolVars, taskCh, dlq, executed, troubled>>

\* Mutant of Execute: one attempt too many.
Execute_OneMore(w, k, res) ==
  LET g == loop[w][k]
      again == res # "success" /\ g.attempt <= MaxAttempts[g.ti]
  IN  /\ g.at = "execute"
      /\ executed' = [executed EXCEPT ![g.ti] = @ + 1]
      /\ Goto(w, k, [g EXCEPT !.res = res,
                              !.at = IF again THEN "backoff" ELSE "finish"])
      /\ UNCHANGED <<status, poolVars, taskCh, dlq, troubled>>

\* One call of the executor.  Only Success ends the loop early: a Cancelled
\* result is retried like a failure.
Execute(w, k, res) ==
  LET g == loop[w][k]
      again == res # "success" /\ g.attempt < MaxAttempts[g.ti]
  IN  /\ g.at = "execute"
      /\ executed' = [executed EXCEPT ![g.ti] = @ + 1]
      /\ Goto(w, k, [g EXCEPT !.res = res,
                              !.at = IF again THEN "backoff" ELSE "finish"])
      /\ UNCHANGED <<status, poolVars, taskCh, dlq, troubled>>

\* Mutant of Backoff: after failTask the loop goes on.
Backoff_NoReturn(w, k) ==
  LET g == loop[w][k] IN
  /\ g.at = "backoff"
  /\ \/ /\ ctxDone
        /\ \E o \in Outcomes : Update(g.ti, "failed", o)
     \/ UNCHANGED <<status, troubled>>
  /\ Goto(w, k, [g EXCEPT !.attempt = @ + 1, !.at = "execute"])
  /\ UNCHANGED <<poolVars, taskCh, dlq, executed>>

\* The wait before the next attempt: the timer, or the context.
Backoff(w, k) ==
  LET g == loop[w][k] IN
  /\ g.at = "backoff"
  /\ \/ ctxDone /\ \E o \in Outcomes : FailTask(w, k, o)
     \/ /\ Goto(w, k, [g EXCEPT !.attempt = @ + 1, !.at = "execute"])
        /\ UNCHANGED <<status, poolVars, taskCh, dlq, executed, troubled>>

\* ti.Status after the loop: the last result's status, Failed after an
\* error, and still Running if Execute was never called.
FinalStatus(res) ==
  CASE res = "error" -> "failed"
    [] res = None -> "running"
    [] OTHER -> res

\* Mutant of Finish: the final status is stored only if it is Success.
Finish_OnlySuccess(w, k, o) ==
  LET g == loop[w][k] IN
  /\ g.at = "finish"
  /\ IF g.res = "success" THEN Update(g.ti, "success", o)
                          ELSE UNCHANGED <<status, troubled>>
  /\ Goto(w, k, IF FinalStatus(g.res) = "failed" THEN [g EXCEPT !.at = "bury"]
                                                 ELSE Idle)
  /\ UNCHANGED <<poolVars, taskCh, dlq, executed>>

\* The final status is stored; an error of the store is only logged.
Finish(w, k, o) ==
  LET g == loop[w][k] IN
  /\ g.at = "finish"
  /\ Update(g.ti, FinalStatus(g.res), o)
  /\ Goto(w, k, IF FinalStatus(g.res) = "failed" THEN [g EXCEPT !.at = "bury"]
                                                 ELSE Idle)
  /\ UNCHANGED <<poolVars, taskCh, dlq, executed>>

\* A task that ended Failed goes to the dead letter queue.
Bury(w, k) ==
  LET g == loop[w][k] IN
  /\ g.at = "bury"
  /\ dlq' = [dlq EXCEPT ![w] = Append(@, <<g.ti, g.attempt>>)]
  /\ Goto(w, k, Idle)
  /\ UNCHANGED <<status, poolVars, taskCh, executed, troubled>>
-----------------------------------------------------------------------------
(* Shutdown *)

CancelContext ==
  /\ CanStop /\ ~ctxDone
  /\ ctxDone' = TRUE
  /\ UNCHANGED <<status, dispatchVars, taskCh, loop, stopping, stopped, joined,
                 dlq, executed, troubled>>

\* Pool.Stop stops the workers one after the other: it closes the stop
\* channel of the next one when the one before has been waited for.
CloseStopCh(w) ==
  /\ CanStop /\ ~stopped[w]
  /\ \A v \in 1..(w - 1) : joined[v]
  /\ stopping' = TRUE
  /\ stopped' = [stopped EXCEPT ![w] = TRUE]
  /\ UNCHANGED <<status, dispatchVars, taskCh, loop, ctxDone, joined, dlq,
                 executed, troubled>>

\* wg.Wait returns when all goroutines have left their loops.
Wait(w) ==
  /\ stopped[w] /\ ~joined[w]
  /\ \A k \in Loops : loop[w][k].at = "gone"
  /\ joined' = [joined EXCEPT ![w] = TRUE]
  /\ UNCHANGED <<status, dispatchVars, taskCh, loop, ctxDone, stopping, stopped,
                 dlq, executed, troubled>>
-----------------------------------------------------------------------------
LoopStep(w, k) ==
  \/ Take(w, k)
  \/ Leave(w, k)
  \/ \E o \in Outcomes : Start(w, k, o)
  \/ Prepare(w, k)
  \/ \E res \in Terminal \cup {"error"} : Execute(w, k, res)
  \/ Backoff(w, k)
  \/ \E o \in Outcomes : Finish(w, k, o)
  \/ Bury(w, k)

StopStep(w) == CloseStopCh(w) \/ Wait(w)

Next ==
  \/ \E i \in Instances, w \in Workers : Dispatch(i, w) \/ TryNext(i, w)
  \/ \E w \in Workers, k \in Loops : LoopStep(w, k)
  \/ \E w \in Workers : StopStep(w)
  \/ CancelContext

Spec == Init /\ [][Next]_vars

\* Goroutines run and executors return.  A goroutine whose select can leave
\* does not take tasks for ever: each instance is dispatched once.  Pool.Stop,
\* once called, goes on to the last worker.
LiveSpec ==
  /\ Spec
  /\ \A w \in Workers, k \in Loops : WF_vars(LoopStep(w, k))
  /\ \A w \in Workers : WF_vars(stopping /\ StopStep(w))
-----------------------------------------------------------------------------
(* Properties *)

\* The goroutines working on an instance, and its places in the channels.
Holders(i) == {p \in Workers \X Loops : loop[p[1]][p[2]].ti = i}
Waiting(i) == {p \in Workers \X (1..QueueSize) :
                 p[2] <= Len(taskCh[p[1]]) /\ taskCh[p[1]][p[2]] = i}

\* No accepted instance is lost or executed twice: it waits in one channel,
\* or one goroutine has it, or it has a terminal status in the store.  It is
\* lost only by a store call that failed, or by a negative MaxRetries, which
\* nothing rejects: the instance is never executed and stays Running.
AcceptedIsKept ==
  \A i \in accepted :
    /\ Cardinality(Holders(i)) + Cardinality(Waiting(i)) <= 1
    /\ \/ Holders(i) \cup Waiting(i) # {}
       \/ status[i] \in Terminal
       \/ i \in troubled
       \/ MaxAttempts[i] <= 0 /\ status[i] = "running"

\* The worker's writes go Queued, Running, terminal and never back: exactly
\* the writes Begin and ReportCompletion that the scheduler relies on.
LifecycleStep ==
  \A i \in Instances : status'[i] # status[i] =>
    \/ status[i] = "queued" /\ status'[i] = "running"
    \/ status[i] = "running" /\ status'[i] \in Terminal
\* LifecycleStep for every step of workers and pool.
Lifecycle == [][LifecycleStep]_vars

\* A dead letter is a task whose retries are exhausted: it was executed as
\* often as its policy allows, the entry says so, and there is one entry per
\* instance.
DeadLettersExhausted ==
  \A w \in Workers : \A n \in 1..Len(dlq[w]) :
    LET i == dlq[w][n][1] IN
    /\ executed[i] = MaxAttempts[i] /\ dlq[w][n][2] = MaxAttempts[i]
    /\ status[i] = "failed" \/ i \in troubled
    /\ \A v \in Workers : \A m \in 1..Len(dlq[v]) :
         dlq[v][m][1] = i => v = w /\ m = n

\* Whatever a worker has accepted ends, unless a store call for it failed,
\* the workers are being stopped, or its MaxRetries is negative.
AcceptedEnds ==
  \A i \in Instances : MaxAttempts[i] > 0 =>
    (i \in accepted ~> \/ status[i] \in Terminal \/ i \in troubled
                      \/ ctxDone \/ stopping)

\* Pool.Stop returns: every worker is waited for and its goroutines leave.
StopReturns == stopping ~> \A w \in Workers : joined[w]
=============================================================================
