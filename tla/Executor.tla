------------------------------ MODULE Executor ------------------------------
(***************************************************************************)
(* pkg/executor: concurrent calls of Execute and Cancel on the executors   *)
(* that start work outside the process: an operating system command        *)
(* (shell, python, spark-submit), a Docker container, a YARN application.   *)
(* An executor tracks what it runs in a map from task ID to command or     *)
(* container, and the executions of one task ID share the entry.           *)
(*                                                                         *)
(* Every call of os/exec, of the Docker daemon or of the ResourceManager,  *)
(* and every critical section on the map, is a step.  The call may fail    *)
(* before or after it took effect; the context may end between any two.    *)
(***************************************************************************)
EXTENDS FiniteSets

CONSTANTS
  Executions,   \* calls of Execute
  TaskIDs,
  Requests      \* the tasks an execution may be given

Kinds == {"command", "container", "application"}

\* task: Task.ID; kind: what the executor starts; timed: Timeout > 0;
\* keep: Config["keep_container"] is true.
Request == [task : TaskIDs, kind : Kinds, timed : BOOLEAN, keep : BOOLEAN]

ASSUME ExecutorAssumption ==
  Requests \subseteq Request /\ "none" \notin Executions

None == "none"
Outcomes == {"ok", "rejected", "unknown"}

VARIABLES
  req,         \* req[e]: the task that Execute was called with
  at,          \* at[e]: where Execute stands
  res,         \* res[e]: the result's Status, or "error" for (nil, err)
  ctxDone,     \* ctxDone[e]: execCtx is cancelled or past its deadline
  ext,         \* ext[e]: the command, container or application
  child,       \* child[e]: what lives on of the ended command's children
  tracked,     \* tracked[k][t]: the entry of task t, or None
  cancelling,  \* executions a Cancel has looked up and not yet killed
  lost,        \* history: executions one of whose calls failed
  unremoved    \* history: executions whose ContainerRemove failed

callVars == <<req, ctxDone>>
mapVars == <<tracked, cancelling>>
extVars == <<ext, child>>
history == <<lost, unremoved>>
vars == <<callVars, at, res, extVars, mapVars, history>>

Ended == {"zero", "nonzero", "killed"}

\* A child that the command has started, in the background or as a shell does,
\* may live on when the command has ended: it holds the command's output pipe,
\* or writes elsewhere.
Children == {None, "piped", "detached"}

\* Everything has a value of its type; a status is one that the executors
\* give, which excludes StatusRunning.
TypeOK ==
  /\ req \in [Executions -> Requests]
  /\ at \in [Executions -> {"new", "register", "start", "submit", "wait",
                            "drain", "untrack", "remove", "returned"}]
  /\ res \in [Executions -> {None, "success", "failed", "cancelled", "error"}]
  /\ ctxDone \in [Executions -> BOOLEAN]
  /\ ext \in [Executions -> {None, "created", "running", "removed"} \cup Ended]
  /\ child \in [Executions -> Children]
  /\ tracked \in [Kinds -> [TaskIDs -> Executions \cup {None}]]
  /\ cancelling \subseteq Executions
  /\ lost \subseteq Executions /\ unremoved \subseteq Executions

Init ==
  /\ req \in [Executions -> Requests]
  /\ at = [e \in Executions |-> "new"]
  /\ res = [e \in Executions |-> None]
  /\ ctxDone = [e \in Executions |-> FALSE]
  /\ ext = [e \in Executions |-> None]
  /\ child = [e \in Executions |-> None]
  /\ tracked = [k \in Kinds |-> [t \in TaskIDs |-> None]]
  /\ cancelling = {}
  /\ lost = {} /\ unremoved = {}
-----------------------------------------------------------------------------
Kind(e) == req[e].kind
At(e, k, p) == Kind(e) = k /\ at[e] = p
Goto(e, p) == at' = [at EXCEPT ![e] = p]
Stop(e, p, s) == Goto(e, p) /\ res' = [res EXCEPT ![e] = s]
Becomes(e, x) == ext' = [ext EXCEPT ![e] = x]
Orphans(e) == \E c \in Children : child' = [child EXCEPT ![e] = c]

\* A call under execCtx: it fails when the context is done.
Answer(e, o) ==
  /\ ctxDone[e] => o # "ok"
  /\ lost' = IF o = "ok" THEN lost ELSE lost \cup {e}

Effect(e, o, x) == IF o = "rejected" THEN UNCHANGED ext ELSE Becomes(e, x)

\* The entry of the task is written under the mutex, whoever has it.
Register(e) ==
  tracked' = [tracked EXCEPT ![Kind(e)][req[e].task] = e]

\* Validate, the Docker client or the image pull fails: nothing was started.
Reject(e) ==
  /\ at[e] = "new"
  /\ Stop(e, "returned", "error")
  /\ UNCHANGED <<callVars, extVars, mapVars, history>>

\* The deadline passes, or the caller's context is cancelled.
ContextEnds(e) ==
  /\ ~ctxDone[e] /\ at[e] # "returned"
  /\ ctxDone' = [ctxDone EXCEPT ![e] = TRUE]
  /\ UNCHANGED <<req, at, res, extVars, mapVars, history>>
-----------------------------------------------------------------------------
(* shell, python, spark-submit: a command *)

Track(e) ==
  /\ At(e, "command", "new")
  /\ Register(e)
  /\ Goto(e, "start")
  /\ UNCHANGED <<callVars, res, extVars, cancelling, history>>

\* cmd.Run, first half: Start fails when the context is done, and may fail
\* when the program cannot be executed.
StartCommand(e) ==
  /\ At(e, "command", "start")
  /\ \/ /\ ~ctxDone[e]
        /\ Becomes(e, "running")
        /\ Goto(e, "wait")
        /\ UNCHANGED res
     \/ /\ Stop(e, "untrack", "failed")
        /\ UNCHANGED ext
  /\ UNCHANGED <<callVars, child, mapVars, history>>

\* Mutant of ContextKills: the command was made without the context.
ContextKills_Never(e) == FALSE

\* exec.CommandContext kills the process when the context is done, not its
\* children.
ContextKills(e) ==
  /\ At(e, "command", "wait")
  /\ ctxDone[e] /\ ext[e] = "running"
  /\ Becomes(e, "killed")
  /\ Orphans(e)
  /\ UNCHANGED <<callVars, at, res, mapVars, history>>

\* cmd.Run, second half: the process has ended.  A kill that comes between
\* exit(0) and Wait is reported as the context's error.
WaitCommand(e) ==
  /\ At(e, "command", "wait")
  /\ ext[e] \in Ended
  /\ \/ ext[e] = "zero" /\ Stop(e, "drain", "success")
     \/ (ext[e] # "zero" \/ ctxDone[e]) /\ Stop(e, "drain", "failed")
  /\ UNCHANGED <<callVars, extVars, mapVars, history>>

\* Stdout and Stderr are buffers, so Run also waits for the end of the pipe,
\* without heeding the context.
Drain(e) ==
  /\ At(e, "command", "drain")
  /\ child[e] # "piped"
  /\ Goto(e, "untrack")
  /\ UNCHANGED <<callVars, res, extVars, mapVars, history>>
-----------------------------------------------------------------------------
(* docker: a container *)

CreateContainer(e, o) ==
  /\ At(e, "container", "new")
  /\ Answer(e, o)
  /\ Effect(e, o, "created")
  /\ \/ o = "ok" /\ Goto(e, "register") /\ UNCHANGED res
     \/ o # "ok" /\ Stop(e, "returned", "error")
  /\ UNCHANGED <<callVars, child, mapVars, unremoved>>

TrackContainer(e) ==
  /\ At(e, "container", "register")
  /\ Register(e)
  /\ Goto(e, "start")
  /\ UNCHANGED <<callVars, res, extVars, cancelling, history>>

StartContainer(e, o) ==
  /\ At(e, "container", "start")
  /\ Answer(e, o)
  /\ Effect(e, o, "running")
  /\ \/ o = "ok" /\ Goto(e, "wait") /\ UNCHANGED res
     \/ o # "ok" /\ Stop(e, "untrack", "error")
  /\ UNCHANGED <<callVars, child, mapVars, unremoved>>

\* ContainerWait answers with the exit code.
WaitContainer(e) ==
  /\ At(e, "container", "wait")
  /\ ext[e] \in Ended
  /\ Stop(e, "untrack", IF ext[e] = "zero" THEN "success" ELSE "failed")
  /\ UNCHANGED <<callVars, extVars, mapVars, history>>

\* ContainerWait answers with an error: the context, or the daemon.
WaitFails(e) ==
  /\ At(e, "container", "wait")
  /\ Stop(e, "untrack", "failed")
  /\ lost' = IF ctxDone[e] THEN lost ELSE lost \cup {e}
  /\ UNCHANGED <<callVars, extVars, mapVars, unremoved>>

\* Mutant of Remove: without Force a running container stays.
Remove_Gentle(e, o) ==
  /\ At(e, "container", "remove")
  /\ IF o = "ok" /\ ext[e] # "running" THEN Becomes(e, "removed")
                                       ELSE UNCHANGED ext
  /\ unremoved' = IF o = "ok" THEN unremoved ELSE unremoved \cup {e}
  /\ Goto(e, "returned")
  /\ UNCHANGED <<callVars, res, child, mapVars, lost>>

\* The deferred ContainerRemove with Force, under a context of its own; its
\* error is dropped.
Remove(e, o) ==
  /\ At(e, "container", "remove")
  /\ Effect(e, o, "removed")
  /\ unremoved' = IF o = "ok" THEN unremoved ELSE unremoved \cup {e}
  /\ Goto(e, "returned")
  /\ UNCHANGED <<callVars, res, child, mapVars, lost>>

\* Mutant of Untrack: the entry stays after an error of ContainerStart.
Untrack_NotOnError(e) ==
  /\ at[e] = "untrack"
  /\ tracked' = IF res[e] = "error" THEN tracked
                ELSE [tracked EXCEPT ![Kind(e)][req[e].task] = None]
  /\ Goto(e, IF Kind(e) = "container" /\ ~req[e].keep THEN "remove"
                                                      ELSE "returned")
  /\ UNCHANGED <<callVars, res, extVars, cancelling, history>>

\* The deferred delete removes the entry of the task, whoever's it is.
Untrack(e) ==
  /\ at[e] = "untrack"
  /\ tracked' = [tracked EXCEPT ![Kind(e)][req[e].task] = None]
  /\ Goto(e, IF Kind(e) = "container" /\ ~req[e].keep THEN "remove"
                                                      ELSE "returned")
  /\ UNCHANGED <<callVars, res, extVars, cancelling, history>>
-----------------------------------------------------------------------------
(* hadoop: a YARN application, which is not tracked *)

CreateApplication(e, o) ==
  /\ At(e, "application", "new")
  /\ Answer(e, o)
  /\ \/ o = "ok" /\ Goto(e, "submit") /\ UNCHANGED res
     \/ o # "ok" /\ Stop(e, "returned", "failed")
  /\ UNCHANGED <<callVars, extVars, mapVars, unremoved>>

SubmitApplication(e, o) ==
  /\ At(e, "application", "submit")
  /\ Answer(e, o)
  /\ Effect(e, o, "running")
  /\ \/ o = "ok" /\ Goto(e, "wait") /\ UNCHANGED res
     \/ o # "ok" /\ Stop(e, "returned", "failed")
  /\ UNCHANGED <<callVars, child, mapVars, unremoved>>

\* Mutant of Poll: FINISHED is taken for success without FinalStatus.
Poll_AnyFinish(e) ==
  /\ At(e, "application", "wait")
  /\ ~ctxDone[e] /\ ext[e] \in Ended
  /\ Stop(e, "returned", IF ext[e] = "killed" THEN "cancelled" ELSE "success")
  /\ UNCHANGED <<callVars, extVars, mapVars, history>>

\* A poll that finds the application in a final state; the others sleep and
\* try again.
Poll(e) ==
  /\ At(e, "application", "wait")
  /\ ~ctxDone[e] /\ ext[e] \in Ended
  /\ Stop(e, "returned", CASE ext[e] = "zero" -> "success"
                           [] ext[e] = "nonzero" -> "failed"
                           [] ext[e] = "killed" -> "cancelled")
  /\ UNCHANGED <<callVars, extVars, mapVars, history>>

\* The context is done, or a poll fails: Execute gives up and leaves the
\* application to itself.
GiveUp(e) ==
  /\ At(e, "application", "wait")
  /\ Stop(e, "returned", "failed")
  /\ lost' = IF ctxDone[e] THEN lost ELSE lost \cup {e}
  /\ UNCHANGED <<callVars, extVars, mapVars, unremoved>>
-----------------------------------------------------------------------------
(* Cancel *)

\* Mutant of CancelLookup: the entry is deleted with the lookup.
CancelLookup_Deletes(k, t) ==
  /\ tracked[k][t] # None
  /\ cancelling' = cancelling \cup {tracked[k][t]}
  /\ tracked' = [tracked EXCEPT ![k][t] = None]
  /\ UNCHANGED <<callVars, at, res, extVars, history>>

\* The lookup under the read lock; without an entry Cancel is an error.
CancelLookup(k, t) ==
  /\ tracked[k][t] # None
  /\ cancelling' = cancelling \cup {tracked[k][t]}
  /\ UNCHANGED <<callVars, at, res, extVars, tracked, history>>

\* Process.Kill, or ContainerStop, which lets the container exit by itself
\* and may fail.  A command that Start has not reached has no process, and
\* a container that is not running is not stopped.
CancelKill(e) ==
  /\ e \in cancelling
  /\ cancelling' = cancelling \ {e}
  /\ \/ /\ ext[e] # "running" \/ Kind(e) = "container"
        /\ UNCHANGED extVars
     \/ /\ ext[e] = "running" /\ Kind(e) = "command"
        /\ Becomes(e, "killed")
        /\ Orphans(e)
     \/ /\ ext[e] = "running" /\ Kind(e) = "container"
        /\ \E x \in Ended : Becomes(e, x)
        /\ UNCHANGED child
  /\ UNCHANGED <<callVars, at, res, tracked, history>>

\* HadoopExecutor.Cancel asks YARN to kill the application it is given.
CancelApplication(e) ==
  /\ Kind(e) = "application" /\ ext[e] = "running"
  /\ Becomes(e, "killed")
  /\ UNCHANGED <<callVars, at, res, child, mapVars, history>>
-----------------------------------------------------------------------------
(* The outside world *)

Exit(e, x) ==
  /\ ext[e] = "running"
  /\ Becomes(e, x)
  /\ IF Kind(e) = "command" THEN Orphans(e) ELSE UNCHANGED child
  /\ UNCHANGED <<callVars, at, res, mapVars, history>>

\* The children end, or only those do that hold the pipe.
ChildrenEnd(e) ==
  /\ child[e] # None
  /\ \E c \in {None, "detached"} \ {child[e]} : child' = [child EXCEPT ![e] = c]
  /\ UNCHANGED <<callVars, at, res, ext, mapVars, history>>
-----------------------------------------------------------------------------
\* The steps of Execute that do not depend on a call going wrong.
ExecuteStep(e) ==
  \/ Track(e) \/ StartCommand(e) \/ ContextKills(e) \/ WaitCommand(e)
  \/ Drain(e) \/ TrackContainer(e) \/ WaitContainer(e) \/ Untrack(e)
  \/ \E o \in Outcomes : \/ CreateContainer(e, o) \/ StartContainer(e, o)
                         \/ Remove(e, o) \/ CreateApplication(e, o)
                         \/ SubmitApplication(e, o)
  \/ Poll(e)

Next ==
  \/ \E e \in Executions :
       \/ ExecuteStep(e) \/ Reject(e) \/ ContextEnds(e)
       \/ WaitFails(e) \/ GiveUp(e)
       \/ CancelKill(e) \/ CancelApplication(e)
       \/ \E x \in {"zero", "nonzero"} : Exit(e, x)
       \/ ChildrenEnd(e)
  \/ \E k \in Kinds, t \in TaskIDs : CancelLookup(k, t)

\* Execute goes on once it is called; a deadline passes when there is one; a
\* call under a finished context returns, and the Docker daemon answers the
\* removal, which has no deadline.  Nothing is assumed of the work itself, of
\* its children, or of whether calls fail.
Fairness ==
  \A e \in Executions :
    /\ WF_vars(at[e] # "new" /\ ExecuteStep(e))
    /\ WF_vars(req[e].timed /\ ContextEnds(e))
    /\ WF_vars(ctxDone[e] /\ (WaitFails(e) \/ GiveUp(e)))

Spec == Init /\ [][Next]_vars /\ Fairness
-----------------------------------------------------------------------------
(* Properties *)

Returned(e) == at[e] = "returned"

\* What Execute reports is what happened: Success is an exit with zero,
\* Cancelled a killed application, and work that had succeeded is reported
\* otherwise only after the context ended or a call failed.
VerdictIsTrue ==
  \A e \in Executions :
    /\ res[e] = "success" => ext[e] \in {"zero", "removed"}
    /\ res[e] = "cancelled" => Kind(e) = "application" /\ ext[e] = "killed"
    /\ res[e] \in {"failed", "error"} /\ ext[e] = "zero" =>
         ctxDone[e] \/ e \in lost

\* Work outlives its Execute only if the executor lost sight of it: never a
\* command or a child of it that holds its output pipe, though children that
\* write elsewhere do; a container that is kept or whose removal failed; an
\* application after a timeout or a failed call.
NothingRunsOn ==
  \A e \in Executions : Returned(e) =>
    /\ child[e] # "piped"
    /\ ext[e] = "running" =>
         /\ res[e] \in {"failed", "error"}
         /\ \/ Kind(e) = "container" /\ (req[e].keep \/ e \in unremoved)
            \/ Kind(e) = "application" /\ (ctxDone[e] \/ e \in lost)

\* Cancel never looks up an Execute of another task, or one that returned,
\* although executions of one task overwrite and delete each other's entry.
EntryIsLive ==
  \A k \in Kinds, t \in TaskIDs :
    LET e == tracked[k][t] IN
    e # None => /\ Kind(e) = k /\ req[e].task = t
                /\ at[e] \in {"start", "wait", "drain", "untrack"}

\* Cancel finds a running command or container, unless another execution of
\* the same task has taken its entry.
SoleExecutionIsTracked ==
  \A e \in Executions :
    Kind(e) # "application" /\ at[e] \in {"start", "wait", "drain"} =>
      \/ tracked[Kind(e)][req[e].task] = e
      \/ \E f \in Executions \ {e} :
           /\ Kind(f) = Kind(e) /\ req[f].task = req[e].task
           /\ at[f] # "new"

\* A task with a timeout comes back, whatever its work does, except that a
\* command's children may hold its output pipe for ever; where those write
\* elsewhere, it comes back without them.
TimeoutEndsExecution ==
  \A e \in Executions :
    req[e].timed /\ at[e] # "new" ~> Returned(e) \/ [](child[e] = "piped")
=============================================================================
