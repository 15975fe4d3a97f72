---------------------------- MODULE DagExecution ----------------------------
(***************************************************************************)
(* What the scheduler promises, without saying how: every task of a run    *)
(* ends once, after all its dependencies have succeeded, and the verdict   *)
(* on the run is given once, after all its tasks have ended.               *)
(***************************************************************************)
CONSTANTS Runs, Tasks, Deps, Results

VARIABLES
  done,      \* done[r][t]: how the task ended, "todo" before that
  verdict    \* verdict[r]: "success" or "failed", "open" before that

vars == <<done, verdict>>

Init ==
  /\ done = [r \in Runs |-> [t \in Tasks |-> "todo"]]
  /\ verdict = [r \in Runs |-> "open"]

Finish(r, t, res) ==
  /\ done[r][t] = "todo"
  /\ \A d \in Deps[t] : done[r][d] = "success"
  /\ done' = [done EXCEPT ![r][t] = res]
  /\ UNCHANGED verdict

Decide(r) ==
  /\ verdict[r] = "open"
  /\ \A t \in Tasks : done[r][t] # "todo"
  /\ verdict' = [verdict EXCEPT ![r] =
       IF \E t \in Tasks : done[r][t] = "failed" THEN "failed" ELSE "success"]
  /\ UNCHANGED done

Next ==
  \E r \in Runs : \/ \E t \in Tasks, res \in Results : Finish(r, t, res)
                  \/ Decide(r)

Spec == Init /\ [][Next]_vars
=============================================================================
