------------------------ MODULE SchedulerRefinement ------------------------
(***************************************************************************)
(* The scheduler implements DagExecution.  A task has ended when its       *)
(* stored instance is terminal; everything before that, and the whole of   *)
(* Schedule and Submit, is invisible.  The verdict on a run that was       *)
(* listed before Submit had created its instances is left open.            *)
(***************************************************************************)
EXTENDS FIFOScheduler

doneBar ==
  [r \in Runs |-> [t \in Tasks |->
     IF IsTerminal(inst[r][t]) THEN inst[r][t] ELSE "todo"]]

verdictBar ==
  [r \in Runs |->
     IF IsTerminal(runStatus[r]) /\ ~partial[r] THEN runStatus[r] ELSE "open"]

Abstract == INSTANCE DagExecution WITH done <- doneBar, verdict <- verdictBar

\* The scheduler implements DagExecution: tasks end once and in dependency
\* order, and verdicts are given once and at the end.
ImplementsDagExecution == Abstract!Spec
=============================================================================
