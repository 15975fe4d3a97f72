-------------------------- MODULE MCFIFOScheduler --------------------------
(* Values for the constants of FIFOScheduler: a small DAG. *)
EXTENDS SchedulerRefinement, TLC

\* 1 <- 2: a chain of two tasks.
ChainDeps == 1 :> {} @@ 2 :> {1}
ChainPriority == 1 :> 0 @@ 2 :> 0
=============================================================================
