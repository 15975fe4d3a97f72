-------------------------------- MODULE Dag --------------------------------
(***************************************************************************)
(* The part of pkg/dag the scheduler relies on: task statuses and the      *)
(* choice of the tasks that are ready.  A DAG is the set Tasks, the        *)
(* Dependencies field of every task and its Priority.  Task IDs are        *)
(* strings that the code only compares; a task is named by the rank of its *)
(* ID in that order, so Tasks is a set of numbers.                         *)
(***************************************************************************)
EXTENDS Integers

CONSTANTS
  Tasks,      \* the keys of DAG.Tasks
  Deps,       \* Deps[t]: Task.Dependencies, as a set
  Priority    \* Priority[t]: Task.Priority

\* What AddTask and BuildEdgesFromDependencies accept: at least one task,
\* and dependencies that are tasks of the same DAG.
ASSUME DagAssumption ==
  /\ Tasks \subseteq Nat /\ Tasks # {}
  /\ Deps \in [Tasks -> SUBSET Tasks]
  /\ Priority \in [Tasks -> Int]

\* What Validate's DetectCycle establishes: no set of tasks in which every
\* task waits for another one of the set.
ASSUME AcyclicAssumption ==
  \A S \in SUBSET Tasks : S # {} => \E t \in S : Deps[t] \cap S = {}

\* The values of dag.Status that the program stores in a task instance.
Terminal == {"success", "failed", "cancelled", "skipped"}
Status == {"pending", "queued", "running"} \cup Terminal

IsTerminal(s) == s \in Terminal

\* A task whose instance does not exist yet: its key is missing in the
\* status map.
NoInstance == "none"

\* Indexing the status map with a missing key yields Go's zero value, which
\* is StatusPending.
Lookup(statuses, t) ==
  IF statuses[t] = NoInstance THEN "pending" ELSE statuses[t]

\* Mutant of ReadyTasks: a dependency that has ended in any way will do.
ReadyTasks_AnyEnd(statuses) ==
  {t \in Tasks : /\ Lookup(statuses, t) = "pending"
                 /\ \A d \in Deps[t] : IsTerminal(Lookup(statuses, d))}

\* The tasks (DAG).ReadyTasks returns.
ReadyTasks(statuses) ==
  {t \in Tasks : /\ Lookup(statuses, t) = "pending"
                 /\ \A d \in Deps[t] : Lookup(statuses, d) = "success"}

\* The order ReadyTasks sorts its answer by: priority first, then ID.
Before(t, u) ==
  \/ Priority[t] > Priority[u]
  \/ Priority[t] = Priority[u] /\ t < u

\* The task at the front of a non-empty set sorted by Before.
IsFirst(t, S) == t \in S /\ \A u \in S \ {t} : Before(t, u)
=============================================================================
