\* All graphs of 4 tasks with at most 4 edges, loops and double edges too; dag
\* functions that call each other, one of them with an empty ID, with up to 3
\* tasks in all.
SPECIFICATION DagSpec
CONSTANTS
  Tasks = {1, 2, 3, 4}
  MaxEdges = 4
  Flows = {"f", "noname"}
  TaskIDs = {"a", "b", "c"}
  Executors = {"shell"}
  Definable <- SomeTasks
  MaxDepth = 2
  MaxDefs = 3
  MaxEdits = 3
INVARIANTS
  DetectsCycles
  PathIsCycle
  SortIsTopological
  WalkIsReachable
  WalkMeetsBoundary
  BuilderHoldsOwnTasks
  ValidatedCanFinish
PROPERTIES
  AlgorithmsEnd
CHECK_DEADLOCK FALSE
