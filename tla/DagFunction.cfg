\* A dag function that calls another one.
SPECIFICATION DagSpec
CONSTANTS
  Tasks = {1, 2}
  MaxEdges = 1
  Flows = {"f", "noname"}
  TaskIDs = {"a", "b", "c"}
  Executors = {"shell"}
  Definable <- SomeTasks
  MaxDepth = 2
  MaxDefs = 3
  MaxEdits = 3
INVARIANTS
  ReturnsBuilder
CHECK_DEADLOCK FALSE
