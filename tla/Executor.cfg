\* Two executions of any kind, Cancel and timeouts at any time; chains of up
\* to three HTTP tasks, each tried twice.
SPECIFICATION ExecutorsSpec
CONSTANTS
  t1 = t1
  t2 = t2
  e1 = e1
  e2 = e2
  p1 = p1
  p2 = p2
  x = x
  Executions = {e1, e2}
  TaskIDs = {t1, t2}
  Requests <- Mixed
  Paths = {p1, p2}
  Contents = {x}
  Chains <- SomeChains
  MaxTries = 2
INVARIANTS
  VerdictIsTrue
  NothingRunsOn
  EntryIsLive
  SoleExecutionIsTracked
  SuccessMeansDone
PROPERTIES
  TimeoutEndsExecution
CHECK_DEADLOCK FALSE
