\* A task with a dependent fails.
SPECIFICATION LiveSpec
CONSTANTS
  Tasks = {1, 2}
  Deps <- ChainDeps
  Priority <- ChainPriority
  Runs = {1}
  Outcomes = {"ok"}
  Schedulers = {s1}
  Tickers = {}
  Results = {"success", "failed"}
  CanCrash = FALSE
PROPERTIES
  FailureEndsRun
