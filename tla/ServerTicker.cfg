\* The server: Schedule is called by Start's ticker loop only.
SPECIFICATION LiveSpec
CONSTANTS
  Tasks = {1, 2}
  Deps <- ChainDeps
  Priority <- ChainPriority
  Runs = {1}
  Outcomes = {"ok"}
  Schedulers = {s1}
  Tickers = {s1}
  Results = {"success", "failed"}
  CanCrash = FALSE
PROPERTIES
  SubmittedRunsExecute
