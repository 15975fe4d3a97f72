\* Schedule runs while Submit is creating instances.
SPECIFICATION Spec
CONSTANTS
  Tasks = {1, 2}
  Deps <- ChainDeps
  Priority <- ChainPriority
  Runs = {1}
  Outcomes = {"ok"}
  Schedulers = {s1}
  Tickers = {}
  Results = {"success", "failed"}
  CanCrash = FALSE
INVARIANTS
  EndedRunIsComplete
