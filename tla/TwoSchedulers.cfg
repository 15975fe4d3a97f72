\* Two schedulers on one store, with restarts.
SPECIFICATION Spec
CONSTANTS
  Tasks = {1, 2}
  Deps <- ChainDeps
  Priority <- ChainPriority
  Runs = {1}
  Outcomes = {"ok"}
  Schedulers = {s1, s2}
  Tickers = {}
  Results = {"success"}
  CanCrash = TRUE
INVARIANTS
  ClaimedOncePerScheduler
