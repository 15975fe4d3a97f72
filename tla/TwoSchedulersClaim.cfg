\* Two replicas on one store: is an instance handed out once?
SPECIFICATION Spec
CONSTANTS
  Tasks = {1, 2}
  Deps <- ChainDeps
  Priority <- ChainPriority
  Runs = {1}
  Outcomes = {"ok"}
  Schedulers = {s1, s2}
  Tickers = {}
  Results = {"success", "failed"}
  CanCrash = FALSE
INVARIANTS
  ClaimedAtMostOnce
