\* One scheduler, two overlapping runs of a chain, store errors and crashes.
SPECIFICATION Spec
CONSTANTS
  Tasks = {1, 2}
  Deps <- ChainDeps
  Priority <- ChainPriority
  Runs = {1, 2}
  Outcomes = {"ok", "rejected", "unknown"}
  Schedulers = {s1}
  Tickers = {}
  Results = {"success", "failed", "cancelled"}
  CanCrash = TRUE
INVARIANTS
  TypeOK
  ClaimedAtMostOnce
  DependenciesFirst
  VerdictIsSound
  IInv
PROPERTIES
  TerminalIsFinal
