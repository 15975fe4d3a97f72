\* One scheduler on a diamond, with callers that execute what it returns, and
\* no store errors; sparkflowctl run on the same diamond; the server with two
\* connections of each kind; twice as many pushes as the queue holds, mixed
\* with Pop and Clear; policies whose products overflow and others; one run
\* under three definitions of its DAG, with a restart.
SPECIFICATION ServicesSpec
CONSTANTS
  Tasks = {1, 2, 3, 4}
  Deps <- DiamondDeps
  Priority <- DiamondPriority
  Runs = {1}
  Outcomes = {"ok"}
  Schedulers = {s1}
  Tickers = {}
  Results = {"success", "failed", "cancelled"}
  CanCrash = FALSE
  Conns = {q1, q2}
  Channels = {c1, c2}
  Entries = {e1, e2}
  MaxSize = 2
  MaxPushes = 4
  MaxInt = 31
  Policies <- RetryPolicies
  Definitions <- SomeDefinitions
  Submissions = {r1}
  MaxRestarts = 1
INVARIANTS
  ExitCodeIsTrue
  OnlyLoopIsLate
  HoldsLatest
  AnswerIsTrue
  BacksOff
PROPERTIES
  RunsEnd
  ImplementsDagExecution
  ExitsOrBlocked
  ShutdownEnds
  DoReturns
  EndsOnceSuited
CHECK_DEADLOCK FALSE
