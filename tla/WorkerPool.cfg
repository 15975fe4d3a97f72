\* Two workers, shutdown at any time, store errors.
SPECIFICATION LiveSpec
CONSTANTS
  i1 = i1
  i2 = i2
  i3 = i3
  Instances = {i1, i2, i3}
  MaxAttempts <- Retries
  PoolSize = 2
  Concurrency = 1
  Outcomes = {"ok", "unknown"}
  CanStop = TRUE
INVARIANTS
  AcceptedIsKept
  DeadLettersExhausted
PROPERTIES
  Lifecycle
  AcceptedEnds
  StopReturns
CHECK_DEADLOCK FALSE
