\* Two nodes, two calls, one of the nodes stopping once; two DAGs, runs and
\* instances, and one idempotency key, so that keys are met again.
SPECIFICATION Spec
CONSTANTS
  k = k
  Nodes = {n1, n2}
  Seed = n1
  Peers = {}
  Calls = {c1, c2}
  Keys = {k}
  Values = {}
  Commands <- SomeCommands
  MaxStops = 1
  DagIDs = {1, 2}
  RunIDs = {r1, r2}
  InstIDs = {1, 2}
  IdemKeys = {x}
  Tags = {tag}
  Statuses = {running, success}
  MaxLimit = 2
SYMMETRY CallSymmetry
INVARIANTS
  ReplicasFollowLog
  ReadsItsWrites
  StoresAgree
CHECK_DEADLOCK FALSE
