----------------------------- MODULE MCExecutor -----------------------------
(* Pairs of executions of every kind, on one task or on two; and chains of   *)
(* tasks that are HTTP requests.  A behaviour is one of Executor or one of   *)
(* HttpTasks, as `part' says.                                                *)
EXTENDS Executor, HttpTasks

CONSTANTS t1, t2, e1, e2, p1, p2, x

VARIABLE part

Of(t, k, timed, keep) == [task |-> t, kind |-> k, timed |-> timed, keep |-> keep]

List ==
  <<Of(t1, "command", TRUE, FALSE),
    Of(t1, "container", TRUE, FALSE), Of(t1, "container", FALSE, TRUE),
    Of(t2, "application", TRUE, FALSE)>>

Mixed == {List[i] : i \in 1..Len(List)}

\* Executions are alike: each pair of requests need be tried in one order only.
Pairs == \E i, j \in 1..Len(List) : i <= j /\ req[e1] = List[i] /\ req[e2] = List[j]

Http(op, path, dest) == [op |-> op, path |-> path, dest |-> dest, content |-> x]

\* Tasks that depend on what the one before has done.
SomeChains ==
  {<<Http("put", p1, NoPath), Http("rename", p1, p2), Http("get", p2, NoPath)>>,
   <<Http("delete", p1, NoPath), Http("mkdir", p1, NoPath),
     Http("delete", p1, NoPath)>>,
   <<Http("connect", p1, NoPath), Http("rename", p1, NoPath)>>}

ExecutorsInit ==
  /\ part \in {"executor", "http"}
  /\ Init /\ HttpInit
  /\ IF part = "executor" THEN Pairs ELSE \A e \in Executions : req[e] = List[1]
  /\ part # "http" => chain = CHOOSE c \in SomeChains : TRUE
  /\ part # "http" => files = [q \in Paths |-> NoFile]

ExecutorsNext ==
  /\ UNCHANGED part
  /\ \/ part = "executor" /\ Next /\ UNCHANGED httpVars
     \/ part = "http" /\ HttpNext /\ UNCHANGED vars

ExecutorsSpec ==
  /\ ExecutorsInit /\ [][ExecutorsNext]_<<part, vars, httpVars>>
  /\ part = "executor" => Fairness
=============================================================================
