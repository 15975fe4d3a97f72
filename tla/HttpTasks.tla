----------------------------- MODULE HttpTasks -----------------------------
(***************************************************************************)
(* The executors whose task is one HTTP request: the operations of the     *)
(* hdfs executor on WebHDFS, and the connect mode of the spark executor.   *)
(* The tasks of a chain are executed one after the other, each tried again *)
(* after a failure as the worker does.                                     *)
(*                                                                         *)
(* The name node and the Spark server are external.  A client that gives   *)
(* up (its timeout, its context, a lost connection) leaves the request     *)
(* behind: it may be served later, even while a later task is at work.     *)
(***************************************************************************)
EXTENDS Naturals, Sequences

CONSTANTS
  Paths,
  Contents,
  Chains,     \* the chains of tasks that may be executed
  MaxTries    \* MaxRetries + 1

NoFile == "nofile"
Dir == "dir"
NoPath == "nopath"

Operations == {"put", "get", "delete", "mkdir", "list", "status", "rename",
               "connect"}

\* A task: its operation, path, destination (NoPath when the config has
\* none) and the content to put.
HttpTask == [op : Operations, path : Paths, dest : Paths \cup {NoPath},
             content : Contents]

ASSUME HttpAssumption ==
  /\ Chains \subseteq Seq(HttpTask) \ {<<>>}
  /\ MaxTries \in Nat \ {0}
  /\ {NoFile, Dir} \cap Contents = {} /\ NoPath \notin Paths

VARIABLES
  chain,     \* the tasks, in the order of their dependencies
  files,     \* files[p]: NoFile, Dir, or the content of a file
  ran,       \* how often Spark has executed a task's code
  cur,       \* the task being executed
  try,       \* its attempt
  client,    \* "idle", "waiting", or the Status of the result
  wire,      \* requests <<task, attempt>> sent and not yet served
  response,  \* the answer on its way to the client: <<>> or <<r>>
  blind,     \* history: tasks whose Success rests on an ignored FALSE
  stray      \* history: a request of an earlier task was served late

httpVars == <<chain, files, ran, cur, try, client, wire, response, blind, stray>>

\* An answer of the server: the status code is good or not, and the boolean
\* of the body, TRUE where the operation has none.
Responses == [good : BOOLEAN, body : BOOLEAN]

HttpTypeOK ==
  /\ chain \in Chains
  /\ files \in [Paths -> {NoFile, Dir} \cup Contents]
  /\ ran \in Nat /\ cur \in 1..Len(chain) /\ try \in 1..MaxTries
  /\ client \in {"idle", "waiting", "success", "failed"}
  /\ wire \subseteq (1..Len(chain)) \X (1..MaxTries)
  /\ response \in {<<>>} \cup {<<r>> : r \in Responses}
  /\ blind \subseteq 1..Len(chain) /\ stray \in BOOLEAN

HttpInit ==
  /\ chain \in Chains
  /\ files \in [Paths -> {NoFile, Dir}]
  /\ ran = 0 /\ cur = 1 /\ try = 1 /\ client = "idle"
  /\ wire = {} /\ response = <<>> /\ blind = {} /\ stray = FALSE

Task(i) == chain[i]
-----------------------------------------------------------------------------
(* The executors *)

\* The request of the current attempt goes out; a rename without destination
\* fails before that.
SendRequest ==
  /\ client = "idle"
  /\ ~(Task(cur).op = "rename" /\ Task(cur).dest = NoPath)
  /\ client' = "waiting"
  /\ wire' = wire \cup {<<cur, try>>}
  /\ UNCHANGED <<chain, files, ran, cur, try, response, blind, stray>>

NoDestination ==
  /\ client = "idle"
  /\ Task(cur).op = "rename" /\ Task(cur).dest = NoPath
  /\ client' = "failed"
  /\ UNCHANGED <<chain, files, ran, cur, try, wire, response, blind, stray>>

\* Mutant of ReadResponse: the status code is not looked at.
ReadResponse_AnyStatus ==
  /\ client = "waiting" /\ response # <<>>
  /\ client' = "success"
  /\ response' = <<>>
  /\ blind' = IF response[1].good /\ ~response[1].body
              THEN blind \cup {cur} ELSE blind
  /\ UNCHANGED <<chain, files, ran, cur, try, wire, stray>>

\* Only the status code is looked at: the boolean of the body is not read.
\* The output of get, list and status may still fail to be read or decoded.
ReadResponse ==
  /\ client = "waiting" /\ response # <<>>
  /\ LET r == response[1] IN
     /\ client' \in {IF r.good THEN "success" ELSE "failed"} \cup
          (IF Task(cur).op \in {"get", "list", "status"} THEN {"failed"} ELSE {})
     /\ blind' = IF r.good /\ ~r.body THEN blind \cup {cur} ELSE blind
  /\ response' = <<>>
  /\ UNCHANGED <<chain, files, ran, cur, try, wire, stray>>

\* client.Do returns an error: Failed, whatever becomes of the request.
GiveUpRequest ==
  /\ client = "waiting"
  /\ client' = "failed"
  /\ response' = <<>>
  /\ UNCHANGED <<chain, files, ran, cur, try, wire, blind, stray>>

\* The worker tries a failed task again,
RetryTask ==
  /\ client = "failed" /\ try < MaxTries
  /\ try' = try + 1
  /\ client' = "idle"
  /\ UNCHANGED <<chain, files, ran, cur, wire, response, blind, stray>>

\* and the scheduler starts the next task once this one has succeeded.
NextTask ==
  /\ client = "success" /\ cur < Len(chain)
  /\ cur' = cur + 1 /\ try' = 1
  /\ client' = "idle"
  /\ UNCHANGED <<chain, files, ran, wire, response, blind, stray>>
-----------------------------------------------------------------------------
(* The servers *)

\* The new files after task t was served, and the boolean that is answered.
\* DELETE answers FALSE for a path that does not exist, RENAME when the
\* source is missing or the destination is taken.
Served(t) ==
  LET f == files IN
  CASE t.op = "put" -> [files |-> [f EXCEPT ![t.path] = t.content], body |-> TRUE]
    [] t.op = "mkdir" -> [files |-> [f EXCEPT ![t.path] = Dir], body |-> TRUE]
    [] t.op = "delete" -> [files |-> [f EXCEPT ![t.path] = NoFile],
                           body |-> f[t.path] # NoFile]
    [] t.op = "rename" ->
         IF f[t.path] # NoFile /\ f[t.dest] = NoFile
         THEN [files |-> [f EXCEPT ![t.path] = NoFile, ![t.dest] = f[t.path]],
               body |-> TRUE]
         ELSE [files |-> f, body |-> FALSE]
    [] OTHER -> [files |-> f, body |-> TRUE]

\* Operations the server cannot perform are refused with a bad status.
Possible(t) ==
  CASE t.op = "put" -> files[t.path] # Dir
    [] t.op = "mkdir" -> files[t.path] \in {NoFile, Dir}
    [] t.op \in {"get", "list", "status"} -> files[t.path] # NoFile
    [] OTHER -> TRUE

\* The answer reaches a client that still waits for this very request.
Respond(q, good, body) ==
  response' = IF client = "waiting" /\ q = <<cur, try>>
              THEN <<[good |-> good, body |-> body]>> ELSE response

Serve(q) ==
  /\ q \in wire /\ Possible(Task(q[1]))
  /\ wire' = wire \ {q}
  /\ files' = Served(Task(q[1])).files
  /\ ran' = IF Task(q[1]).op = "connect" THEN ran + 1 ELSE ran
  /\ Respond(q, TRUE, Served(Task(q[1])).body)
  /\ stray' = (stray \/ q[1] < cur)
  /\ UNCHANGED <<chain, cur, try, client, blind>>

\* Refused, for that reason or any other (permissions, safe mode).
Refuse(q) ==
  /\ q \in wire
  /\ wire' = wire \ {q}
  /\ Respond(q, FALSE, FALSE)
  /\ UNCHANGED <<chain, files, ran, cur, try, client, blind, stray>>
-----------------------------------------------------------------------------
HttpNext ==
  \/ SendRequest \/ NoDestination \/ ReadResponse \/ GiveUpRequest
  \/ RetryTask \/ NextTask
  \/ \E q \in wire : Serve(q) \/ Refuse(q)

HttpSpec == HttpInit /\ [][HttpNext]_httpVars
-----------------------------------------------------------------------------
(* Properties *)

\* What a task is for.
Achieved(t) ==
  CASE t.op = "put" -> files[t.path] = t.content
    [] t.op = "mkdir" -> files[t.path] = Dir
    [] t.op = "delete" -> files[t.path] = NoFile
    [] t.op = "rename" -> files[t.path] = NoFile /\ files[t.dest] # NoFile
    [] t.op = "connect" -> ran > 0
    [] OTHER -> files[t.path] # NoFile

\* When a task has succeeded its purpose is achieved, also after attempts
\* whose answer was lost, with two exceptions the code is open to: a rename
\* answered with a FALSE nobody reads, and a request that an earlier task's
\* client left behind and that is served while this task is at work.
SuccessMeansDone ==
  client = "success" =>
    Achieved(Task(cur)) \/ (Task(cur).op = "rename" /\ cur \in blind) \/ stray
=============================================================================
