--------------------------- MODULE DagDefinition ---------------------------
(***************************************************************************)
(* How a DAG comes to be: the decorators of the Python SDK, which collect  *)
(* the tasks of a dag function in two module globals; the YAML the builder *)
(* writes; the parser that reads it; and the Go calls that build or change *)
(* a DAG by hand.                                                          *)
(*                                                                         *)
(* Dag functions call tasks and each other, raise, and catch what another  *)
(* raised.  DetectCycle is replaced by what it decides, see DagGraph.      *)
(***************************************************************************)
EXTENDS Naturals, Sequences, FiniteSets, SequencesExt

CONSTANTS
  Flows,        \* dag functions
  TaskIDs,
  Executors,    \* names of executors
  Definable,    \* the tasks that may be defined
  MaxDepth,     \* how deeply dag functions may call each other
  MaxDefs,      \* how many tasks may be defined in all
  MaxEdits      \* how many Go calls may change a DAG

NoName == "noname"    \* the empty string
NoBuilder == [id |-> "None", tasks |-> <<>>]   \* no dag function has this ID

\* TaskDefinition, yamlTask and Task, as far as the structure is concerned.
TaskDefs == [id : TaskIDs \cup {NoName}, deps : SUBSET TaskIDs,
             executor : Executors \cup {NoName}]

ASSUME DefinitionAssumption ==
  /\ Definable \subseteq TaskDefs
  /\ NoBuilder.id \notin Flows

VARIABLES
  current,   \* _current_dag
  pending,   \* _pending_tasks
  frames,    \* the dag functions under way, innermost last
  yaml,      \* the definition that was written: an ID and tasks
  defs,      \* how many tasks have been defined
  dag,       \* the Go DAG: id, tasks, edges as <<from, to>> in any order
  verdict,   \* "none", or what the last Parse or Validate said of dag
  edits,     \* how many Go calls have changed dag
  answers    \* history: what dag functions have returned but their own DAG

sdkVars == <<current, pending, frames, yaml, defs, answers>>
goVars == <<dag, verdict, edits>>
definitionVars == <<sdkVars, goVars>>

\* A call of a dag function: its name, the tasks it has called itself, whether
\* it has called another dag function, and caught an exception of one.
Frame(f) == [flow |-> f, own |-> <<>>, nested |-> FALSE, caught |-> FALSE]

NoTasks == [t \in {} |-> NoBuilder]
NewDAG(id) == [id |-> id, tasks |-> NoTasks, edges |-> {}]

DefinitionInit ==
  /\ current = NoBuilder /\ pending = <<>> /\ frames = <<>>
  /\ yaml = NoBuilder /\ defs = 0 /\ answers = {}
  /\ dag = NewDAG("d")
  /\ verdict = "none" /\ edits = 0
-----------------------------------------------------------------------------
(* The decorators of the SDK *)

Inner == frames[Len(frames)]

\* Bounds: a behaviour defines DAGs until one is parsed or edited, and edits
\* the one that was parsed or, where none was defined, one of its own.
Defining == verdict = "none" /\ edits = 0
Editing == frames = <<>> /\ (defs = 0 \/ verdict # "none" \/ edits > 0)

\* The wrapper of @dag up to the call of the function; another dag function
\* may be the caller.
CallFlow(f) ==
  /\ Defining /\ Len(frames) < MaxDepth
  /\ frames' = Append([i \in 1..Len(frames) |-> [frames[i] EXCEPT !.nested = TRUE]],
                      Frame(f))
  /\ current' = [id |-> f, tasks |-> <<>>]
  /\ pending' = <<>>
  /\ UNCHANGED <<yaml, defs, answers, goVars>>

\* The wrapper of @task, also called outside of dag functions; depends_on is
\* whatever the caller passes.
CallTask(t) ==
  /\ Defining /\ defs < MaxDefs
  /\ pending' = Append(pending, t)
  /\ frames' = [i \in 1..Len(frames) |->
       IF i = Len(frames) THEN [frames[i] EXCEPT !.own = Append(@, t)]
       ELSE frames[i]]
  /\ defs' = defs + 1
  /\ UNCHANGED <<current, yaml, answers, goVars>>

\* The function has returned: its pending tasks go to the current builder,
\* which is returned, and the globals are reset.  Where a call of another
\* dag function has left None as current, None is returned; with tasks
\* pending, None has no add_task and the wrapper raises.
Returned == [current EXCEPT !.tasks = pending]

\* The innermost function returns answer a.  A function that has caught an
\* exception of another is not accounted for.
Notes(a) == answers' = IF Inner.caught THEN answers ELSE answers \cup a

OwnDAG == Returned.id = Inner.flow /\ Returned.tasks = Inner.own

\* Mutant of Return: the globals stay as they are.
Return_NoReset ==
  /\ frames # <<>> /\ current # NoBuilder
  /\ yaml' = Returned
  /\ Notes(IF OwnDAG THEN {} ELSE {"foreign"})
  /\ frames' = Front(frames)
  /\ UNCHANGED <<current, pending, defs, goVars>>

Return ==
  /\ frames # <<>> /\ current # NoBuilder
  /\ yaml' = Returned
  /\ Notes(IF OwnDAG THEN {} ELSE {"foreign"})
  /\ frames' = Front(frames)
  /\ current' = NoBuilder /\ pending' = <<>>
  /\ UNCHANGED <<defs, goVars>>

ReturnNone ==
  /\ frames # <<>> /\ current = NoBuilder /\ pending = <<>>
  /\ Notes(IF Inner.nested THEN {"none"} ELSE {"lost"})
  /\ frames' = Front(frames)
  /\ UNCHANGED <<current, pending, yaml, defs, goVars>>

\* The function or its wrapper raises, and the caller catches it or not; the
\* globals stay as they are.
Unwound(caught) ==
  IF Len(frames) = 1 THEN <<>>
  ELSE IF caught
       THEN [Front(frames) EXCEPT ![Len(frames) - 1].caught = TRUE]
       ELSE <<>>

Raise ==
  /\ frames # <<>>
  /\ \E caught \in BOOLEAN : frames' = Unwound(caught)
  /\ UNCHANGED <<current, pending, yaml, defs, answers, goVars>>
-----------------------------------------------------------------------------
(* The DAG and the parser *)

TasksOf(d) == DOMAIN d.tasks

\* The edges of BuildEdgesFromDependencies, if every dependency exists.
DependencyEdges(d) ==
  UNION {{<<u, t>> : u \in d.tasks[t].deps} : t \in TasksOf(d)}
DependenciesExist(d) == \A t \in TasksOf(d) : d.tasks[t].deps \subseteq TasksOf(d)

\* DetectCycle.
Acyclic(d) ==
  \A S \in (SUBSET TasksOf(d)) \ {{}} :
    \E t \in S : \A e \in d.edges : e[2] = t => e[1] \notin S

\* Mutant of Validate: cycles are not looked for.
Validate_Cyclic(d) ==
  /\ d.id # NoName /\ TasksOf(d) # {}
  /\ \A e \in d.edges : e[1] \in TasksOf(d) /\ e[2] \in TasksOf(d)
  /\ \A t \in TasksOf(d) : d.tasks[t].executor # NoName

Validate(d) ==
  /\ d.id # NoName /\ TasksOf(d) # {}
  /\ \A e \in d.edges : e[1] \in TasksOf(d) /\ e[2] \in TasksOf(d)
  /\ Acyclic(d)
  /\ \A t \in TasksOf(d) : d.tasks[t].executor # NoName

\* AddTask accepts a task with a name that is not taken.
Addable(d, t) == t.id # NoName /\ t.id \notin TasksOf(d)
WithTask(d, t) ==
  [d EXCEPT !.tasks = [x \in DOMAIN @ \cup {t.id} |-> IF x = t.id THEN t ELSE @[x]]]

\* buildDAG: the tasks in their order, each of them addable, then the edges.
AllAddable(ts) ==
  \A i \in 1..Len(ts) : ts[i].id # NoName /\ \A j \in 1..(i - 1) : ts[j].id # ts[i].id
TasksByID(ts) ==
  [x \in {ts[i].id : i \in 1..Len(ts)} |->
     ts[CHOOSE i \in 1..Len(ts) : ts[i].id = x]]
Built(y) ==
  LET d == [NewDAG(y.id) EXCEPT !.tasks = TasksByID(y.tasks)]
  IN  [d EXCEPT !.edges = DependencyEdges(d)]

\* ParseBytes of what the SDK wrote.  It fails at the first error, which may
\* also be a duration that cannot be read.
ParseBytes ==
  /\ Defining /\ yaml # NoBuilder /\ frames = <<>>
  /\ \/ /\ AllAddable(yaml.tasks)
        /\ DependenciesExist(Built(yaml)) /\ Validate(Built(yaml))
        /\ dag' = Built(yaml) /\ verdict' = "ok"
     \/ verdict' = "error" /\ UNCHANGED dag
  /\ yaml' = NoBuilder
  /\ UNCHANGED <<current, pending, frames, defs, answers, edits>>
-----------------------------------------------------------------------------
(* Calls a Go program makes on a DAG: AddTask, AddEdge,                   *)
(* BuildEdgesFromDependencies and Validate                                 *)

Edit(d) ==
  /\ edits < MaxEdits /\ Editing
  /\ edits' = edits + 1 /\ dag' = d /\ verdict' = "none"
  /\ UNCHANGED sdkVars

GoAddTask(t) ==
  /\ Addable(dag, t)
  /\ Edit(WithTask(dag, t))

GoAddEdge(u, t) ==
  /\ {u, t} \subseteq TasksOf(dag)
  /\ Edit([dag EXCEPT !.edges = @ \cup {<<u, t>>}])

GoBuildEdges ==
  /\ DependenciesExist(dag)
  /\ Edit([dag EXCEPT !.edges = DependencyEdges(dag)])

\* At an unknown dependency of task t it returns: the old edges are gone, and
\* new are those of the tasks D that the range over the map gave before t,
\* and some of t.
GoBuildEdgesFails ==
  \E t \in TasksOf(dag), D \in SUBSET TasksOf(dag) :
    /\ ~(dag.tasks[t].deps \subseteq TasksOf(dag)) /\ t \notin D
    /\ \A x \in D : dag.tasks[x].deps \subseteq TasksOf(dag)
    /\ \E E \in SUBSET (dag.tasks[t].deps \cap TasksOf(dag)) :
         Edit([dag EXCEPT !.edges =
                 {e \in DependencyEdges(dag) : e[2] \in D \/ (e[2] = t /\ e[1] \in E)}])

\* Validate, called by RegisterDAG and cmdValidate among others.
GoValidate ==
  /\ Editing
  /\ verdict' = IF Validate(dag) THEN "ok" ELSE "error"
  /\ UNCHANGED <<sdkVars, dag, edits>>
-----------------------------------------------------------------------------
DefinitionNext ==
  \/ \E f \in Flows : CallFlow(f)
  \/ \E t \in Definable : CallTask(t) \/ GoAddTask(t)
  \/ Return \/ ReturnNone \/ Raise
  \/ ParseBytes \/ GoBuildEdges \/ GoBuildEdgesFails \/ GoValidate
  \/ \E u, t \in TaskIDs : GoAddEdge(u, t)

DefinitionSpec == DefinitionInit /\ [][DefinitionNext]_definitionVars
-----------------------------------------------------------------------------
(* Properties *)

\* A dag function that calls no other returns its own DAG: a builder with its
\* ID and exactly the tasks it called, whatever dag functions were called,
\* returned or left by an exception before.  One that has called another may
\* return None (or raise), but never a builder with another ID or other tasks
\* than its own; unless it has caught an exception of the one it called: then
\* it goes on with that one's builder.
BuilderHoldsOwnTasks == answers \cap {"foreign", "lost"} = {}

\* The tasks that have run after as many rounds as there are tasks, each round
\* running the tasks whose dependencies have run: what the scheduler does with
\* ReadyTasks.
Runnable(d, R) == {t \in TasksOf(d) : d.tasks[t].deps \subseteq R}
RunIn(d) ==
  LET r[n \in Nat] == IF n = 0 THEN {} ELSE Runnable(d, r[n - 1])
  IN  r[Cardinality(TasksOf(d))]

\* A DAG that Parse returned can be executed to its end; and one that a Go
\* program has put together, whatever its edges, if Validate accepts it and
\* every dependency of a task is among the edges: Validate looks for cycles in
\* the edges, ReadyTasks at the dependencies.
ValidatedCanFinish ==
  verdict = "ok" /\ (edits = 0 \/ DependencyEdges(dag) \subseteq dag.edges) =>
    RunIn(dag) = TasksOf(dag)
-----------------------------------------------------------------------------
(* What the code says and does not do *)

\* "def wrapper() -> DAGBuilder": what a dag function returns is a builder,
\* also if it has called another dag function.
ReturnsBuilder == "none" \notin answers
=============================================================================
