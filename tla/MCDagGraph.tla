----------------------------- MODULE MCDagGraph -----------------------------
(* How DAGs are defined, and the algorithms on their graphs.  A behaviour is  *)
(* one of DagDefinition or one of DagGraph, as `part' says.                  *)
EXTENDS DagGraph, DagDefinition

VARIABLE part

TaskDef(id, deps, executor) ==
  [id |-> id, deps |-> deps, executor |-> executor]

\* Tasks that form chains, cycles and joins, that take a name a second time
\* or have none, that depend on a task nobody defines, or have no executor.
SomeTasks ==
  {TaskDef("a", {}, "shell"), TaskDef("a", {"b"}, "shell"),
   TaskDef("b", {"a"}, "shell"), TaskDef("c", {"a", "b"}, "shell"),
   TaskDef("b", {}, NoName), TaskDef(NoName, {}, "shell")}

DagInit ==
  /\ part \in {"definition", "graph"}
  /\ Init /\ DefinitionInit

DagNext ==
  /\ UNCHANGED part
  /\ \/ part = "graph" /\ Next /\ UNCHANGED definitionVars
     \/ part = "definition" /\ DefinitionNext /\ UNCHANGED vars

DagSpec ==
  /\ DagInit /\ [][DagNext]_<<part, vars, definitionVars>>
  /\ WF_vars(part = "graph" /\ (Detect \/ Sort))
=============================================================================
