------------------------------ MODULE DagGraph ------------------------------
(***************************************************************************)
(* pkg/dag: the graph algorithms over DAG.Edges.  A graph is built edge by *)
(* edge; then DetectCycle and TopologicalSort run on it, or a walk of      *)
(* GetDownstream or GetUpstream.  An iteration of a loop is a step, and so *)
(* is the entry into a recursive call, whose frames are a stack.           *)
(*                                                                         *)
(* Edges maps a task to a slice: the order of the edges matters to the     *)
(* search and an edge may occur twice.  Tasks are the ranks of their IDs,  *)
(* as in Dag.                                                              *)
(***************************************************************************)
EXTENDS Integers, Sequences, FiniteSets, SequencesExt

CONSTANTS
  Tasks,      \* the keys of DAG.Tasks
  MaxEdges    \* bound of the model: edges added

ASSUME DagGraphAssumption ==
  /\ Tasks \subseteq Nat \ {0} /\ IsFiniteSet(Tasks)
  /\ MaxEdges \in Nat

VARIABLES
  edges,      \* edges[t]: the slice DAG.Edges[t]
  phase,      \* what is being done
  color,      \* DetectCycle: color[t]
  parent,     \* DetectCycle: parent[t], NoTask if missing
  stack,      \* DetectCycle: frames <<node, index of the next edge>>
  cyclePath,  \* DetectCycle: its answer
  inDegree,   \* TopologicalSort: inDegree[t]
  queue,      \* TopologicalSort: the work list
  ordered,    \* TopologicalSort: the order so far
  walk        \* GetDownstream and GetUpstream: direction, start, visited

detectVars == <<color, parent, stack, cyclePath>>
sortVars == <<inDegree, queue, ordered>>
vars == <<edges, phase, detectVars, sortVars, walk>>

NoTask == 0
NoWalk == [dir |-> "down", from |-> NoTask, visited |-> {}]

Edge(t, u) == \E i \in DOMAIN edges[t] : edges[t][i] = u

\* The edges <<source, index>>, and those that end in t, with their
\* multiplicity.
AllEdges == UNION {{u} \X DOMAIN edges[u] : u \in Tasks}
InEdges(t) == {e \in AllEdges : edges[e[1]][e[2]] = t}
InDegree == [t \in Tasks |-> Cardinality(InEdges(t))]

\* sort.Strings: of the members of a set, and in place, where every order of
\* the indices that sorts s gives the same slice.
Sorted(S) ==
  {q \in [1..Cardinality(S) -> S] :
     /\ \A i, j \in DOMAIN q : i < j => q[i] < q[j]
     /\ \A x \in S : \E i \in DOMAIN q : q[i] = x}
SortedSlice(s) ==
  {[i \in DOMAIN s |-> s[p[i]]] : p \in
     {p \in [DOMAIN s -> DOMAIN s] :
        /\ \A i, j \in DOMAIN s : i < j => s[p[i]] <= s[p[j]]
        /\ \A k \in DOMAIN s : \E i \in DOMAIN s : p[i] = k}}

\* GetRoots and GetLeaves, without their sort.
GetRoots == {t \in Tasks : InDegree[t] = 0}
\* Mutant of GetLeaves: edges are looked up by their targets.
GetLeaves_ByTarget == {t \in Tasks : ~\E u \in Tasks : Edge(u, t)}

GetLeaves == {t \in Tasks : edges[t] = <<>>}

\* The types of the state, the counters of TopologicalSort never below zero
\* included.
TypeOK ==
  /\ phase \in {"build", "dfs", "trace", "sort", "end", "walk", "walked"}
  /\ color \in [Tasks -> {"white", "gray", "black"}]
  /\ parent \in [Tasks -> Tasks \cup {NoTask}]
  /\ \A i \in DOMAIN cyclePath : cyclePath[i] \in Tasks
  /\ inDegree \in [Tasks -> Nat]
  /\ \A i \in DOMAIN queue : queue[i] \in Tasks
  /\ walk.visited \subseteq Tasks

Init ==
  /\ edges = [t \in Tasks |-> <<>>]
  /\ phase = "build"
  /\ color = [t \in Tasks |-> "white"]
  /\ parent = [t \in Tasks |-> NoTask]
  /\ stack = <<>>
  /\ cyclePath = <<>>
  /\ inDegree = [t \in Tasks |-> 0]
  /\ queue = <<>>
  /\ ordered = <<>>
  /\ walk = NoWalk

\* AddEdge, or one iteration of BuildEdgesFromDependencies, which ranges
\* over the tasks in any order.
AddEdge(t, u) ==
  /\ phase = "build"
  /\ Cardinality(AllEdges) < MaxEdges
  /\ edges' = [edges EXCEPT ![t] = Append(@, u)]
  /\ UNCHANGED <<phase, detectVars, sortVars, walk>>
-----------------------------------------------------------------------------
(* DetectCycle *)

StartDetect ==
  /\ phase = "build"
  /\ phase' = "dfs"
  /\ UNCHANGED <<edges, detectVars, sortVars, walk>>

\* The loop over the sorted IDs: the search starts at the next white task.
Root(t) ==
  /\ phase = "dfs"
  /\ stack = <<>>
  /\ color[t] = "white" /\ \A u \in Tasks : u < t => color[u] # "white"
  /\ stack' = <<<<t, 1>>>>
  /\ color' = [color EXCEPT ![t] = "gray"]
  /\ UNCHANGED <<edges, phase, parent, cyclePath, sortVars, walk>>

\* The frame on top and the edge it is at.
Top == stack[Len(stack)]
AtEdge == phase = "dfs" /\ stack # <<>> /\ Top[2] <= Len(edges[Top[1]])
Target == edges[Top[1]][Top[2]]
Below == SubSeq(stack, 1, Len(stack) - 1)
Advanced == Append(Below, <<Top[1], Top[2] + 1>>)

\* A gray task closes a cycle: the path starts with it and the node.
Close ==
  /\ AtEdge /\ color[Target] = "gray"
  /\ cyclePath' = <<Target, Top[1]>>
  /\ phase' = "trace"
  /\ UNCHANGED <<edges, color, parent, stack, sortVars, walk>>

\* Mutant of Descend: the parent is not recorded.
Descend_NoParent ==
  /\ AtEdge /\ color[Target] = "white"
  /\ stack' = Append(Advanced, <<Target, 1>>)
  /\ color' = [color EXCEPT ![Target] = "gray"]
  /\ UNCHANGED <<edges, phase, parent, cyclePath, sortVars, walk>>

\* A white task is searched before the rest of the edges.
Descend ==
  /\ AtEdge /\ color[Target] = "white"
  /\ parent' = [parent EXCEPT ![Target] = Top[1]]
  /\ stack' = Append(Advanced, <<Target, 1>>)
  /\ color' = [color EXCEPT ![Target] = "gray"]
  /\ UNCHANGED <<edges, phase, cyclePath, sortVars, walk>>

\* Mutant of Skip: the loop does not advance.
Skip_Stuck ==
  /\ AtEdge /\ color[Target] = "black"
  /\ UNCHANGED vars

\* A black task is not searched again.
Skip ==
  /\ AtEdge /\ color[Target] = "black"
  /\ stack' = Advanced
  /\ UNCHANGED <<edges, phase, color, parent, cyclePath, sortVars, walk>>

\* Mutant of Finish: the task stays gray.
Finish_Gray ==
  /\ phase = "dfs" /\ stack # <<>> /\ ~AtEdge
  /\ stack' = Below
  /\ UNCHANGED <<edges, phase, color, parent, cyclePath, sortVars, walk>>

\* All edges are done: the task is black and its call returns false.
Finish ==
  /\ phase = "dfs" /\ stack # <<>> /\ ~AtEdge
  /\ color' = [color EXCEPT ![Top[1]] = "black"]
  /\ stack' = Below
  /\ UNCHANGED <<edges, phase, parent, cyclePath, sortVars, walk>>

\* The path goes back over the parents to the task it started with; a
\* missing parent would end it early.
Trace ==
  LET curr == Last(cyclePath)
  IN  /\ phase = "trace"
      /\ curr # Head(cyclePath) /\ parent[curr] # NoTask
      /\ cyclePath' = Append(cyclePath, parent[curr])
      /\ UNCHANGED <<edges, phase, color, parent, stack, sortVars, walk>>

Detected ==
  \/ /\ phase = "dfs" /\ stack = <<>>
     /\ \A t \in Tasks : color[t] # "white"
  \/ /\ phase = "trace"
     /\ \/ Last(cyclePath) = Head(cyclePath)
        \/ parent[Last(cyclePath)] = NoTask
-----------------------------------------------------------------------------
(* TopologicalSort *)

StartSort ==
  /\ Detected
  /\ phase' = "sort"
  /\ inDegree' = InDegree
  /\ queue' \in Sorted(GetRoots)
  /\ UNCHANGED <<edges, detectVars, ordered, walk>>

\* Mutant of Visit: an edge that occurs twice is counted once.
Visit_Once ==
  LET current == Head(queue)
      degree == [t \in Tasks |-> inDegree[t] - IF Edge(current, t) THEN 1 ELSE 0]
  IN  /\ phase = "sort" /\ queue # <<>>
      /\ ordered' = Append(ordered, current)
      /\ inDegree' = degree
      /\ \E q \in Sorted({t \in Tasks : Edge(current, t) /\ degree[t] = 0}) :
           queue' = Tail(queue) \o q
      /\ UNCHANGED <<edges, phase, detectVars, walk>>

\* One task leaves the queue; the targets of its sorted edges whose counter
\* reaches zero enter it, in that order.  The sort is in place: it leaves the
\* DAG with its edges in another order.
Visit ==
  LET current == Head(queue)
      degree == [t \in Tasks |-> inDegree[t] - Cardinality(
                   {i \in DOMAIN edges[current] : edges[current][i] = t})]
  IN  /\ phase = "sort" /\ queue # <<>>
      /\ ordered' = Append(ordered, current)
      /\ inDegree' = degree
      /\ \E q \in Sorted({t \in Tasks : Edge(current, t) /\ degree[t] = 0}) :
           queue' = Tail(queue) \o q
      /\ \E slice \in SortedSlice(edges[current]) :
           edges' = [edges EXCEPT ![current] = slice]
      /\ UNCHANGED <<phase, detectVars, walk>>

SortEnds ==
  /\ phase = "sort" /\ queue = <<>>
  /\ phase' = "end"
  /\ UNCHANGED <<edges, detectVars, sortVars, walk>>

\* TopologicalSort returns ordered, or an error when a task is missing.
SortSucceeds == Len(ordered) = Cardinality(Tasks)
-----------------------------------------------------------------------------
(* GetDownstream and GetUpstream *)

\* Mutant of Follows: GetUpstream forgets to reverse the edges.
Follows_Forward(dir, t, u) == Edge(t, u)

\* The edges a walk follows: forward, or through the reverse map.
Follows(dir, t, u) == IF dir = "down" THEN Edge(t, u) ELSE Edge(u, t)

StartWalk(dir, t) ==
  /\ phase = "build"
  /\ phase' = "walk"
  /\ walk' = [dir |-> dir, from |-> t, visited |-> {}]
  /\ UNCHANGED <<edges, detectVars, sortVars>>

\* The tasks the walk can reach next.
Frontier ==
  {u \in Tasks \ walk.visited :
     \E t \in walk.visited \cup {walk.from} : Follows(walk.dir, t, u)}

\* A task is visited once.  The result is sorted at the end, so the order of
\* the visits does not matter and any is allowed.
Walk(u) ==
  /\ phase = "walk"
  /\ u \in Frontier
  /\ walk' = [walk EXCEPT !.visited = @ \cup {u}]
  /\ UNCHANGED <<edges, phase, detectVars, sortVars>>

WalkEnds ==
  /\ phase = "walk" /\ Frontier = {}
  /\ phase' = "walked"
  /\ UNCHANGED <<edges, detectVars, sortVars, walk>>
-----------------------------------------------------------------------------
Detect == StartDetect \/ (\E t \in Tasks : Root(t)) \/ Close \/ Descend
            \/ Skip \/ Finish \/ Trace
Sort == StartSort \/ Visit \/ SortEnds
Query == (\E dir \in {"down", "up"}, t \in Tasks : StartWalk(dir, t))
           \/ (\E u \in Tasks : Walk(u)) \/ WalkEnds

Next == (\E t, u \in Tasks : AddEdge(t, u)) \/ Detect \/ Sort \/ Query

\* A call that has begun runs to its end.
Spec == Init /\ [][Next]_vars /\ WF_vars(Detect \/ Sort)
-----------------------------------------------------------------------------
(* Properties *)

\* A graph has a cycle when every task of some set has a predecessor in it.
HasCycle ==
  \E S \in (SUBSET Tasks) \ {{}} : \A t \in S : \E u \in S : Edge(u, t)

\* DetectCycle finds a cycle exactly when there is one, wherever the search
\* starts and in whatever order the edges are stored.
DetectsCycles ==
  phase \in {"sort", "end"} => (cyclePath # <<>> <=> HasCycle)

\* What DetectCycle returns is a cycle: it ends where it begins, follows the
\* edges backwards and passes no other task twice.
PathIsCycle ==
  LET n == Len(cyclePath) IN
  phase \in {"sort", "end"} /\ cyclePath # <<>> =>
    /\ n >= 2 /\ cyclePath[1] = cyclePath[n]
    /\ \A i \in 1..(n - 1) : Edge(cyclePath[i + 1], cyclePath[i])
    /\ \A i, j \in 1..(n - 1) : cyclePath[i] = cyclePath[j] => i = j

\* TopologicalSort succeeds exactly on the graphs without a cycle, hence
\* agrees with DetectCycle, and puts every task once and before its targets.
SortIsTopological ==
  phase = "end" =>
    /\ SortSucceeds <=> ~HasCycle
    /\ \A i, j \in DOMAIN ordered :
         /\ ordered[i] = ordered[j] => i = j
         /\ Edge(ordered[i], ordered[j]) => i < j

\* u is in every set that contains the targets of t and with a task its
\* targets.
Reaches(t, u) ==
  \A S \in SUBSET Tasks :
    (\A x \in Tasks : Edge(t, x) \/ (\E y \in S : Edge(y, x)) => x \in S)
      => u \in S

\* GetDownstream returns the tasks reachable from its argument, GetUpstream
\* those its argument is reachable from, on cyclic graphs too.
WalkIsReachable ==
  phase = "walked" =>
    walk.visited = {u \in Tasks : IF walk.dir = "down"
                                    THEN Reaches(walk.from, u)
                                    ELSE Reaches(u, walk.from)}

\* In a graph without a cycle every task is a leaf or has one downstream, and
\* is a root or has one upstream: the four queries agree with each other.
WalkMeetsBoundary ==
  phase = "walked" /\ ~HasCycle =>
    (walk.visited \cup {walk.from})
      \cap (IF walk.dir = "down" THEN GetLeaves ELSE GetRoots) # {}

\* DetectCycle and TopologicalSort come to an end on every graph.
AlgorithmsEnd == phase = "dfs" ~> phase = "end"
=============================================================================
