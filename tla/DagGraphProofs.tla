--------------------------- MODULE DagGraphProofs ---------------------------
(***************************************************************************)
(* The graph algorithms for any number of tasks and of edges, in any       *)
(* order.                                                                  *)
(*                                                                         *)
(* GetDownstream and GetUpstream: what a walk has visited is reachable,    *)
(* and what it has not visited is not once nothing is left to visit.       *)
(*                                                                         *)
(* DetectCycle: the frames of the search lead to each other by edges, the  *)
(* gray tasks are those on the frames, and a black task has only black     *)
(* targets and lies on no cycle; a gray target therefore closes a cycle    *)
(* whose tasks the parents name.                                           *)
(*                                                                         *)
(* TopologicalSort: the counters count the edges from tasks that are not   *)
(* in the order yet. What is left when the work list is empty has a source *)
(* that is left; what is in the order has its sources before it.           *)
(***************************************************************************)
EXTENDS DagGraph, Iteration, FiniteSetTheorems, SequenceTheorems, TLAPS

-----------------------------------------------------------------------------
(* GetDownstream and GetUpstream *)

\* What a walk in direction d from f may visit.
Related(d, f, u) == IF d = "down" THEN Reaches(f, u) ELSE Reaches(u, f)

WalkInv ==
  /\ walk \in [dir : {"down", "up"}, from : Tasks \cup {NoTask}, visited : SUBSET Tasks]
  /\ phase \in {"walk", "walked"} =>
       walk.from \in Tasks /\ \A u \in walk.visited : Related(walk.dir, walk.from, u)
  /\ phase = "walked" => Frontier = {}

LEMMA WalkInvInit == Init => WalkInv
  BY DEF Init, WalkInv, NoWalk

\* A task the walk can visit next is related to its start as those visited are.
LEMMA FrontierRelated ==
  ASSUME NEW d \in {"down", "up"}, NEW f \in Tasks, NEW V \in SUBSET Tasks,
         \A u \in V : Related(d, f, u),
         NEW u \in Tasks, NEW t \in V \cup {f}, Follows(d, t, u)
  PROVE  Related(d, f, u)
<1>1. CASE d = "down"
  <2>1. Edge(t, u) /\ (t = f \/ Reaches(f, t))
    BY <1>1 DEF Follows, Related
  <2>2. Reaches(f, u)
    BY <2>1 DEF Reaches
  <2> QED
    BY <1>1, <2>2 DEF Related
<1>2. CASE d = "up"
  <2>1. Edge(u, t) /\ (t = f \/ Reaches(t, f)) /\ t \in Tasks
    BY <1>2 DEF Follows, Related
  <2>2. Reaches(u, f)
    <3> SUFFICES ASSUME NEW S \in SUBSET Tasks,
                        \A x \in Tasks :
                          Edge(u, x) \/ (\E y \in S : Edge(y, x)) => x \in S
                 PROVE  f \in S
      BY DEF Reaches
    <3>1. t \in S
      BY <2>1
    <3>2. \A x \in Tasks : Edge(t, x) \/ (\E y \in S : Edge(y, x)) => x \in S
      BY <3>1
    <3> QED
      BY <2>1, <3>1, <3>2 DEF Reaches
  <2> QED
    BY <1>2, <2>2 DEF Related
<1> QED
  BY <1>1, <1>2

LEMMA WalkInvNext ==
  ASSUME WalkInv, [Next]_vars
  PROVE  WalkInv'
<1>0. walk \in [dir : {"down", "up"}, from : Tasks \cup {NoTask}, visited : SUBSET Tasks]
  BY DEF WalkInv
<1>1. CASE walk' = walk /\ phase' \notin {"walk", "walked"}
  BY <1>0, <1>1 DEF WalkInv
<1>2. CASE UNCHANGED vars
  BY <1>2 DEF WalkInv, vars, Related, Reaches, Edge, Frontier, Follows
<1>3. ASSUME NEW dir \in {"down", "up"}, NEW t \in Tasks, StartWalk(dir, t)
      PROVE  WalkInv'
  BY <1>3 DEF StartWalk, WalkInv
<1>4. ASSUME NEW u \in Tasks, Walk(u)
      PROVE  WalkInv'
  <2>1. PICK d \in {"down", "up"}, f \in Tasks, V \in SUBSET Tasks :
          walk.dir = d /\ walk.from = f /\ walk.visited = V
    BY <1>0, <1>4 DEF Walk, WalkInv
  <2>2. /\ walk' = [dir |-> d, from |-> f, visited |-> V \cup {u}]
        /\ phase' = "walk" /\ edges' = edges
    BY <1>0, <1>4, <2>1 DEF Walk
  <2>3. \A x \in V : Related(d, f, x)
    BY <1>4, <2>1 DEF Walk, WalkInv
  <2>4. Related(d, f, u)
    BY <1>4, <2>1, <2>3, FrontierRelated DEF Walk, Frontier
  <2>5. \A x \in V \cup {u} : Related(d, f, x)'
    BY <2>2, <2>3, <2>4 DEF Related, Reaches, Edge
  <2>6. walk'.dir = d /\ walk'.from = f /\ walk'.visited = V \cup {u}
    BY <2>2
  <2>7. \A x \in walk'.visited : Related(walk.dir, walk.from, x)'
    BY <2>5, <2>6 DEF Related, Reaches, Edge
  <2> QED
    BY <2>2, <2>6, <2>7 DEF WalkInv
<1>5. CASE WalkEnds
  BY <1>5 DEF WalkEnds, WalkInv, Related, Reaches, Edge, Frontier, Follows
<1> QED
  BY <1>1, <1>2, <1>3, <1>4, <1>5
     DEF Next, Detect, Sort, Query, AddEdge, StartDetect, Root, Close, Descend, Skip,
         Finish, Trace, StartSort, Visit, SortEnds, AtEdge

\* GetDownstream and GetUpstream return what their comments promise on every
\* graph, one with cycles too.
THEOREM WalkTheorem == Spec => []WalkIsReachable
<1>1. ASSUME WalkInv, phase = "walked"
      PROVE  walk.visited = {u \in Tasks : IF walk.dir = "down"
                                             THEN Reaches(walk.from, u)
                                             ELSE Reaches(u, walk.from)}
  <2>1. PICK d \in {"down", "up"}, f \in Tasks, V \in SUBSET Tasks :
          walk.dir = d /\ walk.from = f /\ walk.visited = V
    BY <1>1 DEF WalkInv
  <2>2. \A u \in V : Related(d, f, u)
    BY <1>1, <2>1 DEF WalkInv
  <2>3. \A u \in Tasks \ V : \A t \in V \cup {f} : ~Follows(d, t, u)
    BY <1>1, <2>1 DEF WalkInv, Frontier
  <2>4. ASSUME NEW u \in Tasks, Related(d, f, u)
        PROVE  u \in V
    <3>1. CASE d = "down"
      BY <2>3, <2>4, <3>1 DEF Related, Follows, Reaches
    <3>2. CASE d = "up"
      <4> SUFFICES ASSUME u \notin V PROVE FALSE
        OBVIOUS
      <4> DEFINE S == Tasks \ (V \cup {f})
      <4>1. \A x \in Tasks : Edge(u, x) \/ (\E y \in S : Edge(y, x)) => x \in S
        BY <2>3, <3>2 DEF Follows
      <4>2. f \in S
        BY <2>4, <3>2, <4>1 DEF Related, Reaches
      <4> QED
        BY <4>2
    <3> QED
      BY <3>1, <3>2
  <2>5. V = {u \in Tasks : Related(d, f, u)}
    BY <2>2, <2>4
  <2> QED
    BY <2>1, <2>5 DEF Related
<1>2. WalkInv => WalkIsReachable
  BY <1>1 DEF WalkIsReachable
<1>3. WalkInv /\ [Next]_vars => WalkInv'
  BY WalkInvNext
<1> QED
  BY <1>2, <1>3, WalkInvInit, PTL DEF Spec
-----------------------------------------------------------------------------
(* The graph, and cycles in it *)

EdgesType == edges \in [Tasks -> Seq(Tasks)]

\* Sorting a slice keeps its members.
LEMMA SliceSorted ==
  ASSUME NEW s \in Seq(Tasks), NEW q \in SortedSlice(s)
  PROVE  /\ q \in Seq(Tasks) /\ DOMAIN q = DOMAIN s
         /\ \A x : (\E i \in DOMAIN q : q[i] = x) <=> (\E i \in DOMAIN s : s[i] = x)
<1>1. PICK p \in [DOMAIN s -> DOMAIN s] :
             /\ \A k \in DOMAIN s : \E i \in DOMAIN s : p[i] = k
             /\ q = [i \in DOMAIN s |-> s[p[i]]]
  BY DEF SortedSlice
<1>2. /\ Len(s) \in Nat /\ DOMAIN s = 1..Len(s)
      /\ \A i \in DOMAIN s : s[i] \in Tasks
  BY LenProperties, ElementOfSeq
<1>3. q \in [1..Len(s) -> Tasks]
  BY <1>1, <1>2
<1>4. q \in Seq(Tasks)
  BY <1>2, <1>3, SeqDef
<1> QED
  BY <1>1, <1>2, <1>4

\* An edge that is there stays there, and only AddEdge makes one.
LEMMA EdgesNext ==
  ASSUME EdgesType, [Next]_vars
  PROVE  /\ EdgesType'
         /\ phase # "build" =>
              \A t \in Tasks : /\ DOMAIN edges'[t] = DOMAIN edges[t]
                               /\ \A u : Edge(t, u)' <=> Edge(t, u)
<1>1. CASE edges' = edges
  BY <1>1 DEF EdgesType, Edge
<1>2. ASSUME NEW t \in Tasks, NEW u \in Tasks, AddEdge(t, u)
      PROVE  EdgesType' /\ phase = "build"
  BY <1>2 DEF AddEdge, EdgesType
<1>3. CASE Visit
  <2>1. PICK slice \in SortedSlice(edges[Head(queue)]) :
               edges' = [edges EXCEPT ![Head(queue)] = slice]
    BY <1>3 DEF Visit
  <2>2. CASE Head(queue) \in Tasks
    <3>1. PICK c \in Tasks : c = Head(queue)
      BY <2>2
    <3>2. edges[c] \in Seq(Tasks)
      BY DEF EdgesType
    <3>3. /\ slice \in Seq(Tasks) /\ DOMAIN slice = DOMAIN edges[c]
          /\ \A x : (\E i \in DOMAIN slice : slice[i] = x)
                      <=> (\E i \in DOMAIN edges[c] : edges[c][i] = x)
      BY <2>1, <3>1, <3>2, SliceSorted
    <3>4. edges' = [t \in Tasks |-> IF t = c THEN slice ELSE edges[t]]
      BY <2>1, <3>1 DEF EdgesType
    <3>5. EdgesType'
      BY <3>3, <3>4 DEF EdgesType
    <3>6. ASSUME NEW t \in Tasks
          PROVE  DOMAIN edges'[t] = DOMAIN edges[t] /\ \A u : Edge(t, u)' <=> Edge(t, u)
      <4>1. CASE t = c
        BY <3>3, <3>4, <4>1 DEF Edge
      <4>2. CASE t # c
        BY <3>4, <4>2 DEF Edge
      <4> QED
        BY <4>1, <4>2
    <3> QED
      BY <3>5, <3>6
  <2>3. CASE Head(queue) \notin Tasks
    <3>1. edges' = edges
      BY <2>1, <2>3 DEF EdgesType
    <3> QED
      BY <1>1, <3>1
  <2> QED
    BY <2>2, <2>3
<1> QED
  BY <1>1, <1>2, <1>3
     DEF Next, Detect, Sort, Query, StartDetect, Root, Close, Descend, Skip, Finish,
         Trace, StartSort, SortEnds, StartWalk, Walk, WalkEnds, AtEdge, vars

LEMMA EdgesInit == Init => EdgesType
  BY DEF Init, EdgesType

\* A finite family of subsets has a minimal member.
LEMMA SetMin ==
  ASSUME NEW S, IsFiniteSet(S), NEW C, C \subseteq SUBSET S, C # {}
  PROVE  \E T \in C : \A U \in C : U \subseteq T => U = T
<1>1. IsWellFoundedOn(StrictSubsetOrdering(S), FiniteSubsetsOf(S))
  BY FS_StrictSubsetOrderingWellFounded
<1>2. C \subseteq FiniteSubsetsOf(S)
  BY FS_Subset DEF FiniteSubsetsOf
<1>3. PICK T \in C : \A U \in C : <<U, T>> \notin StrictSubsetOrdering(S)
  BY <1>1, <1>2, WFMin
<1> QED
  BY <1>3 DEF StrictSubsetOrdering

\* Tasks each of which has a successor among them contain a cycle: in a
\* smallest such set each has a predecessor as well.
LEMMA SuccessorsCycle ==
  ASSUME NEW V \in SUBSET Tasks, V # {}, \A t \in V : \E u \in V : Edge(t, u)
  PROVE  HasCycle
<1> DEFINE C == {W \in SUBSET V : W # {} /\ \A t \in W : \E u \in W : Edge(t, u)}
<1>1. IsFiniteSet(V)
  BY DagGraphAssumption, FS_Subset
<1>2. C \subseteq SUBSET V /\ C # {}
  <2>1. V \in C
    OBVIOUS
  <2> QED
    BY <2>1
<1>3. PICK W \in C : \A U \in C : U \subseteq W => U = W
  <2> HIDE DEF C
  <2> QED
    BY <1>1, <1>2, SetMin
<1>4. ASSUME NEW t \in W, \A u \in W : ~Edge(u, t)
      PROVE  FALSE
  <2>1. PICK u \in W : Edge(t, u)
    BY <1>3
  <2>2. u \in W \ {t}
    BY <1>4, <2>1
  <2>3. \A x \in W \ {t} : \E y \in W \ {t} : Edge(x, y)
    BY <1>3, <1>4
  <2>4. W \ {t} \in C
    BY <1>3, <2>2, <2>3
  <2> QED
    BY <1>3, <2>4
<1>5. W \in (SUBSET Tasks) \ {{}} /\ \A t \in W : \E u \in W : Edge(u, t)
  BY <1>3, <1>4
<1> QED
  BY <1>5 DEF HasCycle

LEMMA AllEdgesFinite ==
  ASSUME EdgesType
  PROVE  IsFiniteSet(AllEdges)
<1> DEFINE P == {{u} \X DOMAIN edges[u] : u \in Tasks}
           f == [u \in Tasks |-> {u} \X DOMAIN edges[u]]
<1>1. f \in Surjection(Tasks, P)
  BY DEF Surjection
<1>2. IsFiniteSet(P)
  BY <1>1, DagGraphAssumption, FS_Surjection
<1>3. ASSUME NEW u \in Tasks
      PROVE  IsFiniteSet({u} \X DOMAIN edges[u])
  <2>1. Len(edges[u]) \in Nat /\ DOMAIN edges[u] = 1..Len(edges[u])
    BY LenProperties DEF EdgesType
  <2> QED
    <3>1. IsFiniteSet(DOMAIN edges[u])
      <4>1. PICK n \in Int : n = Len(edges[u])
        BY <2>1
      <4>2. IsFiniteSet(1..n)
        BY FS_Interval
      <4> QED
        BY <2>1, <4>1, <4>2
    <3>2. IsFiniteSet({u})
      BY FS_Singleton
    <3> QED
      BY <3>1, <3>2, FS_Product
<1>4. \A T \in P : IsFiniteSet(T)
  BY <1>3
<1> HIDE DEF P
<1>5. IsFiniteSet(UNION P)
  BY <1>2, <1>4, FS_UNION
<1> QED
  BY <1>5 DEF AllEdges, P

\* A task that is no root has a predecessor, one that is no leaf a successor.
LEMMA RootsAndLeaves ==
  ASSUME EdgesType, NEW t \in Tasks
  PROVE  /\ t \notin GetRoots => \E u \in Tasks : Edge(u, t)
         /\ t \notin GetLeaves => \E u \in Tasks : Edge(t, u)
<1>1. ASSUME t \notin GetRoots
      PROVE  \E u \in Tasks : Edge(u, t)
  <2>1. Cardinality(InEdges(t)) # 0
    BY <1>1 DEF GetRoots, InDegree
  <2>2. InEdges(t) # {}
    BY <2>1, FS_EmptySet
  <2>3. PICK e \in InEdges(t) : TRUE
    BY <2>2
  <2>4. e[1] \in Tasks /\ e[2] \in DOMAIN edges[e[1]] /\ edges[e[1]][e[2]] = t
    BY <2>3 DEF InEdges, AllEdges
  <2> QED
    BY <2>4 DEF Edge
<1>2. ASSUME t \notin GetLeaves
      PROVE  \E u \in Tasks : Edge(t, u)
  <2>1. edges[t] \in Seq(Tasks) /\ edges[t] # <<>>
    BY <1>2 DEF GetLeaves, EdgesType
  <2>2. 1 \in DOMAIN edges[t] /\ edges[t][1] \in Tasks
    BY <2>1, EmptySeq, LenProperties, ElementOfSeq
  <2> QED
    BY <2>2 DEF Edge
<1> QED
  BY <1>1, <1>2

\* In a graph without a cycle every walk from a task meets a leaf or a root.
THEOREM BoundaryTheorem == Spec => []WalkMeetsBoundary
<1>1. ASSUME WalkInv, EdgesType, phase = "walked", ~HasCycle
      PROVE  (walk.visited \cup {walk.from})
               \cap (IF walk.dir = "down" THEN GetLeaves ELSE GetRoots) # {}
  <2>1. PICK d \in {"down", "up"}, f \in Tasks, V \in SUBSET Tasks :
          walk.dir = d /\ walk.from = f /\ walk.visited = V
    BY <1>1 DEF WalkInv
  <2>2. \A u \in Tasks \ V : \A t \in V \cup {f} : ~Follows(d, t, u)
    BY <1>1, <2>1 DEF WalkInv, Frontier
  <2>3. V \cup {f} \in (SUBSET Tasks) \ {{}}
    OBVIOUS
  <2>4. CASE d = "down"
    <3>1. ASSUME \A t \in V \cup {f} : t \notin GetLeaves
          PROVE  FALSE
      <4>1. \A t \in V \cup {f} : \E u \in V \cup {f} : Edge(t, u)
        BY <1>1, <2>2, <2>4, <3>1, RootsAndLeaves DEF Follows
      <4> QED
        BY <1>1, <2>3, <4>1, SuccessorsCycle
    <3> QED
      BY <2>1, <2>4, <3>1
  <2>5. CASE d = "up"
    <3>1. ASSUME \A t \in V \cup {f} : t \notin GetRoots
          PROVE  FALSE
      <4>1. \A t \in V \cup {f} : \E u \in V \cup {f} : Edge(u, t)
        BY <1>1, <2>2, <2>5, <3>1, RootsAndLeaves DEF Follows
      <4> QED
        BY <1>1, <2>3, <4>1 DEF HasCycle
    <3> QED
      BY <2>1, <2>5, <3>1
  <2> QED
    BY <2>4, <2>5
<1>2. WalkInv /\ EdgesType => WalkMeetsBoundary
  BY <1>1 DEF WalkMeetsBoundary
<1>3. WalkInv /\ EdgesType /\ [Next]_vars => WalkInv' /\ EdgesType'
  BY WalkInvNext, EdgesNext
<1> QED
  BY <1>2, <1>3, WalkInvInit, EdgesInit, PTL DEF Spec
-----------------------------------------------------------------------------
(* DetectCycle: the search *)

DetectTypes ==
  /\ color \in [Tasks -> {"white", "gray", "black"}]
  /\ parent \in [Tasks -> Tasks \cup {NoTask}]
  /\ stack \in Seq(Tasks \X Nat)
  /\ cyclePath \in Seq(Tasks)

\* No task is searched twice at a time, and those being searched are gray.
FramesDistinct ==
  \A i, j \in 1..Len(stack) : stack[i][1] = stack[j][1] => i = j
GrayOnStack ==
  \A t \in Tasks : color[t] = "gray" <=> \E i \in 1..Len(stack) : stack[i][1] = t

\* A frame is at one of its edges or past the last. The frame above it has
\* come through the edge before that one, and its parent says so.
FrameLinks ==
  \A i \in 1..Len(stack) :
    /\ stack[i][2] \in 1..(Len(edges[stack[i][1]]) + 1)
    /\ i < Len(stack) => /\ stack[i][2] >= 2
                         /\ edges[stack[i][1]][stack[i][2] - 1] = stack[i + 1][1]
                         /\ parent[stack[i + 1][1]] = stack[i][1]

\* The edges before that lead to black tasks.
EdgesDone ==
  \A i \in 1..Len(stack) : \A j \in 1..(stack[i][2] - 1) :
    \/ color[edges[stack[i][1]][j]] = "black"
    \/ i < Len(stack) /\ j = stack[i][2] - 1

Black == {t \in Tasks : color[t] = "black"}

\* From a black task only black tasks are reached, and no cycle is among them.
BlackClosed == \A t \in Black, u \in Tasks : Edge(t, u) => u \in Black
BlackAcyclic ==
  \A S \in SUBSET Black : S # {} => \E t \in S : \A u \in S : ~Edge(u, t)

Searching ==
  FramesDistinct /\ GrayOnStack /\ FrameLinks /\ EdgesDone /\ BlackClosed /\ BlackAcyclic

LEMMA TopOfStack ==
  ASSUME DetectTypes, stack # <<>>
  PROVE  /\ Len(stack) \in Nat \ {0}
         /\ Top \in Tasks \X Nat /\ Top[1] \in Tasks /\ Top[2] \in Nat
         /\ \A i \in 1..Len(stack) :
              stack[i] \in Tasks \X Nat /\ stack[i][1] \in Tasks /\ stack[i][2] \in Nat
         /\ Below \in Seq(Tasks \X Nat) /\ Len(Below) = Len(stack) - 1
         /\ \A i \in 1..(Len(stack) - 1) : Below[i] = stack[i]
         /\ Advanced \in Seq(Tasks \X Nat) /\ Len(Advanced) = Len(stack)
         /\ \A i \in 1..(Len(stack) - 1) : Advanced[i] = stack[i]
         /\ Advanced[Len(stack)] = <<Top[1], Top[2] + 1>>
<1>1. PICK s \in Seq(Tasks \X Nat) : s = stack
  BY DEF DetectTypes
<1>2. PICK n \in Nat \ {0} : n = Len(s)
  BY <1>1, EmptySeq
<1>3. \A i \in 1..n : s[i] \in Tasks \X Nat /\ s[i][1] \in Tasks /\ s[i][2] \in Nat
  BY <1>2, ElementOfSeq, LenProperties
<1>4. PICK b : b = SubSeq(s, 1, n - 1)
  OBVIOUS
<1>5. b \in Seq(Tasks \X Nat) /\ Len(b) = n - 1 /\ \A i \in 1..(n - 1) : b[i] = s[i]
  <2>1. PICK m \in Nat : m = n - 1
    BY ONLY n \in Nat \ {0}
  <2>2. \A i \in 1..m : s[i] \in Tasks \X Nat
    BY <1>2, <1>3, <2>1
  <2>3. /\ SubSeq(s, 1, m) \in Seq(Tasks \X Nat)
        /\ Len(SubSeq(s, 1, m)) = IF 1 <= m THEN m - 1 + 1 ELSE 0
        /\ \A i \in 1..(m - 1 + 1) : SubSeq(s, 1, m)[i] = s[1 + i - 1]
    BY <2>2, SubSeqProperties
  <2> QED
    BY <1>4, <2>1, <2>3
<1>6. /\ s[n] \in Tasks \X Nat
      /\ <<s[n][1], s[n][2] + 1>> \in Tasks \X Nat
  BY <1>2, <1>3
<1>7. PICK a : a = Append(b, <<s[n][1], s[n][2] + 1>>)
  OBVIOUS
<1>8. /\ a \in Seq(Tasks \X Nat) /\ Len(a) = n
      /\ \A i \in 1..(n - 1) : a[i] = s[i]
      /\ a[n] = <<s[n][1], s[n][2] + 1>>
  BY <1>2, <1>4, <1>5, <1>6, <1>7, AppendProperties
<1>9. Top = s[n] /\ Below = b /\ Advanced = a
  BY <1>1, <1>2, <1>4, <1>7 DEF Top, Below, Advanced
<1> QED
  BY <1>1, <1>2, <1>3, <1>4, <1>5, <1>6, <1>8, <1>9

\* The edge the top frame is at.
LEMMA TopEdge ==
  ASSUME EdgesType, DetectTypes, stack # <<>>, Top[2] \in 1..Len(edges[Top[1]])
  PROVE  Target \in Tasks /\ Edge(Top[1], Target)
<1>1. PICK u \in Tasks, k \in Nat : Top[1] = u /\ Top[2] = k
  BY TopOfStack
<1>2. edges[u] \in Seq(Tasks) /\ k \in DOMAIN edges[u]
  BY <1>1, LenProperties DEF EdgesType
<1> QED
  BY <1>1, <1>2, ElementOfSeq DEF Edge, Target
-----------------------------------------------------------------------------
LEMMA TargetOfEdge ==
  ASSUME EdgesType, NEW t \in Tasks, NEW j \in 1..Len(edges[t])
  PROVE  edges[t][j] \in Tasks /\ Edge(t, edges[t][j])
<1>1. edges[t] \in Seq(Tasks) /\ DOMAIN edges[t] = 1..Len(edges[t])
  BY LenProperties DEF EdgesType
<1> QED
  BY <1>1, ElementOfSeq DEF Edge

\* The frames after the top one has gone on to its next edge.
LEMMA AdvancedFrames ==
  ASSUME EdgesType, DetectTypes, Searching, AtEdge
  PROVE  /\ Len(stack) \in Nat \ {0} /\ Len(Advanced) = Len(stack)
         /\ Advanced \in Seq(Tasks \X Nat)
         /\ \A i \in 1..Len(stack) : /\ Advanced[i][1] = stack[i][1]
                                     /\ stack[i][1] \in Tasks /\ stack[i][2] \in Nat
                                     /\ Len(edges[stack[i][1]]) \in Nat
                                     /\ i < Len(stack) => Advanced[i] = stack[i]
         /\ Advanced[Len(stack)][2] = stack[Len(stack)][2] + 1
         /\ stack[Len(stack)][2] \in 1..Len(edges[stack[Len(stack)][1]])
         /\ Target = edges[stack[Len(stack)][1]][stack[Len(stack)][2]]
         /\ Target \in Tasks /\ Edge(stack[Len(stack)][1], Target)
<1>1. stack # <<>> /\ Top = stack[Len(stack)] /\ Top[2] <= Len(edges[Top[1]])
  BY DEF AtEdge, Top
<1>2. /\ Len(stack) \in Nat \ {0} /\ Len(Advanced) = Len(stack)
      /\ Advanced \in Seq(Tasks \X Nat)
      /\ \A i \in 1..Len(stack) : stack[i][1] \in Tasks /\ stack[i][2] \in Nat
      /\ \A i \in 1..(Len(stack) - 1) : Advanced[i] = stack[i]
      /\ Advanced[Len(stack)] = <<Top[1], Top[2] + 1>>
  BY <1>1, TopOfStack
<1>3. \A t \in Tasks : Len(edges[t]) \in Nat
  BY LenProperties DEF EdgesType
<1>4. Len(stack) \in 1..Len(stack)
  BY <1>2
<1>5. stack[Len(stack)][2] \in 1..(Len(edges[stack[Len(stack)][1]]) + 1)
  BY <1>4 DEF Searching, FrameLinks
<1>6. stack[Len(stack)][2] \in 1..Len(edges[stack[Len(stack)][1]])
  BY <1>1, <1>2, <1>3, <1>4, <1>5
<1>7. /\ Target = edges[stack[Len(stack)][1]][stack[Len(stack)][2]]
      /\ Target \in Tasks /\ Edge(stack[Len(stack)][1], Target)
  BY <1>1, <1>6, TopEdge DEF Target
<1>8. \A i \in 1..Len(stack) : i < Len(stack) => i \in 1..(Len(stack) - 1)
  BY <1>2
<1>9. /\ Advanced[Len(stack)][1] = stack[Len(stack)][1]
      /\ Advanced[Len(stack)][2] = stack[Len(stack)][2] + 1
  BY <1>1, <1>2
<1>10. \A i \in 1..Len(stack) : i = Len(stack) \/ i < Len(stack)
  BY <1>2
<1> QED
  BY <1>2, <1>3, <1>6, <1>7, <1>8, <1>9, <1>10

LEMMA SearchSkip ==
  ASSUME EdgesType, DetectTypes, Searching, Skip
  PROVE  DetectTypes' /\ Searching'
<1>1. /\ UNCHANGED <<edges, color, parent, cyclePath>> /\ stack' = Advanced
      /\ AtEdge /\ color[Target] = "black"
  BY DEF Skip
<1>2. PICK n \in Nat \ {0} : n = Len(stack)
  BY <1>1, AdvancedFrames
<1>3. /\ Len(stack') = n /\ stack' \in Seq(Tasks \X Nat)
      /\ \A i \in 1..n : /\ stack'[i][1] = stack[i][1]
                         /\ stack[i][1] \in Tasks /\ stack[i][2] \in Nat
                         /\ Len(edges[stack[i][1]]) \in Nat
                         /\ i < n => stack'[i] = stack[i]
      /\ stack'[n][2] = stack[n][2] + 1
      /\ stack[n][2] \in 1..Len(edges[stack[n][1]])
      /\ Target = edges[stack[n][1]][stack[n][2]]
  BY <1>1, <1>2, AdvancedFrames
<1>4. DetectTypes'
  BY <1>1, <1>3 DEF DetectTypes
<1>5. FramesDistinct' /\ GrayOnStack'
  <2>1. FramesDistinct'
    BY <1>2, <1>3 DEF Searching, FramesDistinct
  <2>2. \A t \in Tasks : (\E i \in 1..n : stack'[i][1] = t)
                       <=> (\E i \in 1..n : stack[i][1] = t)
    BY <1>3
  <2>3. GrayOnStack'
    BY <1>1, <1>2, <1>3, <2>2 DEF Searching, GrayOnStack
  <2> QED
    BY <2>1, <2>3
<1>6. ASSUME NEW i \in 1..n
      PROVE  /\ stack'[i][2] \in 1..(Len(edges[stack'[i][1]]) + 1)
             /\ i < n => /\ stack'[i][2] >= 2
                         /\ edges[stack'[i][1]][stack'[i][2] - 1] = stack'[i + 1][1]
                         /\ parent[stack'[i + 1][1]] = stack'[i][1]
  <2>1. CASE i = n
    BY <1>2, <1>3, <2>1
  <2>2. CASE i < n
    <3>1. i + 1 \in 1..n
      BY <1>2, <2>2
    <3>2. stack'[i] = stack[i] /\ stack'[i + 1][1] = stack[i + 1][1]
      BY <1>3, <2>2, <3>1
    <3> QED
      BY <1>2, <2>2, <3>2 DEF Searching, FrameLinks
  <2> QED
    BY <1>2, <2>1, <2>2
<1>7. FrameLinks'
  BY <1>1, <1>3, <1>6 DEF FrameLinks
<1>8. ASSUME NEW i \in 1..n, NEW j \in 1..(stack'[i][2] - 1)
      PROVE  \/ color[edges[stack'[i][1]][j]] = "black"
             \/ i < n /\ j = stack'[i][2] - 1
  <2>1. CASE i = n
    <3>1. j \in 1..(stack[n][2] - 1) \/ j = stack[n][2]
      BY <1>2, <1>3, <2>1
    <3>2. CASE j \in 1..(stack[n][2] - 1)
      <4>1. n \in 1..n /\ ~(n < n)
        BY <1>2
      <4>2. color[edges[stack[n][1]][j]] = "black"
        BY <1>2, <3>2, <4>1 DEF Searching, EdgesDone
      <4> QED
        BY <1>3, <2>1, <4>2
    <3>3. CASE j = stack[n][2]
      BY <1>1, <1>3, <2>1, <3>3
    <3> QED
      BY <3>1, <3>2, <3>3
  <2>2. CASE i < n
    <3>1. stack'[i] = stack[i]
      BY <1>3, <2>2
    <3> QED
      BY <1>2, <2>2, <3>1 DEF Searching, EdgesDone
  <2> QED
    BY <1>2, <2>1, <2>2
<1>9. EdgesDone'
  <2>1. Len(stack') = n /\ edges' = edges /\ color' = color
    BY <1>1, <1>3
  <2>2. ASSUME NEW i \in 1..Len(stack'), NEW j \in 1..(stack'[i][2] - 1)
        PROVE  \/ color'[edges'[stack'[i][1]][j]] = "black"
               \/ i < Len(stack') /\ j = stack'[i][2] - 1
    BY <1>8, <2>1
  <2> QED
    BY <2>2 DEF EdgesDone
<1>10. BlackClosed' /\ BlackAcyclic'
  BY <1>1 DEF Searching, BlackClosed, BlackAcyclic, Black, Edge
<1> QED
  BY <1>4, <1>5, <1>7, <1>9, <1>10 DEF Searching

\* A white task becomes gray: the black ones are the same.
LEMMA SameBlack ==
  ASSUME DetectTypes, Searching, edges' = edges, NEW t \in Tasks, color[t] # "black",
         color' = [color EXCEPT ![t] = "gray"]
  PROVE  Black' = Black /\ BlackClosed' /\ BlackAcyclic'
<1>1. Black' = Black
  BY DEF Black, DetectTypes
<1>2. BlackClosed'
  BY <1>1 DEF Searching, BlackClosed, Edge
<1>3. BlackAcyclic'
  BY <1>1, SMTT(30) DEF Searching, BlackAcyclic, Edge
<1> QED
  BY <1>1, <1>2, <1>3

LEMMA SearchRoot ==
  ASSUME EdgesType, DetectTypes, Searching, NEW t \in Tasks, Root(t)
  PROVE  DetectTypes' /\ Searching'
<1>1. /\ UNCHANGED <<edges, parent, cyclePath>> /\ stack = <<>>
      /\ stack' = <<<<t, 1>>>> /\ color[t] = "white"
      /\ color' = [color EXCEPT ![t] = "gray"]
  BY DEF Root
<1>2. /\ Len(stack') = 1 /\ stack'[1] = <<t, 1>> /\ Len(stack) = 0
      /\ stack' \in Seq(Tasks \X Nat)
  BY <1>1
<1>3. DetectTypes'
  BY <1>1, <1>2 DEF DetectTypes
<1>4. FramesDistinct'
  BY <1>2 DEF FramesDistinct
<1>5. GrayOnStack'
  BY <1>1, <1>2 DEF GrayOnStack, Searching, DetectTypes
<1>6. FrameLinks'
  <2>1. Len(edges[t]) \in Nat
    BY LenProperties DEF EdgesType
  <2> QED
    BY <1>1, <1>2, <2>1 DEF FrameLinks
<1>7. EdgesDone'
  BY <1>2 DEF EdgesDone
<1> QED
  BY <1>1, <1>3, <1>4, <1>5, <1>6, <1>7, SameBlack DEF Searching

LEMMA SearchDescend ==
  ASSUME EdgesType, DetectTypes, Searching, Descend
  PROVE  DetectTypes' /\ Searching'
<1>1. /\ UNCHANGED <<edges, cyclePath>> /\ stack' = Append(Advanced, <<Target, 1>>)
      /\ AtEdge /\ color[Target] = "white"
      /\ parent' = [parent EXCEPT ![Target] = Top[1]]
      /\ color' = [color EXCEPT ![Target] = "gray"]
  BY DEF Descend
<1>2. PICK n \in Nat \ {0} : n = Len(stack)
  BY <1>1, AdvancedFrames
<1>3. PICK v \in Tasks : v = Target
  BY <1>1, AdvancedFrames
<1>4. /\ Len(Advanced) = n /\ Advanced \in Seq(Tasks \X Nat)
      /\ \A i \in 1..n : /\ Advanced[i][1] = stack[i][1]
                         /\ stack[i][1] \in Tasks /\ stack[i][2] \in Nat
                         /\ Len(edges[stack[i][1]]) \in Nat
                         /\ i < n => Advanced[i] = stack[i]
      /\ Advanced[n][2] = stack[n][2] + 1
      /\ stack[n][2] \in 1..Len(edges[stack[n][1]])
      /\ v = edges[stack[n][1]][stack[n][2]]
  BY <1>1, <1>2, <1>3, AdvancedFrames
<1>5. /\ stack' \in Seq(Tasks \X Nat) /\ Len(stack') = n + 1
      /\ \A i \in 1..n : stack'[i] = Advanced[i]
      /\ stack'[n + 1] = <<v, 1>>
  <2>1. PICK w \in Tasks \X Nat : w = <<v, 1>>
    OBVIOUS
  <2>2. stack' = Append(Advanced, w)
    BY <1>1, <1>3, <2>1
  <2>3. \A i \in 1..Len(Advanced) : Append(Advanced, w)[i] = Advanced[i]
    BY <1>4, AppendProperties
  <2>4. /\ Append(Advanced, w) \in Seq(Tasks \X Nat)
        /\ Len(Append(Advanced, w)) = Len(Advanced) + 1
        /\ Append(Advanced, w)[Len(Advanced) + 1] = w
    BY <1>4, AppendProperties
  <2> QED
    BY <1>4, <2>1, <2>2, <2>3, <2>4
<1>6. /\ \A i \in 1..n : /\ stack'[i][1] = stack[i][1]
                         /\ stack[i][1] # v
                         /\ i < n => stack'[i] = stack[i]
      /\ stack'[n][1] = stack[n][1] /\ stack'[n][2] = stack[n][2] + 1
      /\ stack'[n + 1][1] = v /\ stack'[n + 1][2] = 1
  <2>1. \A i \in 1..n : stack[i][1] # v
    BY <1>1, <1>2, <1>3, <1>4 DEF Searching, GrayOnStack
  <2>2. n \in 1..n
    BY <1>2
  <2>3. \A i \in 1..n : /\ stack'[i][1] = stack[i][1]
                        /\ i < n => stack'[i] = stack[i]
    BY <1>4, <1>5
  <2>4. stack'[n][1] = stack[n][1] /\ stack'[n][2] = stack[n][2] + 1
    BY <1>4, <1>5, <2>2
  <2>5. stack'[n + 1][1] = v /\ stack'[n + 1][2] = 1
    BY <1>5
  <2> QED
    BY <2>1, <2>3, <2>4, <2>5
<1>7. Top[1] = stack[n][1] /\ Top[1] \in Tasks
  BY <1>2, <1>4 DEF Top
<1>8. /\ parent' = [t \in Tasks |-> IF t = v THEN stack[n][1] ELSE parent[t]]
      /\ color' = [t \in Tasks |-> IF t = v THEN "gray" ELSE color[t]]
  BY <1>1, <1>3, <1>7 DEF DetectTypes
<1>9. DetectTypes'
  BY <1>1, <1>4, <1>5, <1>7, <1>8 DEF DetectTypes
<1>10. \A i \in 1..(n + 1) : i \in 1..n \/ i = n + 1
  BY <1>2
<1>11. FramesDistinct'
  BY <1>2, <1>5, <1>6, <1>10, ZenonT(60) DEF Searching, FramesDistinct
<1>12. GrayOnStack'
  <2>1. ASSUME NEW t \in Tasks
        PROVE  (\E i \in 1..(n + 1) : stack'[i][1] = t)
                 <=> t = v \/ (\E i \in 1..n : stack[i][1] = t)
    <3>1. n + 1 \in 1..(n + 1) /\ 1..n \subseteq 1..(n + 1)
      BY <1>2
    <3> QED
      BY <1>6, <1>10, <3>1
  <2>2. \A t \in Tasks : color[t] = "gray" <=> \E i \in 1..n : stack[i][1] = t
    BY <1>2 DEF Searching, GrayOnStack
  <2> QED
    BY <1>5, <1>8, <2>1, <2>2 DEF GrayOnStack
<1>13. ASSUME NEW i \in 1..(n + 1)
       PROVE  /\ stack'[i][2] \in 1..(Len(edges[stack'[i][1]]) + 1)
              /\ i < n + 1 => /\ stack'[i][2] >= 2
                              /\ edges[stack'[i][1]][stack'[i][2] - 1] = stack'[i + 1][1]
                              /\ parent'[stack'[i + 1][1]] = stack'[i][1]
  <2>1. CASE i = n + 1
    <3>1. Len(edges[v]) \in Nat
      BY LenProperties DEF EdgesType
    <3> QED
      BY <1>2, <1>6, <2>1, <3>1
  <2>2. CASE i = n
    <3>1. stack'[n][2] >= 2 /\ stack'[n][2] - 1 = stack[n][2]
      BY <1>2, <1>4, <1>6
    <3>2. stack'[n][2] \in 1..(Len(edges[stack'[n][1]]) + 1)
      BY <1>2, <1>4, <1>6
    <3>3. edges[stack'[n][1]][stack'[n][2] - 1] = v /\ parent'[v] = stack'[n][1]
      BY <1>4, <1>6, <1>8, <3>1
    <3> QED
      BY <1>6, <2>2, <3>1, <3>2, <3>3
  <2>3. CASE i \in 1..(n - 1)
    <3>1. i \in 1..n /\ i + 1 \in 1..n /\ i < n
      BY <1>2, <2>3
    <3>2. /\ stack'[i] = stack[i] /\ stack'[i + 1][1] = stack[i + 1][1]
          /\ stack[i + 1][1] # v /\ stack[i + 1][1] \in Tasks
      BY <1>4, <1>6, <3>1
    <3>3. parent'[stack[i + 1][1]] = parent[stack[i + 1][1]]
      BY <1>8, <3>2
    <3> QED
      BY <1>2, <3>1, <3>2, <3>3 DEF Searching, FrameLinks
  <2> QED
    BY <1>2, <2>1, <2>2, <2>3
<1>14. FrameLinks'
  BY <1>1, <1>5, <1>13 DEF FrameLinks
<1>15. ASSUME NEW i \in 1..(n + 1), NEW j \in 1..(stack'[i][2] - 1)
       PROVE  \/ color'[edges[stack'[i][1]][j]] = "black"
              \/ i < n + 1 /\ j = stack'[i][2] - 1
  <2>1. ASSUME NEW t, color[t] = "black", t \in Tasks
        PROVE  color'[t] = "black"
    BY <1>1, <1>3, <1>8, <2>1
  <2>2. CASE i = n + 1
    BY <1>6, <2>2
  <2>3. CASE i = n
    <3>1. j \in 1..(stack[n][2] - 1) \/ j = stack'[n][2] - 1
      BY <1>2, <1>4, <1>6, <2>3, SMTT(30)
    <3>2. CASE j \in 1..(stack[n][2] - 1)
      <4>1. color[edges[stack[n][1]][j]] = "black"
        BY <1>2, <3>2 DEF Searching, EdgesDone
      <4>2. edges[stack[n][1]][j] \in Tasks
        <5>1. n \in 1..n
          BY <1>2
        <5>2. /\ stack[n][1] \in Tasks /\ Len(edges[stack[n][1]]) \in Nat
              /\ stack[n][2] \in Nat
          BY <1>4, <5>1
        <5>3. j \in 1..Len(edges[stack[n][1]])
          BY <1>4, <3>2, <5>2, SMTT(30)
        <5> QED
          BY <5>2, <5>3, TargetOfEdge
      <4> QED
        BY <1>6, <2>1, <2>3, <4>1, <4>2
    <3> QED
      BY <1>2, <2>3, <3>1, <3>2
  <2>4. CASE i \in 1..(n - 1)
    <3>1. i \in 1..n /\ i < n /\ stack'[i] = stack[i]
      BY <1>2, <1>6, <2>4
    <3>2. \/ color[edges[stack[i][1]][j]] = "black"
          \/ j = stack[i][2] - 1
      BY <1>2, <3>1 DEF Searching, EdgesDone
    <3>3. edges[stack[i][1]][j] \in Tasks
      <4>1. stack[i][2] \in 1..(Len(edges[stack[i][1]]) + 1)
        BY <1>2, <3>1 DEF Searching, FrameLinks
      <4>2. j \in 1..Len(edges[stack[i][1]])
        BY <1>4, <3>1, <4>1
      <4> QED
        BY <1>4, <3>1, <4>2, TargetOfEdge
    <3> QED
      BY <1>2, <2>1, <3>1, <3>2, <3>3
  <2> QED
    BY <1>2, <2>2, <2>3, <2>4
<1>16. EdgesDone'
  BY <1>1, <1>5, <1>15 DEF EdgesDone
<1>17. BlackClosed' /\ BlackAcyclic'
  BY <1>1, <1>3, SameBlack
<1> QED
  BY <1>9, <1>11, <1>12, <1>14, <1>16, <1>17 DEF Searching
-----------------------------------------------------------------------------
\* The task on top is done: all its targets are black, itself included if it
\* were one of them.
LEMMA SearchFinish ==
  ASSUME EdgesType, DetectTypes, Searching, Finish
  PROVE  DetectTypes' /\ Searching'
<1>1. /\ UNCHANGED <<edges, parent, cyclePath>> /\ stack' = Below
      /\ stack # <<>> /\ ~(Top[2] <= Len(edges[Top[1]]))
      /\ color' = [color EXCEPT ![Top[1]] = "black"]
  BY DEF Finish, AtEdge
<1>2. PICK n \in Nat \ {0} : n = Len(stack)
  BY <1>1, TopOfStack
<1>3. PICK v \in Tasks : v = Top[1]
  BY <1>1, TopOfStack
<1>4. /\ \A i \in 1..n : /\ stack[i][1] \in Tasks /\ stack[i][2] \in Nat
                         /\ Len(edges[stack[i][1]]) \in Nat
      /\ stack[n][1] = v /\ n \in 1..n
  <2>1. \A t \in Tasks : Len(edges[t]) \in Nat
    BY LenProperties DEF EdgesType
  <2> QED
    BY <1>1, <1>2, <1>3, <2>1, TopOfStack DEF Top
<1>5. /\ stack' \in Seq(Tasks \X Nat) /\ Len(stack') = n - 1
      /\ \A i \in 1..(n - 1) : stack'[i] = stack[i]
  BY <1>1, <1>2, TopOfStack
<1>6. stack[n][2] = Len(edges[v]) + 1
  <2>1. stack[n][2] \in 1..(Len(edges[v]) + 1)
    BY <1>2, <1>4 DEF Searching, FrameLinks
  <2>2. ~(stack[n][2] <= Len(edges[v]))
    BY <1>1, <1>2, <1>3 DEF Top
  <2> QED
    BY <1>4, <2>1, <2>2
<1>7. \A u \in Tasks : Edge(v, u) => color[u] = "black"
  <2>1. ASSUME NEW j \in DOMAIN edges[v]
        PROVE  color[edges[v][j]] = "black"
    <3>1. j \in 1..Len(edges[v])
      BY LenProperties DEF EdgesType
    <3>2. j \in 1..(stack[n][2] - 1) /\ ~(n < n)
      BY <1>2, <1>4, <1>6, <3>1
    <3> QED
      BY <1>2, <1>4, <3>2 DEF Searching, EdgesDone
  <2> QED
    BY <2>1 DEF Edge
<1>8. color[v] = "gray"
  BY <1>2, <1>4 DEF Searching, GrayOnStack
<1>9. color' = [t \in Tasks |-> IF t = v THEN "black" ELSE color[t]]
  BY <1>1, <1>3 DEF DetectTypes
<1>10. DetectTypes'
  BY <1>1, <1>5, <1>9 DEF DetectTypes
<1>11. \A i \in 1..n : i \in 1..(n - 1) \/ i = n
  BY <1>2
<1>12. \A i \in 1..(n - 1) : i \in 1..n /\ i < n /\ i # n /\ i + 1 \in 1..n
  BY <1>2
<1>13. FramesDistinct'
  BY <1>2, <1>5, <1>12 DEF Searching, FramesDistinct
<1>14. GrayOnStack'
  <2>1. \A i \in 1..(n - 1) : stack[i][1] # v
    BY <1>2, <1>4, <1>12 DEF Searching, FramesDistinct
  <2>2. \A t \in Tasks : color[t] = "gray" <=> \E i \in 1..n : stack[i][1] = t
    BY <1>2 DEF Searching, GrayOnStack
  <2>3. \A t \in Tasks : color'[t] = "gray" <=> \E i \in 1..(n - 1) : stack[i][1] = t
    BY <1>4, <1>9, <1>11, <1>12, <2>1, <2>2
  <2> QED
    BY <1>5, <2>3 DEF GrayOnStack
<1>15. ASSUME NEW i \in 1..(n - 1)
       PROVE  /\ stack'[i][2] \in 1..(Len(edges[stack'[i][1]]) + 1)
              /\ i < n - 1 => /\ stack'[i][2] >= 2
                              /\ edges[stack'[i][1]][stack'[i][2] - 1] = stack'[i + 1][1]
                              /\ parent[stack'[i + 1][1]] = stack'[i][1]
  <2>1. /\ i \in 1..n /\ i < n /\ stack'[i] = stack[i]
        /\ i < n - 1 => stack'[i + 1] = stack[i + 1]
    <3>1. i \in 1..n /\ i < n /\ (i < n - 1 => i + 1 \in 1..(n - 1))
      BY <1>2
    <3> QED
      BY <1>5, <3>1
  <2> QED
    BY <1>2, <2>1 DEF Searching, FrameLinks
<1>16. FrameLinks'
  BY <1>1, <1>5, <1>15 DEF FrameLinks
<1>17. ASSUME NEW i \in 1..(n - 1), NEW j \in 1..(stack'[i][2] - 1)
       PROVE  \/ color'[edges[stack'[i][1]][j]] = "black"
              \/ i < n - 1 /\ j = stack'[i][2] - 1
  <2>1. /\ i \in 1..n /\ i < n /\ stack'[i] = stack[i] /\ stack[i][1] \in Tasks
        /\ Len(edges[stack[i][1]]) \in Nat
    BY <1>2, <1>4, <1>5
  <2>2. \/ color[edges[stack[i][1]][j]] = "black"
        \/ j = stack[i][2] - 1
    BY <1>2, <2>1 DEF Searching, EdgesDone
  <2>3. edges[stack[i][1]][j] \in Tasks
    <3>1. stack[i][2] \in 1..(Len(edges[stack[i][1]]) + 1)
      BY <1>2, <2>1 DEF Searching, FrameLinks
    <3>2. j \in 1..Len(edges[stack[i][1]])
      BY <2>1, <3>1
    <3> QED
      BY <2>1, <3>2, TargetOfEdge
  <2>4. CASE i < n - 1
    BY <1>9, <2>1, <2>2, <2>3, <2>4
  <2>5. CASE i = n - 1
    <3>1. edges[stack[i][1]][stack[i][2] - 1] = v
      <4>1. edges[stack[i][1]][stack[i][2] - 1] = stack[i + 1][1]
        BY <1>2, <2>1 DEF Searching, FrameLinks
      <4>2. i + 1 = n
        BY <1>2, <2>5
      <4> QED
        BY <1>4, <4>1, <4>2
    <3> QED
      BY <1>9, <2>1, <2>2, <2>3, <3>1
  <2> QED
    BY <1>2, <2>4, <2>5
<1>18. EdgesDone'
  BY <1>1, <1>5, <1>17 DEF EdgesDone
<1>19. Black' = Black \cup {v}
  BY <1>9 DEF Black
<1>20. BlackClosed'
  BY <1>1, <1>7, <1>19 DEF Searching, BlackClosed, Black, Edge
<1>21. BlackAcyclic'
  <2>1. ASSUME NEW S \in SUBSET (Black \cup {v}), S # {}
        PROVE  \E t \in S : \A u \in S : ~Edge(u, t)
    <3>1. CASE v \in S
      <4>1. ASSUME NEW u \in S, Edge(u, v)
            PROVE  FALSE
        <5>1. v \notin Black
          BY <1>8 DEF Black
        <5>2. u = v \/ u \in Black
          OBVIOUS
        <5>3. u # v
          BY <1>7, <1>8, <4>1
        <5> QED
          BY <4>1, <5>1, <5>2, <5>3 DEF Searching, BlackClosed
      <4> QED
        BY <3>1, <4>1
    <3>2. CASE v \notin S
      <4>1. S \in SUBSET Black
        BY <3>2
      <4> QED
        BY <2>1, <4>1 DEF Searching, BlackAcyclic
    <3> QED
      BY <3>1, <3>2
  <2> QED
    BY <1>1, <1>19, <2>1 DEF BlackAcyclic, Edge
<1> QED
  BY <1>10, <1>13, <1>14, <1>16, <1>18, <1>20, <1>21 DEF Searching
-----------------------------------------------------------------------------
(* DetectCycle: the path *)

\* The path goes from the gray task that the top frame has met down the
\* frames, towards that of the gray task itself.
Tracing ==
  \E k \in 1..Len(stack) :
    /\ Len(cyclePath) >= 2 /\ Len(stack) - Len(cyclePath) + 2 >= k
    /\ cyclePath[1] = stack[k][1]
    /\ \A i \in 2..Len(cyclePath) :
         cyclePath[i] = stack[Len(stack) - i + 2][1]
    /\ Edge(stack[Len(stack)][1], stack[k][1])

\* What PathIsCycle says of a path.
IsCycle(p) ==
  /\ Len(p) >= 2 /\ p[1] = p[Len(p)]
  /\ \A i \in 1..(Len(p) - 1) : Edge(p[i + 1], p[i])
  /\ \A i, j \in 1..(Len(p) - 1) : p[i] = p[j] => i = j

\* A frame leads to the one above it.
LEMMA FrameEdge ==
  ASSUME EdgesType, DetectTypes, Searching, NEW i \in 1..(Len(stack) - 1)
  PROVE  /\ Edge(stack[i][1], stack[i + 1][1])
         /\ parent[stack[i + 1][1]] = stack[i][1] /\ stack[i][1] \in Tasks
<1>1. PICK n \in Nat : n = Len(stack)
  BY LenProperties DEF DetectTypes
<1>2. /\ i \in 1..n /\ i < n
      /\ stack[i][1] \in Tasks /\ stack[i][2] \in Nat
  <2>1. i \in 1..n /\ i < n /\ n # 0
    BY <1>1
  <2>2. stack # <<>>
    BY <1>1, <2>1
  <2> QED
    BY <1>1, <2>1, <2>2, TopOfStack
<1>3. PICK t \in Tasks, k \in Nat : t = stack[i][1] /\ k = stack[i][2]
  BY <1>2
<1>4. /\ k \in 1..(Len(edges[t]) + 1) /\ k >= 2
      /\ edges[t][k - 1] = stack[i + 1][1]
      /\ parent[stack[i + 1][1]] = t
  BY <1>1, <1>2, <1>3 DEF Searching, FrameLinks
<1>5. Len(edges[t]) \in Nat
  BY LenProperties DEF EdgesType
<1>6. k - 1 \in 1..Len(edges[t])
  BY <1>3, <1>4, <1>5
<1>7. Edge(t, edges[t][k - 1])
  BY <1>6, TargetOfEdge
<1> QED
  BY <1>3, <1>4, <1>7

LEMMA SearchUnchanged ==
  ASSUME Searching, UNCHANGED <<edges, color, parent, stack>>
  PROVE  Searching'
<1>1. FramesDistinct' /\ GrayOnStack'
  BY DEF Searching, FramesDistinct, GrayOnStack
<1>2. FrameLinks'
  BY DEF Searching, FrameLinks
<1>3. EdgesDone'
  BY DEF Searching, EdgesDone
<1>4. BlackClosed' /\ BlackAcyclic'
  BY DEF Searching, BlackClosed, BlackAcyclic, Black, Edge
<1> QED
  BY <1>1, <1>2, <1>3, <1>4 DEF Searching

LEMMA TraceStarts ==
  ASSUME EdgesType, DetectTypes, Searching, Close
  PROVE  DetectTypes' /\ Searching' /\ Tracing'
<1>1. /\ UNCHANGED <<edges, color, parent, stack>> /\ AtEdge
      /\ cyclePath' = <<Target, Top[1]>> /\ color[Target] = "gray"
  BY DEF Close
<1>2. PICK n \in Nat \ {0} : n = Len(stack)
  BY <1>1, AdvancedFrames
<1>3. PICK u \in Tasks, v \in Tasks : u = Target /\ v = Top[1]
  BY <1>1, AdvancedFrames, TopOfStack DEF AtEdge
<1>4. Edge(v, u) /\ stack[n][1] = v /\ color[u] = "gray"
  BY <1>1, <1>2, <1>3, AdvancedFrames DEF Top
<1>5. PICK k \in 1..n : stack[k][1] = u
  BY <1>2, <1>4 DEF Searching, GrayOnStack
<1>6. cyclePath' = <<u, v>> /\ Len(cyclePath') = 2
  BY <1>1, <1>3
<1>7. DetectTypes'
  BY <1>1, <1>6 DEF DetectTypes
<1>8. Searching'
  BY <1>1, SearchUnchanged
<1>9. /\ n - 2 + 2 >= k /\ cyclePath'[1] = stack[k][1]
      /\ \A i \in 2..2 : cyclePath'[i] = stack[n - i + 2][1]
  BY <1>2, <1>4, <1>5, <1>6
<1>10. Tracing'
  BY <1>1, <1>2, <1>4, <1>5, <1>6, <1>9 DEF Tracing, Edge
<1> QED
  BY <1>7, <1>8, <1>10

\* The last task of the path is that of the frame it has come down to.
LEMMA TraceGoesOn ==
  ASSUME EdgesType, DetectTypes, Searching, Tracing, Trace
  PROVE  DetectTypes' /\ Searching' /\ Tracing'
<1>1. /\ UNCHANGED <<edges, color, parent, stack>>
      /\ cyclePath' = Append(cyclePath, parent[cyclePath[Len(cyclePath)]])
      /\ cyclePath[Len(cyclePath)] # cyclePath[1]
  BY DEF Trace, Last
<1>2. PICK n \in Nat, m \in Nat : n = Len(stack) /\ m = Len(cyclePath)
  BY LenProperties DEF DetectTypes
<1>3. PICK k \in 1..n :
        /\ m >= 2 /\ n - m + 2 >= k
        /\ cyclePath[1] = stack[k][1]
        /\ \A i \in 2..m : cyclePath[i] = stack[n - i + 2][1]
        /\ Edge(stack[n][1], stack[k][1])
  BY <1>2 DEF Tracing
<1>4. PICK j \in Nat : j = n - m + 1 /\ j \in 1..(n - 1) /\ j >= k
  <2>1. m \in 2..m /\ cyclePath[m] = stack[n - m + 2][1]
    BY <1>2, <1>3
  <2>2. n - m + 2 # k
    BY <1>1, <1>2, <1>3, <2>1
  <2>3. PICK j \in Int : j = n - m + 1
    OBVIOUS
  <2>4. k \in Nat /\ k >= 1 /\ m >= 2 /\ j + 1 >= k /\ j + 1 # k /\ j <= n - 1
    BY <1>3, <2>2, <2>3
  <2>5. j \in Nat /\ j \in 1..(n - 1) /\ j >= k
    BY <2>4
  <2> QED
    BY <2>3, <2>5
<1>5. cyclePath[m] = stack[j + 1][1]
  <2>1. m \in 2..m /\ n - m + 2 = j + 1
    BY <1>2, <1>3, <1>4
  <2> QED
    BY <1>3, <2>1
<1>6. parent[cyclePath[m]] = stack[j][1] /\ stack[j][1] \in Tasks
  BY <1>2, <1>4, <1>5, FrameEdge
<1>7. /\ cyclePath' \in Seq(Tasks) /\ Len(cyclePath') = m + 1
      /\ \A i \in 1..m : cyclePath'[i] = cyclePath[i]
      /\ cyclePath'[m + 1] = stack[j][1]
  BY <1>1, <1>2, <1>6, AppendProperties DEF DetectTypes
<1>8. DetectTypes'
  BY <1>1, <1>7 DEF DetectTypes
<1>9. Searching'
  BY <1>1, SearchUnchanged
<1>10. ASSUME NEW i \in 2..(m + 1)
       PROVE  cyclePath'[i] = stack[n - i + 2][1]
  <2>1. CASE i = m + 1
    BY <1>2, <1>4, <1>7, <2>1
  <2>2. CASE i \in 2..m
    BY <1>2, <1>3, <1>7, <2>2
  <2> QED
    BY <1>2, <2>1, <2>2
<1>11. m + 1 >= 2 /\ n - (m + 1) + 2 >= k /\ cyclePath'[1] = stack[k][1]
  BY <1>2, <1>3, <1>4, <1>7
<1>12. Tracing'
  BY <1>1, <1>2, <1>3, <1>7, <1>10, <1>11, ZenonT(60) DEF Tracing, Edge
<1> QED
  BY <1>8, <1>9, <1>12

\* The frames from the gray task to the top are a cycle.
LEMMA TracedCycle ==
  ASSUME EdgesType, DetectTypes, Searching, Tracing
  PROVE  HasCycle
<1>1. PICK n \in Nat : n = Len(stack)
  BY LenProperties DEF DetectTypes
<1>2. PICK k \in 1..n : Edge(stack[n][1], stack[k][1])
  BY <1>1 DEF Tracing
<1>3. \A i \in 1..n : stack[i][1] \in Tasks
  BY <1>1, TopOfStack, EmptySeq
<1> DEFINE S == {stack[i][1] : i \in k..n}
<1>4. S \in (SUBSET Tasks) \ {{}}
  <2>1. n \in k..n /\ k..n \subseteq 1..n
    BY <1>1
  <2>2. stack[n][1] \in S
    BY <2>1
  <2>3. S \subseteq Tasks
    BY <1>3, <2>1
  <2> QED
    BY <2>2, <2>3
<1>5. ASSUME NEW i \in k..n
      PROVE  \E u \in S : Edge(u, stack[i][1])
  <2>1. CASE i = k
    <3>1. n \in k..n
      BY <1>1
    <3> QED
      BY <1>2, <2>1, <3>1
  <2>2. CASE i # k
    <3>1. PICK j \in k..n : j \in 1..(n - 1) /\ i = j + 1
      <4>1. i - 1 \in k..n /\ i - 1 \in 1..(n - 1) /\ i = (i - 1) + 1
        BY <1>1, <2>2
      <4> QED
        BY <4>1
    <3>2. Edge(stack[j][1], stack[i][1])
      BY <1>1, <3>1, FrameEdge
    <3> QED
      BY <3>2
  <2> QED
    BY <2>1, <2>2
<1>6. \A t \in S : \E u \in S : Edge(u, t)
  BY <1>5
<1> QED
  BY <1>4, <1>6 DEF HasCycle

\* Where no frame is left below, the path has come back to its start.
LEMMA TraceEnds ==
  ASSUME EdgesType, DetectTypes, Searching, Tracing,
         \/ Last(cyclePath) = Head(cyclePath)
         \/ parent[Last(cyclePath)] = NoTask
  PROVE  IsCycle(cyclePath)
<1>1. \/ cyclePath[Len(cyclePath)] = cyclePath[1]
      \/ parent[cyclePath[Len(cyclePath)]] = NoTask
  BY DEF Last
<1>2. PICK n \in Nat, m \in Nat : n = Len(stack) /\ m = Len(cyclePath)
  BY LenProperties DEF DetectTypes
<1>3. PICK k \in 1..n :
        /\ m >= 2 /\ n - m + 2 >= k
        /\ cyclePath[1] = stack[k][1]
        /\ \A i \in 2..m : cyclePath[i] = stack[n - i + 2][1]
        /\ Edge(stack[n][1], stack[k][1])
  BY <1>2 DEF Tracing
<1>4. \A i, j \in 1..n : stack[i][1] = stack[j][1] => i = j
  BY <1>2 DEF Searching, FramesDistinct
<1>5. PICK q \in 1..n : q = n - m + 2
  BY <1>2, <1>3
<1>6. cyclePath[m] = stack[q][1]
  BY <1>2, <1>3, <1>5
<1>7. q = k
  <2>1. CASE cyclePath[m] = cyclePath[1]
    BY <1>3, <1>4, <1>5, <1>6, <2>1
  <2>2. CASE parent[cyclePath[m]] = NoTask
    <3>1. ASSUME q # k
          PROVE  FALSE
      <4>1. q - 1 \in 1..(n - 1) /\ q = (q - 1) + 1
        BY <1>2, <1>3, <1>5, <3>1
      <4>2. PICK j \in 1..(n - 1) : q = j + 1
        BY <4>1
      <4>3. parent[cyclePath[m]] \in Tasks
        BY <1>2, <1>6, <4>2, FrameEdge
      <4> QED
        BY <2>2, <4>3, DagGraphAssumption DEF NoTask
    <3> QED
      BY <3>1
  <2> QED
    BY <1>1, <1>2, <2>1, <2>2
<1>8. cyclePath[1] = cyclePath[m]
  BY <1>3, <1>6, <1>7
<1>9. ASSUME NEW i \in 1..(m - 1)
      PROVE  Edge(cyclePath[i + 1], cyclePath[i])
  <2>1. CASE i = 1
    <3>1. cyclePath[2] = stack[n][1]
      BY <1>2, <1>3
    <3> QED
      BY <1>3, <2>1, <3>1
  <2>2. CASE i # 1
    <3>1. /\ i \in 2..m /\ i + 1 \in 2..m
          /\ n - i + 1 \in 1..(n - 1) /\ n - (i + 1) + 2 = n - i + 1
          /\ n - i + 2 = (n - i + 1) + 1
      BY <1>2, <1>3, <1>5, <2>2
    <3>2. PICK j \in 1..(n - 1) : j = n - i + 1
      BY <3>1
    <3>3. cyclePath[i] = stack[j + 1][1] /\ cyclePath[i + 1] = stack[j][1]
      BY <1>3, <3>1, <3>2
    <3> QED
      BY <1>2, <3>3, FrameEdge
  <2> QED
    BY <2>1, <2>2
<1>10. ASSUME NEW i \in 1..(m - 1)
       PROVE  \E a \in 1..n : /\ cyclePath[i] = stack[a][1]
                             /\ a = IF i = 1 THEN k ELSE n - i + 2
  <2>1. CASE i = 1
    BY <1>3, <2>1
  <2>2. CASE i # 1
    <3>1. i \in 2..m /\ n - i + 2 \in 1..n
      BY <1>2, <1>3, <1>5, <2>2
    <3> QED
      BY <1>3, <2>2, <3>1
  <2> QED
    BY <2>1, <2>2
<1>11. ASSUME NEW i \in 1..(m - 1), NEW j \in 1..(m - 1), cyclePath[i] = cyclePath[j]
       PROVE  i = j
  <2>1. PICK a \in 1..n : cyclePath[i] = stack[a][1] /\ a = IF i = 1 THEN k ELSE n - i + 2
    BY <1>10
  <2>2. PICK b \in 1..n : cyclePath[j] = stack[b][1] /\ b = IF j = 1 THEN k ELSE n - j + 2
    BY <1>10
  <2>3. a = b
    BY <1>4, <1>11, <2>1, <2>2, ZenonT(60)
  <2> QED
    <3>1. CASE i = 1 \/ j = 1
      BY <1>2, <1>3, <1>5, <1>7, <2>1, <2>2, <2>3, <3>1
    <3>2. CASE i # 1 /\ j # 1
      <4>1. n - i + 2 = n - j + 2
        BY <2>1, <2>2, <2>3, <3>2, Zenon
      <4>2. i \in Int /\ j \in Int /\ n \in Int
        BY <1>2
      <4> QED
        BY ONLY <4>1, <4>2
    <3> QED
      BY <3>1, <3>2
<1> QED
  BY <1>2, <1>3, <1>8, <1>9, <1>11 DEF IsCycle
-----------------------------------------------------------------------------
Answered ==
  /\ cyclePath # <<>> <=> HasCycle
  /\ cyclePath # <<>> => IsCycle(cyclePath)

DetectInv ==
  /\ EdgesType /\ DetectTypes
  /\ phase = "build" => stack = <<>> /\ \A t \in Tasks : color[t] = "white"
  /\ phase \in {"dfs", "trace"} => Searching
  /\ phase \in {"build", "dfs"} => cyclePath = <<>>
  /\ phase = "trace" => Tracing
  /\ phase \in {"sort", "end"} => Answered

LEMMA DetectInvInit == Init => DetectInv
  BY EdgesInit DEF Init, DetectInv, DetectTypes

\* The answer when DetectCycle returns.
LEMMA AnswerFound ==
  ASSUME DetectInv, Detected
  PROVE  Answered
<1>0. EdgesType /\ DetectTypes
  BY DEF DetectInv
<1>1. CASE phase = "dfs" /\ stack = <<>> /\ \A t \in Tasks : color[t] # "white"
  <2>1. cyclePath = <<>> /\ GrayOnStack /\ BlackAcyclic
    BY <1>1 DEF DetectInv, Searching
  <2>2. \A t \in Tasks : color[t] # "gray"
    <3>1. Len(stack) = 0
      BY <1>1
    <3> QED
      BY <2>1, <3>1 DEF GrayOnStack
  <2>3. Black = Tasks
    BY <1>0, <1>1, <2>2 DEF Black, DetectTypes
  <2>4. ~HasCycle
    BY <2>1, <2>3 DEF HasCycle, BlackAcyclic
  <2> QED
    BY <2>1, <2>4 DEF Answered
<1>2. CASE /\ phase = "trace"
           /\ Last(cyclePath) = Head(cyclePath) \/ parent[Last(cyclePath)] = NoTask
  <2>1. Searching /\ Tracing
    BY <1>2 DEF DetectInv
  <2>2. HasCycle /\ IsCycle(cyclePath)
    BY <1>0, <1>2, <2>1, TracedCycle, TraceEnds
  <2>3. cyclePath # <<>>
    <3>1. Len(cyclePath) >= 2
      BY <2>1 DEF Tracing
    <3> QED
      BY <3>1
  <2> QED
    BY <2>2, <2>3 DEF Answered
<1> QED
  BY <1>1, <1>2 DEF Detected

\* Sorting slices changes neither what is a cycle nor whether there is one.
LEMMA AnswerStays ==
  ASSUME EdgesType, DetectTypes, Answered, cyclePath' = cyclePath,
         \A t \in Tasks : \A u : Edge(t, u)' <=> Edge(t, u)
  PROVE  Answered'
<1>1. HasCycle' <=> HasCycle
  BY DEF HasCycle
<1>2. ASSUME IsCycle(cyclePath)
      PROVE  IsCycle(cyclePath)'
  <2>1. PICK m \in Nat : m = Len(cyclePath)
    BY LenProperties DEF DetectTypes
  <2>2. \A i \in 1..m : cyclePath[i] \in Tasks
    BY <2>1, ElementOfSeq DEF DetectTypes
  <2>3. ASSUME NEW i \in 1..(m - 1)
        PROVE  Edge(cyclePath[i + 1], cyclePath[i])'
    <3>1. i \in 1..m /\ i + 1 \in 1..m
      BY <2>1
    <3>2. PICK t \in Tasks, u \in Tasks : t = cyclePath[i + 1] /\ u = cyclePath[i]
      BY <2>2, <3>1
    <3>3. Edge(t, u)
      BY <1>2, <2>1, <3>2 DEF IsCycle
    <3>4. Edge(t, u)'
      BY <3>3
    <3> QED
      BY <3>2, <3>4 DEF Edge
  <2> QED
    BY <1>2, <2>1, <2>3 DEF IsCycle
<1> QED
  BY <1>1, <1>2 DEF Answered

LEMMA DetectInvNext ==
  ASSUME DetectInv, [Next]_vars
  PROVE  DetectInv'
<1>0. EdgesType /\ DetectTypes /\ EdgesType'
  BY EdgesNext DEF DetectInv
<1>1. CASE UNCHANGED vars
  <2>1. UNCHANGED <<edges, phase, color, parent, stack, cyclePath>>
    BY <1>1 DEF vars, detectVars
  <2>2. phase \in {"dfs", "trace"} => Searching'
    BY <2>1, SearchUnchanged DEF DetectInv
  <2>3. phase = "trace" => Tracing'
    BY <2>1 DEF DetectInv, Tracing, Edge
  <2>4. phase \in {"sort", "end"} => Answered'
    BY <1>0, <2>1, AnswerStays DEF DetectInv, Edge
  <2> QED
    BY <1>0, <2>1, <2>2, <2>3, <2>4 DEF DetectInv, DetectTypes
<1>2. ASSUME NEW t \in Tasks, NEW u \in Tasks, AddEdge(t, u)
      PROVE  DetectInv'
  BY <1>0, <1>2 DEF AddEdge, detectVars, DetectInv, DetectTypes
<1>3. CASE StartDetect
  <2>1. /\ phase = "build" /\ phase' = "dfs"
        /\ UNCHANGED <<edges, color, parent, stack, cyclePath>>
    BY <1>3 DEF StartDetect, detectVars
  <2>2. stack = <<>> /\ Len(stack) = 0 /\ \A t \in Tasks : color[t] = "white"
    BY <2>1 DEF DetectInv
  <2>3. Searching
    <3>1. Black = {}
      BY <2>2 DEF Black
    <3> QED
      BY <2>2, <3>1 DEF Searching, FramesDistinct, GrayOnStack, FrameLinks, EdgesDone,
         BlackClosed, BlackAcyclic
  <2> QED
    BY <1>0, <2>1, <2>3, SearchUnchanged DEF DetectInv, DetectTypes
<1>4. ASSUME NEW t \in Tasks, Root(t)
      PROVE  DetectInv'
  <2>1. phase = "dfs" /\ phase' = phase /\ cyclePath' = cyclePath
    BY <1>4 DEF Root
  <2>2. DetectTypes' /\ Searching'
    BY <1>0, <1>4, <2>1, SearchRoot DEF DetectInv
  <2> QED
    BY <1>0, <2>1, <2>2 DEF DetectInv
<1>5. CASE Descend \/ Skip \/ Finish
  <2>1. phase = "dfs" /\ phase' = phase /\ cyclePath' = cyclePath
    BY <1>5 DEF Descend, Skip, Finish, AtEdge
  <2>2. Searching
    BY <2>1 DEF DetectInv
  <2>3. DetectTypes' /\ Searching'
    BY <1>0, <1>5, <2>2, SearchDescend, SearchSkip, SearchFinish
  <2> QED
    BY <1>0, <2>1, <2>3 DEF DetectInv
<1>6. CASE Close
  <2>1. phase = "dfs" /\ phase' = "trace"
    BY <1>6 DEF Close, AtEdge
  <2>2. DetectTypes' /\ Searching' /\ Tracing'
    BY <1>0, <1>6, <2>1, TraceStarts DEF DetectInv
  <2> QED
    BY <1>0, <2>1, <2>2 DEF DetectInv
<1>7. CASE Trace
  <2>1. phase = "trace" /\ phase' = phase
    BY <1>7 DEF Trace
  <2>2. DetectTypes' /\ Searching' /\ Tracing'
    BY <1>0, <1>7, <2>1, TraceGoesOn DEF DetectInv
  <2> QED
    BY <1>0, <2>1, <2>2 DEF DetectInv
<1>8. CASE StartSort
  <2>1. /\ phase' = "sort"
        /\ UNCHANGED <<edges, color, parent, stack, cyclePath>>
    BY <1>8 DEF StartSort, detectVars
  <2>2. Answered
    BY <1>8, AnswerFound DEF StartSort
  <2>3. Answered'
    BY <1>0, <2>1, <2>2, AnswerStays DEF Edge
  <2> QED
    BY <1>0, <2>1, <2>3 DEF DetectInv, DetectTypes
<1>9. CASE Visit \/ SortEnds
  <2>1. /\ phase = "sort" /\ phase' \in {"sort", "end"}
        /\ UNCHANGED <<color, parent, stack, cyclePath>>
    BY <1>9 DEF Visit, SortEnds, detectVars
  <2>2. \A t \in Tasks : \A u : Edge(t, u)' <=> Edge(t, u)
    BY <1>0, <2>1, EdgesNext
  <2>3. Answered'
    BY <1>0, <2>1, <2>2, AnswerStays DEF DetectInv
  <2> QED
    BY <1>0, <2>1, <2>3 DEF DetectInv, DetectTypes
<1>10. CASE Query
  <2>1. /\ phase' \in {"walk", "walked"}
        /\ UNCHANGED <<color, parent, stack, cyclePath>>
    BY <1>10 DEF Query, StartWalk, Walk, WalkEnds, detectVars
  <2> QED
    BY <1>0, <2>1 DEF DetectInv, DetectTypes
<1> QED
  BY <1>1, <1>2, <1>3, <1>4, <1>5, <1>6, <1>7, <1>8, <1>9, <1>10 DEF Next, Detect, Sort

LEMMA DetectAlways == Spec => []DetectInv
<1>1. DetectInv /\ [Next]_vars => DetectInv'
  BY DetectInvNext
<1> QED
  BY <1>1, DetectInvInit, PTL DEF Spec

\* DetectCycle answers with a path exactly when the graph has a cycle, for
\* every graph, wherever the search starts and however the edges are stored.
THEOREM DetectTheorem == Spec => []DetectsCycles
<1>1. DetectInv => DetectsCycles
  BY DEF DetectInv, Answered, DetectsCycles
<1> QED
  BY <1>1, DetectAlways, PTL

\* The path it answers with is a cycle of the graph.
THEOREM PathTheorem == Spec => []PathIsCycle
<1>1. DetectInv => PathIsCycle
  BY DEF DetectInv, Answered, IsCycle, PathIsCycle
<1> QED
  BY <1>1, DetectAlways, PTL
-----------------------------------------------------------------------------
(* TopologicalSort *)

Done == {ordered[i] : i \in 1..Len(ordered)}
Queued == {queue[i] : i \in 1..Len(queue)}

\* The edges into t whose sources are not in the order yet.
Open(t) == {e \in InEdges(t) : e[1] \notin Done}

SortTypes ==
  /\ inDegree \in [Tasks -> Nat]
  /\ queue \in Seq(Tasks) /\ ordered \in Seq(Tasks)

\* The counters count those edges, and reach zero for the tasks of the order
\* and the work list.
CountersRight ==
  /\ \A t \in Tasks : inDegree[t] = Cardinality(Open(t))
  /\ \A t \in Tasks : inDegree[t] = 0 <=> t \in Done \cup Queued

\* Each of those is there once.
EachOnce ==
  /\ \A i, j \in 1..Len(ordered) : ordered[i] = ordered[j] => i = j
  /\ \A i, j \in 1..Len(queue) : queue[i] = queue[j] => i = j
  /\ Done \cap Queued = {}

\* The sources of the edges into a task of the order are before it.
SourcesFirst ==
  \A j \in 1..Len(ordered), u \in Tasks :
    Edge(u, ordered[j]) => \E i \in 1..(j - 1) : ordered[i] = u

SortInv ==
  /\ EdgesType
  /\ SortTypes
  /\ phase \notin {"sort", "end"} => ordered = <<>>
  /\ phase \in {"sort", "end"} => CountersRight /\ EachOnce /\ SourcesFirst
  /\ phase = "end" => queue = <<>>

LEMMA SortInvInit == Init => SortInv
  BY EdgesInit DEF Init, SortInv, SortTypes

LEMMA SortedSet ==
  ASSUME NEW S \in SUBSET Tasks, NEW q \in Sorted(S)
  PROVE  /\ q \in Seq(Tasks) /\ S = {q[i] : i \in 1..Len(q)}
         /\ \A i, j \in 1..Len(q) : q[i] = q[j] => i = j
<1>1. PICK n \in Nat : n = Cardinality(S)
  BY DagGraphAssumption, FS_Subset, FS_CardinalityType
<1>2. /\ q \in [1..n -> S]
      /\ \A i, j \in 1..n : i < j => q[i] < q[j]
      /\ \A x \in S : \E i \in 1..n : q[i] = x
  BY <1>1 DEF Sorted
<1>3. q \in [1..n -> Tasks]
  BY <1>2
<1>4. q \in Seq(Tasks)
  BY <1>3, SeqDef
<1>5. Len(q) = n
  <2>1. Len(q) \in Nat /\ 1..Len(q) = 1..n
    BY <1>3, <1>4, LenProperties
  <2> QED
    BY <2>1
<1>6. \A i \in 1..n : q[i] \in Nat
  BY <1>3, DagGraphAssumption
<1>7. \A i, j \in 1..n : q[i] = q[j] => i = j
  BY <1>2, <1>6, SMTT(30)
<1> QED
  BY <1>2, <1>4, <1>5, <1>7

LEMMA OpenFinite ==
  ASSUME EdgesType, NEW t \in Tasks
  PROVE  /\ IsFiniteSet(Open(t)) /\ Cardinality(Open(t)) \in Nat
         /\ Cardinality(Open(t)) = 0 <=> Open(t) = {}
         /\ IsFiniteSet(InEdges(t)) /\ Cardinality(InEdges(t)) \in Nat
<1>1. IsFiniteSet(AllEdges)
  BY AllEdgesFinite
<1>2. InEdges(t) \in SUBSET AllEdges /\ Open(t) \in SUBSET AllEdges
  BY DEF InEdges, Open
<1>3. IsFiniteSet(InEdges(t)) /\ IsFiniteSet(Open(t))
  BY <1>1, <1>2, FS_Subset
<1> QED
  BY <1>3, FS_CardinalityType, FS_EmptySet

\* An edge into t is open when its source is not done.
LEMMA OpenEdges ==
  ASSUME EdgesType, NEW t \in Tasks
  PROVE  Open(t) # {} <=> \E u \in Tasks \ Done : Edge(u, t)
<1>1. ASSUME NEW e \in Open(t)
      PROVE  e[1] \in Tasks \ Done /\ Edge(e[1], t)
  BY DEF Open, InEdges, AllEdges, Edge
<1>2. ASSUME NEW u \in Tasks \ Done, Edge(u, t)
      PROVE  Open(t) # {}
  <2>1. PICK i \in DOMAIN edges[u] : edges[u][i] = t
    BY <1>2 DEF Edge
  <2>2. <<u, i>> \in AllEdges
    BY DEF AllEdges
  <2>3. <<u, i>> \in Open(t)
    BY <2>1, <2>2 DEF Open, InEdges
  <2> QED
    BY <2>3
<1> QED
  BY <1>1, <1>2

LEMMA SortStarts ==
  ASSUME SortInv, StartSort
  PROVE  SortInv'
<1>1. /\ phase' = "sort" /\ UNCHANGED <<edges, ordered>>
      /\ inDegree' = InDegree /\ queue' \in Sorted(GetRoots)
      /\ phase \notin {"sort", "end"}
  BY DEF StartSort, detectVars, Detected
<1>2. ordered = <<>> /\ Len(ordered) = 0 /\ EdgesType
  BY <1>1 DEF SortInv
<1>3. Done = {} /\ Done' = {}
  BY <1>1, <1>2 DEF Done
<1>4. \A t \in Tasks : Open(t)' = InEdges(t)
  BY <1>1, <1>3 DEF Open, InEdges, AllEdges
<1>5. \A t \in Tasks : inDegree'[t] = Cardinality(InEdges(t))
  BY <1>1 DEF InDegree
<1>6. GetRoots \in SUBSET Tasks
  BY DEF GetRoots
<1>7. /\ queue' \in Seq(Tasks) /\ Queued' = GetRoots
      /\ \A i, j \in 1..Len(queue') : queue'[i] = queue'[j] => i = j
  BY <1>1, <1>6, SortedSet DEF Queued
<1>8. CountersRight'
  <2>1. \A t \in Tasks : inDegree'[t] = 0 <=> t \in GetRoots
    BY <1>1 DEF GetRoots, InDegree
  <2> QED
    BY <1>3, <1>4, <1>5, <1>7, <2>1 DEF CountersRight
<1>9. EachOnce' /\ SourcesFirst'
  BY <1>1, <1>2, <1>3, <1>7 DEF EachOnce, SourcesFirst
<1>10. SortTypes'
  <2>1. \A t \in Tasks : Cardinality(InEdges(t)) \in Nat
    BY <1>2, OpenFinite
  <2> QED
    BY <1>1, <1>2, <1>7, <2>1 DEF SortTypes, InDegree
<1> QED
  BY <1>1, <1>2, <1>8, <1>9, <1>10 DEF SortInv, EdgesType
-----------------------------------------------------------------------------
\* The edges from c into t are as many as the slice of c has places with t.
LEMMA EdgesFrom ==
  ASSUME EdgesType, NEW c \in Tasks, NEW t \in Tasks
  PROVE  LET K == {i \in DOMAIN edges[c] : edges[c][i] = t}
             F == {e \in InEdges(t) : e[1] = c}
         IN  /\ IsFiniteSet(F) /\ Cardinality(F) \in Nat
             /\ Cardinality(F) = Cardinality(K)
             /\ ~Edge(c, t) => F = {}
<1> DEFINE K == {i \in DOMAIN edges[c] : edges[c][i] = t}
           F == {e \in InEdges(t) : e[1] = c}
           f == [e \in F |-> e[2]]
<1>1. IsFiniteSet(F) /\ Cardinality(F) \in Nat
  BY OpenFinite, FS_Subset, FS_CardinalityType
<1>2. \A e \in F : e[1] = c /\ e[2] \in K /\ e = <<c, e[2]>>
  BY DEF InEdges, AllEdges
<1>3. \A i \in K : <<c, i>> \in F
  BY DEF InEdges, AllEdges
<1>4. f \in [F -> K]
  BY <1>2
<1>5. \A i \in K : \E e \in F : f[e] = i
  BY <1>3
<1>6. \A e, g \in F : f[e] = f[g] => e = g
  BY <1>2
<1>7. f \in Bijection(F, K)
  <2>1. f \in Injection(F, K)
    BY <1>4, <1>6 DEF Injection, IsInjective
  <2>2. f \in Surjection(F, K)
    BY <1>4, <1>5 DEF Surjection
  <2> QED
    BY <2>1, <2>2 DEF Bijection
<1> HIDE DEF K, F, f
<1>8. Cardinality(F) = Cardinality(K)
  BY <1>1, <1>7, FS_Bijection DEF ExistsBijection
<1>9. ~Edge(c, t) => F = {}
  BY <1>2 DEF Edge, K
<1> QED
  BY <1>1, <1>8, <1>9 DEF K, F

\* What leaves the work list comes last in the order.
LEMMA VisitOrder ==
  ASSUME SortInv, Visit, phase = "sort"
  PROVE  \E c \in Tasks, n \in Nat :
           /\ c = Head(queue) /\ c \in Queued /\ c \notin Done
           /\ ordered' \in Seq(Tasks) /\ n = Len(ordered) /\ Len(ordered') = n + 1
           /\ \A i \in 1..n : ordered'[i] = ordered[i]
           /\ ordered'[n + 1] = c
           /\ Done' = Done \cup {c}
           /\ \A i \in 1..Len(Tail(queue)) : Tail(queue)[i] = queue[i + 1]
           /\ Tail(queue) \in Seq(Tasks) /\ Len(Tail(queue)) = Len(queue) - 1
           /\ \A i, j \in 1..Len(Tail(queue)) : Tail(queue)[i] = Tail(queue)[j] => i = j
           /\ {Tail(queue)[i] : i \in 1..Len(Tail(queue))} = Queued \ {c}
<1>1. queue \in Seq(Tasks) /\ queue # <<>> /\ ordered \in Seq(Tasks) /\ EachOnce
  BY DEF Visit, SortInv, SortTypes
<1>2. PICK c \in Tasks : c = Head(queue) /\ c = queue[1]
  BY <1>1, HeadTailProperties
<1>3. PICK m \in Nat \ {0} : m = Len(queue)
  BY <1>1, EmptySeq
<1>4. PICK T \in Seq(Tasks) : /\ T = Tail(queue) /\ Len(T) = m - 1
                              /\ \A i \in 1..(m - 1) : T[i] = queue[i + 1]
  <2>1. /\ Tail(queue) \in Seq(Tasks) /\ Len(Tail(queue)) = Len(queue) - 1
        /\ \A i \in 1..Len(Tail(queue)) : Tail(queue)[i] = queue[i + 1]
    BY <1>1, HeadTailProperties
  <2> QED
    BY <1>3, <2>1
<1>5. c \in Queued /\ c \notin Done
  <2>1. 1 \in 1..m
    BY <1>3
  <2>2. c \in Queued
    BY <1>2, <1>3, <2>1 DEF Queued
  <2> QED
    BY <1>1, <2>2 DEF EachOnce
<1>6. PICK n \in Nat : n = Len(ordered)
  BY <1>1, LenProperties
<1>7. ordered' = Append(ordered, c)
  BY <1>2 DEF Visit
<1>8. /\ ordered' \in Seq(Tasks) /\ Len(ordered') = n + 1
      /\ \A i \in 1..n : ordered'[i] = ordered[i]
      /\ ordered'[n + 1] = c
  BY <1>1, <1>6, <1>7, AppendProperties
<1>9. Done' = Done \cup {c}
  <2>1. \A i \in 1..(n + 1) : i \in 1..n \/ i = n + 1
    BY <1>6
  <2>2. 1..n \subseteq 1..(n + 1) /\ n + 1 \in 1..(n + 1)
    BY <1>6
  <2>3. Done' = {ordered'[i] : i \in 1..(n + 1)} /\ Done = {ordered[i] : i \in 1..n}
    BY <1>6, <1>8 DEF Done
  <2> QED
    BY <1>8, <2>1, <2>2, <2>3
<1>10. \A i, j \in 1..m : queue[i] = queue[j] => i = j
  BY <1>1, <1>3 DEF EachOnce
<1>11. \A i \in 1..(m - 1) : i + 1 \in 1..m /\ i + 1 # 1
  BY <1>3
<1>12. \A i, j \in 1..(m - 1) : T[i] = T[j] => i = j
  <2> SUFFICES ASSUME NEW i \in 1..(m - 1), NEW j \in 1..(m - 1), T[i] = T[j]
               PROVE  i = j
    OBVIOUS
  <2>1. i + 1 = j + 1
    BY <1>4, <1>10, <1>11
  <2> QED
    BY <1>3, <2>1
<1>13. {T[i] : i \in 1..(m - 1)} = Queued \ {c}
  <2>1. Queued = {queue[i] : i \in 1..m}
    BY <1>3 DEF Queued
  <2>2. \A i \in 1..(m - 1) : T[i] \in Queued \ {c}
    BY <1>2, <1>3, <1>4, <1>10, <1>11, <2>1
  <2>3. ASSUME NEW t \in Queued \ {c}
        PROVE  t \in {T[i] : i \in 1..(m - 1)}
    <3>1. PICK i \in 1..m : queue[i] = t
      BY <2>1
    <3>2. i # 1
      BY <1>2, <3>1
    <3>3. PICK j \in 1..(m - 1) : i = j + 1
      <4>1. i - 1 \in 1..(m - 1) /\ i = (i - 1) + 1
        BY <1>3, <3>2
      <4> QED
        BY <4>1
    <3> QED
      BY <1>4, <3>1, <3>3
  <2> QED
    BY <2>2, <2>3
<1> QED
  BY <1>2, <1>3, <1>4, <1>5, <1>6, <1>8, <1>9, <1>12, <1>13

\* The counters go on counting the open edges.
LEMMA VisitCounts ==
  ASSUME SortInv, CountersRight, NEW c \in Tasks, c \notin Done, c = Head(queue),
         Visit, Done' = Done \cup {c}, NEW t \in Tasks
  PROVE  /\ inDegree'[t] = Cardinality(Open(t)') /\ inDegree'[t] \in Nat
         /\ inDegree'[t] = 0 <=> Open(t)' = {}
         /\ Open(t)' \subseteq Open(t)
         /\ ~Edge(c, t) => Open(t)' = Open(t)
<1> DEFINE K == {i \in DOMAIN edges[c] : edges[c][i] = t}
           F == {e \in InEdges(t) : e[1] = c}
<1>1. EdgesType /\ EdgesType' /\ SortTypes
  <2>1. [Next]_vars
    BY DEF Next, Sort
  <2> QED
    BY <2>1, EdgesNext DEF SortInv
<1>2. inDegree'[t] = inDegree[t] - Cardinality(K)
  BY DEF Visit
<1>3. PICK slice \in SortedSlice(edges[c]) : edges' = [edges EXCEPT ![c] = slice]
  BY DEF Visit
<1>4. DOMAIN slice = DOMAIN edges[c]
  BY <1>1, SliceSorted DEF EdgesType
<1>5. edges' = [u \in Tasks |-> IF u = c THEN slice ELSE edges[u]]
  BY <1>1, <1>3 DEF EdgesType
<1>6. AllEdges' = AllEdges
  BY <1>4, <1>5 DEF AllEdges
<1>7. \A e \in AllEdges : e[1] \in Tasks /\ (e[1] # c => edges'[e[1]] = edges[e[1]])
  BY <1>5 DEF AllEdges
<1>8. Open(t)' = Open(t) \ F
  BY <1>6, <1>7 DEF Open, InEdges
<1>9. F \subseteq Open(t)
  BY DEF Open
<1>10. /\ IsFiniteSet(F) /\ Cardinality(F) \in Nat /\ Cardinality(F) = Cardinality(K)
       /\ ~Edge(c, t) => F = {}
  BY <1>1, EdgesFrom
<1> HIDE DEF K, F
<1>11. IsFiniteSet(Open(t)) /\ Cardinality(Open(t)) \in Nat
  BY <1>1, OpenFinite
<1>12. PICK O : O = Open(t)
  OBVIOUS
<1>13. Cardinality(O \ F) = Cardinality(O) - Cardinality(F)
  <2>1. O \cap F = F
    BY <1>9, <1>12
  <2>2. IsFiniteSet(O)
    BY <1>11, <1>12
  <2>3. Cardinality(O \ F) = Cardinality(O) - Cardinality(O \cap F)
    BY <1>10, <2>2, FS_Difference
  <2> QED
    BY <2>1, <2>3
<1>14. IsFiniteSet(O \ F)
  <2>1. IsFiniteSet(O)
    BY <1>11, <1>12
  <2> QED
    BY <2>1, FS_Difference
<1>15. inDegree[t] = Cardinality(O)
  BY <1>12 DEF CountersRight
<1>16. inDegree'[t] = Cardinality(O \ F)
  BY <1>2, <1>10, <1>13, <1>15
<1>17. Cardinality(O \ F) \in Nat /\ (Cardinality(O \ F) = 0 <=> O \ F = {})
  BY <1>14, FS_CardinalityType, FS_EmptySet
<1> QED
  BY <1>8, <1>10, <1>12, <1>16, <1>17

LEMMA SortVisits ==
  ASSUME SortInv, Visit
  PROVE  SortInv'
<1>1. /\ phase = "sort" /\ phase' = phase /\ CountersRight /\ EachOnce /\ SourcesFirst
      /\ EdgesType /\ SortTypes
  BY DEF Visit, SortInv
<1>2. EdgesType' /\ \A t \in Tasks : \A u : Edge(t, u)' <=> Edge(t, u)
  <2>1. [Next]_vars
    BY DEF Next, Sort
  <2> QED
    BY <1>1, <2>1, EdgesNext
<1>3. PICK c \in Tasks, n \in Nat :
        /\ c = Head(queue) /\ c \in Queued /\ c \notin Done
        /\ ordered' \in Seq(Tasks) /\ n = Len(ordered) /\ Len(ordered') = n + 1
        /\ \A i \in 1..n : ordered'[i] = ordered[i]
        /\ ordered'[n + 1] = c
        /\ Done' = Done \cup {c}
        /\ Tail(queue) \in Seq(Tasks)
        /\ \A i, j \in 1..Len(Tail(queue)) : Tail(queue)[i] = Tail(queue)[j] => i = j
        /\ {Tail(queue)[i] : i \in 1..Len(Tail(queue))} = Queued \ {c}
  BY <1>1, VisitOrder
<1>4. \A t \in Tasks :
        /\ inDegree'[t] = Cardinality(Open(t)') /\ inDegree'[t] \in Nat
        /\ inDegree'[t] = 0 <=> Open(t)' = {}
        /\ Open(t)' \subseteq Open(t)
        /\ ~Edge(c, t) => Open(t)' = Open(t)
  BY <1>1, <1>3, VisitCounts
<1>5. \A t \in Tasks : inDegree[t] = 0 <=> Open(t) = {}
  BY <1>1, OpenFinite DEF CountersRight
<1> DEFINE New == {t \in Tasks : Edge(c, t) /\ inDegree'[t] = 0}
<1>6. PICK q \in Sorted(New) : queue' = Tail(queue) \o q
  BY <1>3 DEF Visit
<1>7. \A t \in New : t \notin Done \cup Queued
  <2> SUFFICES ASSUME NEW t \in New
               PROVE  t \notin Done \cup Queued
    OBVIOUS
  <2>1. Open(t) # {}
    BY <1>1, <1>3, OpenEdges
  <2> QED
    BY <1>1, <1>5, <2>1 DEF CountersRight
<1>8. New \in SUBSET Tasks
  OBVIOUS
<1> HIDE DEF New
<1>9. /\ q \in Seq(Tasks) /\ New = {q[i] : i \in 1..Len(q)}
      /\ \A i, j \in 1..Len(q) : q[i] = q[j] => i = j
  BY <1>6, <1>8, SortedSet
<1>10. PICK T \in Seq(Tasks), k \in Nat, l \in Nat :
         T = Tail(queue) /\ k = Len(T) /\ l = Len(q)
  BY <1>3, <1>9, LenProperties
<1>11. /\ queue' \in Seq(Tasks) /\ Len(queue') = k + l
       /\ \A i \in 1..(k + l) : queue'[i] = IF i <= k THEN T[i] ELSE q[i - k]
  BY <1>6, <1>9, <1>10, ConcatProperties
<1>12. /\ \A i \in 1..k : i \in 1..(k + l) /\ queue'[i] = T[i]
       /\ \A i \in 1..l : i + k \in 1..(k + l) /\ queue'[i + k] = q[i]
       /\ \A i \in 1..(k + l) : i \in 1..k \/ \E j \in 1..l : i = j + k
  <2>1. \A i \in 1..k : i \in 1..(k + l) /\ queue'[i] = T[i]
    BY <1>10, <1>11
  <2>2. ASSUME NEW i \in 1..l
        PROVE  i + k \in 1..(k + l) /\ queue'[i + k] = q[i]
    <3>1. i + k \in 1..(k + l) /\ ~(i + k <= k) /\ (i + k) - k = i
      BY <1>10
    <3> QED
      BY <1>11, <3>1
  <2>3. ASSUME NEW i \in 1..(k + l), i \notin 1..k
        PROVE  \E j \in 1..l : i = j + k
    <3>1. i - k \in 1..l /\ i = (i - k) + k
      BY <1>10, <2>3
    <3> QED
      BY <3>1
  <2> QED
    BY <2>1, <2>2, <2>3
<1>13. Queued' = (Queued \ {c}) \cup New
  <2>1. Queued' = {queue'[i] : i \in 1..(k + l)}
    BY <1>11 DEF Queued
  <2>2. \A a \in 1..k : T[a] \in Queued \ {c}
    BY <1>3, <1>10
  <2>3. \A a \in 1..l : q[a] \in New
    BY <1>9, <1>10
  <2>4. \A t \in Queued \ {c} : \E a \in 1..k : T[a] = t
    BY <1>3, <1>10
  <2>5. \A t \in New : \E a \in 1..l : q[a] = t
    BY <1>9, <1>10
  <2>6. ASSUME NEW i \in 1..(k + l)
        PROVE  queue'[i] \in (Queued \ {c}) \cup New
    BY <1>12, <2>2, <2>3
  <2>7. ASSUME NEW t \in (Queued \ {c}) \cup New
        PROVE  \E i \in 1..(k + l) : queue'[i] = t
    BY <1>12, <2>4, <2>5
  <2> QED
    BY <2>1, <2>6, <2>7
<1>14. ASSUME NEW i \in 1..(k + l), NEW j \in 1..(k + l), queue'[i] = queue'[j]
       PROVE  i = j
  <2>1. \A a \in 1..k : T[a] \in Queued
    BY <1>3, <1>10
  <2>2. \A a \in 1..l : q[a] \in New
    BY <1>9, <1>10
  <2>3. \A a \in 1..k, b \in 1..l : T[a] # q[b]
    BY <1>7, <2>1, <2>2
  <2>4. CASE i \in 1..k /\ j \in 1..k
    <3>1. T[i] = T[j]
      BY <1>12, <1>14, <2>4
    <3>2. \A a, b \in 1..k : T[a] = T[b] => a = b
      BY <1>3, <1>10
    <3> QED
      BY <2>4, <3>1, <3>2
  <2>5. CASE i \in 1..k /\ \E b \in 1..l : j = b + k
    BY <1>12, <1>14, <2>3, <2>5
  <2>6. CASE j \in 1..k /\ \E a \in 1..l : i = a + k
    <3>1. PICK a \in 1..l : i = a + k
      BY <2>6
    <3>2. queue'[i] = q[a] /\ queue'[j] = T[j]
      BY <1>12, <2>6, <3>1
    <3> QED
      BY <1>14, <2>3, <2>6, <3>2
  <2>7. CASE (\E a \in 1..l : i = a + k) /\ (\E b \in 1..l : j = b + k)
    <3>1. PICK a \in 1..l, b \in 1..l : i = a + k /\ j = b + k
      BY <2>7
    <3>2. q[a] = q[b]
      BY <1>12, <1>14, <3>1
    <3> QED
      BY <1>9, <1>10, <3>1, <3>2
  <2> QED
    BY <1>12, <2>4, <2>5, <2>6, <2>7
<1>15. ASSUME NEW i \in 1..(n + 1), NEW j \in 1..(n + 1), ordered'[i] = ordered'[j]
       PROVE  i = j
  <2>1. \A a \in 1..n : ordered[a] \in Done
    BY <1>3 DEF Done
  <2>2. \A a \in 1..n : ordered'[a] # c
    BY <1>3, <2>1
  <2>3. \A a \in 1..(n + 1) : a \in 1..n \/ a = n + 1
    BY <1>3
  <2>4. \A a, b \in 1..n : ordered[a] = ordered[b] => a = b
    BY <1>1, <1>3 DEF EachOnce
  <2> QED
    BY <1>3, <1>15, <2>2, <2>3, <2>4
<1>16. EachOnce'
  <2>1. Done' \cap Queued' = {}
    BY <1>1, <1>3, <1>7, <1>13 DEF EachOnce
  <2> QED
    BY <1>3, <1>11, <1>14, <1>15, <2>1 DEF EachOnce
<1>17. CountersRight'
  <2>1. ASSUME NEW t \in Tasks
        PROVE  inDegree'[t] = 0 <=> t \in Done' \cup Queued'
    <3>1. CASE Edge(c, t)
      <4>1. Open(t) # {} /\ t \notin Done \cup Queued
        BY <1>1, <1>3, <1>5, <3>1, OpenEdges DEF CountersRight
      <4>2. t # c
        BY <1>3, <4>1
      <4> QED
        BY <1>3, <1>13, <3>1, <4>1, <4>2 DEF New
    <3>2. CASE ~Edge(c, t)
      <4>1. Open(t)' = Open(t) /\ t \notin New
        BY <1>4, <3>2 DEF New
      <4>2. inDegree'[t] = 0 <=> inDegree[t] = 0
        BY <1>4, <1>5, <4>1
      <4> QED
        BY <1>1, <1>3, <1>13, <4>1, <4>2 DEF CountersRight
    <3> QED
      BY <3>1, <3>2
  <2> QED
    BY <1>4, <2>1 DEF CountersRight
<1>18. SourcesFirst'
  <2>1. ASSUME NEW j \in 1..(n + 1), NEW u \in Tasks, NEW x \in Tasks,
               x = ordered'[j], Edge(u, x)
        PROVE  \E i \in 1..(j - 1) : ordered'[i] = u
    <3>1. CASE j \in 1..n
      <4>1. ordered[j] = x
        BY <1>3, <2>1, <3>1
      <4>2. PICK i \in 1..(j - 1) : ordered[i] = u
        BY <1>1, <1>3, <2>1, <3>1, <4>1 DEF SourcesFirst
      <4>3. i \in 1..n
        BY <1>3, <3>1
      <4> QED
        BY <1>3, <4>2, <4>3
    <3>2. CASE j = n + 1
      <4>1. x = c /\ 1..(j - 1) = 1..n
        BY <1>3, <2>1, <3>2
      <4>2. Open(c) = {}
        BY <1>1, <1>3, <1>5 DEF CountersRight
      <4>3. u \in Done
        BY <1>1, <2>1, <4>1, <4>2, OpenEdges
      <4>4. PICK i \in 1..n : ordered[i] = u
        BY <1>3, <4>3 DEF Done
      <4> QED
        BY <1>3, <4>1, <4>4
    <3> QED
      BY <1>3, <3>1, <3>2
  <2>2. ASSUME NEW j \in 1..Len(ordered'), NEW u \in Tasks, Edge(u, ordered[j])'
        PROVE  \E i \in 1..(j - 1) : ordered'[i] = u
    <3>1. PICK x \in Tasks : x = ordered'[j]
      BY <1>3, ElementOfSeq
    <3>2. Edge(u, x)'
      BY <2>2, <3>1 DEF Edge
    <3>3. Edge(u, x)
      BY <1>2, <3>2
    <3>4. j \in 1..(n + 1)
      BY <1>3
    <3> QED
      BY <2>1, <3>1, <3>3, <3>4
  <2> QED
    BY <2>2 DEF SourcesFirst
<1>19. SortTypes'
  <2>1. inDegree' = [t \in Tasks |-> inDegree'[t]]
    BY DEF Visit
  <2> QED
    BY <1>3, <1>4, <1>11, <2>1 DEF SortTypes
<1> QED
  BY <1>1, <1>2, <1>16, <1>17, <1>18, <1>19 DEF SortInv
-----------------------------------------------------------------------------
LEMMA SortInvNext ==
  ASSUME SortInv, [Next]_vars
  PROVE  SortInv'
<1>1. EdgesType' /\ SortTypes
  BY EdgesNext DEF SortInv
<1>2. CASE UNCHANGED <<edges, phase, inDegree, queue, ordered>>
  <2>1. SortTypes'
    BY <1>1, <1>2 DEF SortTypes
  <2>2. CountersRight => CountersRight'
    BY <1>2 DEF CountersRight, Done, Queued, Open, InEdges, AllEdges
  <2>3. EachOnce => EachOnce'
    BY <1>2, SMTT(30) DEF EachOnce, Done, Queued
  <2>4. SourcesFirst => SourcesFirst'
    BY <1>2 DEF SourcesFirst, Edge
  <2> QED
    BY <1>1, <1>2, <2>1, <2>2, <2>3, <2>4 DEF SortInv
<1>3. CASE /\ phase \notin {"sort", "end"} /\ phase' \notin {"sort", "end"}
           /\ UNCHANGED sortVars
  BY <1>1, <1>3 DEF SortInv, SortTypes, sortVars
<1>4. CASE SortEnds
  <2>1. /\ phase = "sort" /\ phase' = "end" /\ queue = <<>>
        /\ UNCHANGED <<edges, inDegree, queue, ordered>>
    BY <1>4 DEF SortEnds, sortVars
  <2> QED
    BY <1>1, <2>1 DEF SortInv, SortTypes, CountersRight, EachOnce, SourcesFirst, Done,
       Queued, Open, InEdges, AllEdges, Edge
<1>5. CASE UNCHANGED vars
  BY <1>2, <1>5 DEF vars, sortVars
<1>6. CASE Detect
  BY <1>3, <1>6 DEF Detect, StartDetect, Root, Close, Descend, Skip, Finish, Trace, AtEdge
<1>7. CASE Query
  <2>1. /\ phase \in {"build", "walk"} /\ phase' \in {"walk", "walked"}
        /\ UNCHANGED sortVars
    BY <1>7 DEF Query, StartWalk, Walk, WalkEnds
  <2> QED
    BY <1>3, <2>1
<1>8. ASSUME NEW t \in Tasks, NEW u \in Tasks, AddEdge(t, u)
      PROVE  SortInv'
  BY <1>3, <1>8 DEF AddEdge
<1> QED
  BY <1>4, <1>5, <1>6, <1>7, <1>8, SortStarts, SortVisits DEF Next, Sort

LEMMA SortAlways == Spec => []SortInv
<1>1. SortInv /\ [Next]_vars => SortInv'
  BY SortInvNext
<1> QED
  BY <1>1, SortInvInit, PTL DEF Spec

\* What is not in the order when the work list is empty: tasks each of which
\* has a source among them.
LEMMA LeftInCycle ==
  ASSUME SortInv, phase = "end", NEW t \in Tasks \ Done
  PROVE  HasCycle
<1>1. EdgesType /\ SortTypes /\ CountersRight /\ queue = <<>>
  BY DEF SortInv
<1>2. Queued = {}
  BY <1>1 DEF Queued
<1>3. ASSUME NEW x \in Tasks \ Done
      PROVE  \E u \in Tasks \ Done : Edge(u, x)
  <2>1. inDegree[x] # 0
    BY <1>1, <1>2 DEF CountersRight
  <2>2. Open(x) # {}
    BY <1>1, <2>1, OpenFinite DEF CountersRight
  <2> QED
    BY <1>1, <2>2, OpenEdges
<1> QED
  BY <1>3 DEF HasCycle

\* A cycle is not in the order: its first task there would have a source
\* before it.
LEMMA CycleLeft ==
  ASSUME SortTypes, SourcesFirst, HasCycle
  PROVE  \E t \in Tasks : t \notin Done
<1> SUFFICES ASSUME Tasks \subseteq Done PROVE FALSE
  OBVIOUS
<1>1. PICK S \in SUBSET Tasks : S # {} /\ \A t \in S : \E u \in S : Edge(u, t)
  BY DEF HasCycle
<1>2. PICK n \in Nat : n = Len(ordered)
  BY LenProperties DEF SortTypes
<1> DEFINE P == {i \in 1..n : ordered[i] \in S}
<1>3. P \in SUBSET Nat /\ P # {}
  <2>1. PICK t \in S : TRUE
    BY <1>1
  <2>2. PICK i \in 1..n : ordered[i] = t
    BY <1>1, <1>2 DEF Done
  <2> QED
    BY <1>2, <2>2
<1>4. PICK j \in P : \A m \in P : j <= m
  <2> HIDE DEF P
  <2> QED
    BY <1>3, NatMin
<1>5. PICK u \in S : Edge(u, ordered[j])
  BY <1>1, <1>4
<1>6. PICK i \in 1..(j - 1) : ordered[i] = u
  BY <1>1, <1>2, <1>4, <1>5 DEF SourcesFirst
<1>7. i \in 1..n /\ ~(j <= i)
  BY <1>2, <1>4
<1> QED
  BY <1>4, <1>5, <1>6, <1>7

\* TopologicalSort succeeds exactly on the graphs without a cycle, and orders
\* every task once and before its targets, for every graph.
THEOREM SortTheorem == Spec => []SortIsTopological
<1>1. ASSUME SortInv, phase = "end"
      PROVE  /\ SortSucceeds <=> ~HasCycle
             /\ \A i, j \in DOMAIN ordered :
                  /\ ordered[i] = ordered[j] => i = j
                  /\ Edge(ordered[i], ordered[j]) => i < j
  <2>1. SortTypes /\ EachOnce /\ SourcesFirst
    BY <1>1 DEF SortInv
  <2>2. PICK n \in Nat : n = Len(ordered)
    BY <2>1, LenProperties DEF SortTypes
  <2>3. ordered \in [1..n -> Tasks] /\ DOMAIN ordered = 1..n
    BY <2>1, <2>2, LenProperties, ElementOfSeq DEF SortTypes
  <2>4. \A i, j \in 1..n : ordered[i] = ordered[j] => i = j
    BY <2>1, <2>2 DEF EachOnce
  <2>5. ASSUME NEW i \in 1..n, NEW j \in 1..n, Edge(ordered[i], ordered[j])
        PROVE  i < j
    <3>1. ordered[i] \in Tasks
      BY <2>3
    <3>2. PICK k \in 1..(j - 1) : ordered[k] = ordered[i]
      BY <2>1, <2>2, <2>5, <3>1 DEF SourcesFirst
    <3>3. k \in 1..n /\ k < j
      BY <2>2
    <3> QED
      BY <2>4, <3>2, <3>3
  <2>6. SortSucceeds <=> Tasks \subseteq Done
    <3>1. ordered \in Injection(1..n, Tasks)
      BY <2>3, <2>4 DEF Injection, IsInjective
    <3>2. IsFiniteSet(1..n) /\ Cardinality(1..n) = n
      <4>1. n \in Int /\ 1 \in Int
        BY <2>2
      <4>2. /\ IsFiniteSet(1..n)
            /\ Cardinality(1..n) = IF 1 > n THEN 0 ELSE n - 1 + 1
        BY ONLY <4>1, FS_Interval
      <4> QED
        BY <2>2, <4>2
    <3>3. n = Cardinality(Tasks) <=> ordered \in Surjection(1..n, Tasks)
      BY <3>1, <3>2, DagGraphAssumption, FS_Injection
    <3>4. ordered \in Surjection(1..n, Tasks) <=> \A t \in Tasks : \E i \in 1..n : ordered[i] = t
      BY <2>3 DEF Surjection
    <3> QED
      BY <2>2, <3>3, <3>4 DEF SortSucceeds, Done
  <2>7. SortSucceeds <=> ~HasCycle
    BY <1>1, <2>1, <2>6, LeftInCycle, CycleLeft
  <2> QED
    BY <2>3, <2>4, <2>5, <2>7
<1>2. SortInv => SortIsTopological
  BY <1>1 DEF SortIsTopological
<1> QED
  BY <1>2, SortAlways, PTL
=============================================================================
