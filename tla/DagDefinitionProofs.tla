------------------------ MODULE DagDefinitionProofs -------------------------
(***************************************************************************)
(* Dag functions of the SDK return their own tasks, for any depth of calls *)
(* and any number of tasks; and a DAG that Validate accepts can be         *)
(* executed to its end, for any number of tasks, calls and edits.          *)
(***************************************************************************)
EXTENDS DagDefinition, Iteration, FiniteSetTheorems, SequenceTheorems, TLAPS

-----------------------------------------------------------------------------
(* Dag functions *)

\* The globals belong to the innermost dag function until it calls another;
\* when that one has returned, None is the builder.  Nothing is known once the
\* function has caught an exception.
GlobalsAreInner ==
  frames # <<>> /\ ~Inner.caught =>
    IF Inner.nested THEN current = NoBuilder
    ELSE current.id = Inner.flow /\ pending = Inner.own

OuterAreNested == \A i \in 1..(Len(frames) - 1) : frames[i].nested

Frames == [flow : Flows, own : Seq(Definable), nested : BOOLEAN, caught : BOOLEAN]

SDKInv ==
  /\ frames \in Seq(Frames) /\ pending \in Seq(Definable)
  /\ current \in [id : Flows, tasks : {<<>>}] \cup {NoBuilder}
  /\ GlobalsAreInner
  /\ OuterAreNested
  /\ BuilderHoldsOwnTasks

\* The module is loaded with both globals empty.
LEMMA SDKInvInit == DefinitionInit => SDKInv
  BY DEF DefinitionInit, SDKInv, GlobalsAreInner, OuterAreNested, BuilderHoldsOwnTasks

\* Leaving the innermost function leaves the functions before it.
LEMMA FrontFrames ==
  ASSUME frames \in Seq(Frames), frames # <<>>
  PROVE  /\ Front(frames) \in Seq(Frames) /\ Len(Front(frames)) = Len(frames) - 1
         /\ \A i \in 1..(Len(frames) - 1) : Front(frames)[i] = frames[i]
<1> HIDE DEF Frames
<1>1. Len(frames) \in Nat \ {0}
  BY EmptySeq
<1>2. SubSeq(frames, 1, Len(frames) - 1) = Restrict(frames, 1..(Len(frames) - 1))
  BY <1>1, SubSeqRestrict
<1>3. SubSeq(frames, 1, Len(frames) - 1) \in Seq(Frames)
  OBVIOUS
<1>4. /\ DOMAIN SubSeq(frames, 1, Len(frames) - 1) = 1..(Len(frames) - 1)
      /\ \A i \in 1..(Len(frames) - 1) :
           SubSeq(frames, 1, Len(frames) - 1)[i] = frames[i]
  BY <1>2, Zenon DEF Restrict
<1> DEFINE q == SubSeq(frames, 1, Len(frames) - 1)
<1>5. /\ q \in Seq(Frames) /\ DOMAIN q = 1..(Len(frames) - 1)
      /\ \A i \in 1..(Len(frames) - 1) : q[i] = frames[i]
  BY <1>3, <1>4
<1>6. Front(frames) = q
  BY DEF Front
<1> HIDE DEF q
<1>7. Len(q) \in Nat /\ DOMAIN q = 1..Len(q)
  BY <1>5, LenProperties
<1>8. Len(q) = Len(frames) - 1
  BY <1>1, <1>5, <1>7
<1> QED
  BY <1>5, <1>6, <1>8

\* What a call, a call of a task and a caught exception change in a frame.
LEMMA FrameCalls ==
  ASSUME NEW f \in Frames
  PROVE  /\ [f EXCEPT !.nested = TRUE] \in Frames
         /\ [f EXCEPT !.nested = TRUE].nested
  BY DEF Frames

LEMMA FrameEdits ==
  ASSUME NEW f \in Frames, NEW t \in Definable
  PROVE  /\ [f EXCEPT !.own = Append(@, t)] \in Frames
         /\ [f EXCEPT !.own = Append(@, t)].own = Append(f.own, t)
         /\ [f EXCEPT !.own = Append(@, t)].flow = f.flow
         /\ [f EXCEPT !.own = Append(@, t)].nested = f.nested
         /\ [f EXCEPT !.own = Append(@, t)].caught = f.caught
  BY DEF Frames

LEMMA FrameCatches ==
  ASSUME NEW f \in Frames
  PROVE  /\ [f EXCEPT !.caught = TRUE] \in Frames
         /\ [f EXCEPT !.caught = TRUE].caught
         /\ [f EXCEPT !.caught = TRUE].nested = f.nested
  BY DEF Frames

\* A function on 1..n is a sequence of length n.
LEMMA SeqFromFunction ==
  ASSUME NEW S, NEW n \in Nat, NEW s \in [1..n -> S]
  PROVE  s \in Seq(S) /\ Len(s) = n
<1>1. s \in Seq(S)
  BY SeqDef
<1>2. Len(s) \in Nat /\ DOMAIN s = 1..Len(s)
  BY <1>1, LenProperties
<1> QED  BY <1>1, <1>2

\* A function returns: the caller has a builder of None.
LEMMA ReturnKeeps ==
  ASSUME SDKInv, frames # <<>>, frames' = Front(frames), current' = NoBuilder,
         pending' \in Seq(Definable), BuilderHoldsOwnTasks'
  PROVE  SDKInv'
<1>1. /\ frames' \in Seq(Frames) /\ Len(frames') = Len(frames) - 1
      /\ \A i \in 1..(Len(frames) - 1) : frames'[i] = frames[i]
  BY FrontFrames DEF SDKInv
<1>2. Len(frames) \in Nat \ {0} /\ Len(frames') \in Nat
  BY <1>1, EmptySeq DEF SDKInv
<1>3. \A i \in 1..Len(frames') : frames'[i].nested
  BY <1>1, <1>2 DEF SDKInv, OuterAreNested
<1>4. OuterAreNested'
  BY <1>2, <1>3 DEF OuterAreNested
<1>5. frames' # <<>> => Inner'.nested
  <2>1. frames' # <<>> => Len(frames') \in 1..Len(frames')
    BY <1>1, <1>2, EmptySeq
  <2> QED  BY <1>3, <2>1 DEF Inner
<1> QED
  BY <1>1, <1>4, <1>5 DEF SDKInv, GlobalsAreInner

\* SDKInv is inductive.
LEMMA SDKInvNext == SDKInv /\ [DefinitionNext]_definitionVars => SDKInv'
<1> SUFFICES ASSUME SDKInv, [DefinitionNext]_definitionVars PROVE SDKInv'
  OBVIOUS
<1>0. /\ Len(frames) \in Nat /\ frames \in [1..Len(frames) -> Frames]
      /\ frames # <<>> => Len(frames) \in 1..Len(frames)
  <2>1. frames \in Seq(Frames)
    BY DEF SDKInv
  <2>2. frames # <<>> => Len(frames) \in Nat \ {0}
    BY <2>1, EmptySeq
  <2> QED  BY <2>1, <2>2, LenProperties
<1>1. ASSUME NEW f \in Flows, CallFlow(f) PROVE SDKInv'
  <2>1. Frame(f) \in Frames
    BY DEF Frame, Frames
  <2> DEFINE callers == [i \in 1..Len(frames) |-> [frames[i] EXCEPT !.nested = TRUE]]
  <2>2. \A i \in 1..Len(frames) :
          [frames[i] EXCEPT !.nested = TRUE] \in Frames
          /\ [frames[i] EXCEPT !.nested = TRUE].nested
    BY <1>0, FrameCalls
  <2>3. /\ callers \in [1..Len(frames) -> Frames]
        /\ \A i \in 1..Len(frames) : callers[i].nested
    BY <2>2
  <2>4. frames' = Append(callers, Frame(f))
    BY <1>1 DEF CallFlow
  <2> HIDE DEF callers
  <2>5. callers \in Seq(Frames) /\ Len(callers) = Len(frames)
    BY <1>0, <2>3, SeqFromFunction
  <2>6. /\ frames' \in Seq(Frames) /\ Len(frames') = Len(frames) + 1
        /\ frames'[Len(frames) + 1] = Frame(f)
        /\ \A i \in 1..Len(frames) : frames'[i] = callers[i]
    BY <2>1, <2>4, <2>5, AppendProperties
  <2>7. Inner' = Frame(f)
    BY <2>6 DEF Inner
  <2>8. OuterAreNested'
    BY <1>0, <2>3, <2>6 DEF OuterAreNested
  <2> QED
    BY <1>1, <2>6, <2>7, <2>8
    DEF CallFlow, SDKInv, GlobalsAreInner, BuilderHoldsOwnTasks, Frame
<1>2. ASSUME NEW t \in Definable, CallTask(t) PROVE SDKInv'
  <2>1. /\ frames' \in Seq(Frames) /\ Len(frames') = Len(frames)
        /\ pending' \in Seq(Definable) /\ current' = current
    <3>1. \A i \in 1..Len(frames) :
            frames[i] \in Frames
            /\ [frames[i] EXCEPT !.own = Append(@, t)] \in Frames
      BY <1>0, FrameEdits
    <3>2. frames' \in [1..Len(frames) -> Frames]
      BY <1>2, <1>0, <3>1 DEF CallTask
    <3>3. pending' \in Seq(Definable) /\ current' = current
      BY <1>2 DEF CallTask, SDKInv
    <3> QED  BY <1>0, <3>2, <3>3, SeqFromFunction
  <2>2. ASSUME frames # <<>>
        PROVE  Inner' = [Inner EXCEPT !.own = Append(@, t)]
    BY <1>2, <1>0, <2>1, <2>2 DEF CallTask, Inner
  <2>3. frames # <<>> => Inner \in Frames
    BY <1>0 DEF Inner
  <2>4. GlobalsAreInner'
    <3>1. CASE frames = <<>>
      BY <1>0, <2>1, <3>1 DEF GlobalsAreInner
    <3>2. CASE frames # <<>>
      <4>1. /\ Inner'.caught = Inner.caught /\ Inner'.flow = Inner.flow
            /\ Inner'.nested = Inner.nested
            /\ Inner'.own = Append(Inner.own, t)
        BY <2>2, <2>3, <3>2, FrameEdits
      <4>2. pending' = Append(pending, t)
        BY <1>2 DEF CallTask
      <4> QED
        BY <2>1, <3>2, <4>1, <4>2 DEF SDKInv, GlobalsAreInner
    <3> QED  BY <3>1, <3>2
  <2>5. OuterAreNested'
    <3>1. ASSUME NEW i \in 1..(Len(frames) - 1) PROVE frames'[i] = frames[i]
      BY <1>0, <1>2 DEF CallTask
    <3> QED  BY <1>0, <2>1, <3>1 DEF SDKInv, OuterAreNested
  <2> QED
    BY <1>2, <2>1, <2>4, <2>5 DEF CallTask, SDKInv, BuilderHoldsOwnTasks
<1>3. CASE Return
  <2>1. Returned = [id |-> current.id, tasks |-> pending]
    BY <1>3 DEF Return, Returned, SDKInv
  <2>2. ~Inner.caught => OwnDAG
    BY <1>3, <2>1 DEF Return, SDKInv, GlobalsAreInner, OwnDAG
  <2>3. answers' \subseteq answers
    BY <1>3, <2>2 DEF Return, Notes
  <2>4. BuilderHoldsOwnTasks'
    BY <2>3 DEF SDKInv, BuilderHoldsOwnTasks
  <2> QED
    BY <1>3, <2>4, ReturnKeeps DEF Return
<1>4. CASE ReturnNone
  <2>1. ~Inner.caught => Inner.nested
    BY <1>4, DefinitionAssumption, <1>0 DEF ReturnNone, SDKInv, GlobalsAreInner, Inner, Frames
  <2>2. answers' = answers \/ answers' = answers \cup {"none"}
    BY <1>4, <2>1 DEF ReturnNone, Notes
  <2>3. BuilderHoldsOwnTasks'
    BY <2>2 DEF SDKInv, BuilderHoldsOwnTasks
  <2> QED
    BY <1>4, <2>3, ReturnKeeps DEF ReturnNone, SDKInv
<1>5. CASE Raise
  <2> PICK caught \in BOOLEAN : frames' = Unwound(caught)
    BY <1>5 DEF Raise
  <2>1. CASE frames' = <<>>
    BY <1>5, <2>1
    DEF Raise, SDKInv, GlobalsAreInner, OuterAreNested, BuilderHoldsOwnTasks
  <2>2. CASE frames' # <<>>
    <3>1. frames' = [Front(frames) EXCEPT ![Len(frames) - 1].caught = TRUE]
          /\ Len(frames) # 1 /\ frames # <<>>
      BY <1>5, <2>2 DEF Unwound, Raise
    <3>2. /\ Front(frames) \in Seq(Frames)
          /\ Len(Front(frames)) = Len(frames) - 1
          /\ Len(frames) - 1 \in 1..Len(Front(frames))
          /\ \A i \in 1..(Len(frames) - 1) : Front(frames)[i] = frames[i]
      <4>1. frames \in Seq(Frames) /\ Len(frames) \in Nat \ {0}
        BY <3>1, EmptySeq DEF SDKInv
      <4> QED  BY <3>1, <4>1, FrontFrames
    <3> DEFINE new == [Front(frames)[Len(frames) - 1] EXCEPT !.caught = TRUE]
    <3>4. new \in Frames /\ new.caught
      BY <3>2, ElementOfSeq, FrameCatches
    <3>5. frames' = [Front(frames) EXCEPT ![Len(frames) - 1] = new]
      BY <3>1
    <3> HIDE DEF new
    <3>6. /\ frames' \in Seq(Frames) /\ Len(frames') = Len(frames) - 1
          /\ frames'[Len(frames) - 1] = new
          /\ \A i \in 1..(Len(frames) - 1) :
               i # Len(frames) - 1 => frames'[i] = Front(frames)[i]
      BY <3>2, <3>4, <3>5, ExceptSeq
    <3>7. Inner'.caught
      BY <3>4, <3>6 DEF Inner
    <3>8. ASSUME NEW i \in 1..(Len(frames') - 1) PROVE frames'[i].nested
      <4>1. i \in 1..(Len(frames) - 1) /\ i # Len(frames) - 1
        <5>1. PICK n \in Nat : n = Len(frames)
          BY <1>0
        <5>2. i \in 1..((n - 1) - 1)
          BY <3>6, <5>1
        <5>3. i \in 1..(n - 1) /\ i # n - 1
          BY ONLY <5>2, n \in Nat
        <5> QED
          BY <5>1, <5>3
      <4>2. frames'[i] = frames[i]
        BY <3>2, <3>6, <4>1
      <4> QED
        BY <4>1, <4>2 DEF SDKInv, OuterAreNested
    <3> QED
      BY <1>5, <3>6, <3>7, <3>8
      DEF Raise, SDKInv, GlobalsAreInner, OuterAreNested, BuilderHoldsOwnTasks
  <2> QED  BY <2>1, <2>2
<1>6. ASSUME UNCHANGED <<current, pending, frames, answers>> PROVE SDKInv'
  BY <1>6 DEF SDKInv, GlobalsAreInner, OuterAreNested, BuilderHoldsOwnTasks, Inner
<1>7. ASSUME NEW t \in Definable, GoAddTask(t) PROVE SDKInv'
  BY <1>6, <1>7 DEF GoAddTask, Edit, sdkVars
<1>8. ASSUME NEW u \in TaskIDs, NEW t \in TaskIDs, GoAddEdge(u, t) PROVE SDKInv'
  BY <1>6, <1>8 DEF GoAddEdge, Edit, sdkVars
<1>9. CASE ParseBytes
  BY <1>6, <1>9 DEF ParseBytes
<1>10. CASE GoBuildEdges \/ GoBuildEdgesFails \/ GoValidate
  BY <1>6, <1>10 DEF GoBuildEdges, GoBuildEdgesFails, GoValidate, Edit, sdkVars
<1>11. CASE UNCHANGED definitionVars
  BY <1>6, <1>11 DEF definitionVars, sdkVars
<1> QED
  BY <1>1, <1>2, <1>3, <1>4, <1>5, <1>7, <1>8, <1>9, <1>10, <1>11
  DEF DefinitionNext

\* A dag function that calls no other returns a builder with its own ID and
\* exactly the tasks it called, whatever went before; one that has called
\* another returns None or raises, and never a builder that is not its own:
\* for any depth of calls, unless the function has caught an exception.
THEOREM FunctionsReturnTheirTasks == DefinitionSpec => []BuilderHoldsOwnTasks
<1>1. SDKInv => BuilderHoldsOwnTasks
  BY DEF SDKInv
<1> QED
  BY <1>1, SDKInvInit, SDKInvNext, PTL DEF DefinitionSpec
-----------------------------------------------------------------------------
(* Running a DAG in rounds *)

\* In a valid DAG whose dependencies are among its edges, each round runs a
\* task that has not run yet, until all have run.
LEMMA RoundsRunAll ==
  ASSUME NEW d, IsFiniteSet(TasksOf(d)), Validate(d), DependencyEdges(d) \subseteq d.edges
  PROVE  RunIn(d) = TasksOf(d)
<1> DEFINE T == TasksOf(d)
           D == [t \in T |-> d.tasks[t].deps]
           N == Cardinality(T)
           r == CHOOSE r : r = [n \in Nat |-> IF n = 0 THEN {}
                                              ELSE Runnable(d, r[n - 1])]
<1>1. N \in Nat
  BY FS_CardinalityType
<1>2. RunIn(d) = r[N]
  BY DEF RunIn
<1>3. r = [n \in Nat |-> IF n = 0 THEN {} ELSE Runnable(d, r[n - 1])]
  <2> DEFINE S == SUBSET TasksOf(d)
             F == [R \in S |-> Runnable(d, R)]
  <2>1. {} \in S /\ F \in [S -> S]
    BY DEF Runnable
  <2>2. PICK f \in [Nat -> S] :
               f = [n \in Nat |-> IF n = 0 THEN {} ELSE F[f[n - 1]]]
    <3> HIDE DEF S, F
    <3> QED
      BY <2>1, IterationExists
  <2>3. \A n \in Nat : n # 0 => n - 1 \in Nat /\ F[f[n - 1]] = Runnable(d, f[n - 1])
    OBVIOUS
  <2>4. f = [n \in Nat |-> IF n = 0 THEN {} ELSE Runnable(d, f[n - 1])]
    BY <2>2, <2>3
  <2> QED
    BY <2>4, Zenon
<1> HIDE DEF r
<1>4. r[0] = {} /\ \A n \in Nat : r[n + 1] = Runnable(d, r[n])
  <2>1. r[0] = {}
    BY <1>3
  <2>2. ASSUME NEW n \in Nat
        PROVE  r[n + 1] = Runnable(d, r[n])
    <3>1. PICK m \in Nat : m = n + 1 /\ m # 0 /\ m - 1 = n
      OBVIOUS
    <3>2. r[m] = IF m = 0 THEN {} ELSE Runnable(d, r[m - 1])
      BY <1>3
    <3> QED
      BY <3>1, <3>2
  <2> QED
    BY <2>1, <2>2
\* Dependencies are edges, so they are tasks, and no set of tasks is left in
\* which each waits for another.
<1>5. \A t \in T : D[t] \subseteq T
  <2>1. ASSUME NEW t \in T, NEW u \in D[t]
        PROVE  u \in T
    <3>1. <<u, t>> \in d.edges
      BY <2>1 DEF DependencyEdges
    <3> QED
      BY <3>1 DEF Validate
  <2> QED
    BY <2>1
<1>6. ASSUME NEW S \in SUBSET T, S # {}
      PROVE  \E t \in S : D[t] \cap S = {}
  <2>1. PICK t \in S : \A e \in d.edges : e[2] = t => e[1] \notin S
    BY <1>6 DEF Validate, Acyclic
  <2>2. ASSUME NEW u \in D[t]
        PROVE  u \notin S
    <3>1. <<u, t>> \in d.edges
      BY <2>2 DEF DependencyEdges
    <3> QED
      BY <2>1, <3>1
  <2> QED
    BY <2>1, <2>2
<1> HIDE DEF T, D
<1> DEFINE Good(n) == /\ r[n] \subseteq T /\ r[n] \subseteq r[n + 1]
                      /\ r[n] = T \/ Cardinality(r[n]) >= n
           B == {n \in Nat : ~Good(n)}
<1>7. Good(0)
  BY <1>4, FS_EmptySet
<1>8. ASSUME NEW n \in Nat, Good(n)
      PROVE  Good(n + 1)
  <2>1. r[n + 1] = Runnable(d, r[n]) /\ r[(n + 1) + 1] = Runnable(d, r[n + 1])
    <3>1. n + 1 \in Nat
      OBVIOUS
    <3> QED
      BY <1>4, <3>1
  <2>2. r[n + 1] \subseteq T /\ r[n + 1] \subseteq r[(n + 1) + 1]
    BY <1>8, <2>1 DEF Runnable, T, D
  <2>3. CASE r[n] = T
    BY <1>8, <2>2, <2>3
  <2>4. CASE r[n] # T
    <3>1. T \ r[n] # {} /\ T \ r[n] \in SUBSET T
      BY <1>8, <2>4
    <3>2. PICK t \in T \ r[n] : D[t] \cap (T \ r[n]) = {}
      BY <1>6, <3>1
    <3>3. t \in r[n + 1]
      BY <1>5, <2>1, <3>2 DEF Runnable, T, D
    <3>4. IsFiniteSet(r[n]) /\ IsFiniteSet(r[n + 1])
      BY <1>8, <2>2, FS_Subset DEF T
    <3>5. /\ Cardinality(r[n] \cup {t}) = Cardinality(r[n]) + 1
          /\ Cardinality(r[n]) \in Nat /\ Cardinality(r[n + 1]) \in Nat
      BY <3>2, <3>4, FS_AddElement, FS_CardinalityType
    <3>6. r[n] \cup {t} \in SUBSET r[n + 1]
      BY <1>8, <3>3
    <3>7. Cardinality(r[n] \cup {t}) <= Cardinality(r[n + 1])
      BY <3>4, <3>6, FS_Subset
    <3>8. Cardinality(r[n]) >= n
      BY <1>8, <2>4
    <3>9. Cardinality(r[n + 1]) >= n + 1
      BY <3>5, <3>7, <3>8
    <3> QED
      BY <2>2, <3>9
  <2> QED
    BY <2>3, <2>4
<1>9. B = {}
  <2> SUFFICES ASSUME B # {} PROVE FALSE
    OBVIOUS
  <2>1. PICK k \in B : \A m \in B : k <= m
    <3>1. B \in SUBSET Nat
      OBVIOUS
    <3> HIDE DEF B
    <3> QED
      BY <3>1, NatMin
  <2> HIDE DEF Good
  <2>2. k \in Nat /\ ~Good(k) /\ k # 0
    BY <1>7, <2>1
  <2>3. PICK m \in Nat : k = m + 1 /\ ~(k <= m)
    <3>1. k - 1 \in Nat /\ k = (k - 1) + 1 /\ ~(k <= k - 1)
      BY <2>2
    <3> QED
      BY <3>1
  <2>4. Good(m)
    BY <2>1, <2>3
  <2> QED
    BY <1>8, <2>2, <2>3, <2>4
<1>10. Good(N)
  <2> HIDE DEF Good
  <2> QED
    BY <1>1, <1>9
<1>11. r[N] = T
  <2>1. r[N] \in SUBSET T /\ IsFiniteSet(T)
    BY <1>10 DEF T
  <2>2. Cardinality(r[N]) <= N /\ (N = Cardinality(r[N]) => r[N] = T)
        /\ Cardinality(r[N]) \in Nat
    BY <2>1, FS_Subset, FS_CardinalityType
  <2> QED
    BY <1>1, <1>10, <2>2
<1> QED
  BY <1>2, <1>11 DEF T
-----------------------------------------------------------------------------
(* How a DAG comes to be *)

DagInv ==
  /\ dag = [id |-> dag.id, tasks |-> dag.tasks, edges |-> dag.edges]
  /\ IsFiniteSet(TasksOf(dag))
  /\ edits \in Nat
  /\ edits = 0 => DependencyEdges(dag) \subseteq dag.edges
  /\ verdict = "ok" => Validate(dag)
  /\ current = [id |-> current.id, tasks |-> current.tasks]
  /\ pending \in Seq(Definable) /\ yaml.tasks \in Seq(Definable)

\* No DAG has been put together.
LEMMA DagInvInit == DefinitionInit => DagInv
<1> SUFFICES ASSUME DefinitionInit PROVE DagInv
  OBVIOUS
<1>1. dag = [id |-> "d", tasks |-> NoTasks, edges |-> {}] /\ DOMAIN NoTasks = {}
  BY DEF DefinitionInit, NewDAG, NoTasks
<1>2. TasksOf(dag) = {} /\ DependencyEdges(dag) = {} /\ IsFiniteSet(TasksOf(dag))
  BY <1>1, FS_EmptySet DEF TasksOf, DependencyEdges
<1> QED
  BY <1>1, <1>2 DEF DefinitionInit, DagInv, NoBuilder

\* What Built replaces in a new DAG, and an edit of the edges in any.
LEMMA NewDAGWithTasks ==
  ASSUME NEW i, NEW F
  PROVE  [NewDAG(i) EXCEPT !.tasks = F] = [id |-> i, tasks |-> F, edges |-> {}]
  BY DEF NewDAG

LEMMA DAGWithEdges ==
  ASSUME NEW d, d = [id |-> d.id, tasks |-> d.tasks, edges |-> d.edges], NEW E
  PROVE  [d EXCEPT !.edges = E] = [id |-> d.id, tasks |-> d.tasks, edges |-> E]
  OBVIOUS

\* buildDAG makes a finite DAG whose edges are the dependencies.
LEMMA BuiltDAG ==
  ASSUME NEW y, y.tasks \in Seq(Definable)
  PROVE  /\ Built(y) = [id |-> Built(y).id, tasks |-> Built(y).tasks,
                        edges |-> Built(y).edges]
         /\ IsFiniteSet(TasksOf(Built(y)))
         /\ Built(y).edges = DependencyEdges(Built(y))
<1> DEFINE ts == y.tasks
           ids == {ts[i].id : i \in 1..Len(ts)}
           F == TasksByID(ts)
           d == [id |-> y.id, tasks |-> F, edges |-> {}]
<1>1. Built(y) = [id |-> y.id, tasks |-> F, edges |-> DependencyEdges(d)]
  <2>1. PICK e : e = [NewDAG(y.id) EXCEPT !.tasks = F]
    OBVIOUS
  <2>2. Built(y) = [e EXCEPT !.edges = DependencyEdges(e)]
    BY <2>1 DEF Built
  <2>3. e = d
    BY <2>1, NewDAGWithTasks
  <2> HIDE DEF F
  <2> QED
    BY <2>2, <2>3, DAGWithEdges
<1>2. DependencyEdges(Built(y)) = DependencyEdges(d)
  BY <1>1 DEF DependencyEdges, TasksOf
<1>3. IsFiniteSet(ids)
  <2>1. PICK n \in Nat : n = Len(ts)
    BY LenProperties
  <2> DEFINE g == [i \in 1..n |-> ts[i].id]
  <2>2. g \in Surjection(1..n, ids)
    BY <2>1 DEF Surjection
  <2>3. n \in Int /\ 1 \in Int
    BY <2>1
  <2>4. IsFiniteSet(1..n)
    BY ONLY <2>3, FS_Interval
  <2> HIDE DEF g, ids
  <2> QED
    BY <2>2, <2>4, FS_Surjection
<1>4. TasksOf(Built(y)) = ids
  BY <1>1 DEF TasksOf, TasksByID
<1> HIDE DEF F, ids
<1> QED
  BY <1>1, <1>2, <1>3, <1>4

\* DagInv is inductive.
LEMMA DagInvNext ==
  ASSUME DagInv, [DefinitionNext]_definitionVars
  PROVE  DagInv'
<1>1. CASE UNCHANGED <<dag, verdict, edits, current, pending, yaml>>
  BY <1>1 DEF DagInv
<1>2. CASE /\ UNCHANGED goVars
           /\ current' = [id |-> current'.id, tasks |-> current'.tasks]
           /\ pending' \in Seq(Definable) /\ yaml'.tasks \in Seq(Definable)
  BY <1>2 DEF goVars, DagInv
<1>3. ASSUME NEW f \in Flows, CallFlow(f) PROVE DagInv'
  BY <1>2, <1>3 DEF CallFlow, DagInv
<1>4. ASSUME NEW t \in Definable, CallTask(t) PROVE DagInv'
  BY <1>2, <1>4 DEF CallTask, DagInv
<1>5. CASE Return \/ ReturnNone \/ Raise
  <2>1. Returned.tasks = pending
    BY DEF Returned, DagInv
  <2> QED
    <3>1. CASE Return
      <4>1. /\ UNCHANGED goVars /\ yaml' = Returned
            /\ current' = NoBuilder /\ pending' = <<>>
        BY <3>1 DEF Return
      <4> QED
        BY <1>2, <2>1, <4>1 DEF DagInv, NoBuilder
    <3>2. CASE ReturnNone \/ Raise
      <4>1. UNCHANGED <<goVars, yaml, current, pending>>
        BY <3>2 DEF ReturnNone, Raise
      <4> QED
        BY <1>2, <4>1 DEF DagInv
    <3> QED
      BY <1>5, <3>1, <3>2
<1>6. CASE ParseBytes
  <2>1. CASE /\ Validate(Built(yaml)) /\ dag' = Built(yaml)
             /\ UNCHANGED <<current, pending, edits>> /\ yaml' = NoBuilder
    BY <2>1, BuiltDAG DEF DagInv, NoBuilder
  <2>2. CASE UNCHANGED <<dag, edits, current, pending>> /\ verdict' = "error" /\ yaml' = NoBuilder
    BY <2>2 DEF DagInv, TasksOf, DependencyEdges, NoBuilder
  <2> QED
    BY <1>6, <2>1, <2>2 DEF ParseBytes
<1>7. ASSUME NEW d, Edit(d), d = [id |-> d.id, tasks |-> d.tasks, edges |-> d.edges],
             IsFiniteSet(TasksOf(d))
      PROVE  DagInv'
  <2>1. /\ dag' = d /\ verdict' = "none" /\ edits' \in Nat /\ edits' # 0
        /\ UNCHANGED <<current, pending, yaml>>
    BY <1>7 DEF Edit, sdkVars, DagInv
  <2> QED
    BY <1>7, <2>1 DEF DagInv
<1>8. ASSUME NEW t \in Definable, GoAddTask(t) PROVE DagInv'
  <2> DEFINE F == [x \in TasksOf(dag) \cup {t.id} |-> IF x = t.id THEN t ELSE dag.tasks[x]]
             d == WithTask(dag, t)
  <2>1. d = [id |-> dag.id, tasks |-> F, edges |-> dag.edges]
    BY DEF WithTask, DagInv, TasksOf
  <2>2. TasksOf(d) = TasksOf(dag) \cup {t.id}
    BY <2>1 DEF TasksOf
  <2>3. IsFiniteSet(TasksOf(d))
    BY <2>2, FS_AddElement DEF DagInv
  <2>4. Edit(d)
    BY <1>8 DEF GoAddTask
  <2>5. d = [id |-> d.id, tasks |-> d.tasks, edges |-> d.edges]
    BY <2>1
  <2> HIDE DEF d
  <2> QED
    BY <1>7, <2>3, <2>4, <2>5
<1>9. ASSUME NEW E, Edit([dag EXCEPT !.edges = E]) PROVE DagInv'
  <2>1. PICK d : d = [dag EXCEPT !.edges = E]
    OBVIOUS
  <2>2. d = [id |-> dag.id, tasks |-> dag.tasks, edges |-> E]
    BY <2>1 DEF DagInv
  <2>3. d = [id |-> d.id, tasks |-> d.tasks, edges |-> d.edges] /\ TasksOf(d) = TasksOf(dag)
    BY <2>2 DEF TasksOf
  <2> QED
    BY <1>7, <1>9, <2>1, <2>3 DEF DagInv
<1>10. ASSUME NEW u \in TaskIDs, NEW t \in TaskIDs, GoAddEdge(u, t) PROVE DagInv'
  BY <1>9, <1>10 DEF GoAddEdge
<1>11. CASE GoBuildEdges
  BY <1>9, <1>11 DEF GoBuildEdges
<1>12. CASE GoBuildEdgesFails
  BY <1>9, <1>12 DEF GoBuildEdgesFails
<1>13. CASE GoValidate
  <2>1. /\ verdict' = "ok" => Validate(dag)
        /\ UNCHANGED <<dag, edits, current, pending, yaml>>
    BY <1>13 DEF GoValidate, sdkVars
  <2> QED
    BY <2>1 DEF DagInv
<1>14. CASE UNCHANGED definitionVars
  BY <1>1, <1>14 DEF definitionVars, sdkVars, goVars
<1> QED
  BY <1>3, <1>4, <1>5, <1>6, <1>8, <1>10, <1>11, <1>12, <1>13, <1>14 DEF DefinitionNext

\* A DAG that Parse returned, and one that Validate accepts after any edits if
\* its dependencies are among its edges, can be executed to its end in as many
\* rounds as it has tasks.
THEOREM ValidatedTheorem == DefinitionSpec => []ValidatedCanFinish
<1>1. DagInv => ValidatedCanFinish
  BY RoundsRunAll DEF DagInv, ValidatedCanFinish
<1>2. DagInv /\ [DefinitionNext]_definitionVars => DagInv'
  BY DagInvNext
<1> QED
  BY <1>1, <1>2, DagInvInit, PTL DEF DefinitionSpec
=============================================================================
