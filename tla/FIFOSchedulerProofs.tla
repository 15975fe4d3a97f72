------------------------ MODULE FIFOSchedulerProofs -------------------------
(***************************************************************************)
(* The scheduler for every DAG, every set of runs, every combination of    *)
(* store errors and any number of crashes; and the loop of sparkflowctl    *)
(* run.                                                                    *)
(*                                                                         *)
(* Type correctness, and that a scheduler claims an instance at most once, *)
(* hold for any number of schedulers. The other safety properties need a   *)
(* single scheduler on the store (SoleScheduler); they follow from the     *)
(* inductive invariant IInv, whose heart is SnapshotIsCurrent: what        *)
(* Schedule read as Pending or terminal is still so when it acts, because  *)
(* only Schedule moves an instance out of Pending and an execution writes  *)
(* only over Queued and Running. IInv also says which status every write   *)
(* replaces: from that each step is a Finish, a Decide or invisible to     *)
(* DagExecution.                                                           *)
(***************************************************************************)
EXTENDS SchedulerRefinement, LocalRun, TLAPS

USE DEF NoInstance, NoRun

-----------------------------------------------------------------------------
\* The initial state has the types of TypeOK.
LEMMA TypeInit == Init => TypeOK
<1> SUFFICES ASSUME Init PROVE TypeOK
  OBVIOUS
<1>1. StoreTypeOK
  BY DEF Init, StoreInit, StoreTypeOK, InstStatus, RunStatus
<1>2. snap \in [Schedulers -> [Tasks -> InstStatus]]
  BY DEF Init, NoInstances, InstStatus
<1>3. ready \in [Schedulers -> Seq(Runs \X Tasks)]
  BY DEF Init
<1>4. job \in [Schedulers -> [Runs -> [Tasks -> {"no", "dispatched", "running"}]]]
  BY DEF Init
<1>5. claims \in [Schedulers -> [Runs -> [Tasks -> Nat]]]
  BY DEF Init
<1>6. /\ dagStored \in BOOLEAN
      /\ dagIndex \in [Schedulers -> BOOLEAN]
      /\ partial \in [Runs -> BOOLEAN]
  BY DEF Init
<1> QED  BY <1>1, <1>2, <1>3, <1>4, <1>5, <1>6 DEF Init, TypeOK

\* The calls of Submit (CreateRun, CreateTaskInstance, the index) keep the
\* types.
LEMMA TypeSubmit ==
  ASSUME TypeOK, NEW r \in Runs, SubmitStep(r)
  PROVE  TypeOK'
<1>1. ASSUME NEW o \in Outcomes, CreateRun(r, o) PROVE TypeOK'
  BY <1>1
     DEF CreateRun, PutRun, TypeOK, StoreTypeOK, RunStatus, dagVars, callVars,
         history
<1>2. ASSUME NEW t \in Tasks, NEW o \in Outcomes, CreateTaskInstance(r, t, o)
      PROVE TypeOK'
  BY <1>2
     DEF CreateTaskInstance, PutTaskInstance, TypeOK, StoreTypeOK, InstStatus,
         Status, dagVars, callVars, history
<1>3. CASE IndexDAG(r)
  BY <1>3 DEF IndexDAG, TypeOK, StoreTypeOK, storeVars, callVars, history
<1> QED  BY <1>1, <1>2, <1>3 DEF SubmitStep

\* Every step of Schedule keeps the types: in particular the run being
\* visited is a run whenever an instance is queued or a verdict is written.
LEMMA TypeSchedule ==
  ASSUME TypeOK, NEW s \in Schedulers, ScheduleStep(s)
  PROVE  TypeOK'
<1>1. CASE ListRuns(s)
  BY <1>1
     DEF ListRuns, ListRunningRuns, TypeOK, StoreTypeOK, storeVars, dagVars,
         subVars, history
<1>2. ASSUME NEW r \in Runs, NEW o \in Outcomes, ListInstances(s, r, o)
      PROVE TypeOK'
  <2>1. partial' \in [Runs -> BOOLEAN]
    <3>1. CASE partial' = partial
      BY <3>1 DEF TypeOK
    <3>2. CASE ~Failed(o)
      <4> DEFINE b == partial[r] \/ \E t \in Tasks : inst[r][t] = NoInstance
      <4>1. b \in BOOLEAN
        OBVIOUS
      <4>2. partial' = [partial EXCEPT ![r] = b]
        BY <1>2, <3>2 DEF ListInstances
      <4> HIDE DEF b
      <4> QED  BY <4>1, <4>2 DEF TypeOK
    <3> QED  BY <1>2, <3>1, <3>2 DEF ListInstances
  <2>2. inst[r] \in [Tasks -> InstStatus]
    BY DEF TypeOK, StoreTypeOK
  <2>3. CASE Failed(o)
    BY <1>2, <2>1, <2>3 DEF ListInstances, TypeOK, StoreTypeOK, storeVars,
                            dagVars, subVars
  <2>4. CASE ~Failed(o)
    <3>1. snap' \in [Schedulers -> [Tasks -> InstStatus]]
      BY <1>2, <2>2, <2>4 DEF ListInstances, ListTaskInstances, TypeOK
    <3>2. /\ pc' \in [Schedulers -> {"idle", "list", "lookup", "work"}]
          /\ cur' \in [Schedulers -> Runs \cup {NoRun}]
          /\ todo' \in [Schedulers -> SUBSET Runs]
      <4>1. todo' \in [Schedulers -> SUBSET Runs]
        <5>1. todo' = [todo EXCEPT ![s] = todo[s] \ {r}]
          BY <1>2 DEF ListInstances
        <5> QED  BY <5>1 DEF TypeOK
      <4>2. pc' \in [Schedulers -> {"idle", "list", "lookup", "work"}]
        <5>1. pc' = [pc EXCEPT ![s] = "lookup"]
          BY <1>2, <2>4 DEF ListInstances
        <5> QED  BY <5>1 DEF TypeOK
      <4>3. cur' \in [Schedulers -> Runs \cup {NoRun}]
        BY <1>2, <2>4 DEF ListInstances, TypeOK
      <4> QED  BY <4>1, <4>2, <4>3
    <3>3. \A u \in Schedulers : pc'[u] \in {"lookup", "work"} => cur'[u] \in Runs
      BY <1>2, <2>4 DEF ListInstances, TypeOK
    <3> QED
      BY <1>2, <2>1, <3>1, <3>2, <3>3
         DEF ListInstances, TypeOK, StoreTypeOK, storeVars, dagVars, subVars
  <2> QED  BY <2>3, <2>4
<1>3. ASSUME NEW o \in Outcomes, LookupDAG(s, o) PROVE TypeOK'
  <2> DEFINE found == dagIndex[s] \/ (dagStored /\ ~Failed(o))
  <2>1. found \in BOOLEAN
    OBVIOUS
  <2>2. dagIndex' = [dagIndex EXCEPT ![s] = found]
    BY <1>3 DEF LookupDAG
  <2> HIDE DEF found
  <2>3. dagIndex' \in [Schedulers -> BOOLEAN]
    BY <2>1, <2>2 DEF TypeOK
  <2>4. /\ toQueue' \in [Schedulers -> SUBSET Tasks]
        /\ toCheck' \in [Schedulers -> SUBSET Tasks]
    BY <1>3 DEF LookupDAG, ReadyTasks, TypeOK
  <2>5. /\ snap' \in [Schedulers -> [Tasks -> InstStatus]]
        /\ cur' \in [Schedulers -> Runs \cup {NoRun}]
    <3>1. CASE found
      BY <1>3, <3>1 DEF LookupDAG, TypeOK, found
    <3>2. CASE ~found
      <4>1. snap' = [snap EXCEPT ![s] = NoInstances]
        BY <1>3, <3>2 DEF LookupDAG, Leave, found
      <4>2. cur' = [cur EXCEPT ![s] = NoRun]
        BY <1>3, <3>2 DEF LookupDAG, Leave, found
      <4>3. NoInstances \in [Tasks -> InstStatus]
        BY DEF NoInstances, InstStatus
      <4> QED  BY <4>1, <4>2, <4>3 DEF TypeOK
    <3> QED  BY <3>1, <3>2
  <2>6. pc' \in [Schedulers -> {"idle", "list", "lookup", "work"}]
    BY <1>3 DEF LookupDAG, TypeOK
  <2>7. ASSUME NEW u \in Schedulers, pc'[u] \in {"lookup", "work"}
        PROVE  cur'[u] \in Runs
    <3>1. CASE found
      BY <1>3, <2>7, <3>1 DEF LookupDAG, TypeOK, found
    <3>2. CASE ~found
      BY <1>3, <2>7, <3>2 DEF LookupDAG, Leave, TypeOK, found
    <3> QED  BY <3>1, <3>2
  <2> QED
    BY <1>3, <2>3, <2>4, <2>5, <2>6, <2>7
       DEF LookupDAG, TypeOK, StoreTypeOK, storeVars, subVars, history
<1>4. ASSUME NEW t \in Tasks, NEW o \in Outcomes, Enqueue(s, t, o)
      PROVE TypeOK'
  <2>1. StoreTypeOK'
    BY <1>4
       DEF Enqueue, PutTaskInstance, InstStatus, Status, TypeOK, StoreTypeOK
  <2>2. cur[s] \in Runs
    BY <1>4 DEF Enqueue, TypeOK
  <2>3. ready' \in [Schedulers -> Seq(Runs \X Tasks)]
    <3>1. CASE Failed(o)
      BY <1>4, <3>1 DEF Enqueue, TypeOK
    <3>2. CASE ~Failed(o)
      <4>1. <<cur[s], t>> \in Runs \X Tasks
        BY <2>2
      <4>2. Append(ready[s], <<cur[s], t>>) \in Seq(Runs \X Tasks)
        BY <4>1 DEF TypeOK
      <4> QED  BY <1>4, <3>2, <4>2 DEF Enqueue, TypeOK
    <3> QED  BY <3>1, <3>2
  <2>4. claims' \in [Schedulers -> [Runs -> [Tasks -> Nat]]]
    <3>1. CASE Failed(o)
      BY <1>4, <3>1 DEF Enqueue, TypeOK
    <3>2. CASE ~Failed(o)
      <4> DEFINE r == cur[s]
                 k == claims[s][r][t] + 1
      <4>1. /\ claims \in [Schedulers -> [Runs -> [Tasks -> Nat]]]
            /\ r \in Runs
        BY <2>2 DEF TypeOK
      <4>2. k \in Nat
        BY <4>1
      <4>3. claims' = [claims EXCEPT ![s][r][t] = k]
        BY <1>4, <3>2 DEF Enqueue
      <4> HIDE DEF r, k
      <4> QED  BY <4>1, <4>2, <4>3
    <3> QED  BY <3>1, <3>2
  <2> QED
    BY <1>4, <2>1, <2>3, <2>4
       DEF Enqueue, InstStatus, Status, TypeOK, dagVars, subVars
<1>5. ASSUME NEW t \in Tasks, NEW o \in Outcomes, Recheck(s, t, o)
      PROVE TypeOK'
  BY <1>5
     DEF Recheck, TypeOK, StoreTypeOK, storeVars, dagVars, subVars, history
<1>6. ASSUME NEW o \in Outcomes, Conclude(s, o) PROVE TypeOK'
  BY <1>6
     DEF Conclude, UpdateRun, Leave, NoInstances, InstStatus, RunStatus,
         TypeOK, StoreTypeOK, dagVars, subVars, history
<1>7. CASE Return(s)
  <2>1. ready' \in [Schedulers -> Seq(Runs \X Tasks)]
    BY <1>7 DEF Return, TypeOK
  <2>2. job' \in [Schedulers ->
                    [Runs -> [Tasks -> {"no", "dispatched", "running"}]]]
    BY <1>7 DEF Return, TypeOK
  <2> QED
    BY <1>7, <2>1, <2>2
       DEF Return, TypeOK, StoreTypeOK, storeVars, dagVars, subVars, history
<1> QED  BY <1>1, <1>2, <1>3, <1>4, <1>5, <1>6, <1>7 DEF ScheduleStep

\* The writes of a worker and of ReportCompletion keep the types.
LEMMA TypeExecute ==
  ASSUME TypeOK, NEW s \in Schedulers, NEW r \in Runs, NEW t \in Tasks,
         ExecuteStep(s, r, t)
  PROVE  TypeOK'
<1>1. ASSUME NEW o \in Outcomes, Begin(s, r, t, o) PROVE TypeOK'
  BY <1>1
     DEF Begin, PutTaskInstance, InstStatus, Status, TypeOK, StoreTypeOK,
         dagVars, subVars, callVars, history
<1>2. ASSUME NEW res \in Results, NEW o \in Outcomes,
             ReportCompletion(s, r, t, res, o)
      PROVE TypeOK'
  BY <1>2, SchedulerAssumption
     DEF ReportCompletion, PutTaskInstance, InstStatus, Status, TypeOK,
         StoreTypeOK, dagVars, subVars, callVars, history
<1> QED  BY <1>1, <1>2 DEF ExecuteStep

\* TypeOK is inductive.
LEMMA TypeNext == TypeOK /\ [Next]_vars => TypeOK'
<1> SUFFICES ASSUME TypeOK, [Next]_vars PROVE TypeOK'
  OBVIOUS
<1>1. CASE SaveDAG
  BY <1>1
     DEF SaveDAG, TypeOK, StoreTypeOK, storeVars, subVars, callVars, history
<1>2. ASSUME NEW s \in Schedulers, NEW o \in Outcomes, RegisterDAG(s, o)
      PROVE TypeOK'
  <2> DEFINE b == dagIndex[s] \/ ~Failed(o)
             d == dagStored \/ Applied(o)
  <2>1. b \in BOOLEAN /\ d \in BOOLEAN
    OBVIOUS
  <2>2. dagIndex' = [dagIndex EXCEPT ![s] = b] /\ dagStored' = d
    BY <1>2 DEF RegisterDAG
  <2> HIDE DEF b, d
  <2>3. dagIndex' \in [Schedulers -> BOOLEAN] /\ dagStored' \in BOOLEAN
    BY <2>1, <2>2 DEF TypeOK
  <2>4. UNCHANGED <<storeVars, subVars, callVars, job, history>>
    BY <1>2 DEF RegisterDAG
  <2> QED
    BY <2>3, <2>4
       DEF TypeOK, StoreTypeOK, storeVars, subVars, callVars, history
<1>3. ASSUME NEW s \in Schedulers, Crash(s) PROVE TypeOK'
  <2>1. job' \in [Schedulers ->
                    [Runs -> [Tasks -> {"no", "dispatched", "running"}]]]
    <3>1. job \in [Schedulers ->
                     [Runs -> [Tasks -> {"no", "dispatched", "running"}]]]
      BY DEF TypeOK
    <3>2. \/ job' = job
          \/ job' = [job EXCEPT ![s] = [r \in Runs |-> [t \in Tasks |-> "no"]]]
      BY <1>3 DEF Crash
    <3> DEFINE none == [r \in Runs |-> [t \in Tasks |-> "no"]]
    <3>3. none \in [Runs -> [Tasks -> {"no", "dispatched", "running"}]]
      OBVIOUS
    <3> HIDE DEF none
    <3>4. job' = job \/ job' = [job EXCEPT ![s] = none]
      BY <3>2 DEF none
    <3> QED  BY <3>1, <3>3, <3>4
  <2>2. /\ sub' \in [Runs -> {"new", "creating", "done", "failed"}]
        /\ dagIndex' \in [Schedulers -> BOOLEAN]
    BY <1>3 DEF Crash, TypeOK
  <2>3. /\ pc' \in [Schedulers -> {"idle", "list", "lookup", "work"}]
        /\ cur' \in [Schedulers -> Runs \cup {NoRun}]
        /\ \A u \in Schedulers : pc'[u] \in {"lookup", "work"} => cur'[u] \in Runs
    BY <1>3 DEF Crash, Leave, TypeOK
  <2>4. /\ snap' \in [Schedulers -> [Tasks -> InstStatus]]
        /\ todo' \in [Schedulers -> SUBSET Runs]
        /\ toQueue' \in [Schedulers -> SUBSET Tasks]
        /\ toCheck' \in [Schedulers -> SUBSET Tasks]
        /\ ready' \in [Schedulers -> Seq(Runs \X Tasks)]
    BY <1>3 DEF Crash, Leave, NoInstances, InstStatus, TypeOK
  <2>5. UNCHANGED <<runStatus, inst, dagStored, owner, claims, partial>>
    BY <1>3 DEF Crash, storeVars, history
  <2> QED
    BY <2>1, <2>2, <2>3, <2>4, <2>5 DEF TypeOK, StoreTypeOK
<1>4. CASE UNCHANGED vars
  BY <1>4
     DEF vars, TypeOK, StoreTypeOK, storeVars, dagVars, subVars, callVars,
         history
<1> QED  BY <1>1, <1>2, <1>3, <1>4, TypeSubmit, TypeSchedule, TypeExecute
   DEF Next

\* TypeOK holds for any number of schedulers, whatever store calls fail and
\* whichever scheduler dies.
THEOREM TypeCorrect == Spec => []TypeOK
  BY TypeInit, TypeNext, PTL DEF Spec
-----------------------------------------------------------------------------
(* Safety of a store used by one scheduler *)

\* One scheduler object, with one Schedule loop, uses the store.
SoleScheduler == \A s, u \in Schedulers : s = u

\* The types of the locals of Schedule.
CallTypes ==
  /\ pc \in [Schedulers -> {"idle", "list", "lookup", "work"}]
  /\ cur \in [Schedulers -> Runs \cup {NoRun}]
  /\ snap \in [Schedulers -> [Tasks -> InstStatus]]
  /\ toQueue \in [Schedulers -> SUBSET Tasks]

\* What IInv says of them.
LEMMA CallTyped == IInv => CallTypes
  BY DEF IInv, TypeOK, CallTypes

\* The initial state satisfies the inductive invariant.
LEMMA InvInit == Init => IInv
<1> SUFFICES ASSUME Init PROVE IInv
  OBVIOUS
<1>1. TypeOK
  BY TypeInit
<1>2. SnapshotIsCurrent /\ SnapshotIsWhole /\ VisitedIsRunning /\ QueueIsReady
  BY
     DEF Init, Visiting, SnapshotIsCurrent, SnapshotIsWhole, VisitedIsRunning,
         QueueIsReady
<1>3. ReadyIsQueued
  BY DEF Init, ReadyIsQueued
<1>4. JobIsStored
  BY DEF Init, JobIsStored
<1>5. ClaimsMatchStore /\ DependenciesFirst
  BY DEF Init, StoreInit, ClaimsMatchStore, DependenciesFirst
<1>6. VerdictIsSound
  BY DEF Init, StoreInit, VerdictIsSound, IsTerminal, Terminal
<1> QED  BY <1>1, <1>2, <1>3, <1>4, <1>5, <1>6 DEF IInv

\* IInv speaks only of the store, the Schedule calls, the executions and the
\* history.
LEMMA InvFrame ==
  ASSUME IInv, TypeOK', UNCHANGED <<storeVars, callVars, job, history>>
  PROVE  IInv'
<1>1. SnapshotIsCurrent' /\ SnapshotIsWhole' /\ VisitedIsRunning' /\ QueueIsReady'
  BY DEF IInv, storeVars, callVars, history, Visiting, SnapshotIsCurrent,
         SnapshotIsWhole, VisitedIsRunning, QueueIsReady
<1>2. ReadyIsQueued'
  BY DEF IInv, storeVars, callVars, ReadyIsQueued
<1>3. JobIsStored' /\ ClaimsMatchStore' /\ DependenciesFirst' /\ VerdictIsSound'
  BY DEF IInv, storeVars, callVars, history, JobIsStored, ClaimsMatchStore,
         DependenciesFirst, VerdictIsSound
<1> QED  BY <1>1, <1>2, <1>3 DEF IInv

\* What a write of the store changes: at most one instance.
LEMMA PutFact ==
  ASSUME TypeOK, NEW r \in Runs, NEW t \in Tasks, NEW v, NEW o,
         PutTaskInstance(r, t, v, o)
  PROVE  \A q \in Runs, u \in Tasks :
           \/ inst'[q][u] = inst[q][u]
           \/ q = r /\ u = t /\ inst'[q][u] = v
<1>1. CASE Applied(o)
  BY <1>1 DEF PutTaskInstance, TypeOK, StoreTypeOK
<1>2. CASE ~Applied(o)
  BY <1>2 DEF PutTaskInstance
<1> QED  BY <1>1, <1>2

\* CreateRun touches only a run nobody has listed yet.
LEMMA InvCreateRun ==
  ASSUME IInv, TypeOK', NEW r \in Runs, NEW o \in Outcomes, CreateRun(r, o)
  PROVE  IInv'
<1>1. /\ inst' = inst /\ job' = job /\ ready' = ready
      /\ UNCHANGED callVars /\ UNCHANGED history
  BY DEF CreateRun, callVars
<1>2. \A q \in Runs :
        \/ runStatus'[q] = runStatus[q]
        \/ runStatus[q] = NoInstance /\ runStatus'[q] = "running"
  <2>1. CASE Applied(o)
    BY <2>1 DEF CreateRun, PutRun, IInv, TypeOK, StoreTypeOK
  <2>2. CASE ~Applied(o)
    BY <2>2 DEF CreateRun, PutRun
  <2> QED  BY <2>1, <2>2
<1>3. SnapshotIsCurrent' /\ SnapshotIsWhole' /\ QueueIsReady'
  BY <1>1 DEF IInv, callVars, history, Visiting, SnapshotIsCurrent,
              SnapshotIsWhole, QueueIsReady
<1>4. VisitedIsRunning'
  <2>1. \A u \in Schedulers : /\ todo[u] \subseteq Runs
                              /\ Visiting(u) => cur[u] \in Runs
    BY DEF IInv, TypeOK, Visiting
  <2> QED
    BY <1>1, <1>2, <2>1 DEF IInv, callVars, Visiting, VisitedIsRunning
<1>5. ReadyIsQueued'
  BY <1>1 DEF IInv, ReadyIsQueued
<1>6. JobIsStored' /\ ClaimsMatchStore' /\ DependenciesFirst'
  BY <1>1 DEF IInv, history, JobIsStored, ClaimsMatchStore, DependenciesFirst
<1>7. VerdictIsSound'
  BY <1>1, <1>2 DEF IInv, history, VerdictIsSound, IsTerminal, Terminal
<1> QED  BY <1>3, <1>4, <1>5, <1>6, <1>7 DEF IInv

\* CreateTaskInstance adds a Pending instance where there was none.
LEMMA InvCreateTaskInstance ==
  ASSUME IInv, TypeOK', NEW r \in Runs, NEW t \in Tasks, NEW o \in Outcomes,
         CreateTaskInstance(r, t, o)
  PROVE  IInv'
<1>1. /\ runStatus' = runStatus /\ job' = job /\ ready' = ready
      /\ UNCHANGED callVars /\ UNCHANGED history
  BY DEF CreateTaskInstance, callVars
<1>2. \A q \in Runs, u \in Tasks :
        \/ inst'[q][u] = inst[q][u]
        \/ inst[q][u] = NoInstance /\ inst'[q][u] = "pending"
  BY PutFact DEF CreateTaskInstance, IInv
<1>3. SnapshotIsCurrent'
  <2> SUFFICES ASSUME NEW s \in Schedulers, NEW u \in Tasks, Visiting(s),
                      snap[s][u] = "pending" \/ IsTerminal(snap[s][u])
               PROVE  inst'[cur[s]][u] = snap[s][u]
    BY <1>1 DEF callVars, SnapshotIsCurrent, Visiting
  <2>1. cur[s] \in Runs /\ inst[cur[s]][u] = snap[s][u]
    BY DEF IInv, TypeOK, Visiting, SnapshotIsCurrent
  <2> QED  BY <1>2, <2>1 DEF IsTerminal, Terminal
<1>4. SnapshotIsWhole' /\ VisitedIsRunning' /\ QueueIsReady'
  <2>1. \A v \in Schedulers : Visiting(v) => cur[v] \in Runs
    BY DEF IInv, TypeOK, Visiting
  <2>2. SnapshotIsWhole'
    BY <1>1, <1>2, <2>1
       DEF IInv, callVars, history, Visiting, SnapshotIsWhole, NoInstance
  <2>3. VisitedIsRunning' /\ QueueIsReady'
    BY <1>1 DEF IInv, callVars, Visiting, VisitedIsRunning, QueueIsReady
  <2> QED  BY <2>2, <2>3
<1>5. ReadyIsQueued'
  BY <1>1, <1>2 DEF IInv, ReadyIsQueued
<1>6. JobIsStored' /\ ClaimsMatchStore'
  BY <1>1, <1>2 DEF IInv, history, JobIsStored, ClaimsMatchStore
<1>7. DependenciesFirst'
  <2> SUFFICES ASSUME NEW q \in Runs, NEW u \in Tasks, NEW d \in Deps[u],
                      inst'[q][u] \notin {NoInstance, "pending"}
               PROVE  inst'[q][d] = "success"
    BY DEF DependenciesFirst
  <2>1. d \in Tasks /\ inst'[q][u] = inst[q][u]
    BY <1>2, DagAssumption
  <2>2. inst[q][d] = "success"
    BY <2>1 DEF IInv, DependenciesFirst
  <2> QED  BY <1>2, <2>1, <2>2
<1>8. VerdictIsSound'
  BY <1>1, <1>2 DEF IInv, history, VerdictIsSound, IsTerminal, Terminal
<1> QED  BY <1>3, <1>4, <1>5, <1>6, <1>7, <1>8 DEF IInv

\* ListRuns reads the runs that are Running.
LEMMA InvListRuns ==
  ASSUME IInv, TypeOK', NEW s \in Schedulers, ListRuns(s)
  PROVE  IInv'
<1>1. /\ UNCHANGED <<storeVars, job, history, cur, snap, toQueue, ready>>
      /\ inst' = inst /\ job' = job /\ ready' = ready
  BY DEF ListRuns, storeVars
<1>2. SnapshotIsCurrent' /\ SnapshotIsWhole' /\ QueueIsReady'
  BY <1>1 DEF ListRuns, IInv, TypeOK, history, Visiting, SnapshotIsCurrent,
              SnapshotIsWhole, QueueIsReady
<1>3. VisitedIsRunning'
  BY <1>1 DEF ListRuns, ListRunningRuns, storeVars, IInv, TypeOK, Visiting,
              VisitedIsRunning
<1>4. ReadyIsQueued'
  BY <1>1 DEF IInv, ReadyIsQueued
<1>5. JobIsStored' /\ ClaimsMatchStore' /\ DependenciesFirst' /\ VerdictIsSound'
  BY <1>1 DEF IInv, storeVars, history, JobIsStored, ClaimsMatchStore,
              DependenciesFirst, VerdictIsSound
<1> QED  BY <1>2, <1>3, <1>4, <1>5 DEF IInv

\* ListInstances takes a copy of the store.
LEMMA InvListInstances ==
  ASSUME IInv, TypeOK', NEW s \in Schedulers, NEW r \in Runs,
         NEW o \in Outcomes, ListInstances(s, r, o)
  PROVE  IInv'
<1>1. /\ UNCHANGED <<storeVars, job, claims, toQueue, ready>>
      /\ inst' = inst /\ job' = job /\ ready' = ready
  BY DEF ListInstances, storeVars
<1>2. \A q \in Runs : partial[q] => partial'[q]
  BY DEF ListInstances, IInv, TypeOK
<1>3. SnapshotIsCurrent'
  <2>1. CASE Failed(o)
    BY <1>1, <2>1 DEF ListInstances, IInv, Visiting, SnapshotIsCurrent
  <2>2. CASE ~Failed(o)
    <3>1. /\ pc' = [pc EXCEPT ![s] = "lookup"]
          /\ cur' = [cur EXCEPT ![s] = r]
          /\ snap' = [snap EXCEPT ![s] = inst[r]]
      BY <2>2 DEF ListInstances, ListTaskInstances
    <3> QED
      BY <1>1, <3>1, CallTyped DEF IInv, CallTypes, Visiting, SnapshotIsCurrent
  <2> QED  BY <2>1, <2>2
<1>4. SnapshotIsWhole'
  <2>1. CASE Failed(o)
    BY <1>1, <2>1 DEF ListInstances, IInv, Visiting, SnapshotIsWhole
  <2>2. CASE ~Failed(o)
    <3>1. \A v \in Schedulers \ {s} :
            pc'[v] = pc[v] /\ cur'[v] = cur[v] /\ snap'[v] = snap[v]
      BY <2>2, CallTyped DEF ListInstances, CallTypes
    <3>2. /\ cur'[s] = r /\ snap'[s] = inst[r]
          /\ ~partial'[r] => \A t \in Tasks : inst[r][t] # NoInstance
      BY <2>2, CallTyped
         DEF ListInstances, ListTaskInstances, CallTypes, IInv, TypeOK
    <3>3. \A v \in Schedulers : Visiting(v) => cur[v] \in Runs
      BY DEF IInv, TypeOK, Visiting
    <3>4. ASSUME NEW v \in Schedulers, Visiting(v)', ~partial'[cur'[v]],
                 NEW t \in Tasks
          PROVE  snap'[v][t] # NoInstance /\ inst[cur'[v]][t] # NoInstance
      <4>1. CASE v = s
        BY <3>2, <3>4, <4>1
      <4>2. CASE v # s
        BY <1>2, <3>1, <3>3, <3>4, <4>2 DEF Visiting, IInv, SnapshotIsWhole
      <4> QED
        BY <4>1, <4>2
    <3> QED
      BY <1>1, <3>4 DEF SnapshotIsWhole
  <2> QED  BY <2>1, <2>2
<1>5. VisitedIsRunning'
  <2>1. /\ todo' = [todo EXCEPT ![s] = todo[s] \ {r}]
        /\ r \in todo[s] /\ pc[s] = "list"
    BY DEF ListInstances, IsNewest
  <2>2. /\ runStatus' = runStatus
        /\ runStatus[r] = "running"
    BY <1>1, <2>1 DEF storeVars, IInv, VisitedIsRunning
  <2>3. CASE Failed(o)
    BY <2>1, <2>2, <2>3 DEF ListInstances, IInv, TypeOK, Visiting, VisitedIsRunning
  <2>4. CASE ~Failed(o)
    <3>1. /\ pc' = [pc EXCEPT ![s] = "lookup"]
          /\ cur' = [cur EXCEPT ![s] = r]
      BY <2>4 DEF ListInstances
    <3> QED
      BY <2>1, <2>2, <3>1, SMTT(30) DEF IInv, TypeOK, Visiting, VisitedIsRunning
  <2> QED  BY <2>3, <2>4
<1>6. QueueIsReady'
  BY <1>1, CallTyped DEF ListInstances, IInv, CallTypes, QueueIsReady
<1>7. ReadyIsQueued'
  BY <1>1 DEF IInv, ReadyIsQueued
<1>8. JobIsStored' /\ ClaimsMatchStore' /\ DependenciesFirst'
  BY <1>1 DEF IInv, storeVars, JobIsStored, ClaimsMatchStore, DependenciesFirst
<1>9. VerdictIsSound'
  BY <1>1, <1>2 DEF IInv, storeVars, VerdictIsSound
<1> QED  BY <1>3, <1>4, <1>5, <1>6, <1>7, <1>8, <1>9 DEF IInv

\* LookupDAG computes what is ready from the snapshot, or leaves the run.
LEMMA InvLookupDAG ==
  ASSUME IInv, TypeOK', NEW s \in Schedulers, NEW o \in Outcomes,
         LookupDAG(s, o)
  PROVE  IInv'
<1> DEFINE found == dagIndex[s] \/ (dagStored /\ ~Failed(o))
<1>1. /\ UNCHANGED <<storeVars, job, history, todo, ready>>
      /\ inst' = inst /\ job' = job /\ ready' = ready
      /\ pc[s] = "lookup"
  BY DEF LookupDAG, storeVars
<1> DEFINE CallInv == /\ SnapshotIsCurrent /\ SnapshotIsWhole
                      /\ VisitedIsRunning /\ QueueIsReady
<1>2. ASSUME found PROVE CallInv'
  <2>1. /\ pc' = [pc EXCEPT ![s] = "work"]
        /\ cur' = cur /\ snap' = snap
        /\ toQueue' = [toQueue EXCEPT ![s] =
             {t \in ReadyTasks(snap[s]) : snap[s][t] = "pending"}]
    BY <1>2 DEF LookupDAG
  <2>2. SnapshotIsCurrent' /\ SnapshotIsWhole' /\ VisitedIsRunning'
    BY <1>1, <2>1, CallTyped DEF storeVars, history, IInv, CallTypes, Visiting,
                      SnapshotIsCurrent, SnapshotIsWhole, VisitedIsRunning
  <2>3. \A t \in toQueue'[s] : /\ snap[s][t] = "pending"
                               /\ \A d \in Deps[t] : snap[s][d] = "success"
    BY <2>1 DEF ReadyTasks, Lookup, IInv, TypeOK
  <2>4. QueueIsReady'
    BY <2>1, <2>3 DEF IInv, TypeOK, QueueIsReady
  <2> QED  BY <2>2, <2>4
<1>3. ASSUME ~found PROVE CallInv'
  <2>1. /\ pc' = [pc EXCEPT ![s] = "list"]
        /\ cur' = [cur EXCEPT ![s] = NoRun]
        /\ snap' = [snap EXCEPT ![s] = NoInstances]
        /\ toQueue' = [toQueue EXCEPT ![s] = {}]
    BY <1>3 DEF LookupDAG, Leave
  <2>2. /\ pc'[s] = "list"
        /\ \A v \in Schedulers \ {s} :
             /\ pc'[v] = pc[v] /\ cur'[v] = cur[v] /\ snap'[v] = snap[v]
             /\ toQueue'[v] = toQueue[v]
    BY <2>1, CallTyped DEF CallTypes
  <2> QED
    BY <1>1, <2>2
       DEF storeVars, history, IInv, Visiting, SnapshotIsCurrent,
                      SnapshotIsWhole, VisitedIsRunning, QueueIsReady
<1>4. ReadyIsQueued'
  BY <1>1 DEF IInv, ReadyIsQueued
<1>5. JobIsStored' /\ ClaimsMatchStore' /\ DependenciesFirst' /\ VerdictIsSound'
  BY <1>1 DEF IInv, storeVars, history, JobIsStored, ClaimsMatchStore,
              DependenciesFirst, VerdictIsSound
<1> QED  BY <1>2, <1>3, <1>4, <1>5 DEF IInv

\* Enqueue writes Queued over an instance that is still Pending, and hands it
\* out for the first time.
LEMMA InvEnqueue ==
  ASSUME IInv, TypeOK', SoleScheduler, NEW s \in Schedulers, NEW t \in Tasks,
         NEW o \in Outcomes, Enqueue(s, t, o)
  PROVE  IInv'
<1> DEFINE r == cur[s]
<1>1. /\ pc[s] = "work" /\ r \in Runs /\ t \in toQueue[s]
      /\ UNCHANGED <<runStatus, pc, todo, cur, toCheck, job, partial>>
  BY DEF Enqueue, IsFirst, IInv, TypeOK
<1>2. /\ inst[r][t] = "pending" /\ snap[s][t] = "pending"
      /\ \A d \in Deps[t] : inst[r][d] = "success" /\ snap[s][d] = "success"
  BY <1>1, DagAssumption
     DEF IInv, QueueIsReady, SnapshotIsCurrent, Visiting, IsTerminal, Terminal
<1>3. \A q \in Runs, u \in Tasks :
        \/ inst'[q][u] = inst[q][u]
        \/ q = r /\ u = t /\ inst'[q][u] = "queued"
  BY <1>1, PutFact DEF Enqueue, IInv
<1>4. /\ snap' = [snap EXCEPT ![s][t] = "queued"]
      /\ toQueue' = [toQueue EXCEPT ![s] = toQueue[s] \ {t}]
  BY DEF Enqueue
<1>5. \A u \in Schedulers : u = s
  BY DEF SoleScheduler
<1>6. snap'[s][t] = "queued" /\ \A u \in Tasks : u # t => snap'[s][u] = snap[s][u]
  BY <1>4 DEF IInv, TypeOK
<1>7. SnapshotIsCurrent'
  <2> SUFFICES ASSUME NEW u \in Tasks,
                      snap'[s][u] = "pending" \/ IsTerminal(snap'[s][u])
               PROVE  inst'[r][u] = snap'[s][u]
    BY <1>1, <1>5 DEF SnapshotIsCurrent, Visiting
  <2>1. u # t
    BY <1>6 DEF IsTerminal, Terminal
  <2>2. inst[r][u] = snap[s][u]
    BY <1>1, <1>6, <2>1 DEF IInv, SnapshotIsCurrent, Visiting
  <2> QED  BY <1>1, <1>3, <1>6, <2>1, <2>2
<1>8. SnapshotIsWhole'
  <2> SUFFICES ASSUME ~partial[r], NEW u \in Tasks
               PROVE  snap'[s][u] # NoInstance /\ inst'[r][u] # NoInstance
    BY <1>1, <1>5 DEF SnapshotIsWhole, Visiting
  <2>1. snap[s][u] # NoInstance /\ inst[r][u] # NoInstance
    BY <1>1 DEF IInv, SnapshotIsWhole, Visiting
  <2> QED  BY <1>1, <1>3, <1>6, <2>1
<1>9. VisitedIsRunning'
  BY <1>1 DEF IInv, VisitedIsRunning, Visiting
<1>10. QueueIsReady'
  <2> SUFFICES ASSUME NEW u \in toQueue[s] \ {t}
               PROVE  /\ snap'[s][u] = "pending"
                      /\ \A d \in Deps[u] : snap'[s][d] = "success"
    BY <1>1, <1>4, <1>5 DEF QueueIsReady, IInv, TypeOK
  <2>1. /\ u \in Tasks /\ snap[s][u] = "pending"
        /\ \A d \in Deps[u] : d \in Tasks /\ snap[s][d] = "success"
    BY <1>1, DagAssumption DEF IInv, TypeOK, QueueIsReady
  <2>2. \A d \in Deps[u] : d # t
    BY <1>2, <2>1
  <2> QED  BY <1>6, <2>1, <2>2
<1>11. ReadyIsQueued' /\ JobIsStored'
  <2>1. job[s][r][t] = "no"
    <3>1. job[s][r][t] \in {"no", "dispatched", "running"}
      <4>1. job \in [Schedulers ->
                       [Runs -> [Tasks -> {"no", "dispatched", "running"}]]]
        BY DEF IInv, TypeOK
      <4> QED  BY <1>1, <4>1
    <3> QED  BY <1>1, <1>2, <3>1 DEF IInv, JobIsStored
  <2>2. ASSUME NEW q \in Runs, NEW u \in Tasks, NEW i \in DOMAIN ready'[s],
               ready'[s][i] = <<q, u>>
        PROVE  inst'[q][u] = "queued" /\ job[s][q][u] = "no"
    <3>1. CASE Failed(o)
      <4>1. inst[q][u] = "queued" /\ job[s][q][u] = "no"
        BY <2>2, <3>1 DEF Enqueue, IInv, ReadyIsQueued
      <4> QED  BY <1>3, <4>1
    <3>2. CASE ~Failed(o)
      <4>1. /\ ready'[s] = Append(ready[s], <<r, t>>)
            /\ inst'[r][t] = "queued"
        <5>1. /\ ready' = [ready EXCEPT ![s] = Append(ready[s], <<r, t>>)]
              /\ inst' = [inst EXCEPT ![r][t] = "queued"]
          BY <3>2 DEF Enqueue, PutTaskInstance, Applied, Failed
        <5>2. /\ ready \in [Schedulers -> Seq(Runs \X Tasks)]
              /\ inst \in [Runs -> [Tasks -> InstStatus]]
          BY DEF IInv, TypeOK, StoreTypeOK
        <5> QED  BY <1>1, <5>1, <5>2
      <4>2. ready[s] \in Seq(Runs \X Tasks)
        BY DEF IInv, TypeOK
      <4>3. CASE i = Len(ready[s]) + 1
        <5>1. q = r /\ u = t
          BY <2>2, <4>1, <4>2, <4>3
        <5> QED  BY <2>1, <4>1, <5>1
      <4>4. CASE i # Len(ready[s]) + 1
        <5>1. i \in DOMAIN ready[s] /\ ready[s][i] = <<q, u>>
          BY <2>2, <4>1, <4>2, <4>4
        <5>2. inst[q][u] = "queued" /\ job[s][q][u] = "no"
          BY <5>1 DEF IInv, ReadyIsQueued
        <5> QED  BY <1>3, <5>2
      <4> QED  BY <4>3, <4>4
    <3> QED  BY <3>1, <3>2
  <2>3. ReadyIsQueued'
    BY <1>1, <1>5, <2>2 DEF ReadyIsQueued
  <2>4. JobIsStored'
    BY <1>1, <1>2, <1>3, <1>5 DEF IInv, JobIsStored
  <2> QED  BY <2>3, <2>4
<1>12. ClaimsMatchStore'
  <2>1. CASE Failed(o)
    <3>1. claims' = claims
      BY <2>1 DEF Enqueue
    <3> QED  BY <1>2, <1>3, <3>1 DEF IInv, ClaimsMatchStore
  <2>2. CASE ~Failed(o)
    <3>1. /\ claims' = [claims EXCEPT ![s][r][t] = claims[s][r][t] + 1]
          /\ inst'[r][t] = "queued"
      <4>1. /\ claims' = [claims EXCEPT ![s][r][t] = claims[s][r][t] + 1]
            /\ inst' = [inst EXCEPT ![r][t] = "queued"]
        BY <2>2 DEF Enqueue, PutTaskInstance, Applied, Failed
      <4>2. inst \in [Runs -> [Tasks -> InstStatus]]
        BY DEF IInv, TypeOK, StoreTypeOK
      <4> QED  BY <1>1, <4>1, <4>2
    <3>2. claims[s][r][t] = 0
      BY <1>1, <1>2 DEF IInv, ClaimsMatchStore
    <3>3. \A v \in Schedulers, q \in Runs, u \in Tasks :
            claims'[v][q][u] = IF v = s /\ q = r /\ u = t
                                 THEN 1 ELSE claims[v][q][u]
      <4>1. claims \in [Schedulers -> [Runs -> [Tasks -> Nat]]]
        BY DEF IInv, TypeOK
      <4> QED  BY ONLY <1>1, <3>1, <3>2, <4>1
    <3>4. \A v \in Schedulers : v = s
      BY DEF SoleScheduler
    <3> QED  BY <1>3, <3>1, <3>3, <3>4 DEF IInv, ClaimsMatchStore
  <2> QED  BY <2>1, <2>2
<1>13. DependenciesFirst'
  <2> SUFFICES ASSUME NEW q \in Runs, NEW u \in Tasks,
                      inst'[q][u] \notin {NoInstance, "pending"},
                      NEW d \in Deps[u]
               PROVE  inst'[q][d] = "success"
    BY DEF DependenciesFirst
  <2>1. d \in Tasks
    BY DagAssumption
  <2>2. inst[q][d] = "success"
    BY <1>2, <1>3 DEF IInv, DependenciesFirst
  <2> QED  BY <1>2, <1>3, <2>1, <2>2
<1>14. VerdictIsSound'
  <2> SUFFICES ASSUME NEW q \in Runs, IsTerminal(runStatus[q]), ~partial[q]
               PROVE  /\ \A u \in Tasks : IsTerminal(inst'[q][u])
                      /\ runStatus[q] = "failed" <=>
                           \E u \in Tasks : inst'[q][u] = "failed"
    BY <1>1 DEF VerdictIsSound
  <2>1. q # r
    BY <1>1 DEF IInv, VisitedIsRunning, Visiting, IsTerminal, Terminal
  <2>2. \A u \in Tasks : inst'[q][u] = inst[q][u]
    BY <1>3, <2>1
  <2> QED  BY <2>2 DEF IInv, VerdictIsSound
<1> QED
  BY <1>7, <1>8, <1>9, <1>10, <1>11, <1>12, <1>13, <1>14 DEF IInv

\* Recheck replaces a copy by what is stored now.
LEMMA InvRecheck ==
  ASSUME IInv, TypeOK', NEW s \in Schedulers, NEW t \in Tasks,
         NEW o \in Outcomes, Recheck(s, t, o)
  PROVE  IInv'
<1>1. /\ UNCHANGED <<storeVars, pc, todo, cur, toQueue, job, history>>
      /\ inst' = inst /\ ready' = ready
      /\ toQueue[s] = {} /\ pc[s] = "work"
  BY DEF Recheck, storeVars
<1>2. /\ \A u \in Schedulers, v \in Tasks :
           \/ snap'[u][v] = snap[u][v]
           \/ u = s /\ v = t /\ snap'[u][v] = inst[cur[s]][t]
  BY DEF Recheck, IInv, TypeOK
<1>3. SnapshotIsCurrent' /\ SnapshotIsWhole'
  BY <1>1, <1>2 DEF IInv, history, Visiting, SnapshotIsCurrent, SnapshotIsWhole
<1>4. VisitedIsRunning'
  BY <1>1 DEF IInv, storeVars, Visiting, VisitedIsRunning
<1>5. QueueIsReady'
  <2>1. \A u \in Schedulers : u # s => snap'[u] = snap[u]
    BY DEF Recheck, IInv, TypeOK
  <2> QED  BY <1>1, <2>1 DEF IInv, QueueIsReady
<1>6. ReadyIsQueued'
  BY <1>1 DEF IInv, ReadyIsQueued
<1>7. JobIsStored' /\ ClaimsMatchStore' /\ DependenciesFirst' /\ VerdictIsSound'
  BY <1>1 DEF IInv, storeVars, history, JobIsStored, ClaimsMatchStore,
              DependenciesFirst, VerdictIsSound
<1> QED  BY <1>3, <1>4, <1>5, <1>6, <1>7 DEF IInv

\* Conclude ends a Running run on the strength of a whole and current
\* snapshot, or of one recorded as partial.
LEMMA InvConclude ==
  ASSUME IInv, TypeOK', SoleScheduler, NEW s \in Schedulers,
         NEW o \in Outcomes, Conclude(s, o)
  PROVE  IInv'
<1> DEFINE r == cur[s]
           verdict == IF AnyFailed(s) THEN "failed" ELSE "success"
<1>1. /\ inst' = inst /\ UNCHANGED <<todo, toQueue, ready, job, history>>
      /\ pc[s] = "work" /\ r \in Runs
      /\ pc' = [pc EXCEPT ![s] = "list"]
  BY DEF Conclude, IInv, TypeOK
<1>2. \A u \in Schedulers : u = s
  BY DEF SoleScheduler
<1>3. pc'[s] = "list"
  BY <1>1 DEF IInv, TypeOK
<1>4. \A q \in Runs :
        \/ runStatus'[q] = runStatus[q]
        \/ q = r /\ AllComplete(s) /\ runStatus'[q] = verdict
  <2>1. CASE AllComplete(s) /\ Applied(o)
    BY <1>1, <2>1 DEF Conclude, UpdateRun, IInv, TypeOK, StoreTypeOK
  <2>2. CASE ~(AllComplete(s) /\ Applied(o))
    BY <2>2 DEF Conclude, UpdateRun
  <2> QED  BY <2>1, <2>2
<1>5. SnapshotIsCurrent' /\ SnapshotIsWhole' /\ QueueIsReady'
  BY <1>2, <1>3 DEF Visiting, SnapshotIsCurrent, SnapshotIsWhole, QueueIsReady
<1>6. VisitedIsRunning'
  <2>1. r \notin todo[s] /\ \A q \in todo[s] : q \in Runs /\ runStatus[q] = "running"
    BY <1>1 DEF IInv, TypeOK, VisitedIsRunning, Visiting
  <2> QED  BY <1>1, <1>2, <1>3, <1>4, <2>1 DEF VisitedIsRunning, Visiting
<1>7. ReadyIsQueued'
  BY <1>1 DEF IInv, ReadyIsQueued
<1>8. JobIsStored' /\ ClaimsMatchStore' /\ DependenciesFirst'
  BY <1>1 DEF IInv, history, JobIsStored, ClaimsMatchStore, DependenciesFirst
<1>9. VerdictIsSound'
  <2> SUFFICES ASSUME NEW q \in Runs, IsTerminal(runStatus'[q]), ~partial[q]
               PROVE  /\ \A u \in Tasks : IsTerminal(inst[q][u])
                      /\ runStatus'[q] = "failed" <=>
                           \E u \in Tasks : inst[q][u] = "failed"
    BY <1>1 DEF VerdictIsSound, history
  <2>1. CASE runStatus'[q] = runStatus[q]
    BY <2>1 DEF IInv, VerdictIsSound
  <2>2. CASE q = r /\ AllComplete(s) /\ runStatus'[q] = verdict
    <3>1. \A u \in Tasks : snap[s][u] # NoInstance
      BY <1>1, <2>2 DEF IInv, SnapshotIsWhole, Visiting
    <3>2. \A u \in Tasks : IsTerminal(snap[s][u])
      BY <2>2, <3>1 DEF AllComplete, Listed
    <3>3. \A u \in Tasks : inst[r][u] = snap[s][u]
      BY <1>1, <3>2 DEF IInv, SnapshotIsCurrent, Visiting
    <3>4. AnyFailed(s) <=> \E u \in Tasks : inst[r][u] = "failed"
      BY <3>1, <3>3 DEF AnyFailed, Listed
    <3> QED  BY <2>2, <3>2, <3>3, <3>4
  <2> QED  BY <1>4, <2>1, <2>2
<1> QED  BY <1>5, <1>6, <1>7, <1>8, <1>9 DEF IInv

\* Return turns the ready list, whose instances are Queued, into executions.
LEMMA InvReturn ==
  ASSUME IInv, TypeOK', SoleScheduler, NEW s \in Schedulers, Return(s)
  PROVE  IInv'
<1>1. /\ UNCHANGED <<storeVars, todo, cur, snap, toQueue, history>>
      /\ inst' = inst
  BY DEF Return, storeVars
<1>2. \A u \in Schedulers : u = s
  BY DEF SoleScheduler
<1>3. pc'[s] = "idle" /\ ready'[s] = <<>>
  BY DEF Return, IInv, TypeOK
<1>4. SnapshotIsCurrent' /\ SnapshotIsWhole' /\ VisitedIsRunning' /\ QueueIsReady'
  BY <1>2, <1>3 DEF Visiting, SnapshotIsCurrent, SnapshotIsWhole,
                    VisitedIsRunning, QueueIsReady
<1>5. ReadyIsQueued'
  BY <1>2, <1>3 DEF ReadyIsQueued
<1>6. \A r \in Runs, t \in Tasks :
        \/ job'[s][r][t] = job[s][r][t]
        \/ /\ job'[s][r][t] = "dispatched"
           /\ \E i \in DOMAIN ready[s] : ready[s][i] = <<r, t>>
  <2> DEFINE listed(r, t) == \E i \in DOMAIN ready[s] : ready[s][i] = <<r, t>>
  <2>1. job \in [Schedulers ->
                   [Runs -> [Tasks -> {"no", "dispatched", "running"}]]]
    BY DEF IInv, TypeOK
  <2>2. \/ job' = job
        \/ job' = [job EXCEPT ![s] =
                    [r \in Runs |-> [t \in Tasks |->
                       IF listed(r, t) THEN "dispatched" ELSE job[s][r][t]]]]
    BY DEF Return
  <2> HIDE DEF listed
  <2>3. \A r \in Runs, t \in Tasks :
          \/ job'[s][r][t] = job[s][r][t]
          \/ job'[s][r][t] = "dispatched" /\ listed(r, t)
    BY <2>1, <2>2
  <2> QED  BY <2>3 DEF listed
<1>7. JobIsStored'
  BY <1>1, <1>2, <1>6 DEF IInv, JobIsStored, ReadyIsQueued
<1>8. ClaimsMatchStore' /\ DependenciesFirst' /\ VerdictIsSound'
  BY <1>1 DEF IInv, storeVars, history, ClaimsMatchStore, DependenciesFirst,
              VerdictIsSound
<1> QED  BY <1>4, <1>5, <1>7, <1>8 DEF IInv

\* An execution writes Running or a result, and only over Queued or Running.
LEMMA InvExecute ==
  ASSUME IInv, TypeOK', SoleScheduler, NEW s \in Schedulers, NEW r \in Runs,
         NEW t \in Tasks, NEW o \in Outcomes, NEW v, NEW j,
         UNCHANGED <<runStatus, callVars, history>>,
         job[s][r][t] # "no",
         PutTaskInstance(r, t, v, o),
         job' = [job EXCEPT ![s][r][t] = j],
         v = "running" \/ v \in Terminal,
         j \in {"no", "running"},
         j = "running" => inst'[r][t] = "running"
  PROVE  IInv'
<1>1. inst[r][t] \in {"queued", "running"}
  BY DEF IInv, TypeOK, JobIsStored
<1>2. \A q \in Runs, u \in Tasks :
        \/ inst'[q][u] = inst[q][u]
        \/ q = r /\ u = t /\ inst'[q][u] = v
  BY PutFact DEF IInv
<1>3. \A q \in Runs, u \in Tasks :
        \/ inst'[q][u] = inst[q][u]
        \/ /\ inst[q][u] \in {"queued", "running"}
           /\ inst'[q][u] = "running" \/ inst'[q][u] \in Terminal
  BY <1>1, <1>2
<1>4. \A u \in Schedulers : u = s
  BY DEF SoleScheduler
<1>5. UNCHANGED <<runStatus, pc, todo, cur, snap, toQueue, ready, claims, partial>>
  BY DEF callVars, history
<1>6. \A q \in Runs, u \in Tasks :
        job'[s][q][u] = IF q = r /\ u = t THEN j ELSE job[s][q][u]
  <2>1. job \in [Schedulers ->
                   [Runs -> [Tasks -> {"no", "dispatched", "running"}]]]
    BY DEF IInv, TypeOK
  <2> QED  BY <2>1
<1>7. SnapshotIsCurrent' /\ SnapshotIsWhole'
  <2>1. \A u \in Schedulers : Visiting(u) => cur[u] \in Runs
    BY DEF IInv, TypeOK, Visiting
  <2>2. SnapshotIsCurrent'
    BY <1>3, <1>5, <2>1 DEF IInv, Visiting, SnapshotIsCurrent, IsTerminal,
                            Terminal
  <2>3. SnapshotIsWhole'
    BY <1>3, <1>5, <2>1 DEF IInv, Visiting, SnapshotIsWhole, Terminal
  <2> QED  BY <2>2, <2>3
<1>8. VisitedIsRunning' /\ QueueIsReady'
  BY <1>5 DEF IInv, Visiting, VisitedIsRunning, QueueIsReady
<1>9. ReadyIsQueued'
  <2> SUFFICES ASSUME NEW q \in Runs, NEW u \in Tasks,
                      \E i \in DOMAIN ready[s] : ready[s][i] = <<q, u>>
               PROVE  inst'[q][u] = "queued" /\ job'[s][q][u] = "no"
    BY <1>4, <1>5 DEF ReadyIsQueued
  <2>1. inst[q][u] = "queued" /\ job[s][q][u] = "no"
    BY DEF IInv, ReadyIsQueued
  <2>2. ~(q = r /\ u = t)
    BY <2>1
  <2> QED  BY <1>2, <1>6, <2>1, <2>2
<1>10. JobIsStored'
  <2> SUFFICES ASSUME NEW q \in Runs, NEW u \in Tasks
               PROVE  /\ job'[s][q][u] = "dispatched" => inst'[q][u] = "queued"
                      /\ job'[s][q][u] = "running" => inst'[q][u] = "running"
    BY <1>4 DEF JobIsStored
  <2>1. CASE q = r /\ u = t
    BY <1>6, <2>1
  <2>2. CASE ~(q = r /\ u = t)
    BY <1>2, <1>6, <2>2 DEF IInv, JobIsStored
  <2> QED  BY <2>1, <2>2
<1>11. ClaimsMatchStore'
  BY <1>3, <1>5 DEF IInv, ClaimsMatchStore, Terminal
<1>12. DependenciesFirst'
  BY <1>3, DagAssumption DEF IInv, DependenciesFirst, Terminal
<1>13. VerdictIsSound'
  <2> SUFFICES ASSUME NEW q \in Runs, IsTerminal(runStatus[q]), ~partial[q]
               PROVE  /\ \A u \in Tasks : IsTerminal(inst'[q][u])
                      /\ runStatus[q] = "failed" <=>
                           \E u \in Tasks : inst'[q][u] = "failed"
    BY <1>5 DEF VerdictIsSound
  <2>1. /\ \A u \in Tasks : IsTerminal(inst[q][u])
        /\ runStatus[q] = "failed" <=> \E u \in Tasks : inst[q][u] = "failed"
    BY DEF IInv, VerdictIsSound
  <2>2. \A u \in Tasks : inst'[q][u] = inst[q][u]
    BY <1>3, <2>1 DEF IsTerminal, Terminal
  <2> QED  BY <2>1, <2>2
<1> QED
  BY <1>7, <1>8, <1>9, <1>10, <1>11, <1>12, <1>13 DEF IInv

\* A crash forgets the Schedule call and may end the executions; the store
\* stays.
LEMMA InvCrash ==
  ASSUME IInv, TypeOK', SoleScheduler, NEW s \in Schedulers, Crash(s)
  PROVE  IInv'
<1>1. UNCHANGED <<storeVars, history>> /\ inst' = inst
  BY DEF Crash, storeVars
<1>2. \A u \in Schedulers : u = s
  BY DEF SoleScheduler
<1>3. pc'[s] = "idle" /\ ready'[s] = <<>>
  BY DEF Crash, IInv, TypeOK
<1>4. SnapshotIsCurrent' /\ SnapshotIsWhole' /\ VisitedIsRunning' /\ QueueIsReady'
  BY <1>2, <1>3 DEF Visiting, SnapshotIsCurrent, SnapshotIsWhole,
                    VisitedIsRunning, QueueIsReady
<1>5. ReadyIsQueued'
  BY <1>2, <1>3 DEF ReadyIsQueued
<1>6. ClaimsMatchStore' /\ DependenciesFirst' /\ VerdictIsSound'
  BY <1>1 DEF IInv, storeVars, history, ClaimsMatchStore, DependenciesFirst,
              VerdictIsSound
<1>7. \A r \in Runs, t \in Tasks :
        job'[s][r][t] = job[s][r][t] \/ job'[s][r][t] = "no"
  BY DEF Crash, IInv, TypeOK
<1>8. JobIsStored'
  BY <1>1, <1>2, <1>7 DEF IInv, JobIsStored
<1> QED  BY <1>4, <1>5, <1>6, <1>8 DEF IInv

\* IInv is inductive.
LEMMA InvNext ==
  ASSUME SoleScheduler
  PROVE  IInv /\ [Next]_vars => IInv'
<1> SUFFICES ASSUME IInv, [Next]_vars PROVE IInv'
  OBVIOUS
<1>1. TypeOK'
  BY TypeNext DEF IInv
<1>2. CASE SaveDAG
  BY <1>1, <1>2, InvFrame DEF SaveDAG
<1>3. ASSUME NEW s \in Schedulers, NEW o \in Outcomes, RegisterDAG(s, o)
      PROVE  IInv'
  BY <1>1, <1>3, InvFrame DEF RegisterDAG
<1>4. ASSUME NEW r \in Runs, SubmitStep(r) PROVE IInv'
  <2>1. CASE IndexDAG(r)
    BY <1>1, <2>1, InvFrame DEF IndexDAG
  <2> QED
    BY <1>1, <1>4, <2>1, InvCreateRun, InvCreateTaskInstance DEF SubmitStep
<1>5. ASSUME NEW s \in Schedulers, ScheduleStep(s) PROVE IInv'
  BY <1>1, <1>5, InvListRuns, InvListInstances, InvLookupDAG, InvEnqueue,
     InvRecheck, InvConclude, InvReturn DEF ScheduleStep
<1>6. ASSUME NEW s \in Schedulers, NEW r \in Runs, NEW t \in Tasks,
             ExecuteStep(s, r, t)
      PROVE  IInv'
  <2>1. ASSUME NEW o \in Outcomes, Begin(s, r, t, o) PROVE IInv'
    <3> DEFINE j == IF Failed(o) THEN "no" ELSE "running"
    <3>1. ~Failed(o) => inst'[r][t] = "running"
      BY <2>1 DEF Begin, PutTaskInstance, Applied, Failed, IInv, TypeOK,
                  StoreTypeOK
    <3>2. /\ UNCHANGED <<runStatus, callVars, history>>
          /\ job[s][r][t] # "no"
          /\ PutTaskInstance(r, t, "running", o)
          /\ job' = [job EXCEPT ![s][r][t] = j]
      BY <2>1 DEF Begin
    <3>3. /\ j \in {"no", "running"}
          /\ j = "running" => ~Failed(o)
      OBVIOUS
    <3> HIDE DEF j
    <3> QED  BY <1>1, <3>1, <3>2, <3>3, InvExecute
  <2>2. ASSUME NEW res \in Results, NEW o \in Outcomes,
               ReportCompletion(s, r, t, res, o)
        PROVE  IInv'
    <3>1. /\ UNCHANGED <<runStatus, callVars, history>>
          /\ job[s][r][t] # "no"
          /\ PutTaskInstance(r, t, res, o)
          /\ job' = [job EXCEPT ![s][r][t] = "no"]
      BY <2>2 DEF ReportCompletion
    <3>2. res \in Terminal
      BY SchedulerAssumption
    <3> QED  BY <1>1, <3>1, <3>2, InvExecute
  <2> QED  BY <1>6, <2>1, <2>2 DEF ExecuteStep
<1>7. ASSUME NEW s \in Schedulers, Crash(s) PROVE IInv'
  BY <1>1, <1>7, InvCrash
<1>8. CASE UNCHANGED vars
  BY <1>1, <1>8, InvFrame DEF vars
<1> QED  BY <1>2, <1>3, <1>4, <1>5, <1>6, <1>7, <1>8 DEF Next

\* With one scheduler on the store, whatever the DAG, the number of runs, the
\* store errors and the crashes, the conjuncts of IInv hold in every
\* reachable state.
THEOREM SchedulerSafety ==
  ASSUME SoleScheduler
  PROVE  Spec => []IInv
  BY InvInit, InvNext, PTL DEF Spec

\* Every instance is handed out for execution at most once.
THEOREM AtMostOnce ==
  ASSUME SoleScheduler
  PROVE  Spec => []ClaimedAtMostOnce
<1>1. IInv => ClaimedAtMostOnce
  BY DEF IInv, ClaimsMatchStore, ClaimedAtMostOnce, SoleScheduler
<1> QED  BY <1>1, SchedulerSafety, PTL

\* An instance leaves Pending only after all its dependencies succeeded.
THEOREM DependencyOrder ==
  ASSUME SoleScheduler
  PROVE  Spec => []DependenciesFirst
<1>1. IInv => DependenciesFirst
  BY DEF IInv
<1> QED  BY <1>1, SchedulerSafety, PTL

\* The verdict on a run agrees with the final statuses of all its tasks.
THEOREM VerdictSoundness ==
  ASSUME SoleScheduler
  PROVE  Spec => []VerdictIsSound
<1>1. IInv => VerdictIsSound
  BY DEF IInv
<1> QED  BY <1>1, SchedulerSafety, PTL

\* A step keeps terminal statuses when it changes at most one instance, and
\* that one was not terminal, or at most one run, and that one was Running
\* or new.
LEMMA KeepsInst ==
  ASSUME TypeOK, NEW r \in Runs, NEW t \in Tasks, NEW v, NEW o,
         PutTaskInstance(r, t, v, o), runStatus' = runStatus,
         ~IsTerminal(inst[r][t])
  PROVE  KeepsTerminal
  BY PutFact DEF KeepsTerminal

\* Submit keeps terminal statuses: it creates, it never updates.
LEMMA KeepsSubmit ==
  ASSUME IInv, NEW r \in Runs, SubmitStep(r)
  PROVE  KeepsTerminal
<1>1. ASSUME NEW o \in Outcomes, CreateRun(r, o) PROVE KeepsTerminal
  <2>1. /\ inst' = inst /\ runStatus[r] = NoInstance
        /\ \A q \in Runs : q # r => runStatus'[q] = runStatus[q]
    BY <1>1 DEF CreateRun, PutRun, IInv, TypeOK, StoreTypeOK
  <2> QED  BY <2>1 DEF KeepsTerminal, IsTerminal, Terminal
<1>2. ASSUME NEW t \in Tasks, NEW o \in Outcomes, CreateTaskInstance(r, t, o)
      PROVE  KeepsTerminal
  BY <1>2, KeepsInst DEF CreateTaskInstance, IInv, IsTerminal, Terminal
<1>3. CASE IndexDAG(r)
  BY <1>3 DEF IndexDAG, storeVars, KeepsTerminal
<1> QED  BY <1>1, <1>2, <1>3 DEF SubmitStep

\* Schedule keeps terminal statuses: it queues what is Pending and ends what
\* is Running.
LEMMA KeepsSchedule ==
  ASSUME IInv, NEW s \in Schedulers, ScheduleStep(s)
  PROVE  KeepsTerminal
<1>1. CASE UNCHANGED storeVars
  BY <1>1 DEF storeVars, KeepsTerminal
<1>2. ASSUME NEW t \in Tasks, NEW o \in Outcomes, Enqueue(s, t, o)
      PROVE  KeepsTerminal
  <2>1. /\ Visiting(s) /\ cur[s] \in Runs /\ t \in toQueue[s]
        /\ pc[s] = "work" /\ runStatus' = runStatus
        /\ PutTaskInstance(cur[s], t, "queued", o)
    BY <1>2 DEF Enqueue, IsFirst, Visiting, IInv, TypeOK
  <2>2. inst[cur[s]][t] = "pending"
    BY <2>1 DEF IInv, QueueIsReady, SnapshotIsCurrent
  <2> QED  BY <2>1, <2>2, KeepsInst DEF IInv, IsTerminal, Terminal
<1>3. ASSUME NEW o \in Outcomes, Conclude(s, o) PROVE KeepsTerminal
  <2>1. /\ inst' = inst /\ Visiting(s) /\ cur[s] \in Runs
        /\ \A q \in Runs : q # cur[s] => runStatus'[q] = runStatus[q]
    BY <1>3 DEF Conclude, UpdateRun, Visiting, IInv, TypeOK, StoreTypeOK
  <2>2. runStatus[cur[s]] = "running"
    BY <2>1 DEF IInv, VisitedIsRunning
  <2> QED  BY <2>1, <2>2 DEF KeepsTerminal, IsTerminal, Terminal
<1> QED
  BY <1>1, <1>2, <1>3 DEF ScheduleStep, ListRuns, ListInstances, LookupDAG,
                          Recheck, Return

\* An execution keeps terminal statuses: its instance is Queued or Running.
LEMMA KeepsExecute ==
  ASSUME IInv, NEW s \in Schedulers, NEW r \in Runs, NEW t \in Tasks,
         ExecuteStep(s, r, t)
  PROVE  KeepsTerminal
<1>1. PICK v \in InstStatus, o \in Outcomes : PutTaskInstance(r, t, v, o)
  BY SchedulerAssumption
     DEF ExecuteStep, Begin, ReportCompletion, InstStatus, Status
<1>2. /\ job[s][r][t] \in {"dispatched", "running"}
      /\ runStatus' = runStatus
  BY DEF ExecuteStep, Begin, ReportCompletion, IInv, TypeOK
<1>3. inst[r][t] \in {"queued", "running"}
  BY <1>2 DEF IInv, JobIsStored
<1> QED  BY <1>1, <1>2, <1>3, KeepsInst DEF IInv, IsTerminal, Terminal

\* No step replaces a terminal status.
THEOREM TerminalStatusesAreFinal ==
  ASSUME SoleScheduler
  PROVE  Spec => TerminalIsFinal
<1>1. IInv /\ [Next]_vars => [KeepsTerminal]_vars
  <2> SUFFICES ASSUME IInv, Next PROVE KeepsTerminal
    BY DEF vars
  <2>1. CASE UNCHANGED storeVars
    BY <2>1 DEF storeVars, KeepsTerminal
  <2> QED
    BY <2>1, KeepsSubmit, KeepsSchedule, KeepsExecute
       DEF Next, SaveDAG, RegisterDAG, Crash
<1> QED  BY <1>1, SchedulerSafety, PTL DEF Spec, TerminalIsFinal
-----------------------------------------------------------------------------
(* The abstract scheduler *)

\* Initial states map to initial states.
LEMMA RefineInit == Init => Abstract!Init
<1> SUFFICES ASSUME Init PROVE Abstract!Init
  OBVIOUS
<1>1. doneBar = [r \in Runs |-> [t \in Tasks |-> "todo"]]
  <2>1. \A r \in Runs, t \in Tasks : ~IsTerminal(inst[r][t])
    BY DEF Init, StoreInit, IsTerminal, Terminal
  <2> QED  BY <2>1 DEF doneBar
<1>2. verdictBar = [r \in Runs |-> "open"]
  <2>1. \A r \in Runs : ~IsTerminal(runStatus[r])
    BY DEF Init, StoreInit, IsTerminal, Terminal
  <2> QED  BY <2>1 DEF verdictBar
<1> QED  BY <1>1, <1>2 DEF Abstract!Init

\* A write of a status that is not terminal over one that is not either.
LEMMA InvisiblePut ==
  ASSUME TypeOK, NEW r \in Runs, NEW t \in Tasks, NEW v, NEW o,
         PutTaskInstance(r, t, v, o),
         UNCHANGED <<runStatus, partial>>,
         ~IsTerminal(inst[r][t]), ~IsTerminal(v)
  PROVE  UNCHANGED Abstract!vars
<1>1. \A q \in Runs, u \in Tasks :
        \/ inst'[q][u] = inst[q][u]
        \/ ~IsTerminal(inst[q][u]) /\ ~IsTerminal(inst'[q][u])
  BY PutFact
<1>2. doneBar' = doneBar
  BY <1>1 DEF doneBar
<1>3. verdictBar' = verdictBar
  BY DEF verdictBar
<1> QED  BY <1>2, <1>3 DEF Abstract!vars

\* Steps that leave the store alone, except for the note that a run was
\* listed too early, which is taken while the run is Running.
LEMMA InvisibleStep ==
  ASSUME UNCHANGED storeVars,
         \A r \in Runs : partial'[r] = partial[r] \/ ~IsTerminal(runStatus[r])
  PROVE  UNCHANGED Abstract!vars
<1>1. doneBar' = doneBar
  BY DEF storeVars, doneBar
<1>2. \A r \in Runs :
        (IsTerminal(runStatus'[r]) /\ ~partial'[r])
          <=> (IsTerminal(runStatus[r]) /\ ~partial[r])
  BY DEF storeVars
<1>3. verdictBar' = verdictBar
  BY <1>2 DEF storeVars, verdictBar
<1> QED  BY <1>1, <1>3 DEF Abstract!vars

\* Submit is invisible.
LEMMA RefineSubmit ==
  ASSUME IInv, NEW r \in Runs, SubmitStep(r)
  PROVE  UNCHANGED Abstract!vars
<1>1. ASSUME NEW o \in Outcomes, CreateRun(r, o)
      PROVE  UNCHANGED Abstract!vars
  <2>1. /\ inst' = inst /\ partial' = partial
        /\ \A q \in Runs :
             \/ runStatus'[q] = runStatus[q]
             \/ runStatus[q] = NoInstance /\ runStatus'[q] = "running"
    <3>1. CASE Applied(o)
      BY <1>1, <3>1 DEF CreateRun, PutRun, history, IInv, TypeOK, StoreTypeOK
    <3>2. CASE ~Applied(o)
      BY <1>1, <3>2 DEF CreateRun, PutRun, history
    <3> QED  BY <3>1, <3>2
  <2>2. doneBar' = doneBar
    BY <2>1 DEF doneBar
  <2>3. verdictBar' = verdictBar
    <3>1. \A q \in Runs :
            \/ runStatus'[q] = runStatus[q]
            \/ ~IsTerminal(runStatus[q]) /\ ~IsTerminal(runStatus'[q])
      BY <2>1 DEF IsTerminal, Terminal
    <3> QED  BY <2>1, <3>1 DEF verdictBar
  <2> QED  BY <2>2, <2>3 DEF Abstract!vars
<1>2. ASSUME NEW t \in Tasks, NEW o \in Outcomes, CreateTaskInstance(r, t, o)
      PROVE  UNCHANGED Abstract!vars
  <2>1. ~IsTerminal(inst[r][t]) /\ ~IsTerminal("pending")
    BY <1>2 DEF CreateTaskInstance, IsTerminal, Terminal
  <2> QED  BY <1>2, <2>1, InvisiblePut DEF CreateTaskInstance, history, IInv
<1>3. CASE IndexDAG(r)
  BY <1>3, InvisibleStep DEF IndexDAG, history
<1> QED  BY <1>1, <1>2, <1>3 DEF SubmitStep

\* Conclude is a Decide or invisible.
LEMMA RefineConclude ==
  ASSUME IInv, IInv', NEW s \in Schedulers, NEW o \in Outcomes, Conclude(s, o)
  PROVE  [Abstract!Next]_(Abstract!vars)
<1> DEFINE r == cur[s]
<1>1. /\ inst' = inst /\ partial' = partial
      /\ r \in Runs /\ runStatus[r] = "running"
      /\ \A q \in Runs : q # r => runStatus'[q] = runStatus[q]
  BY DEF Conclude, UpdateRun, Visiting, history, IInv, TypeOK, StoreTypeOK,
         VisitedIsRunning
<1> HIDE DEF r
<1>2. doneBar' = doneBar
  BY <1>1 DEF doneBar
<1>3. CASE ~IsTerminal(runStatus'[r]) \/ partial[r]
  <2>1. verdictBar' = verdictBar
    <3>1. ~IsTerminal(runStatus[r])
      BY <1>1 DEF IsTerminal, Terminal
    <3> QED  BY <1>1, <1>3, <3>1 DEF verdictBar
  <2> QED  BY <1>2, <2>1 DEF Abstract!vars
<1>4. CASE IsTerminal(runStatus'[r]) /\ ~partial[r]
  <2>1. /\ \A t \in Tasks : IsTerminal(inst[r][t])
        /\ runStatus'[r] = "failed" <=> \E t \in Tasks : inst[r][t] = "failed"
    BY <1>1, <1>4 DEF IInv, VerdictIsSound
  <2>2. runStatus'[r] \in {"success", "failed"}
    BY <1>1, <1>4
       DEF IInv, TypeOK, StoreTypeOK, RunStatus, IsTerminal, Terminal
  <2>3. \A t \in Tasks : doneBar[r][t] = inst[r][t]
    BY <1>1, <2>1 DEF doneBar
  <2>4. verdictBar[r] = "open"
    BY <1>1 DEF verdictBar, IsTerminal, Terminal
  <2>5. \A t \in Tasks : doneBar[r][t] # "todo"
    BY <2>1, <2>3 DEF IsTerminal, Terminal
  <2>6. runStatus'[r] = IF \E t \in Tasks : doneBar[r][t] = "failed"
                          THEN "failed" ELSE "success"
    BY <2>1, <2>2, <2>3
  <2>7. verdictBar' = [verdictBar EXCEPT ![r] = runStatus'[r]]
    BY <1>1, <1>4 DEF verdictBar
  <2>8. Abstract!Decide(r)
    BY <1>2, <2>4, <2>5, <2>6, <2>7 DEF Abstract!Decide
  <2> QED  BY <1>1, <2>8 DEF Abstract!Next
<1> QED  BY <1>3, <1>4

\* Every step of Schedule is a Decide or invisible.
LEMMA RefineSchedule ==
  ASSUME IInv, IInv', NEW s \in Schedulers, ScheduleStep(s)
  PROVE  [Abstract!Next]_(Abstract!vars)
<1>1. CASE UNCHANGED <<storeVars, history>>
  BY <1>1, InvisibleStep DEF history
<1>2. ASSUME NEW r \in Runs, NEW o \in Outcomes, ListInstances(s, r, o)
      PROVE  UNCHANGED Abstract!vars
  <2>1. runStatus[r] = "running"
    BY <1>2 DEF ListInstances, IsNewest, IInv, VisitedIsRunning
  <2>2. \A q \in Runs : partial'[q] = partial[q] \/ ~IsTerminal(runStatus[q])
    <3>1. partial \in [Runs -> BOOLEAN]
      BY DEF IInv, TypeOK
    <3>2. \A q \in Runs \ {r} : partial'[q] = partial[q]
      BY <1>2, <3>1 DEF ListInstances
    <3> QED
      BY <2>1, <3>2 DEF IsTerminal, Terminal
  <2> QED  BY <1>2, <2>2, InvisibleStep DEF ListInstances
<1>3. ASSUME NEW t \in Tasks, NEW o \in Outcomes, Enqueue(s, t, o)
      PROVE  UNCHANGED Abstract!vars
  <2>1. /\ Visiting(s) /\ cur[s] \in Runs /\ t \in toQueue[s]
        /\ pc[s] = "work" /\ UNCHANGED <<runStatus, partial>>
        /\ PutTaskInstance(cur[s], t, "queued", o)
    BY <1>3 DEF Enqueue, IsFirst, Visiting, IInv, TypeOK
  <2>2. inst[cur[s]][t] = "pending"
    BY <2>1 DEF IInv, QueueIsReady, SnapshotIsCurrent
  <2> QED  BY <2>1, <2>2, InvisiblePut DEF IInv, IsTerminal, Terminal
<1> QED
  BY <1>1, <1>2, <1>3, RefineConclude
     DEF ScheduleStep, ListRuns, LookupDAG, Recheck, Return

\* Begin is invisible, ReportCompletion is a Finish or invisible.
LEMMA RefineExecute ==
  ASSUME IInv, NEW s \in Schedulers, NEW r \in Runs, NEW t \in Tasks,
         ExecuteStep(s, r, t)
  PROVE  [Abstract!Next]_(Abstract!vars)
<1>1. /\ UNCHANGED <<runStatus, partial>>
      /\ job[s][r][t] \in {"dispatched", "running"}
  BY DEF ExecuteStep, Begin, ReportCompletion, history, IInv, TypeOK
<1>2. inst[r][t] \in {"queued", "running"}
  BY <1>1 DEF IInv, JobIsStored
<1>3. ASSUME NEW o \in Outcomes, Begin(s, r, t, o)
      PROVE  UNCHANGED Abstract!vars
  BY <1>1, <1>2, <1>3, InvisiblePut DEF Begin, IInv, IsTerminal, Terminal
<1>4. ASSUME NEW res \in Results, NEW o \in Outcomes,
             ReportCompletion(s, r, t, res, o)
      PROVE  [Abstract!Next]_(Abstract!vars)
  <2>1. verdictBar' = verdictBar
    BY <1>1 DEF verdictBar
  <2>2. CASE ~Applied(o)
    <3>1. inst' = inst
      BY <1>4, <2>2 DEF ReportCompletion, PutTaskInstance
    <3>2. doneBar' = doneBar
      BY <3>1 DEF doneBar
    <3> QED  BY <2>1, <3>2 DEF Abstract!vars
  <2>3. CASE Applied(o)
    <3>1. inst' = [inst EXCEPT ![r][t] = res]
      BY <1>4, <2>3 DEF ReportCompletion, PutTaskInstance
    <3>2. IsTerminal(res)
      BY SchedulerAssumption DEF IsTerminal
    <3>3. doneBar[r][t] = "todo"
      BY <1>2 DEF doneBar, IsTerminal, Terminal
    <3>4. \A d \in Deps[t] : doneBar[r][d] = "success"
      <4>1. \A d \in Deps[t] : d \in Tasks /\ inst[r][d] = "success"
        BY <1>2, DagAssumption DEF IInv, DependenciesFirst
      <4> QED  BY <4>1 DEF doneBar, IsTerminal, Terminal
    <3>5. doneBar' = [doneBar EXCEPT ![r][t] = res]
      BY <3>1, <3>2 DEF doneBar, IInv, TypeOK, StoreTypeOK
    <3>6. Abstract!Finish(r, t, res)
      BY <2>1, <3>3, <3>4, <3>5 DEF Abstract!Finish
    <3> QED  BY <3>6 DEF Abstract!Next
  <2> QED  BY <2>2, <2>3
<1> QED  BY <1>3, <1>4 DEF ExecuteStep

\* Every step of the scheduler is a step of DagExecution or a stutter.
LEMMA RefineNext ==
  IInv /\ IInv' /\ [Next]_vars => [Abstract!Next]_(Abstract!vars)
<1> SUFFICES ASSUME IInv, IInv', [Next]_vars
             PROVE  [Abstract!Next]_(Abstract!vars)
  OBVIOUS
<1>1. CASE UNCHANGED <<storeVars, history>>
  BY <1>1, InvisibleStep DEF history
<1> QED
  BY <1>1, RefineSubmit, RefineSchedule, RefineExecute
     DEF Next, SaveDAG, RegisterDAG, Crash, vars

\* One scheduler on its store implements DagExecution, for every DAG and any
\* number of runs, whatever store calls fail and whenever the process dies:
\* each task ends at most once and after its dependencies, each verdict is
\* given once and agrees with the tasks.
THEOREM Refinement ==
  ASSUME SoleScheduler
  PROVE  Spec => ImplementsDagExecution
  BY RefineInit, RefineNext, SchedulerSafety, PTL
     DEF Spec, ImplementsDagExecution, Abstract!Spec
-----------------------------------------------------------------------------
(* A store used by any number of schedulers *)

\* Scheduler s has read instance t of run r as Pending and may still queue it.
MayClaim(s, r, t) == Visiting(s) /\ cur[s] = r /\ snap[s][t] = "pending"

\* A scheduler queues only what it has read as Pending.
QueuedWasPending ==
  \A s \in Schedulers : pc[s] = "work" =>
    \A t \in toQueue[s] : snap[s][t] = "pending"

\* While an instance is Pending nobody has claimed it, and a scheduler that
\* may still queue it has not claimed it.
UnclaimedBefore ==
  \A s \in Schedulers, r \in Runs, t \in Tasks :
    inst[r][t] \in {NoInstance, "pending"} \/ MayClaim(s, r, t)
      => claims[s][r][t] = 0

ClaimsInv ==
  TypeOK /\ QueuedWasPending /\ UnclaimedBefore /\ ClaimedOncePerScheduler

\* How a step may change the claims of s on an instance: not at all, and then
\* s has not newly read it as Pending unless it is Pending; or by one, if s
\* had read it as Pending and has not any more.
ClaimStep(s, r, t) ==
  \/ /\ claims'[s][r][t] = claims[s][r][t]
     /\ \/ inst'[r][t] = inst[r][t]
        \/ inst[r][t] = NoInstance
        \/ inst'[r][t] \notin {NoInstance, "pending"}
     /\ MayClaim(s, r, t)' => MayClaim(s, r, t) \/ inst[r][t] = "pending"
  \/ /\ claims'[s][r][t] = claims[s][r][t] + 1
     /\ inst'[r][t] = "queued"
     /\ MayClaim(s, r, t) /\ ~(MayClaim(s, r, t)')

\* The step of every scheduler and instance.
ClaimSteps ==
  \A s \in Schedulers, r \in Runs, t \in Tasks : ClaimStep(s, r, t)

\* That is enough for the claims.
LEMMA ClaimKept ==
  ASSUME ClaimsInv, NEW s \in Schedulers, NEW r \in Runs, NEW t \in Tasks,
         ClaimStep(s, r, t)
  PROVE  /\ claims'[s][r][t] <= 1
         /\ inst'[r][t] \in {NoInstance, "pending"} \/ MayClaim(s, r, t)'
              => claims'[s][r][t] = 0
<1>1. /\ claims[s][r][t] \in Nat /\ claims[s][r][t] <= 1
      /\ inst[r][t] \in {NoInstance, "pending"} \/ MayClaim(s, r, t)
           => claims[s][r][t] = 0
  BY DEF ClaimsInv, TypeOK, UnclaimedBefore, ClaimedOncePerScheduler
<1> QED
  BY <1>1 DEF ClaimStep

\* Steps that write no instance and claim nothing, and after which every
\* scheduler knows what it knew.
LEMMA QuietClaims ==
  ASSUME ClaimsInv, UNCHANGED <<pc, cur, snap, toQueue, claims>>,
         \A r \in Runs, t \in Tasks :
           \/ inst'[r][t] = inst[r][t]
           \/ inst[r][t] = NoInstance
           \/ inst'[r][t] \notin {NoInstance, "pending"}
  PROVE  QueuedWasPending' /\ ClaimSteps
<1>1. QueuedWasPending'
  BY DEF ClaimsInv, QueuedWasPending
<1>2. \A s \in Schedulers, r \in Runs, t \in Tasks :
        MayClaim(s, r, t)' <=> MayClaim(s, r, t)
  BY DEF MayClaim, Visiting
<1> QED
  BY <1>1, <1>2 DEF ClaimSteps, ClaimStep

\* Steps of scheduler s that write no instance and claim nothing.
LEMMA ReadStep ==
  ASSUME ClaimsInv, NEW s \in Schedulers, inst' = inst, claims' = claims,
         \A u \in Schedulers \ {s} : /\ pc'[u] = pc[u] /\ cur'[u] = cur[u]
                                     /\ snap'[u] = snap[u]
                                     /\ toQueue'[u] = toQueue[u],
         \A r \in Runs, t \in Tasks :
           MayClaim(s, r, t)' => MayClaim(s, r, t) \/ inst[r][t] = "pending",
         pc'[s] = "work" => \A t \in toQueue'[s] : snap'[s][t] = "pending"
  PROVE  QueuedWasPending' /\ ClaimSteps
<1>1. QueuedWasPending'
  BY DEF ClaimsInv, QueuedWasPending
<1>2. ASSUME NEW v \in Schedulers, NEW r \in Runs, NEW t \in Tasks
      PROVE  MayClaim(v, r, t)' => MayClaim(v, r, t) \/ inst[r][t] = "pending"
  <2>1. CASE v = s
    BY <2>1
  <2>2. CASE v # s
    BY <2>2 DEF MayClaim, Visiting
  <2> QED
    BY <2>1, <2>2
<1> QED
  BY <1>1, <1>2 DEF ClaimSteps, ClaimStep

\* Enqueue claims an instance that s had read as Pending, or writes Queued
\* without claiming it.
LEMMA EnqueueClaims ==
  ASSUME ClaimsInv, NEW s \in Schedulers, NEW t \in Tasks, NEW o \in Outcomes,
         Enqueue(s, t, o)
  PROVE  QueuedWasPending' /\ ClaimSteps
<1>1. PICK r \in Runs : r = cur[s]
  BY DEF Enqueue, ClaimsInv, TypeOK
<1>2. /\ pc[s] = "work" /\ pc' = pc /\ cur' = cur
      /\ t \in toQueue[s] /\ toQueue' = [toQueue EXCEPT ![s] = toQueue[s] \ {t}]
      /\ snap' = [snap EXCEPT ![s][t] = "queued"]
      /\ PutTaskInstance(r, t, "queued", o)
      /\ snap[s][t] = "pending"
  BY <1>1 DEF Enqueue, IsFirst, ClaimsInv, QueuedWasPending
<1>3. /\ \A u \in Schedulers \ {s} : snap'[u] = snap[u] /\ toQueue'[u] = toQueue[u]
      /\ \A u \in Tasks : snap'[s][u] = IF u = t THEN "queued" ELSE snap[s][u]
      /\ toQueue'[s] = toQueue[s] \ {t} /\ toQueue[s] \subseteq Tasks
  BY <1>2 DEF ClaimsInv, TypeOK
<1>4. QueuedWasPending'
  BY <1>2, <1>3 DEF ClaimsInv, QueuedWasPending
<1>5. /\ MayClaim(s, r, t) /\ ~(MayClaim(s, r, t)')
      /\ \A q \in Runs, u \in Tasks, v \in Schedulers :
           MayClaim(v, q, u)' => MayClaim(v, q, u)
  BY <1>1, <1>2, <1>3 DEF MayClaim, Visiting
<1>6. \A q \in Runs, u \in Tasks :
        inst'[q][u] = inst[q][u] \/ (q = r /\ u = t /\ inst'[q][u] = "queued")
  BY <1>2, PutFact DEF ClaimsInv
<1>7. CASE Failed(o)
  <2>1. claims' = claims
    BY <1>7 DEF Enqueue
  <2>2. \A q \in Runs, u \in Tasks :
          inst'[q][u] = inst[q][u] \/ inst'[q][u] \notin {NoInstance, "pending"}
    BY <1>6 DEF NoInstance
  <2> QED
    BY <1>4, <1>5, <2>1, <2>2 DEF ClaimSteps, ClaimStep
<1>8. CASE ~Failed(o)
  <2>1. claims' = [claims EXCEPT ![s][r][t] = claims[s][r][t] + 1]
    BY <1>1, <1>8 DEF Enqueue
  <2>2. inst'[r][t] = "queued"
    BY <1>2, <1>8 DEF PutTaskInstance, Failed, Applied, ClaimsInv, TypeOK, StoreTypeOK
  <2>3. ASSUME NEW v \in Schedulers, NEW q \in Runs, NEW u \in Tasks
        PROVE  ClaimStep(v, q, u)
    <3>1. CASE v = s /\ q = r /\ u = t
      <4>1. claims'[s][r][t] = claims[s][r][t] + 1
        BY <2>1 DEF ClaimsInv, TypeOK
      <4> QED
        BY <1>5, <2>2, <3>1, <4>1 DEF ClaimStep
    <3>2. CASE ~(v = s /\ q = r /\ u = t)
      <4>1. claims'[v][q][u] = claims[v][q][u]
        <5>1. claims \in [Schedulers -> [Runs -> [Tasks -> Nat]]]
          BY DEF ClaimsInv, TypeOK
        <5> QED
          BY ONLY <2>1, <3>2, <5>1
      <4>2. inst'[q][u] = inst[q][u] \/ inst'[q][u] \notin {NoInstance, "pending"}
        BY <1>6 DEF NoInstance
      <4> QED
        BY <1>5, <4>1, <4>2 DEF ClaimStep
    <3> QED
      BY <3>1, <3>2
  <2> QED
    BY <1>4, <2>3 DEF ClaimSteps
<1> QED
  BY <1>7, <1>8

LEMMA ScheduleClaims ==
  ASSUME ClaimsInv, NEW s \in Schedulers, ScheduleStep(s)
  PROVE  QueuedWasPending' /\ ClaimSteps
<1>0. TypeOK /\ QueuedWasPending
  BY DEF ClaimsInv
<1>1. CASE ListRuns(s)
  BY <1>0, <1>1, ReadStep DEF ListRuns, storeVars, history, MayClaim, Visiting, TypeOK
<1>2. ASSUME NEW r \in Runs, NEW o \in Outcomes, ListInstances(s, r, o)
      PROVE  QueuedWasPending' /\ ClaimSteps
  <2>1. CASE Failed(o)
    BY <1>0, <1>2, <2>1, QuietClaims DEF ListInstances, storeVars
  <2>2. CASE ~Failed(o)
    <3>1. /\ inst' = inst /\ claims' = claims /\ toQueue' = toQueue
          /\ pc' = [pc EXCEPT ![s] = "lookup"]
          /\ cur' = [cur EXCEPT ![s] = r]
          /\ snap' = [snap EXCEPT ![s] = inst[r]]
      BY <1>2, <2>2 DEF ListInstances, storeVars, ListTaskInstances
    <3>2. pc'[s] = "lookup" /\ cur'[s] = r /\ snap'[s] = inst[r]
      BY <1>0, <3>1 DEF TypeOK
    <3>3. \A u \in Schedulers \ {s} : /\ pc'[u] = pc[u] /\ cur'[u] = cur[u]
                                      /\ snap'[u] = snap[u]
                                      /\ toQueue'[u] = toQueue[u]
      BY <1>0, <3>1 DEF TypeOK
    <3>4. \A q \in Runs, t \in Tasks :
            MayClaim(s, q, t)' => MayClaim(s, q, t) \/ inst[q][t] = "pending"
      BY <3>2 DEF MayClaim
    <3> QED
      BY <3>1, <3>2, <3>3, <3>4, ReadStep
  <2> QED
    BY <2>1, <2>2
<1>3. ASSUME NEW o \in Outcomes, LookupDAG(s, o)
      PROVE  QueuedWasPending' /\ ClaimSteps
  <2>1. /\ inst' = inst /\ claims' = claims
        /\ \A u \in Schedulers \ {s} : /\ pc'[u] = pc[u] /\ cur'[u] = cur[u]
                                       /\ snap'[u] = snap[u]
                                       /\ toQueue'[u] = toQueue[u]
    BY <1>0, <1>3 DEF LookupDAG, Leave, storeVars, history, TypeOK
  <2>2. pc[s] = "lookup"
    BY <1>3 DEF LookupDAG
  <2>3. CASE dagIndex[s] \/ (dagStored /\ ~Failed(o))
    <3>1. /\ cur' = cur /\ snap' = snap
          /\ toQueue'[s] = {t \in ReadyTasks(snap[s]) : snap[s][t] = "pending"}
      BY <1>0, <1>3, <2>3 DEF LookupDAG, TypeOK
    <3>2. \A q \in Runs, t \in Tasks : MayClaim(s, q, t)' => MayClaim(s, q, t)
      BY <2>2, <3>1 DEF MayClaim, Visiting
    <3> QED
      BY <2>1, <3>1, <3>2, ReadStep
  <2>4. CASE ~(dagIndex[s] \/ (dagStored /\ ~Failed(o)))
    <3>1. pc'[s] = "list"
      BY <1>0, <1>3, <2>4 DEF LookupDAG, TypeOK
    <3>2. \A q \in Runs, t \in Tasks : ~(MayClaim(s, q, t)')
      BY <3>1 DEF MayClaim, Visiting
    <3> QED
      BY <2>1, <3>1, <3>2, ReadStep
  <2> QED
    BY <2>3, <2>4
<1>4. ASSUME NEW t \in Tasks, NEW o \in Outcomes, Enqueue(s, t, o)
      PROVE  QueuedWasPending' /\ ClaimSteps
  BY <1>4, EnqueueClaims
<1>5. ASSUME NEW t \in Tasks, NEW o \in Outcomes, Recheck(s, t, o)
      PROVE  QueuedWasPending' /\ ClaimSteps
  <2>1. /\ inst' = inst /\ claims' = claims /\ pc' = pc /\ cur' = cur
        /\ toQueue' = toQueue /\ toQueue[s] = {} /\ pc[s] = "work"
        /\ cur[s] \in Runs
    BY <1>0, <1>5 DEF Recheck, storeVars, history, TypeOK
  <2>2. /\ \A u \in Schedulers \ {s} : snap'[u] = snap[u]
        /\ \A u \in Tasks : \/ snap'[s][u] = snap[s][u]
                            \/ snap'[s][u] = inst[cur[s]][u]
    BY <1>0, <1>5 DEF Recheck, TypeOK
  <2>3. \A q \in Runs, u \in Tasks :
          MayClaim(s, q, u)' => MayClaim(s, q, u) \/ inst[q][u] = "pending"
    BY <2>1, <2>2 DEF MayClaim, Visiting
  <2> QED
    BY <2>1, <2>2, <2>3, ReadStep
<1>6. ASSUME NEW o \in Outcomes, Conclude(s, o)
      PROVE  QueuedWasPending' /\ ClaimSteps
  <2>1. /\ inst' = inst /\ claims' = claims /\ toQueue' = toQueue
        /\ pc'[s] = "list"
        /\ \A u \in Schedulers \ {s} : /\ pc'[u] = pc[u] /\ cur'[u] = cur[u]
                                       /\ snap'[u] = snap[u]
    BY <1>0, <1>6 DEF Conclude, Leave, history, TypeOK
  <2>2. \A q \in Runs, t \in Tasks : ~(MayClaim(s, q, t)')
    BY <2>1 DEF MayClaim, Visiting
  <2> QED
    BY <2>1, <2>2, ReadStep
<1>7. CASE Return(s)
  <2>1. /\ inst' = inst /\ claims' = claims
        /\ UNCHANGED <<cur, snap, toQueue>>
        /\ pc'[s] = "idle" /\ \A u \in Schedulers \ {s} : pc'[u] = pc[u]
    BY <1>0, <1>7 DEF Return, storeVars, history, TypeOK
  <2>2. \A q \in Runs, t \in Tasks : ~(MayClaim(s, q, t)')
    BY <2>1 DEF MayClaim, Visiting
  <2> QED
    BY <2>1, <2>2, ReadStep
<1> QED
  BY <1>1, <1>2, <1>3, <1>4, <1>5, <1>6, <1>7 DEF ScheduleStep

LEMMA ClaimsNext ==
  ASSUME ClaimsInv, [Next]_vars
  PROVE  ClaimsInv'
<1>0. TypeOK /\ TypeOK'
  BY TypeNext DEF ClaimsInv
<1>1. QueuedWasPending' /\ ClaimSteps
  <2>1. CASE UNCHANGED <<pc, cur, snap, toQueue, claims, inst>>
    BY <2>1, QuietClaims
  <2>2. ASSUME NEW r \in Runs, NEW t \in Tasks, NEW o \in Outcomes,
               CreateTaskInstance(r, t, o)
        PROVE  QueuedWasPending' /\ ClaimSteps
    <3>1. \A q \in Runs, u \in Tasks :
            inst'[q][u] = inst[q][u] \/ inst[q][u] = NoInstance
      BY <1>0, <2>2, PutFact DEF CreateTaskInstance
    <3> QED
      BY <2>2, <3>1, QuietClaims DEF CreateTaskInstance, callVars, history
  <2>3. ASSUME NEW s \in Schedulers, NEW r \in Runs, NEW t \in Tasks,
               ExecuteStep(s, r, t)
        PROVE  QueuedWasPending' /\ ClaimSteps
    <3>1. PICK v \in {"running"} \cup Terminal, o \in Outcomes :
                 PutTaskInstance(r, t, v, o)
      BY <2>3, SchedulerAssumption DEF ExecuteStep, Begin, ReportCompletion
    <3>2. \A q \in Runs, u \in Tasks : inst'[q][u] \in {inst[q][u], v}
      BY <1>0, <3>1, PutFact
    <3>3. v \notin {NoInstance, "pending"}
      BY DEF Terminal, NoInstance
    <3>4. \A q \in Runs, u \in Tasks :
            inst'[q][u] = inst[q][u] \/ inst'[q][u] \notin {NoInstance, "pending"}
      BY <3>2, <3>3
    <3> QED
      BY <2>3, <3>4, QuietClaims DEF ExecuteStep, Begin, ReportCompletion,
         callVars, history
  <2>4. ASSUME NEW s \in Schedulers, Crash(s)
        PROVE  QueuedWasPending' /\ ClaimSteps
    <3>1. /\ inst' = inst /\ claims' = claims /\ pc'[s] = "idle"
          /\ \A u \in Schedulers \ {s} : /\ pc'[u] = pc[u] /\ cur'[u] = cur[u]
                                         /\ snap'[u] = snap[u]
                                         /\ toQueue'[u] = toQueue[u]
      BY <1>0, <2>4 DEF Crash, Leave, storeVars, history, TypeOK
    <3>2. \A q \in Runs, t \in Tasks : ~(MayClaim(s, q, t)')
      BY <3>1 DEF MayClaim, Visiting
    <3> QED
      BY <3>1, <3>2, ReadStep
  <2> QED
    BY <2>1, <2>2, <2>3, <2>4, ScheduleClaims
       DEF Next, vars, SaveDAG, RegisterDAG, SubmitStep, CreateRun, IndexDAG,
           storeVars, callVars, history
<1>2. ASSUME NEW s \in Schedulers, NEW r \in Runs, NEW t \in Tasks
      PROVE  /\ claims'[s][r][t] <= 1
             /\ inst'[r][t] \in {NoInstance, "pending"} \/ MayClaim(s, r, t)'
                  => claims'[s][r][t] = 0
  <2>1. ClaimStep(s, r, t)
    BY <1>1 DEF ClaimSteps
  <2> QED
    BY <2>1, ClaimKept
<1>3. UnclaimedBefore' /\ ClaimedOncePerScheduler'
  BY <1>2 DEF UnclaimedBefore, ClaimedOncePerScheduler
<1> QED
  BY <1>0, <1>1, <1>3 DEF ClaimsInv

LEMMA ClaimsInit ==
  ASSUME Init
  PROVE  ClaimsInv
<1>1. TypeOK
  BY TypeInit
<1>2. QueuedWasPending
  BY DEF Init, QueuedWasPending
<1>3. \A s \in Schedulers, r \in Runs, t \in Tasks : claims[s][r][t] = 0
  BY DEF Init
<1> QED
  BY <1>1, <1>2, <1>3 DEF ClaimsInv, UnclaimedBefore, ClaimedOncePerScheduler

\* However many schedulers share the store, whichever of them die and
\* restart and whichever store calls fail, each of them puts an instance on
\* its ready lists at most once.
THEOREM OncePerScheduler == Spec => []ClaimedOncePerScheduler
<1>1. ClaimsInv => ClaimedOncePerScheduler
  BY DEF ClaimsInv
<1> QED
  BY <1>1, ClaimsInit, ClaimsNext, PTL DEF Spec
-----------------------------------------------------------------------------
(* sparkflowctl run *)

\* What cmdRun fixes: one scheduler, one run, and an executor's answer is
\* reported as Success or Failed.
OneRun ==
  /\ SoleScheduler
  /\ \A r, q \in Runs : r = q
  /\ Results \subseteq {"success", "failed"}

\* No Schedule call begins before Submit has returned, so the instances are
\* never listed early and the run has all of them.
LocalInv ==
  /\ IInv
  /\ main \in {"start", "submit", "loop", "execute", "exit0", "exit1"}
  /\ main \in {"start", "submit"} => \A s \in Schedulers : pc[s] = "idle"
  /\ main \notin {"start", "submit"} =>
       \A r \in Runs, t \in Tasks : inst[r][t] # NoInstance
  /\ \A r \in Runs : partial[r] = FALSE
  /\ \A r \in Runs, t \in Tasks : inst[r][t] \notin {"cancelled", "skipped"}
  /\ batch \in Seq(Runs \X Tasks)
  /\ main = "execute" => batch # <<>>
  /\ main = "exit0" => \E r \in Runs : runStatus[r] = "success"
  /\ main = "exit1" => \E r \in Runs : runStatus[r] = "failed"

LEMMA LocalInvInit == LocalInit => LocalInv
  BY InvInit DEF LocalInit, LocalInv, Init, StoreInit, NoInstance

\* The single thread takes no step the scheduler could not.
LEMMA LocalStep ==
  ASSUME LocalInv, LocalNext
  PROVE  [Next]_vars
<1>1. CASE Save
  BY <1>1 DEF Save, Next
<1>2. CASE Submit
  BY <1>2 DEF Submit, Next
<1>3. ASSUME NEW s \in Schedulers, InSchedule(s)
      PROVE  Next
  BY <1>3 DEF InSchedule, Next
<1>4. ASSUME NEW s \in Schedulers, AfterSchedule(s)
      PROVE  Next
  BY <1>4 DEF AfterSchedule, ScheduleStep, Next
<1>5. ASSUME NEW s \in Schedulers, Execute(s)
      PROVE  Next
  <2>1. Head(batch) \in Runs \X Tasks
    BY <1>5 DEF Execute, LocalInv
  <2>2. PICK r \in Runs, t \in Tasks : Head(batch)[1] = r /\ Head(batch)[2] = t
    BY <2>1
  <2>3. "ok" \in Outcomes
    BY StoreAssumption
  <2>4. ExecuteStep(s, r, t)
    BY <1>5, <2>2, <2>3 DEF Execute, ExecuteStep
  <2> QED
    BY <2>4 DEF Next
<1> QED
  BY <1>1, <1>2, <1>3, <1>4, <1>5 DEF LocalNext

\* Nothing a step writes removes an instance, and only a report ends one.
LEMMA LocalInstances ==
  ASSUME LocalInv, OneRun, LocalNext
  PROVE  /\ \A r \in Runs, t \in Tasks :
              inst[r][t] # NoInstance => inst'[r][t] # NoInstance
         /\ \A r \in Runs, t \in Tasks : inst'[r][t] \notin {"cancelled", "skipped"}
<1> USE DEF NoInstance
<1>0. /\ TypeOK /\ \A r \in Runs, t \in Tasks : inst[r][t] \notin {"cancelled", "skipped"}
  BY DEF LocalInv, IInv
<1>1. CASE inst' = inst
  BY <1>0, <1>1
<1>2. ASSUME NEW r \in Runs, NEW t \in Tasks, NEW v, NEW o, PutTaskInstance(r, t, v, o),
             v \notin {NoInstance, "cancelled", "skipped"}
      PROVE  /\ \A q \in Runs, u \in Tasks :
                  inst[q][u] # NoInstance => inst'[q][u] # NoInstance
             /\ \A q \in Runs, u \in Tasks : inst'[q][u] \notin {"cancelled", "skipped"}
  BY <1>0, <1>2, PutFact
<1>3. CASE Save
  BY <1>1, <1>3 DEF Save, SaveDAG, storeVars
<1>4. CASE Submit
  BY <1>1, <1>2, <1>4 DEF Submit, SubmitStep, CreateRun, CreateTaskInstance, IndexDAG,
     storeVars
<1>5. ASSUME NEW s \in Schedulers, ScheduleStep(s)
      PROVE  inst' = inst \/ \E t \in Tasks, o \in Outcomes :
                               cur[s] \in Runs /\ PutTaskInstance(cur[s], t, "queued", o)
  BY <1>0, <1>5 DEF ScheduleStep, ListRuns, ListInstances, LookupDAG, Enqueue, Recheck,
     Conclude, Return, storeVars, TypeOK
<1>6. ASSUME NEW s \in Schedulers, ScheduleStep(s)
      PROVE  /\ \A q \in Runs, u \in Tasks :
                  inst[q][u] # NoInstance => inst'[q][u] # NoInstance
             /\ \A q \in Runs, u \in Tasks : inst'[q][u] \notin {"cancelled", "skipped"}
  BY <1>1, <1>2, <1>5, <1>6
<1>7. ASSUME NEW s \in Schedulers, Execute(s)
      PROVE  /\ \A q \in Runs, u \in Tasks :
                  inst[q][u] # NoInstance => inst'[q][u] # NoInstance
             /\ \A q \in Runs, u \in Tasks : inst'[q][u] \notin {"cancelled", "skipped"}
  <2>1. Head(batch) \in Runs \X Tasks
    BY <1>7 DEF Execute, LocalInv
  <2>2. PICK r \in Runs, t \in Tasks : Head(batch)[1] = r /\ Head(batch)[2] = t
    BY <2>1
  <2>3. PICK v \in {"success", "failed"} : PutTaskInstance(r, t, v, "ok")
    BY <1>7, <2>2 DEF Execute, ReportCompletion, OneRun
  <2> QED
    BY <1>2, <2>3
<1> QED
  BY <1>3, <1>4, <1>6, <1>7 DEF LocalNext, InSchedule, AfterSchedule, ScheduleStep

LEMMA LocalInvNext ==
  ASSUME LocalInv, OneRun, [LocalNext]_localVars
  PROVE  LocalInv'
<1>1. CASE UNCHANGED localVars
  <2>1. IInv'
    BY <1>1, InvNext DEF LocalInv, localVars, OneRun
  <2> QED
    BY <1>1, <2>1 DEF LocalInv, localVars, vars, storeVars, callVars, history
<1>2. CASE LocalNext
  <2>1. IInv'
    BY <1>2, LocalStep, InvNext DEF LocalInv, OneRun
  <2>2. /\ \A r \in Runs, t \in Tasks :
             inst[r][t] # NoInstance => inst'[r][t] # NoInstance
        /\ \A r \in Runs, t \in Tasks : inst'[r][t] \notin {"cancelled", "skipped"}
    BY <1>2, LocalInstances
  <2>3. CASE Save
    BY <2>1, <2>2, <2>3 DEF LocalInv, Save, SaveDAG, callVars, history
  <2>4. CASE Submit
    <3>1. PICK r \in Runs : SubmitStep(r)
                         /\ main' = IF sub'[r] = "done" THEN "loop" ELSE "submit"
      BY <2>4 DEF Submit
    <3>2. pc' = pc /\ partial' = partial /\ batch' = batch /\ main = "submit"
      BY <2>4, <3>1 DEF Submit, SubmitStep, CreateRun, CreateTaskInstance, IndexDAG,
         callVars, history
    <3>3. ASSUME sub'[r] = "done", NEW t \in Tasks
          PROVE  inst'[r][t] # NoInstance
      <4>1. sub[r] \in {"new", "creating"} /\ TypeOK
        BY <3>1 DEF LocalInv, IInv, SubmitStep, CreateRun, CreateTaskInstance, IndexDAG
      <4>2. IndexDAG(r)
        BY <3>1, <3>3, <4>1 DEF SubmitStep, CreateRun, CreateTaskInstance, TypeOK
      <4> QED
        BY <4>2 DEF IndexDAG, storeVars
    <3>4. \A q \in Runs : q = r
      BY DEF OneRun
    <3> QED
      BY <2>1, <2>2, <3>1, <3>2, <3>3, <3>4 DEF LocalInv
  <2>5. ASSUME NEW s \in Schedulers, ScheduleStep(s), main = "loop"
        PROVE  \A r \in Runs : partial'[r] = FALSE
    <3>1. CASE partial' = partial
      BY <3>1 DEF LocalInv
    <3>2. ASSUME NEW r \in Runs, NEW o \in Outcomes, ListInstances(s, r, o)
          PROVE  partial' = partial
      BY <2>5, <3>2 DEF ListInstances, LocalInv, IInv, TypeOK
    <3> QED
      BY <2>5, <3>1, <3>2 DEF ScheduleStep, ListRuns, LookupDAG, Enqueue, Recheck,
         Conclude, Return, history
  <2>6. ASSUME NEW s \in Schedulers, InSchedule(s)
        PROVE  LocalInv'
    <3>1. ScheduleStep(s) /\ main = "loop" /\ main' = main /\ batch' = batch
      BY <2>6 DEF InSchedule
    <3>2. \A r \in Runs : partial'[r] = FALSE
      BY <2>5, <3>1
    <3> QED
      BY <2>1, <2>2, <3>1, <3>2 DEF LocalInv
  <2>7. ASSUME NEW s \in Schedulers, AfterSchedule(s)
        PROVE  LocalInv'
    <3>1. /\ main = "loop" /\ Return(s) /\ batch' = ready[s]
          /\ main' = IF ready[s] # <<>> THEN "execute"
                     ELSE IF \E r \in Runs : runStatus[r] = "failed" THEN "exit1"
                     ELSE IF \E r \in Runs : runStatus[r] = "success" THEN "exit0"
                     ELSE "loop"
      BY <2>7 DEF AfterSchedule
    <3>2. \A r \in Runs : partial'[r] = FALSE
      BY <2>5, <3>1 DEF ScheduleStep
    <3>3. runStatus' = runStatus /\ ready[s] \in Seq(Runs \X Tasks)
      BY <3>1 DEF Return, storeVars, LocalInv, IInv, TypeOK
    <3> QED
      BY <2>1, <2>2, <3>1, <3>2, <3>3 DEF LocalInv
  <2>8. ASSUME NEW s \in Schedulers, Execute(s)
        PROVE  LocalInv'
    <3>1. /\ main = "execute" /\ batch' = Tail(batch)
          /\ main' = IF Tail(batch) = <<>> THEN "loop" ELSE "execute"
          /\ partial' = partial
      BY <2>8 DEF Execute, ReportCompletion, history
    <3>2. Tail(batch) \in Seq(Runs \X Tasks)
      BY <3>1 DEF LocalInv
    <3> QED
      BY <2>1, <2>2, <3>1, <3>2 DEF LocalInv
  <2> QED
    BY <1>2, <2>3, <2>4, <2>6, <2>7, <2>8 DEF LocalNext
<1> QED
  BY <1>1, <1>2

\* For every DAG, sparkflowctl run exits with 0 only after every task
\* succeeded and with 1 only after every task has ended and one has failed.
THEOREM ExitCodeTheorem ==
  ASSUME OneRun
  PROVE  LocalSpec => []ExitCodeIsTrue
<1>1. ASSUME LocalInv
      PROVE  ExitCodeIsTrue
  <2>1. /\ VerdictIsSound /\ \A r \in Runs : partial[r] = FALSE
        /\ \A r \in Runs, t \in Tasks : inst[r][t] \notin {"cancelled", "skipped"}
    BY <1>1 DEF LocalInv, IInv
  <2>2. ASSUME NEW r \in Runs, IsTerminal(runStatus[r])
        PROVE  /\ \A t \in Tasks : IsTerminal(inst[r][t])
               /\ runStatus[r] = "failed" <=> \E t \in Tasks : inst[r][t] = "failed"
    BY <2>1, <2>2 DEF VerdictIsSound
  <2>3. ASSUME NEW r \in Runs, main = "exit0", NEW t \in Tasks
        PROVE  inst[r][t] = "success"
    <3>1. runStatus[r] = "success"
      BY <1>1, <2>3 DEF LocalInv, OneRun
    <3>2. IsTerminal(inst[r][t]) /\ inst[r][t] # "failed"
      BY <2>2, <3>1 DEF IsTerminal, Terminal
    <3> QED
      BY <2>1, <3>2 DEF IsTerminal, Terminal
  <2>4. ASSUME NEW r \in Runs, main = "exit1"
        PROVE  /\ \A t \in Tasks : IsTerminal(inst[r][t])
               /\ \E t \in Tasks : inst[r][t] = "failed"
    <3>1. runStatus[r] = "failed"
      BY <1>1, <2>4 DEF LocalInv, OneRun
    <3> QED
      BY <2>2, <3>1 DEF IsTerminal, Terminal
  <2> QED
    BY <2>3, <2>4 DEF ExitCodeIsTrue
<1>2. LocalInv /\ [LocalNext]_localVars => LocalInv'
  BY LocalInvNext
<1> QED
  BY <1>1, <1>2, LocalInvInit, PTL DEF LocalSpec
=============================================================================
