--------------------------- MODULE ExecutorProofs ---------------------------
(***************************************************************************)
(* The executors for any number of executions, of requests and of tasks of *)
(* any kind, whatever is cancelled and when; and what Success of an HTTP   *)
(* task means, for any chain of tasks, any number of attempts and any      *)
(* number of requests left behind.                                         *)
(***************************************************************************)
EXTENDS Executor, HttpTasks, TLAPS

-----------------------------------------------------------------------------
(* Execute and Cancel *)

\* What the outside world holds of execution e where its Execute stands.
CommandPlace(e) ==
  /\ at[e] \in {"new", "start", "wait", "drain", "untrack", "returned"}
  /\ at[e] \in {"new", "start"} => ext[e] = None /\ res[e] = None
  /\ at[e] = "wait" => ext[e] \in {"running"} \cup Ended /\ res[e] = None
  /\ at[e] = "drain" => ext[e] \in Ended
  /\ at[e] \in {"untrack", "returned"} => ext[e] \in {None} \cup Ended
  /\ child[e] = "piped" => at[e] \in {"wait", "drain"} /\ ext[e] \in Ended

ContainerPlace(e) ==
  /\ at[e] \in {"new", "register", "start", "wait", "untrack", "remove",
                "returned"}
  /\ at[e] = "new" => ext[e] = None /\ res[e] = None
  /\ at[e] \in {"register", "start"} => ext[e] = "created" /\ res[e] = None
  /\ at[e] = "wait" => ext[e] \in {"running"} \cup Ended /\ res[e] = None
  /\ at[e] \in {"untrack", "remove"} =>
       ext[e] \in {"created", "running"} \cup Ended
  /\ ext[e] = "running" /\ at[e] = "remove" => ~req[e].keep
  /\ ext[e] = "running" /\ at[e] = "returned" =>
       req[e].keep \/ e \in unremoved
  /\ child[e] = None

ApplicationPlace(e) ==
  /\ at[e] \in {"new", "submit", "wait", "returned"}
  /\ at[e] \in {"new", "submit"} => ext[e] = None /\ res[e] = None
  /\ at[e] = "wait" => ext[e] \in {"running"} \cup Ended /\ res[e] = None
  /\ at[e] = "returned" => ext[e] \in {None, "running"} \cup Ended
  /\ child[e] = None

\* A result that is not Success, of work that may yet succeed: the context
\* ended or a call failed.  The last two conjuncts say it of the running
\* work too, which may exit with zero after Execute has its result.
Verdict(e) ==
  /\ res[e] = "success" => ext[e] \in {"zero", "removed"}
  /\ res[e] = "cancelled" => Kind(e) = "application" /\ ext[e] = "killed"
  /\ res[e] \in {"failed", "error"} /\ ext[e] \in {"zero", "running"} =>
       ctxDone[e] \/ e \in lost
  /\ at[e] \in {"drain", "untrack", "remove", "returned"} => res[e] # None

ExecutionInv(e) ==
  /\ Kind(e) = "command" => CommandPlace(e)
  /\ Kind(e) = "container" => ContainerPlace(e)
  /\ Kind(e) = "application" => ApplicationPlace(e)
  /\ Verdict(e)

ExecutorInv ==
  /\ TypeOK
  /\ \A e \in Executions : ExecutionInv(e)
  /\ EntryIsLive /\ tracked["application"] = [t \in TaskIDs |-> None]
  /\ SoleExecutionIsTracked

\* The steps that are about execution e.
StepOf(e) ==
  \/ ExecuteStep(e) \/ Reject(e) \/ ContextEnds(e)
  \/ WaitFails(e) \/ GiveUp(e)
  \/ CancelKill(e) \/ CancelApplication(e)
  \/ \E x \in {"zero", "nonzero"} : Exit(e, x)
  \/ ChildrenEnd(e)

LEMMA RequestType ==
  ASSUME TypeOK, NEW e \in Executions
  PROVE  Kind(e) \in Kinds /\ req[e].task \in TaskIDs /\ req[e].keep \in BOOLEAN
BY ExecutorAssumption DEF TypeOK, Kind, Request

LEMMA ExecutorType ==
  ASSUME TypeOK, [Next]_vars
  PROVE  TypeOK'
<1>1. CASE UNCHANGED vars
  BY <1>1 DEF TypeOK, vars, callVars, extVars, mapVars, history
<1>2. ASSUME NEW e \in Executions, StepOf(e)
      PROVE  TypeOK'
  <2> USE RequestType DEF TypeOK, Ended, Children, Orphans, callVars, extVars, mapVars, history,
          Goto, Stop, Becomes, At, Answer, Effect, Register
  <2>1. CASE Track(e)
    BY <2>1 DEF Track
  <2>2. CASE StartCommand(e)
    BY <2>2 DEF StartCommand
  <2>3. CASE ContextKills(e)
    BY <2>3 DEF ContextKills
  <2>4. CASE WaitCommand(e)
    BY <2>4 DEF WaitCommand
  <2>5. CASE Drain(e)
    BY <2>5 DEF Drain
  <2>6. CASE TrackContainer(e)
    BY <2>6 DEF TrackContainer
  <2>7. CASE WaitContainer(e)
    BY <2>7 DEF WaitContainer
  <2>8. CASE Untrack(e)
    BY <2>8 DEF Untrack
  <2>9. ASSUME NEW o \in Outcomes, CreateContainer(e, o)
        PROVE  TypeOK'
    BY <2>9, ZenonT(60) DEF CreateContainer, Outcomes
  <2>10. ASSUME NEW o \in Outcomes, StartContainer(e, o)
        PROVE  TypeOK'
    BY <2>10, ZenonT(60) DEF StartContainer, Outcomes
  <2>11. ASSUME NEW o \in Outcomes, Remove(e, o)
        PROVE  TypeOK'
    BY <2>11 DEF Remove
  <2>12. ASSUME NEW o \in Outcomes, CreateApplication(e, o)
        PROVE  TypeOK'
    BY <2>12 DEF CreateApplication
  <2>13. ASSUME NEW o \in Outcomes, SubmitApplication(e, o)
        PROVE  TypeOK'
    BY <2>13, ZenonT(60) DEF SubmitApplication
  <2>14. CASE Poll(e)
    BY <2>14 DEF Poll
  <2>15. CASE Reject(e)
    BY <2>15 DEF Reject
  <2>16. CASE ContextEnds(e)
    BY <2>16 DEF ContextEnds
  <2>17. CASE WaitFails(e) \/ GiveUp(e)
    BY <2>17 DEF WaitFails, GiveUp
  <2>18. CASE CancelKill(e)
    BY <2>18 DEF CancelKill
  <2>19. CASE CancelApplication(e)
    BY <2>19 DEF CancelApplication
  <2>20. ASSUME NEW x \in {"zero", "nonzero"}, Exit(e, x)
         PROVE  TypeOK'
    BY <2>20 DEF Exit
  <2>21. CASE ChildrenEnd(e)
    BY <2>21 DEF ChildrenEnd
  <2> QED
    BY <1>2, <2>1, <2>2, <2>3, <2>4, <2>5, <2>6, <2>7, <2>8, <2>9, <2>10,
       <2>11, <2>12, <2>13, <2>14, <2>15, <2>16, <2>17, <2>18, <2>19, <2>20,
       <2>21 DEF StepOf, ExecuteStep
<1>3. ASSUME NEW k \in Kinds, NEW t \in TaskIDs, CancelLookup(k, t)
      PROVE  TypeOK'
  BY <1>3 DEF CancelLookup, TypeOK, callVars, extVars, history
<1> QED
  BY <1>1, <1>2, <1>3 DEF Next, StepOf

\* A step of one execution leaves the others alone, but for the entry of
\* the task.
LEMMA OthersAlone ==
  ASSUME TypeOK, NEW e \in Executions, StepOf(e),
         NEW f \in Executions, f # e
  PROVE  /\ req'[f] = req[f] /\ at'[f] = at[f] /\ res'[f] = res[f]
         /\ ctxDone'[f] = ctxDone[f] /\ ext'[f] = ext[f]
         /\ child'[f] = child[f]
         /\ f \in lost => f \in lost'
         /\ f \in unremoved => f \in unremoved'
<1> USE DEF TypeOK, callVars, extVars, mapVars, history, Goto, Stop, Becomes,
          Orphans, At, Answer, Effect
<1>1. CASE Track(e) \/ TrackContainer(e) \/ Untrack(e) \/ Drain(e)
  BY <1>1 DEF Track, TrackContainer, Untrack, Drain
<1>2. CASE StartCommand(e) \/ ContextKills(e) \/ WaitCommand(e)
  BY <1>2 DEF StartCommand, ContextKills, WaitCommand
<1>3. CASE WaitContainer(e) \/ Poll(e) \/ Reject(e) \/ ContextEnds(e)
  BY <1>3 DEF WaitContainer, Poll, Reject, ContextEnds
<1>4. CASE \E o \in Outcomes : CreateContainer(e, o) \/ StartContainer(e, o)
  BY <1>4 DEF CreateContainer, StartContainer
<1>5. CASE \E o \in Outcomes : \/ Remove(e, o) \/ CreateApplication(e, o)
                               \/ SubmitApplication(e, o)
  BY <1>5 DEF Remove, CreateApplication, SubmitApplication
<1>6. CASE WaitFails(e) \/ GiveUp(e) \/ CancelApplication(e) \/ ChildrenEnd(e)
  BY <1>6 DEF WaitFails, GiveUp, CancelApplication, ChildrenEnd
<1>7. CASE CancelKill(e) \/ \E x \in {"zero", "nonzero"} : Exit(e, x)
  BY <1>7 DEF CancelKill, Exit
<1> QED
  BY <1>1, <1>2, <1>3, <1>4, <1>5, <1>6, <1>7 DEF StepOf, ExecuteStep

LEMMA OthersInv ==
  ASSUME TypeOK, NEW e \in Executions, StepOf(e),
         NEW f \in Executions, f # e, ExecutionInv(f)
  PROVE  ExecutionInv(f)'
<1>1. /\ req'[f] = req[f] /\ at'[f] = at[f] /\ res'[f] = res[f]
      /\ ctxDone'[f] = ctxDone[f] /\ ext'[f] = ext[f] /\ child'[f] = child[f]
      /\ f \in lost => f \in lost'
      /\ f \in unremoved => f \in unremoved'
  BY OthersAlone
<1> QED
  BY <1>1 DEF ExecutionInv, Kind, CommandPlace, ContainerPlace,
     ApplicationPlace, Verdict, None, Ended, TypeOK

\* The steps about e keep what is known of e.
LEMMA OwnStep ==
  ASSUME TypeOK, NEW e \in Executions, ExecutionInv(e), StepOf(e)
  PROVE  ExecutionInv(e)'
<1>0. Kind(e) \in Kinds /\ req[e].keep \in BOOLEAN
  BY RequestType
<1> USE <1>0 DEF TypeOK, ExecutionInv, CommandPlace, ContainerPlace,
        ApplicationPlace, Verdict, Kinds, Kind, None, Ended, callVars, extVars,
        mapVars, history, Goto, Stop, Becomes, At, Answer, Effect, Outcomes
<1>1. CASE Track(e)
  BY <1>1 DEF Track
<1>2. CASE StartCommand(e)
  BY <1>2 DEF StartCommand
<1>3. CASE ContextKills(e)
  BY <1>3 DEF ContextKills
<1>4. CASE WaitCommand(e)
  BY <1>4 DEF WaitCommand
<1>5. CASE Drain(e)
  BY <1>5 DEF Drain
<1>6. CASE TrackContainer(e)
  BY <1>6 DEF TrackContainer
<1>7. CASE WaitContainer(e)
  BY <1>7 DEF WaitContainer
<1>8. CASE Untrack(e)
  BY <1>8 DEF Untrack
<1>9. ASSUME NEW o \in Outcomes, CreateContainer(e, o)
      PROVE  ExecutionInv(e)'
  BY <1>9 DEF CreateContainer
<1>10. ASSUME NEW o \in Outcomes, StartContainer(e, o)
       PROVE  ExecutionInv(e)'
  BY <1>10 DEF StartContainer
<1>11. ASSUME NEW o \in Outcomes, Remove(e, o)
       PROVE  ExecutionInv(e)'
  BY <1>11 DEF Remove
<1>12. ASSUME NEW o \in Outcomes, CreateApplication(e, o)
       PROVE  ExecutionInv(e)'
  BY <1>12 DEF CreateApplication
<1>13. ASSUME NEW o \in Outcomes, SubmitApplication(e, o)
       PROVE  ExecutionInv(e)'
  BY <1>13 DEF SubmitApplication
<1>14. CASE Poll(e)
  BY <1>14 DEF Poll
<1>15. CASE Reject(e)
  BY <1>15 DEF Reject
<1>16. CASE ContextEnds(e)
  BY <1>16 DEF ContextEnds
<1>17. CASE WaitFails(e)
  BY <1>17 DEF WaitFails
<1>18. CASE GiveUp(e)
  BY <1>18 DEF GiveUp
<1>19. CASE CancelKill(e)
  BY <1>19 DEF CancelKill
<1>20. CASE CancelApplication(e)
  BY <1>20 DEF CancelApplication
<1>21. ASSUME NEW x \in {"zero", "nonzero"}, Exit(e, x)
       PROVE  ExecutionInv(e)'
  BY <1>21 DEF Exit
<1>22. CASE ChildrenEnd(e)
  BY <1>22 DEF ChildrenEnd
<1> QED
  BY <1>1, <1>2, <1>3, <1>4, <1>5, <1>6, <1>7, <1>8, <1>9, <1>10, <1>11,
     <1>12, <1>13, <1>14, <1>15, <1>16, <1>17, <1>18, <1>19, <1>20, <1>21,
     <1>22 DEF StepOf, ExecuteStep

\* What a step about e does to the entries: it writes or deletes that of its
\* own task, at the right places of Execute, or leaves them alone.
LEMMA EntrySteps ==
  ASSUME TypeOK, NEW e \in Executions, ExecutionInv(e), StepOf(e)
  PROVE  /\ req' = req
         /\ at[e] # "new" => at'[e] # "new"
         /\ \/ /\ Kind(e) # "application" /\ Register(e)
               /\ at[e] \in {"new", "register"} /\ at'[e] = "start"
            \/ /\ at[e] = "untrack"
               /\ tracked' = [tracked EXCEPT ![Kind(e)][req[e].task] = None]
               /\ at'[e] \notin {"start", "wait", "drain"}
            \/ /\ tracked' = tracked /\ at[e] # "untrack"
               /\ Kind(e) # "application" =>
                    /\ at[e] \in {"start", "wait", "drain"} =>
                         at'[e] \in {"start", "wait", "drain", "untrack"}
                    /\ at'[e] \in {"start", "wait", "drain"} =>
                         at[e] \in {"start", "wait", "drain"}
            \/ tracked' = tracked /\ at' = at
<1>0. Kind(e) \in Kinds
  BY RequestType
<1> USE <1>0 DEF TypeOK, Kinds, ExecutionInv, CommandPlace, ContainerPlace,
        callVars, mapVars, Goto, Stop, At
<1>1. CASE Track(e) \/ TrackContainer(e) \/ Untrack(e) \/ Drain(e)
  BY <1>1 DEF Track, TrackContainer, Untrack, Drain
<1>2. CASE StartCommand(e) \/ ContextKills(e) \/ WaitCommand(e)
  BY <1>2 DEF StartCommand, ContextKills, WaitCommand
<1>3. CASE WaitContainer(e) \/ Reject(e) \/ ContextEnds(e)
  BY <1>3 DEF WaitContainer, Reject, ContextEnds
<1>4. CASE Poll(e)
  BY <1>4 DEF Poll
<1>5. CASE \E o \in Outcomes : CreateContainer(e, o) \/ StartContainer(e, o)
  BY <1>5 DEF CreateContainer, StartContainer
<1>6. CASE \E o \in Outcomes : \/ Remove(e, o) \/ CreateApplication(e, o)
                               \/ SubmitApplication(e, o)
  BY <1>6 DEF Remove, CreateApplication, SubmitApplication
<1>7. CASE WaitFails(e) \/ GiveUp(e) \/ CancelApplication(e) \/ ChildrenEnd(e)
  BY <1>7 DEF WaitFails, GiveUp, CancelApplication, ChildrenEnd
<1>8. CASE CancelKill(e) \/ \E x \in {"zero", "nonzero"} : Exit(e, x)
  BY <1>8 DEF CancelKill, Exit
<1> QED
  BY <1>1, <1>2, <1>3, <1>4, <1>5, <1>6, <1>7, <1>8 DEF StepOf, ExecuteStep

Entries ==
  EntryIsLive /\ tracked["application"] = [t \in TaskIDs |-> None]

LEMMA EntriesStep ==
  ASSUME TypeOK, TypeOK', NEW e \in Executions, ExecutionInv(e), StepOf(e),
         Entries, SoleExecutionIsTracked
  PROVE  Entries' /\ SoleExecutionIsTracked'
<1>0. /\ req' = req
      /\ Kind(e) \in Kinds /\ req[e].task \in TaskIDs
      /\ \A f \in Executions \ {e} : at'[f] = at[f]
      /\ None \notin Executions
      /\ \A f \in Executions : Kind(f) \in Kinds /\ req[f].task \in TaskIDs
  BY RequestType, EntrySteps, OthersAlone, ExecutorAssumption DEF None
<1> USE <1>0 DEF Entries, EntryIsLive, SoleExecutionIsTracked, Kinds, TypeOK
<1>1. CASE /\ Kind(e) # "application" /\ Register(e)
           /\ at[e] \in {"new", "register"} /\ at'[e] = "start"
  <2>1. tracked'["application"] = tracked["application"]
    BY <1>1 DEF Register
  <2>2. EntryIsLive'
    BY <1>1, SMTT(30) DEF Register, Kind
  <2>3. SoleExecutionIsTracked'
    <3> SUFFICES ASSUME NEW f \in Executions, Kind(f)' # "application",
                        at'[f] \in {"start", "wait", "drain"}
                 PROVE  \/ tracked'[Kind(f)'][req'[f].task] = f
                        \/ \E g \in Executions \ {f} :
                             /\ Kind(g)' = Kind(f)' /\ req'[g].task = req'[f].task
                             /\ at'[g] # "new"
      BY DEF Kind
    <3>1. Kind(f)' = Kind(f) /\ \A g \in Executions : Kind(g)' = Kind(g)
      BY DEF Kind
    <3>2. CASE f = e
      BY <1>1, <3>1, <3>2 DEF Register
    <3>3. CASE f # e /\ Kind(f) = Kind(e) /\ req[f].task = req[e].task
      BY <1>1, <3>1, <3>3
    <3>4. CASE f # e /\ ~(Kind(f) = Kind(e) /\ req[f].task = req[e].task)
      <4>1. tracked'[Kind(f)][req[f].task] = tracked[Kind(f)][req[f].task]
        BY <1>1, <3>4 DEF Register
      <4>2. \/ tracked[Kind(f)][req[f].task] = f
            \/ \E g \in Executions \ {f} :
                 /\ Kind(g) = Kind(f) /\ req[g].task = req[f].task
                 /\ at[g] # "new"
        BY <3>1, <3>4
      <4> QED
        BY <4>1, <4>2, <3>1, <3>4
    <3> QED
      BY <3>2, <3>3, <3>4
  <2> QED
    BY <2>1, <2>2, <2>3
<1>2. CASE /\ at[e] = "untrack"
           /\ tracked' = [tracked EXCEPT ![Kind(e)][req[e].task] = None]
           /\ at'[e] \notin {"start", "wait", "drain"}
  <2>1. tracked'["application"] = [t \in TaskIDs |-> None]
    BY <1>2
  <2>2. EntryIsLive'
    <3> SUFFICES ASSUME NEW k \in Kinds, NEW t \in TaskIDs, NEW f,
                        f = tracked'[k][t], f # None
                 PROVE  /\ Kind(f)' = k /\ req'[f].task = t
                        /\ at'[f] \in {"start", "wait", "drain", "untrack"}
      BY DEF Kind
    <3>1. Kind(f)' = Kind(f)
      BY DEF Kind
    <3>2. f = tracked[k][t] /\ ~(k = Kind(e) /\ t = req[e].task)
      BY <1>2
    <3>3. /\ Kind(f) = k /\ req[f].task = t
          /\ at[f] \in {"start", "wait", "drain", "untrack"} /\ f \in Executions
      BY <3>2
    <3> QED
      BY <3>1, <3>2, <3>3
  <2>3. SoleExecutionIsTracked'
    <3> SUFFICES ASSUME NEW f \in Executions, Kind(f)' # "application",
                        at'[f] \in {"start", "wait", "drain"}
                 PROVE  \/ tracked'[Kind(f)'][req'[f].task] = f
                        \/ \E g \in Executions \ {f} :
                             /\ Kind(g)' = Kind(f)' /\ req'[g].task = req'[f].task
                             /\ at'[g] # "new"
      BY DEF Kind
    <3>1. Kind(f)' = Kind(f) /\ \A g \in Executions : Kind(g)' = Kind(g)
      BY DEF Kind
    <3>2. f # e /\ at'[e] # "new"
      BY <1>2, EntrySteps
    <3>3. CASE Kind(f) = Kind(e) /\ req[f].task = req[e].task
      BY <1>2, <3>1, <3>2, <3>3
    <3>4. CASE ~(Kind(f) = Kind(e) /\ req[f].task = req[e].task)
      <4>1. tracked'[Kind(f)][req[f].task] = tracked[Kind(f)][req[f].task]
        BY <1>2, <3>4
      <4>2. \/ tracked[Kind(f)][req[f].task] = f
            \/ \E g \in Executions \ {f} :
                 /\ Kind(g) = Kind(f) /\ req[g].task = req[f].task
                 /\ at[g] # "new"
        BY <3>1, <3>2
      <4> QED
        BY <4>1, <4>2, <3>1, <3>2
    <3> QED
      BY <3>3, <3>4
  <2> QED
    BY <2>1, <2>2, <2>3
<1>3. CASE /\ tracked' = tracked /\ at[e] # "untrack"
           /\ Kind(e) # "application" =>
                    /\ at[e] \in {"start", "wait", "drain"} =>
                         at'[e] \in {"start", "wait", "drain", "untrack"}
                    /\ at'[e] \in {"start", "wait", "drain"} =>
                         at[e] \in {"start", "wait", "drain"}
  <2>1. EntryIsLive'
    BY <1>3 DEF Kind
  <2>2. at[e] # "new" => at'[e] # "new"
    BY EntrySteps
  <2>3. SoleExecutionIsTracked'
    BY <1>3, <2>2 DEF Kind
  <2> QED
    BY <1>3, <2>1, <2>3
<1>4. CASE tracked' = tracked /\ at' = at
  BY <1>4 DEF Kind
<1> QED
  BY <1>1, <1>2, <1>3, <1>4, EntrySteps

LEMMA ExecutorNext ==
  ASSUME ExecutorInv, [Next]_vars
  PROVE  ExecutorInv'
<1>1. TypeOK'
  BY ExecutorType DEF ExecutorInv
<1>2. CASE UNCHANGED vars
  BY <1>1, <1>2 DEF ExecutorInv, vars, callVars, extVars, mapVars, history,
     ExecutionInv, CommandPlace, ContainerPlace, ApplicationPlace, Verdict,
     Kind, EntryIsLive, SoleExecutionIsTracked
<1>3. ASSUME NEW e \in Executions, StepOf(e)
      PROVE  ExecutorInv'
  <2>1. ASSUME NEW f \in Executions
        PROVE  ExecutionInv(f)'
    BY <1>3, OwnStep, OthersInv DEF ExecutorInv
  <2>2. Entries' /\ SoleExecutionIsTracked'
    BY <1>1, <1>3, EntriesStep DEF ExecutorInv, Entries
  <2> QED
    BY <1>1, <2>1, <2>2 DEF ExecutorInv, Entries
<1>4. ASSUME NEW k \in Kinds, NEW t \in TaskIDs, CancelLookup(k, t)
      PROVE  ExecutorInv'
  BY <1>1, <1>4 DEF CancelLookup, ExecutorInv, callVars, extVars, history,
     ExecutionInv, CommandPlace, ContainerPlace, ApplicationPlace, Verdict,
     Kind, EntryIsLive, SoleExecutionIsTracked
<1> QED
  BY <1>2, <1>3, <1>4 DEF Next, StepOf

LEMMA ExecutorInit ==
  ASSUME Init
  PROVE  ExecutorInv
<1>1. TypeOK
  BY DEF Init, TypeOK, Children
<1>2. ASSUME NEW e \in Executions
      PROVE  ExecutionInv(e)
  BY DEF Init, ExecutionInv, CommandPlace, ContainerPlace, ApplicationPlace,
     Verdict, Kind, None
<1>3. EntryIsLive /\ tracked["application"] = [t \in TaskIDs |-> None]
  BY DEF Init, EntryIsLive, Kinds
<1>4. SoleExecutionIsTracked
  BY DEF Init, SoleExecutionIsTracked
<1> QED
  BY <1>1, <1>2, <1>3, <1>4 DEF ExecutorInv

LEMMA ExecutorInvariant == Spec => []ExecutorInv
BY ExecutorInit, ExecutorNext, PTL DEF Spec

\* The status that the shell, python, docker, spark-submit and hadoop
\* executors report is true of the work, for any number of executions.
THEOREM VerdictTheorem == Spec => []VerdictIsTrue
<1>1. ExecutorInv => VerdictIsTrue
  BY DEF ExecutorInv, ExecutionInv, Verdict, VerdictIsTrue
<1> QED
  BY <1>1, ExecutorInvariant, PTL

\* No work outlives its Execute but what the executor was told to keep or
\* has lost sight of, and children of a command that have let go of its output
\* pipe, of which it knows nothing.
THEOREM NothingRunsOnTheorem == Spec => []NothingRunsOn
<1>1. ASSUME ExecutorInv, NEW e \in Executions, Returned(e)
      PROVE  /\ child[e] # "piped"
             /\ ext[e] = "running" =>
                  /\ res[e] \in {"failed", "error"}
                  /\ \/ Kind(e) = "container" /\ (req[e].keep \/ e \in unremoved)
                     \/ Kind(e) = "application" /\ (ctxDone[e] \/ e \in lost)
  BY <1>1, RequestType DEF ExecutorInv, TypeOK, ExecutionInv, CommandPlace, Ended,
     ContainerPlace, ApplicationPlace, Verdict, Kinds, Returned, None
<1>2. ExecutorInv => NothingRunsOn
  BY <1>1 DEF NothingRunsOn
<1> QED
  BY <1>2, ExecutorInvariant, PTL

\* Cancel acts on an execution of its own task that has not returned.
THEOREM EntryTheorem == Spec => []EntryIsLive
<1>1. ExecutorInv => EntryIsLive
  BY DEF ExecutorInv
<1> QED
  BY <1>1, ExecutorInvariant, PTL

\* Cancel finds the only execution of a task.
THEOREM TrackedTheorem == Spec => []SoleExecutionIsTracked
<1>1. ExecutorInv => SoleExecutionIsTracked
  BY DEF ExecutorInv
<1> QED
  BY <1>1, ExecutorInvariant, PTL
-----------------------------------------------------------------------------
(* HTTP tasks *)

\* A task whose request goes out.
Sendable(t) == t.op = "rename" => t.dest \in Paths

\* Requests are of the current task or of one before it.
WireInv == \A q \in wire : q[1] \in 1..cur /\ Sendable(Task(q[1]))

\* Task t has done its work, or the answer to its rename was FALSE.
Settled(t, answer) == Achieved(t) \/ (t.op = "rename" /\ ~answer) \/ stray

\* The answer of the server is right before the client reads it, and stays
\* so while requests of earlier attempts are still being served.
AnswerInv ==
  /\ response # <<>> =>
       client = "waiting" /\ response = <<response[1]>> /\ response[1] \in Responses
  /\ response # <<>> /\ response[1].good => Settled(Task(cur), response[1].body)

HttpInv ==
  /\ chain \in Chains /\ cur \in 1..Len(chain)
  /\ files \in [Paths -> {NoFile, Dir} \cup Contents] /\ ran \in Nat
  /\ stray \in BOOLEAN
  /\ WireInv /\ AnswerInv /\ SuccessMeansDone

\* The tasks of a chain are tasks.
LEMMA TaskType ==
  ASSUME chain \in Chains, NEW i \in 1..Len(chain)
  PROVE  Task(i) \in HttpTask
<1>1. chain \in Seq(HttpTask)
  BY HttpAssumption
<1> QED
  BY <1>1 DEF Task

\* Serving a request: the files and the count of executions then.
ServedEffect(t) ==
  /\ files' = Served(t).files
  /\ ran' = IF t.op = "connect" THEN ran + 1 ELSE ran

\* A served request has its effect, but for a rename answered with FALSE.
LEMMA ServedAchieves ==
  ASSUME NEW t \in HttpTask, Sendable(t), Possible(t), ServedEffect(t),
         files \in [Paths -> {NoFile, Dir} \cup Contents], ran \in Nat
  PROVE  Achieved(t)' \/ (t.op = "rename" /\ ~Served(t).body)
<1>1. t.path \in Paths /\ t.op \in Operations /\ t.content \in Contents
  BY DEF HttpTask
<1>2. CASE t.op = "put"
  BY <1>1, <1>2 DEF ServedEffect, Served, Achieved
<1>3. CASE t.op = "mkdir"
  BY <1>1, <1>3 DEF ServedEffect, Served, Achieved
<1>4. CASE t.op = "delete"
  BY <1>1, <1>4 DEF ServedEffect, Served, Achieved
<1>5. CASE t.op = "rename"
  <2>1. CASE files[t.path] # NoFile /\ files[t.dest] = NoFile
    <3>1. /\ files' = [files EXCEPT ![t.path] = NoFile, ![t.dest] = files[t.path]]
          /\ t.dest \in Paths /\ t.path # t.dest
      BY <1>5, <2>1 DEF ServedEffect, Served, Sendable
    <3>2. files'[t.path] = NoFile /\ files'[t.dest] # NoFile
      BY <1>1, <2>1, <3>1
    <3> QED
      BY <1>5, <3>2 DEF Achieved
  <2>2. CASE ~(files[t.path] # NoFile /\ files[t.dest] = NoFile)
    BY <1>5, <2>2 DEF Served
  <2> QED
    BY <2>1, <2>2
<1>6. CASE t.op = "connect"
  BY <1>6 DEF ServedEffect, Achieved
<1>7. CASE t.op \in {"get", "list", "status"}
  <2>1. files' = files /\ files[t.path] # NoFile
    BY <1>7 DEF ServedEffect, Served, Possible
  <2> QED
    BY <1>7, <2>1 DEF Achieved
<1> QED
  BY <1>1, <1>2, <1>3, <1>4, <1>5, <1>6, <1>7 DEF Operations

\* What a task has achieved, another request of the same task does not undo.
LEMMA ServedAgain ==
  ASSUME NEW t \in HttpTask, Sendable(t), Possible(t), ServedEffect(t), Achieved(t),
         files \in [Paths -> {NoFile, Dir} \cup Contents], ran \in Nat
  PROVE  Achieved(t)'
<1>1. CASE t.op # "rename"
  BY <1>1, ServedAchieves
<1>2. CASE t.op = "rename"
  <2>1. files[t.path] = NoFile /\ files[t.dest] # NoFile
    BY <1>2 DEF Achieved
  <2>2. files' = files
    BY <1>2, <2>1 DEF ServedEffect, Served
  <2> QED
    BY <1>2, <2>1, <2>2 DEF Achieved
<1> QED
  BY <1>1, <1>2

\* The files stay files.
LEMMA ServedType ==
  ASSUME NEW t \in HttpTask, Sendable(t), ServedEffect(t),
         files \in [Paths -> {NoFile, Dir} \cup Contents], ran \in Nat
  PROVE  /\ files' \in [Paths -> {NoFile, Dir} \cup Contents] /\ ran' \in Nat
         /\ Served(t).body \in BOOLEAN
<1>1. t.path \in Paths /\ t.op \in Operations /\ t.content \in Contents
  BY DEF HttpTask
<1>2. ran' \in Nat
  BY DEF ServedEffect
<1>3. CASE t.op = "put"
  BY <1>1, <1>2, <1>3 DEF ServedEffect, Served
<1>4. CASE t.op = "mkdir"
  BY <1>1, <1>2, <1>4 DEF ServedEffect, Served
<1>5. CASE t.op = "delete"
  BY <1>1, <1>2, <1>5 DEF ServedEffect, Served
<1>6. CASE t.op = "rename"
  <2>1. t.dest \in Paths
    BY <1>6 DEF Sendable
  <2>2. CASE files[t.path] # NoFile /\ files[t.dest] = NoFile
    <3>1. /\ files' = [files EXCEPT ![t.path] = NoFile, ![t.dest] = files[t.path]]
          /\ Served(t).body = TRUE
      BY <1>6, <2>2 DEF ServedEffect, Served
    <3> QED
      BY <1>1, <1>2, <2>1, <3>1
  <2>3. CASE ~(files[t.path] # NoFile /\ files[t.dest] = NoFile)
    <3>1. files' = files /\ Served(t).body = FALSE
      BY <1>6, <2>3 DEF ServedEffect, Served
    <3> QED
      BY <1>2, <3>1
  <2> QED
    BY <2>2, <2>3
<1>7. CASE t.op \in {"connect", "get", "list", "status"}
  <2>1. files' = files /\ Served(t).body = TRUE
    BY <1>7 DEF ServedEffect, Served
  <2> QED
    BY <1>2, <2>1
<1> QED
  BY <1>1, <1>3, <1>4, <1>5, <1>6, <1>7 DEF Operations
-----------------------------------------------------------------------------
\* Nothing was sent when the first task begins.
LEMMA HttpInvInit == HttpInit => HttpInv
<1> SUFFICES ASSUME HttpInit PROVE HttpInv
  OBVIOUS
<1>1. chain \in Seq(HttpTask) /\ chain # <<>> /\ chain \in Chains
  BY HttpAssumption DEF HttpInit
<1>2. cur = 1 /\ 1 \in 1..Len(chain)
  BY <1>1 DEF HttpInit
<1>3. files \in [Paths -> {NoFile, Dir} \cup Contents]
  BY DEF HttpInit
<1> QED
  BY <1>1, <1>2, <1>3 DEF HttpInit, HttpInv, WireInv, AnswerInv, SuccessMeansDone

\* Steps of the client, the worker and the scheduler.
LEMMA HttpInvClient ==
  ASSUME HttpInv,
         \/ SendRequest \/ NoDestination \/ ReadResponse \/ GiveUpRequest
         \/ RetryTask \/ NextTask
  PROVE  HttpInv'
<1>1. /\ chain' = chain /\ files' = files /\ ran' = ran /\ stray' = stray
      /\ \A t : Achieved(t)' = Achieved(t)
      /\ \A i : Task(i)' = Task(i)
  BY DEF SendRequest, NoDestination, ReadResponse, GiveUpRequest, RetryTask,
         NextTask, Achieved, Task
<1>2. cur \in Nat /\ Len(chain) \in Nat /\ Task(cur) \in HttpTask
  <2>1. chain \in Seq(HttpTask)
    BY HttpAssumption DEF HttpInv
  <2> QED
    BY <2>1, TaskType DEF HttpInv
<1>3. CASE SendRequest
  <2>1. Sendable(Task(cur))
    BY <1>2, <1>3 DEF SendRequest, Sendable, HttpTask
  <2>2. WireInv'
    BY <1>1, <1>2, <1>3, <2>1 DEF SendRequest, HttpInv, WireInv, Sendable
  <2>3. response = <<>>
    BY <1>3 DEF SendRequest, HttpInv, AnswerInv
  <2> QED
    BY <1>1, <1>3, <2>2, <2>3 DEF SendRequest, HttpInv, AnswerInv, SuccessMeansDone
<1>4. CASE NoDestination \/ GiveUpRequest
  BY <1>1, <1>4 DEF NoDestination, GiveUpRequest, HttpInv, WireInv, Sendable,
     AnswerInv, SuccessMeansDone
<1>5. CASE ReadResponse
  <2>1. WireInv' /\ AnswerInv'
    BY <1>1, <1>5 DEF ReadResponse, HttpInv, WireInv, Sendable, AnswerInv
  <2>2. ASSUME client' = "success" PROVE SuccessMeansDone'
    <3>1. response[1].good /\ Settled(Task(cur), response[1].body)
      BY <1>5, <2>2 DEF ReadResponse, HttpInv, AnswerInv
    <3>2. ~response[1].body => cur \in blind'
      BY <1>5, <3>1 DEF ReadResponse
    <3> QED
      BY <1>1, <1>5, <3>1, <3>2 DEF ReadResponse, Settled, SuccessMeansDone
  <2> QED
    BY <1>1, <1>5, <2>1, <2>2 DEF ReadResponse, HttpInv, SuccessMeansDone
<1>6. CASE RetryTask
  BY <1>1, <1>6 DEF RetryTask, HttpInv, WireInv, Sendable, AnswerInv, SuccessMeansDone
<1>7. CASE NextTask
  <2>1. cur' = cur + 1 /\ cur' \in 1..Len(chain) /\ response = <<>>
    BY <1>2, <1>7 DEF NextTask, HttpInv, AnswerInv
  <2>2. WireInv'
    BY <1>1, <1>2, <1>7, <2>1 DEF NextTask, HttpInv, WireInv, Sendable
  <2> QED
    BY <1>1, <1>7, <2>1, <2>2 DEF NextTask, HttpInv, AnswerInv, SuccessMeansDone
<1> QED
  BY <1>3, <1>4, <1>5, <1>6, <1>7

\* A request is served: one of the current task achieves what it is for or
\* keeps it, and any other is a stray one.
LEMMA HttpInvServe ==
  ASSUME HttpInv, NEW q \in wire, Serve(q)
  PROVE  HttpInv'
<1>1. /\ chain' = chain /\ cur' = cur /\ client' = client /\ blind' = blind
      /\ wire' = wire \ {q} /\ stray' = (stray \/ q[1] < cur)
      /\ \A i : Task(i)' = Task(i)
      /\ Possible(Task(q[1])) /\ ServedEffect(Task(q[1]))
  BY DEF Serve, Task, ServedEffect
<1>2. /\ q[1] \in 1..cur /\ Sendable(Task(q[1])) /\ cur \in 1..Len(chain)
      /\ chain \in Chains /\ cur \in Nat /\ Len(chain) \in Nat
  <2>1. chain \in Seq(HttpTask)
    BY HttpAssumption DEF HttpInv
  <2> QED
    BY <2>1 DEF HttpInv, WireInv
<1>3. PICK t \in HttpTask : t = Task(q[1])
  BY <1>2, TaskType
<1>4. /\ files \in [Paths -> {NoFile, Dir} \cup Contents] /\ ran \in Nat
      /\ stray \in BOOLEAN /\ Sendable(t) /\ Possible(t) /\ ServedEffect(t)
  BY <1>1, <1>2, <1>3 DEF HttpInv
<1>5. /\ files' \in [Paths -> {NoFile, Dir} \cup Contents] /\ ran' \in Nat
      /\ Served(t).body \in BOOLEAN
  BY <1>4, ServedType
<1>6. PICK body \in BOOLEAN : body = Served(t).body
  BY <1>5
<1>7. WireInv'
  BY <1>1 DEF HttpInv, WireInv, Sendable
<1>8. stray' \in BOOLEAN /\ (stray => stray') /\ (t = Task(cur) \/ stray')
  <2>1. q[1] = cur \/ q[1] < cur
    BY <1>2
  <2> QED
    BY <1>1, <1>3, <2>1, Zenon
<1>9. Achieved(t)' \/ (t.op = "rename" /\ ~body)
  BY <1>4, <1>6, ServedAchieves
<1>10. Achieved(t) => Achieved(t)'
  BY <1>4, ServedAgain
<1>11. ASSUME NEW b, Settled(Task(cur), b) PROVE Settled(Task(cur), b)'
  <2>1. CASE stray'
    BY <2>1 DEF Settled
  <2>2. CASE t = Task(cur)
    <3>1. Task(cur)' = t
      BY <1>1, <2>2 DEF Task
    <3> QED
      BY <1>8, <1>10, <1>11, <2>2, <3>1 DEF Settled
  <2> QED
    BY <1>8, <2>1, <2>2
<1>12. AnswerInv'
  <2>1. CASE client = "waiting" /\ q = <<cur, try>>
    <3>1. response' = <<[good |-> TRUE, body |-> body]>> /\ t = Task(cur)
      BY <1>3, <1>6, <2>1 DEF Serve, Respond
    <3>2. response'[1] = [good |-> TRUE, body |-> body] /\ response' # <<>>
      BY <3>1
    <3>3. response'[1] \in Responses /\ response'[1].body = body
      BY <3>2 DEF Responses
    <3>4. Task(cur)' = t
      BY <1>1, <3>1 DEF Task
    <3>5. Settled(t, body)'
      BY <1>9 DEF Settled
    <3> QED
      BY <1>1, <2>1, <3>1, <3>2, <3>3, <3>4, <3>5 DEF AnswerInv
  <2>2. CASE ~(client = "waiting" /\ q = <<cur, try>>)
    <3>1. response' = response
      BY <2>2 DEF Serve, Respond
    <3> QED
      BY <1>1, <1>11, <3>1 DEF HttpInv, AnswerInv
  <2> QED
    BY <2>1, <2>2
<1>13. SuccessMeansDone'
  <2>1. Task(cur)' = Task(cur)
    BY <1>1 DEF Task
  <2> QED
    BY <1>1, <1>8, <1>10, <2>1 DEF HttpInv, SuccessMeansDone
<1> QED
  BY <1>1, <1>2, <1>5, <1>7, <1>8, <1>12, <1>13 DEF HttpInv

\* A request is refused: nothing but the answer.
LEMMA HttpInvRefuse ==
  ASSUME HttpInv, NEW q \in wire, Refuse(q)
  PROVE  HttpInv'
<1>1. /\ chain' = chain /\ cur' = cur /\ client' = client /\ blind' = blind
      /\ files' = files /\ ran' = ran /\ stray' = stray /\ wire' = wire \ {q}
      /\ \A i : Task(i)' = Task(i)
      /\ \A t : Achieved(t)' = Achieved(t)
  BY DEF Refuse, Task, Achieved
<1>2. WireInv' /\ SuccessMeansDone'
  BY <1>1 DEF HttpInv, WireInv, Sendable, SuccessMeansDone
<1>3. AnswerInv'
  <2>1. CASE client = "waiting" /\ q = <<cur, try>>
    <3>1. response' = <<[good |-> FALSE, body |-> FALSE]>>
      BY <2>1 DEF Refuse, Respond
    <3>2. response'[1] = [good |-> FALSE, body |-> FALSE]
      BY <3>1
    <3> QED
      BY <1>1, <2>1, <3>1, <3>2 DEF AnswerInv, Responses
  <2>2. CASE ~(client = "waiting" /\ q = <<cur, try>>)
    <3>1. response' = response
      BY <2>2 DEF Refuse, Respond
    <3> QED
      BY <1>1, <3>1 DEF HttpInv, AnswerInv, Settled
  <2> QED
    BY <2>1, <2>2
<1> QED
  BY <1>1, <1>2, <1>3 DEF HttpInv

\* Every step keeps the invariant.
LEMMA HttpInvNext == HttpInv /\ [HttpNext]_httpVars => HttpInv'
<1> SUFFICES ASSUME HttpInv, [HttpNext]_httpVars PROVE HttpInv'
  OBVIOUS
<1>1. CASE UNCHANGED httpVars
  BY <1>1 DEF httpVars, HttpInv, WireInv, Sendable, AnswerInv, Settled, Achieved,
     Task, SuccessMeansDone
<1>2. CASE HttpNext
  BY <1>2, HttpInvClient, HttpInvServe, HttpInvRefuse DEF HttpNext
<1> QED
  BY <1>1, <1>2

\* Success of an hdfs or Spark Connect task means that its purpose is
\* achieved, for every chain of tasks and whatever attempts were lost, left
\* behind or served twice, but for a rename answered with a FALSE that the
\* code does not read and for a late request of an earlier task.
THEOREM HttpSuccessIsReal == HttpSpec => []SuccessMeansDone
<1>1. HttpInv => SuccessMeansDone
  BY DEF HttpInv
<1> QED
  BY <1>1, HttpInvInit, HttpInvNext, PTL DEF HttpSpec
=============================================================================
