------------------------------- MODULE Store -------------------------------
(***************************************************************************)
(* The metadata store (store.Store) as the scheduler, the workers and the  *)
(* command line use it.  Every operation takes the store's mutex           *)
(* (MemoryStore) or is one SQL statement (PostgresStore), so each is       *)
(* atomic; nothing spans two of them.  Runs and instances are handed out   *)
(* as copies and written back whole, so an update never checks the status  *)
(* it replaces.                                                            *)
(*                                                                         *)
(* A run is named by its position in CreatedAt order and an instance by    *)
(* its run and task; both have random UUIDs in the code.                   *)
(***************************************************************************)
EXTENDS Dag

CONSTANTS
  Runs,       \* the runs that may be created, in CreatedAt order
  Outcomes    \* what a store call may answer, see StoreOutcomes

VARIABLES
  runStatus,  \* runStatus[r]: DAGRun.Status, NoInstance before CreateRun
  inst        \* inst[r][t]: TaskInstance.Status, NoInstance before creation

storeVars == <<runStatus, inst>>

\* A call succeeds, fails without effect, or takes effect although the
\* caller sees an error (a connection lost after the commit).
StoreOutcomes == {"ok", "rejected", "unknown"}

ASSUME StoreAssumption ==
  /\ Runs \subseteq Nat
  /\ "ok" \in Outcomes /\ Outcomes \subseteq StoreOutcomes

Failed(o) == o # "ok"
Applied(o) == o # "rejected"

RunStatus == {NoInstance, "running", "success", "failed"}
InstStatus == {NoInstance} \cup Status

StoreTypeOK ==
  /\ runStatus \in [Runs -> RunStatus]
  /\ inst \in [Runs -> [Tasks -> InstStatus]]

StoreInit ==
  /\ runStatus = [r \in Runs |-> NoInstance]
  /\ inst = [r \in Runs |-> [t \in Tasks |-> NoInstance]]

\* ListRuns with the filter Status = Running.
ListRunningRuns == {r \in Runs : runStatus[r] = "running"}

\* The order ListRuns sorts by: CreatedAt, newest first.
IsNewest(r, S) == r \in S /\ \A q \in S : q <= r

\* ListTaskInstances: a copy of the run's instances.
ListTaskInstances(r) == inst[r]

\* CreateRun: refuses an existing ID, which a fresh UUID never is.  CreatedAt
\* is the current time, so runs are created in the order of their names.
PutRun(r, o) ==
  /\ runStatus[r] = NoInstance
  /\ \A q \in Runs : q > r => runStatus[q] = NoInstance
  /\ runStatus' = IF Applied(o) THEN [runStatus EXCEPT ![r] = "running"]
                                ELSE runStatus

\* UpdateRun writes the caller's copy over the stored run.
UpdateRun(r, s, o) ==
  runStatus' = IF Applied(o) THEN [runStatus EXCEPT ![r] = s] ELSE runStatus

\* CreateTaskInstance and UpdateTaskInstance write the caller's copy.
PutTaskInstance(r, t, s, o) ==
  inst' = IF Applied(o) THEN [inst EXCEPT ![r][t] = s] ELSE inst
=============================================================================
