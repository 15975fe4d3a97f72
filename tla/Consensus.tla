----------------------------- MODULE Consensus -----------------------------
(***************************************************************************)
(* pkg/consensus: a key-value state machine replicated with                *)
(* hashicorp/raft.  The library is external: it gives one log of committed *)
(* entries, hands them to every node's FSM in order, decides when to take, *)
(* persist, install and restore snapshots, and answers the future of an    *)
(* Apply.  Elections are reduced to who believes to be the leader, which   *)
(* may be several nodes at once.  What the FSM, its snapshots and the      *)
(* node's operations do is translated from the code.                       *)
(*                                                                         *)
(* A value is a byte slice.  nil and the empty slice have the same content *)
(* and differ in the code: JSON keeps a nil value nil, and the copy made   *)
(* for a snapshot turns it into an empty slice.                            *)
(***************************************************************************)
EXTENDS Naturals, Sequences

CONSTANTS
  Nodes,
  Seed,         \* the node configured with Bootstrap
  Peers,        \* Config.Peers of the seed
  Calls,        \* calls of Node.Apply
  Keys,
  Values,       \* contents other than the empty one
  Commands,     \* the commands a call may carry
  MaxStops      \* how often nodes may stop in all

Nil == "nil"
Empty == "empty"
Absent == "absent"
None == "none"

Slices == Values \cup {Nil, Empty}
Types == {"set", "delete", "other"}
Command == [type : Types, key : Keys, value : Slices]

ASSUME ConsensusAssumption ==
  /\ Seed \in Nodes /\ Peers \subseteq Nodes
  /\ Commands \subseteq Command
  /\ Absent \notin Slices
  /\ Nil \notin Values /\ Empty \notin Values
  /\ MaxStops \in Nat

VARIABLES
  up,        \* nodes whose process runs
  members,   \* the committed cluster configuration, {} before bootstrap
  leaders,   \* nodes for which IsLeader holds
  log,       \* the committed entries
  state,     \* state[n]: FSM.state, Absent for a key that is not in the map
  applied,   \* applied[n]: how many entries state[n] stands for
  copy,      \* copy[n]: the fsmSnapshot being persisted, or NoSnapshot
  disk,      \* disk[n]: the newest snapshot in the snapshot store of n
  call,      \* call[c]: the call's progress, see CallTypes
  versions,  \* history: versions[i + 1] is what i entries describe
  stops      \* how often a node has stopped

clusterVars == <<up, members, leaders, stops>>
logVars == <<log, versions>>
fsmVars == <<state, applied>>
snapVars == <<copy, disk>>
consensusVars == <<clusterVars, logVars, fsmVars, snapVars, call>>

States == [Keys -> Slices \cup {Absent}]
Snapshots == [index : Nat, state : States]

\* A call: where it stands, its command, the node it was made on, whether
\* the library still has the proposal, the entry it became, and whether the
\* node has stopped since the answer.
CallTypes ==
  [at : {"new", "waiting", "nil", "error"},
   cmd : Commands \cup {None}, node : Nodes \cup {None},
   proposed : BOOLEAN, index : Nat, outlived : BOOLEAN]

NewCall == [at |-> "new", cmd |-> None, node |-> None,
            proposed |-> FALSE, index |-> 0, outlived |-> FALSE]

\* Every variable has a value of its type, and what a node has applied or
\* stored is within the log.
ConsensusTypeOK ==
  /\ up \subseteq Nodes /\ members \subseteq Nodes /\ leaders \subseteq up
  /\ log \in Seq(Commands)
  /\ state \in [Nodes -> States] /\ applied \in [Nodes -> 0..Len(log)]
  /\ copy \in [Nodes -> Snapshots] /\ disk \in [Nodes -> Snapshots]
  /\ call \in [Calls -> CallTypes]
  /\ versions \in Seq(States) /\ Len(versions) = Len(log) + 1
  /\ stops \in Nat

\* NewFSM.
NewState == [k \in Keys |-> Absent]

\* A node without a snapshot starts like one with an empty snapshot.
NoSnapshot == [index |-> 0, state |-> NewState]

ConsensusInit ==
  /\ up = {} /\ members = {} /\ leaders = {} /\ stops = 0
  /\ log = <<>> /\ versions = <<NewState>>
  /\ state = [n \in Nodes |-> NewState] /\ applied = [n \in Nodes |-> 0]
  /\ copy = [n \in Nodes |-> NoSnapshot]
  /\ disk = [n \in Nodes |-> NoSnapshot]
  /\ call = [c \in Calls |-> NewCall]
-----------------------------------------------------------------------------
(* The FSM *)

\* FSM.Apply.  A command of another type is refused with an error that
\* becomes the response of the future, which nobody reads.
FSMApply(s, cmd) ==
  IF cmd.type = "set" THEN [s EXCEPT ![cmd.key] = cmd.value]
  ELSE IF cmd.type = "delete" THEN [s EXCEPT ![cmd.key] = Absent]
  ELSE s

\* FSM.Snapshot copies every value into a fresh slice, which is never nil.
Copied(s) == [k \in Keys |-> IF s[k] = Nil THEN Empty ELSE s[k]]

\* FSM.Get.
Get(n, k) == state[n][k]
-----------------------------------------------------------------------------
(* Life of a node *)

\* NewNode: the FSM starts empty and NewRaft restores the newest snapshot.
\* BootstrapCluster fails once the cluster exists, and the error is ignored.
NewNode(n) ==
  /\ n \notin up
  /\ up' = up \cup {n}
  /\ state' = [state EXCEPT ![n] = disk[n].state]
  /\ applied' = [applied EXCEPT ![n] = disk[n].index]
  /\ members' = IF n = Seed /\ members = {} THEN Peers \cup {Seed} ELSE members
  /\ UNCHANGED <<leaders, stops, logVars, snapVars, call>>

\* Shutdown, or a crash: what is in memory is gone, a snapshot that is not
\* closed is not kept, and calls under way fail without being withdrawn.
Stop(n) ==
  /\ n \in up /\ stops < MaxStops
  /\ up' = up \ {n} /\ leaders' = leaders \ {n} /\ stops' = stops + 1
  /\ copy' = [copy EXCEPT ![n] = NoSnapshot]
  /\ call' = [c \in Calls |->
       IF call[c].node # n THEN call[c]
       ELSE [call[c] EXCEPT !.outlived = TRUE,
                            !.at = IF @ = "waiting" THEN "error" ELSE @]]
  /\ UNCHANGED <<members, logVars, fsmVars, disk>>

\* Elections: a node learns that it leads, and later that it no longer does.
Elected(n) ==
  /\ n \in (up \cap members) \ leaders
  /\ leaders' = leaders \cup {n}
  /\ UNCHANGED <<up, members, stops, logVars, fsmVars, snapVars, call>>

Deposed(n) ==
  /\ n \in leaders
  /\ leaders' = leaders \ {n}
  /\ UNCHANGED <<up, members, stops, logVars, fsmVars, snapVars, call>>

\* AddPeer and RemovePeer, asked of a leader; refused elsewhere.
AddPeer(n, p) ==
  /\ n \in leaders /\ p \notin members
  /\ members' = members \cup {p}
  /\ UNCHANGED <<up, leaders, stops, logVars, fsmVars, snapVars, call>>

\* A leader that is removed steps down.
RemovePeer(n, p) ==
  /\ n \in leaders /\ p \in members /\ members # {p}
  /\ members' = members \ {p}
  /\ leaders' = leaders \ {p}
  /\ UNCHANGED <<up, stops, logVars, fsmVars, snapVars, call>>
-----------------------------------------------------------------------------
(* Node.Apply *)

\* The call is refused where the node does not believe to lead; otherwise
\* the command is handed to the library and the call waits for its future.
Apply(c, n, cmd) ==
  /\ call[c].at = "new" /\ n \in up
  /\ call' = [call EXCEPT ![c] =
       [@ EXCEPT !.cmd = cmd, !.node = n, !.proposed = n \in leaders,
                 !.at = IF n \in leaders THEN "waiting" ELSE "error"]]
  /\ UNCHANGED <<clusterVars, logVars, fsmVars, snapVars>>

\* The entry is committed, even if the caller has an error by now.
Commit(c) ==
  /\ call[c].proposed
  /\ log' = Append(log, call[c].cmd)
  /\ versions' = Append(versions,
                        Copied(FSMApply(versions[Len(versions)], call[c].cmd)))
  /\ call' = [call EXCEPT ![c].proposed = FALSE, ![c].index = Len(log) + 1]
  /\ UNCHANGED <<clusterVars, fsmVars, snapVars>>

\* The future answers with an error: the command timed out in the queue, the
\* leadership was lost, the node shuts down.  The entry may be lost with it.
ApplyFails(c) ==
  /\ call[c].at = "waiting"
  /\ \E p \in {call[c].proposed, FALSE} :
       call' = [call EXCEPT ![c].at = "error", ![c].proposed = p]
  /\ UNCHANGED <<clusterVars, logVars, fsmVars, snapVars>>

\* Mutant of ApplyReturns: the call does not wait for its node's FSM.
ApplyReturns_AtCommit(c) ==
  /\ call[c].at = "waiting" /\ call[c].index # 0
  /\ call' = [call EXCEPT ![c].at = "nil"]
  /\ UNCHANGED <<clusterVars, logVars, fsmVars, snapVars>>

\* The future answers once the node's FSM has had the entry.  Its response,
\* which holds an error of FSM.Apply, is not looked at.
ApplyReturns(c) ==
  /\ call[c].at = "waiting" /\ call[c].index # 0
  /\ applied[call[c].node] >= call[c].index
  /\ call' = [call EXCEPT ![c].at = "nil"]
  /\ UNCHANGED <<clusterVars, logVars, fsmVars, snapVars>>

\* The library hands the next committed entry to the FSM of n.
ApplyEntry(n) ==
  /\ n \in up \cap members
  /\ applied[n] < Len(log)
  /\ state' = [state EXCEPT ![n] = FSMApply(@, log[applied[n] + 1])]
  /\ applied' = [applied EXCEPT ![n] = @ + 1]
  /\ UNCHANGED <<clusterVars, logVars, snapVars, call>>
-----------------------------------------------------------------------------
(* Snapshots *)

\* FSM.Snapshot, called between two entries.
Snapshot(n) ==
  /\ n \in up /\ copy[n] = NoSnapshot /\ applied[n] > disk[n].index
  /\ copy' = [copy EXCEPT ![n] = [index |-> applied[n],
                                  state |-> Copied(state[n])]]
  /\ UNCHANGED <<clusterVars, logVars, fsmVars, disk, call>>

\* Mutant of Persist: the snapshot shares the map with the FSM, which goes on
\* applying entries until Persist reads it.
Persist_SharedMap(n) ==
  /\ copy[n] # NoSnapshot
  /\ copy' = [copy EXCEPT ![n] = NoSnapshot]
  /\ \/ /\ copy[n].index > disk[n].index
        /\ disk' = [disk EXCEPT ![n] = [copy[n] EXCEPT !.state = state[n]]]
     \/ UNCHANGED disk
  /\ UNCHANGED <<clusterVars, logVars, fsmVars, call>>

\* fsmSnapshot.Persist, while entries are applied: written and closed, or
\* cancelled at the first error.  The store serves the snapshot with the
\* highest index, so one that an installed snapshot has overtaken is idle.
Persist(n) ==
  /\ copy[n] # NoSnapshot
  /\ copy' = [copy EXCEPT ![n] = NoSnapshot]
  /\ \/ /\ copy[n].index > disk[n].index
        /\ disk' = [disk EXCEPT ![n] = copy[n]]
     \/ UNCHANGED disk
  /\ UNCHANGED <<clusterVars, logVars, fsmVars, call>>

\* A node that lags behind gets a snapshot of another one, which it stores
\* and gives to FSM.Restore.  Restore replaces the state as a whole, or
\* leaves it alone when the snapshot cannot be read.
InstallSnapshot(m, n) ==
  /\ n \in up \cap members /\ m # n
  /\ disk[m].index > applied[n]
  /\ disk' = [disk EXCEPT ![n] = disk[m]]
  /\ \/ /\ state' = [state EXCEPT ![n] = disk[m].state]
        /\ applied' = [applied EXCEPT ![n] = disk[m].index]
     \/ UNCHANGED fsmVars
  /\ UNCHANGED <<clusterVars, logVars, copy, call>>
-----------------------------------------------------------------------------
ConsensusNext ==
  \/ \E n \in Nodes :
       \/ NewNode(n) \/ Stop(n) \/ Elected(n) \/ Deposed(n)
       \/ ApplyEntry(n) \/ Snapshot(n) \/ Persist(n)
       \/ \E m \in Nodes : AddPeer(n, m) \/ RemovePeer(n, m)
                           \/ InstallSnapshot(m, n)
  \/ \E c \in Calls :
       \/ \E n \in Nodes, cmd \in Commands : Apply(c, n, cmd)
       \/ Commit(c) \/ ApplyFails(c) \/ ApplyReturns(c)

ConsensusSpec == ConsensusInit /\ [][ConsensusNext]_consensusVars
-----------------------------------------------------------------------------
(* Properties *)

\* The content of state s is what the first i entries of the log describe.
Describes(s, i) == Copied(s) = versions[i + 1]

\* Every state machine, every snapshot under way and every stored snapshot
\* holds what the log describes up to its index, so nodes that have applied
\* as much agree, whatever snapshots, restarts and lost calls lie behind them.
ReplicasFollowLog ==
  \A n \in Nodes :
    /\ Describes(state[n], applied[n])
    /\ Describes(disk[n].state, disk[n].index)
    /\ copy[n] # NoSnapshot => Describes(copy[n].state, copy[n].index)

\* The last of the first i entries that concerns key k is entry j.
LastWrite(k, j, i) ==
  /\ log[j].key = k /\ log[j].type # "other"
  /\ \A m \in (j + 1)..i : log[m].key # k \/ log[m].type = "other"

\* Once Apply has returned nil, Get on the same node shows what it wrote
\* until a later entry overwrites it, as long as the node does not stop; a
\* command of an unknown type is answered nil as well and shows in no state.
ReadsItsWrites ==
  \A c \in Calls :
    LET n == call[c].node
        j == call[c].index
    IN  call[c].at = "nil" /\ ~call[c].outlived =>
          /\ j \in 1..applied[n] /\ log[j] = call[c].cmd
          /\ LastWrite(log[j].key, j, applied[n]) =>
               Get(n, log[j].key) \in
                 IF log[j].type = "delete" THEN {Absent}
                 ELSE IF log[j].value \in {Nil, Empty} THEN {Nil, Empty}
                 ELSE {log[j].value}
=============================================================================
