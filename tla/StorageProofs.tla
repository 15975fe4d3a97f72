--------------------------- MODULE StorageProofs ----------------------------
(***************************************************************************)
(* For every cluster, every set of keys, values and commands and any       *)
(* number of calls, stops and snapshots: the state machines follow the     *)
(* log, and a client reads what it has written. For any identifiers, keys  *)
(* and statuses and any number of calls: the two stores agree.             *)
(*                                                                         *)
(* Neither of the first two is inductive alone. The first needs that the   *)
(* history `versions' is the log applied entry by entry, that copying      *)
(* commutes with applying (Copied and FSMApply below) and that snapshots   *)
(* lie within the log; the second also needs to know which entry a version *)
(* owes each of its keys to, and where calls stand that have not been      *)
(* answered.                                                               *)
(*                                                                         *)
(* Until the two stores come apart they hold the same rows, but for the    *)
(* integers of a Config, and MemoryStore's index leads from every key to   *)
(* the one instance that has it, as PostgreSQL's UNIQUE column does.       *)
(***************************************************************************)
EXTENDS Consensus, Stores, FiniteSetTheorems, TLAPS

-----------------------------------------------------------------------------
(* Consensus *)

\* What the versions hold for a key written by cmd: content without nil.
WrittenAs(cmd) ==
  IF cmd.type = "delete" THEN Absent
  ELSE IF cmd.value = Nil THEN Empty ELSE cmd.value

\* The versions are the log applied entry by entry.
VersionsFollowLog ==
  /\ versions[1] = NewState
  /\ \A i \in 1..Len(log) :
       versions[i + 1] = Copied(FSMApply(versions[i], log[i]))

\* A version shows the last write of every key.
VersionsShowWrites ==
  \A i \in 1..Len(log) : \A j \in 1..i :
    LastWrite(log[j].key, j, i) =>
      versions[i + 1][log[j].key] = WrittenAs(log[j])

\* A call knows its entry from the commit on, waits on a node that is up,
\* and has returned nil only after that node has applied the entry.
CallInv(c) ==
  /\ call[c].at # "new" => call[c].cmd \in Commands /\ call[c].node \in Nodes
  /\ call[c].proposed => call[c].index = 0 /\ call[c].at # "new"
  /\ call[c].at = "new" => call[c].index = 0
  /\ call[c].index # 0 => /\ call[c].index \in 1..Len(log)
                          /\ log[call[c].index] = call[c].cmd
  /\ call[c].at = "waiting" => call[c].node \in up
  /\ call[c].at = "nil" /\ ~call[c].outlived =>
       /\ call[c].node \in up
       /\ call[c].index # 0 /\ call[c].index <= applied[call[c].node]

\* The log, its versions, and the types of both.
LogInv ==
  /\ log \in Seq(Commands) /\ versions \in Seq(States)
  /\ Len(versions) = Len(log) + 1
  /\ VersionsFollowLog /\ VersionsShowWrites

\* What a node holds in memory, in a snapshot under way and on disk.
NodeInv(n) ==
  /\ state[n] \in States /\ applied[n] \in 0..Len(log)
  /\ copy[n] \in Snapshots /\ copy[n].index <= Len(log)
  /\ disk[n] \in Snapshots /\ disk[n].index <= Len(log)
  /\ Describes(state[n], applied[n])
  /\ Describes(disk[n].state, disk[n].index)
  /\ Describes(copy[n].state, copy[n].index)

\* Domains of the functions, and the types of what is left.
FrameInv ==
  /\ up \subseteq Nodes /\ members \subseteq Nodes /\ leaders \subseteq up
  /\ state \in [Nodes -> States] /\ applied \in [Nodes -> Nat]
  /\ copy \in [Nodes -> Snapshots] /\ disk \in [Nodes -> Snapshots]
  /\ call \in [Calls -> CallTypes]
  /\ stops \in Nat

\* The inductive invariant, by subject: the log, every node, every call.
IInv ==
  /\ LogInv /\ FrameInv
  /\ \A n \in Nodes : NodeInv(n)
  /\ \A c \in Calls : CallInv(c)
-----------------------------------------------------------------------------
(* States and copies *)

\* Applying and copying stay within the states.
LEMMA StatesClosed ==
  ASSUME NEW s \in States, NEW cmd \in Commands
  PROVE  FSMApply(s, cmd) \in States /\ Copied(s) \in States
BY ConsensusAssumption DEF FSMApply, Copied, States, Command, Slices

\* A copy of a copy is the same copy.
LEMMA CopiedTwice ==
  ASSUME NEW s \in States
  PROVE  Copied(Copied(s)) = Copied(s)
BY ConsensusAssumption DEF Copied, States, Slices, Nil, Empty

\* Applying to a copy and to the original gives the same content.
LEMMA CopyThenApply ==
  ASSUME NEW s \in States, NEW cmd \in Commands
  PROVE  Copied(FSMApply(Copied(s), cmd)) = Copied(FSMApply(s, cmd))
<1> cmd \in Command
  BY ConsensusAssumption
<1> DEFINE a == Copied(FSMApply(Copied(s), cmd))
           b == Copied(FSMApply(s, cmd))
<1>1. ASSUME NEW k \in Keys
      PROVE  a[k] = b[k]
  BY ConsensusAssumption DEF Copied, FSMApply, States, Slices, Command, Nil, Empty
<1> QED
  BY <1>1 DEF Copied

\* What an entry does to the content of a key.
LEMMA AppliedAt ==
  ASSUME NEW s \in States, NEW cmd \in Commands, NEW k \in Keys
  PROVE  Copied(FSMApply(s, cmd))[k] =
           IF cmd.key = k /\ cmd.type # "other" THEN WrittenAs(cmd)
           ELSE Copied(s)[k]
<1> cmd \in Command
  BY ConsensusAssumption
<1> QED
  BY ConsensusAssumption
  DEF Copied, FSMApply, States, Slices, Command, Types, WrittenAs, Nil, Empty, Absent
-----------------------------------------------------------------------------
(* The initial states *)

\* Without a snapshot the copy is the empty state of no entries.
LEMMA NoSnapshotDescribed ==
  ASSUME LogInv
  PROVE  /\ NewState \in States /\ NoSnapshot \in Snapshots
         /\ NoSnapshot.index = 0 /\ NoSnapshot.state = NewState
         /\ Describes(NewState, 0)
<1>1. NewState \in States /\ Copied(NewState) = NewState
  BY ConsensusAssumption DEF NewState, States, Copied, Slices, Nil, Absent
<1> QED
  BY <1>1 DEF LogInv, VersionsFollowLog, Describes, NoSnapshot, Snapshots

\* The cluster starts empty.
LEMMA InitInv == ConsensusInit => IInv
<1> SUFFICES ASSUME ConsensusInit PROVE IInv
  OBVIOUS
<1>1. NewState \in States
  BY DEF NewState, States
<1>2. LogInv
  <2>1. log = <<>> /\ versions = <<NewState>>
    BY DEF ConsensusInit
  <2>2. Len(log) = 0 /\ Len(versions) = 1 /\ versions[1] = NewState
    BY <2>1
  <2> QED
    BY <1>1, <2>1, <2>2 DEF LogInv, VersionsFollowLog, VersionsShowWrites
<1>3. /\ NoSnapshot \in Snapshots /\ NoSnapshot.index = 0
      /\ NoSnapshot.state = NewState /\ Describes(NewState, 0)
  BY <1>2, NoSnapshotDescribed
<1>4. Len(log) = 0
  BY DEF ConsensusInit
<1>5. ASSUME NEW n \in Nodes PROVE NodeInv(n)
  BY <1>1, <1>3, <1>4 DEF ConsensusInit, NodeInv
<1>6. FrameInv
  BY <1>1, <1>3 DEF ConsensusInit, FrameInv, CallTypes, NewCall
<1>7. ASSUME NEW c \in Calls PROVE CallInv(c)
  BY DEF ConsensusInit, CallInv, NewCall
<1> QED
  BY <1>2, <1>5, <1>6, <1>7 DEF IInv
-----------------------------------------------------------------------------
(* What a step leaves alone *)

\* The log is as before, or has grown at its end.
Grows ==
  /\ Len(log) <= Len(log')
  /\ \A i \in 1..Len(log) : log'[i] = log[i]
  /\ \A i \in 1..(Len(log) + 1) : versions'[i] = versions[i]

\* A step that leaves the log alone keeps what is said of it.
LEMMA SameLogGrows ==
  ASSUME LogInv, UNCHANGED logVars
  PROVE  Grows /\ LogInv'
<1>1. log' = log /\ versions' = versions /\ Len(log) \in Nat
  BY DEF logVars, LogInv
<1>2. Grows
  BY <1>1 DEF Grows
<1>3. VersionsFollowLog'
  BY <1>1 DEF LogInv, VersionsFollowLog
<1>4. VersionsShowWrites'
  BY <1>1 DEF LogInv, VersionsShowWrites, LastWrite
<1> QED
  BY <1>1, <1>2, <1>3, <1>4 DEF LogInv

\* A node whose own state stays is as good as before.
LEMMA NodeStays ==
  ASSUME NEW n \in Nodes, LogInv, LogInv', Grows, NodeInv(n),
         state'[n] = state[n], applied'[n] = applied[n],
         copy'[n] = copy[n], disk'[n] = disk[n]
  PROVE  NodeInv(n)'
<1>1. /\ applied[n] \in 0..Len(log)
      /\ copy[n].index \in 0..Len(log) /\ disk[n].index \in 0..Len(log)
  BY DEF NodeInv, Snapshots, LogInv
<1>2. ASSUME NEW i \in 0..Len(log)
      PROVE  i \in 0..Len(log') /\ versions'[i + 1] = versions[i + 1]
  BY DEF LogInv, Grows
<1>3. /\ Copied(state[n]) = versions'[applied[n] + 1]
      /\ Copied(disk[n].state) = versions'[disk[n].index + 1]
      /\ Copied(copy[n].state) = versions'[copy[n].index + 1]
  BY <1>1, <1>2 DEF NodeInv, Describes
<1>4. /\ Describes(state[n], applied[n])'
      /\ Describes(disk[n].state, disk[n].index)'
      /\ Describes(copy[n].state, copy[n].index)'
  BY <1>3 DEF Describes, Copied
<1>5. /\ applied'[n] \in 0..Len(log')
      /\ copy'[n].index <= Len(log') /\ disk'[n].index <= Len(log')
  BY <1>1, <1>2
<1> QED
  BY <1>4, <1>5 DEF NodeInv

\* A call that stays is as good as before, as long as no node has stopped and
\* nodes that are up have not gone back.
LEMMA CallStays ==
  ASSUME NEW c \in Calls, LogInv, LogInv', Grows, FrameInv, FrameInv', CallInv(c),
         call'[c] = call[c], up \subseteq up',
         \A n \in up : applied[n] <= applied'[n]
  PROVE  CallInv(c)'
<1>1. call[c] \in CallTypes /\ call[c].index \in Nat
  BY DEF FrameInv, CallTypes
<1>2. call[c].index # 0 => /\ call[c].index \in 1..Len(log')
                           /\ log'[call[c].index] = call[c].cmd
  BY <1>1 DEF CallInv, Grows, LogInv
<1>3. call[c].at = "nil" /\ ~call[c].outlived =>
        call[c].node \in up' /\ call[c].index <= applied'[call[c].node]
  BY <1>1 DEF CallInv, FrameInv
<1> QED
  BY <1>1, <1>2, <1>3 DEF CallInv

\* Nodes and calls keep their part of the invariant where a step changes
\* neither the log, nor what nodes hold, nor calls, nor stops a node.
LEMMA ClusterStep ==
  ASSUME IInv, UNCHANGED <<logVars, fsmVars, snapVars, call>>,
         up \subseteq up', FrameInv'
  PROVE  IInv'
<1>1. Grows /\ LogInv' /\ LogInv /\ FrameInv
  BY SameLogGrows DEF IInv
<1>2. ASSUME NEW n \in Nodes PROVE NodeInv(n)'
  BY <1>1, NodeStays DEF IInv, fsmVars, snapVars
<1>3. \A n \in up : applied[n] <= applied'[n]
  BY DEF IInv, FrameInv, fsmVars
<1>4. ASSUME NEW c \in Calls PROVE CallInv(c)'
  BY <1>1, <1>3, CallStays DEF IInv
<1> QED
  BY <1>1, <1>2, <1>4 DEF IInv

\* A step of node n that leaves log and calls alone, and does not take n back
\* while it is up, need only be looked at on n.
LEMMA NodeStep ==
  ASSUME IInv, NEW n \in Nodes, UNCHANGED <<logVars, call>>,
         up \subseteq up', FrameInv',
         \A m \in Nodes \ {n} : /\ state'[m] = state[m] /\ applied'[m] = applied[m]
                                /\ copy'[m] = copy[m] /\ disk'[m] = disk[m],
         n \in up => applied[n] <= applied'[n],
         NodeInv(n)'
  PROVE  IInv'
<1>1. Grows /\ LogInv' /\ LogInv /\ FrameInv
  BY SameLogGrows DEF IInv
<1>2. ASSUME NEW m \in Nodes PROVE NodeInv(m)'
  <2>1. CASE m = n
    BY <2>1
  <2>2. CASE m # n
    BY <1>1, <2>2, NodeStays DEF IInv
  <2> QED
    BY <2>1, <2>2
<1>3. \A m \in up : applied[m] <= applied'[m]
  BY DEF IInv, FrameInv
<1>4. ASSUME NEW c \in Calls PROVE CallInv(c)'
  BY <1>1, <1>3, CallStays DEF IInv
<1> QED
  BY <1>1, <1>2, <1>4 DEF IInv

\* A step of call c that leaves the rest alone need only be looked at on c.
LEMMA CallStep ==
  ASSUME IInv, NEW c \in Calls,
         UNCHANGED <<clusterVars, logVars, fsmVars, snapVars>>,
         call' \in [Calls -> CallTypes],
         \A d \in Calls \ {c} : call'[d] = call[d],
         CallInv(c)'
  PROVE  IInv'
<1>1. Grows /\ LogInv' /\ LogInv /\ FrameInv
  BY SameLogGrows DEF IInv
<1>2. FrameInv'
  BY <1>1 DEF FrameInv, clusterVars, fsmVars, snapVars
<1>3. ASSUME NEW n \in Nodes PROVE NodeInv(n)'
  BY <1>1, NodeStays DEF IInv, fsmVars, snapVars
<1>4. up \subseteq up' /\ \A n \in up : applied[n] <= applied'[n]
  BY <1>1 DEF FrameInv, fsmVars, clusterVars
<1>5. ASSUME NEW d \in Calls PROVE CallInv(d)'
  <2>1. CASE d = c
    BY <2>1
  <2>2. CASE d # c
    BY <1>1, <1>2, <1>4, <2>2, CallStays DEF IInv
  <2> QED
    BY <2>1, <2>2
<1> QED
  BY <1>1, <1>2, <1>3, <1>5 DEF IInv
-----------------------------------------------------------------------------
(* The steps *)

\* Elections and membership.
LEMMA ClusterInv ==
  ASSUME IInv, NEW n \in Nodes, NEW p \in Nodes,
         Elected(n) \/ Deposed(n) \/ AddPeer(n, p) \/ RemovePeer(n, p)
  PROVE  IInv'
<1>1. FrameInv' /\ up' = up /\ UNCHANGED <<logVars, fsmVars, snapVars, call>>
  BY DEF IInv, FrameInv, Elected, Deposed, AddPeer, RemovePeer, fsmVars, snapVars
<1> QED
  BY <1>1, ClusterStep

\* A node starts from its newest snapshot.
LEMMA NewNodeInv ==
  ASSUME IInv, NEW n \in Nodes, NewNode(n)
  PROVE  IInv'
<1>1. FrameInv'
  BY ConsensusAssumption DEF IInv, FrameInv, NewNode, Snapshots, snapVars
<1>2. /\ UNCHANGED <<logVars, call>> /\ up \subseteq up' /\ n \notin up
      /\ \A m \in Nodes \ {n} : /\ state'[m] = state[m] /\ applied'[m] = applied[m]
                                /\ copy'[m] = copy[m] /\ disk'[m] = disk[m]
      /\ state'[n] = disk[n].state /\ applied'[n] = disk[n].index
      /\ copy'[n] = copy[n] /\ disk'[n] = disk[n]
      /\ versions' = versions /\ log' = log
  BY DEF NewNode, IInv, FrameInv, snapVars, logVars
<1>3. NodeInv(n)
  BY DEF IInv
<1>4. NodeInv(n)'
  BY <1>2, <1>3 DEF NodeInv, Describes, Snapshots, Copied
<1> QED
  BY <1>1, <1>2, <1>4, NodeStep

\* The next entry is applied.
LEMMA ApplyEntryInv ==
  ASSUME IInv, NEW n \in Nodes, ApplyEntry(n)
  PROVE  IInv'
<1> DEFINE a == applied[n]
<1>1. /\ a \in 0..Len(log) /\ a < Len(log) /\ a + 1 \in 1..Len(log)
      /\ state[n] \in States /\ log[a + 1] \in Commands
      /\ NodeInv(n) /\ FrameInv /\ LogInv
  BY DEF ApplyEntry, IInv, NodeInv, LogInv
<1>2. /\ UNCHANGED <<clusterVars, logVars, call, copy, disk>>
      /\ \A m \in Nodes \ {n} : state'[m] = state[m] /\ applied'[m] = applied[m]
      /\ state'[n] = FSMApply(state[n], log[a + 1]) /\ applied'[n] = a + 1
      /\ versions' = versions /\ log' = log
  BY <1>1 DEF ApplyEntry, FrameInv, snapVars, logVars
<1>3. FSMApply(state[n], log[a + 1]) \in States
  BY <1>1, StatesClosed
<1>4. FrameInv'
  BY <1>1, <1>2, <1>3 DEF FrameInv, ApplyEntry, clusterVars
<1>5. Copied(state'[n]) = versions'[(a + 1) + 1]
  <2>1. Copied(state[n]) = versions[a + 1]
    BY <1>1 DEF NodeInv, Describes
  <2>2. versions[(a + 1) + 1] = Copied(FSMApply(versions[a + 1], log[a + 1]))
    BY <1>1 DEF LogInv, VersionsFollowLog
  <2> QED
    BY <1>1, <1>2, <2>1, <2>2, CopyThenApply
<1>6. Describes(state[n], applied[n])'
  BY <1>2, <1>5 DEF Describes, Copied
<1>7. NodeInv(n)'
  BY <1>1, <1>2, <1>3, <1>6 DEF NodeInv, Describes, Copied
<1> QED
  BY <1>1, <1>2, <1>4, <1>7, NodeStep DEF clusterVars

\* A snapshot is taken.
LEMMA SnapshotInv ==
  ASSUME IInv, NEW n \in Nodes, Snapshot(n)
  PROVE  IInv'
<1>1. NodeInv(n) /\ FrameInv /\ LogInv /\ state[n] \in States
  BY DEF IInv, NodeInv
<1>2. /\ UNCHANGED <<clusterVars, logVars, call, state, applied, disk>>
      /\ \A m \in Nodes \ {n} : copy'[m] = copy[m]
      /\ copy'[n] = [index |-> applied[n], state |-> Copied(state[n])]
      /\ versions' = versions /\ log' = log
  BY <1>1 DEF Snapshot, FrameInv, fsmVars, logVars
<1>3. Copied(state[n]) \in States /\ Copied(Copied(state[n])) = Copied(state[n])
  <2>1. Copied(state[n]) \in States
    BY <1>1, ConsensusAssumption DEF Copied, States, Slices
  <2> QED
    BY <1>1, <2>1, CopiedTwice
<1>4. copy'[n] \in Snapshots
  BY <1>1, <1>2, <1>3 DEF Snapshots, NodeInv, LogInv
<1>5. FrameInv'
  BY <1>1, <1>2, <1>4 DEF FrameInv, Snapshot, clusterVars
<1>6. Copied(copy'[n].state) = versions'[copy'[n].index + 1]
  BY <1>1, <1>2, <1>3 DEF NodeInv, Describes
<1>7. NodeInv(n)'
  BY <1>1, <1>2, <1>4, <1>6 DEF NodeInv, Describes, Copied
<1> QED
  BY <1>1, <1>2, <1>5, <1>7, NodeStep DEF clusterVars, FrameInv

\* What a node holds after a step that leaves the log alone.
LEMMA NodeHolds ==
  ASSUME NEW n \in Nodes, log' = log, versions' = versions,
         NEW s \in States, NEW a \in 0..Len(log), Describes(s, a),
         NEW p \in Snapshots, p.index <= Len(log), Describes(p.state, p.index),
         NEW d \in Snapshots, d.index <= Len(log), Describes(d.state, d.index),
         state'[n] = s, applied'[n] = a, copy'[n] = p, disk'[n] = d
  PROVE  NodeInv(n)'
<1>1. /\ Describes(state[n], applied[n])'
      /\ Describes(disk[n].state, disk[n].index)'
      /\ Describes(copy[n].state, copy[n].index)'
  BY DEF Describes, Copied
<1> QED
  BY <1>1 DEF NodeInv

\* A snapshot is written to disk, or given up.
LEMMA PersistInv ==
  ASSUME IInv, NEW n \in Nodes, Persist(n)
  PROVE  IInv'
<1>1. NodeInv(n) /\ FrameInv /\ LogInv
  BY DEF IInv
<1>2. /\ UNCHANGED <<clusterVars, logVars, call, state, applied>>
      /\ \A m \in Nodes \ {n} : copy'[m] = copy[m] /\ disk'[m] = disk[m]
      /\ copy'[n] = NoSnapshot /\ disk'[n] \in {copy[n], disk[n]}
      /\ versions' = versions /\ log' = log
  BY <1>1 DEF Persist, FrameInv, fsmVars, logVars
<1>3. /\ NoSnapshot \in Snapshots /\ NoSnapshot.index = 0
      /\ Copied(NoSnapshot.state) = versions[NoSnapshot.index + 1]
  BY <1>1, NoSnapshotDescribed DEF Describes
<1>4. FrameInv'
  BY <1>1, <1>2, <1>3 DEF FrameInv, Persist, clusterVars
<1>5. NodeInv(n)'
  <2>1. /\ Describes(NoSnapshot.state, NoSnapshot.index) /\ NoSnapshot.index <= Len(log)
        /\ state'[n] = state[n] /\ applied'[n] = applied[n]
    BY <1>1, <1>2, <1>3 DEF Describes, LogInv
  <2>2. CASE disk'[n] = copy[n]
    BY <1>1, <1>2, <1>3, <2>1, <2>2, NodeHolds DEF NodeInv
  <2>3. CASE disk'[n] = disk[n]
    BY <1>1, <1>2, <1>3, <2>1, <2>3, NodeHolds DEF NodeInv
  <2> QED
    BY <1>2, <2>2, <2>3
<1> QED
  BY <1>1, <1>2, <1>4, <1>5, NodeStep DEF clusterVars, FrameInv

\* A snapshot of another node is installed.
LEMMA InstallInv ==
  ASSUME IInv, NEW m \in Nodes, NEW n \in Nodes, InstallSnapshot(m, n)
  PROVE  IInv'
<1>1. NodeInv(n) /\ NodeInv(m) /\ FrameInv /\ LogInv
  BY DEF IInv
<1>2. /\ UNCHANGED <<clusterVars, logVars, call, copy>>
      /\ \A l \in Nodes \ {n} : /\ state'[l] = state[l] /\ applied'[l] = applied[l]
                                /\ disk'[l] = disk[l]
      /\ disk'[n] = disk[m] /\ disk[m].index > applied[n]
      /\ \/ state'[n] = disk[m].state /\ applied'[n] = disk[m].index
         \/ state'[n] = state[n] /\ applied'[n] = applied[n]
      /\ versions' = versions /\ log' = log
  BY <1>1 DEF InstallSnapshot, FrameInv, fsmVars, logVars
<1>3. FrameInv'
  BY <1>1 DEF FrameInv, InstallSnapshot, clusterVars, fsmVars, Snapshots
<1>4. NodeInv(n)'
  <2>1. /\ disk[m].state \in States /\ disk[m].index \in 0..Len(log)
        /\ copy'[n] = copy[n]
    BY <1>1, <1>2 DEF NodeInv, Snapshots, LogInv
  <2>2. CASE state'[n] = disk[m].state /\ applied'[n] = disk[m].index
    BY <1>1, <1>2, <2>1, <2>2, NodeHolds DEF NodeInv
  <2>3. CASE state'[n] = state[n] /\ applied'[n] = applied[n]
    BY <1>1, <1>2, <2>1, <2>3, NodeHolds DEF NodeInv
  <2> QED
    BY <1>2, <2>2, <2>3
<1>5. applied[n] <= applied'[n]
  BY <1>1, <1>2 DEF NodeInv, Snapshots, LogInv
<1> QED
  BY <1>1, <1>2, <1>3, <1>4, <1>5, NodeStep DEF clusterVars

\* A node stops: its calls fail, and what it has answered is outlived.
LEMMA StopInv ==
  ASSUME IInv, NEW n \in Nodes, Stop(n)
  PROVE  IInv'
<1>1. NodeInv(n) /\ FrameInv /\ LogInv /\ Grows /\ LogInv'
  BY SameLogGrows DEF IInv, Stop
<1>2. /\ UNCHANGED <<logVars, state, applied, disk>>
      /\ \A m \in Nodes \ {n} : copy'[m] = copy[m]
      /\ copy'[n] = NoSnapshot /\ up' = up \ {n}
      /\ versions' = versions /\ log' = log
  BY <1>1 DEF Stop, FrameInv, fsmVars, logVars
<1>3. /\ NoSnapshot \in Snapshots /\ NoSnapshot.index = 0
      /\ Copied(NoSnapshot.state) = versions[NoSnapshot.index + 1]
  BY <1>1, NoSnapshotDescribed DEF Describes
<1>4. ASSUME NEW c \in Calls
      PROVE  /\ call'[c] \in CallTypes
             /\ call[c].node # n => call'[c] = call[c]
             /\ call'[c].cmd = call[c].cmd /\ call'[c].node = call[c].node
             /\ call'[c].proposed = call[c].proposed
             /\ call'[c].index = call[c].index
             /\ call[c].node = n => call'[c].outlived
             /\ call[c].node = n /\ call[c].at = "waiting" => call'[c].at = "error"
             /\ ~(call[c].node = n /\ call[c].at = "waiting") =>
                  call'[c].at = call[c].at
  BY <1>1 DEF Stop, FrameInv, CallTypes
<1>5. FrameInv'
  <2>1. call' \in [Calls -> CallTypes]
    BY <1>4 DEF Stop
  <2>2. copy' \in [Nodes -> Snapshots]
    BY <1>1, <1>3 DEF FrameInv, Stop
  <2>3. /\ up' = up \ {n} /\ leaders' = leaders \ {n} /\ members' = members
        /\ stops' = stops + 1
    BY DEF Stop
  <2> QED
    BY <1>1, <1>2, <2>1, <2>2, <2>3 DEF FrameInv
<1>6. ASSUME NEW m \in Nodes PROVE NodeInv(m)'
  <2>1. CASE m = n
    <3>1. /\ Describes(NoSnapshot.state, NoSnapshot.index) /\ NoSnapshot.index <= Len(log)
          /\ state'[n] = state[n] /\ applied'[n] = applied[n] /\ disk'[n] = disk[n]
      BY <1>1, <1>2, <1>3 DEF Describes, LogInv
    <3> QED
      BY <1>1, <1>2, <1>3, <2>1, <3>1, NodeHolds DEF NodeInv
  <2>2. CASE m # n
    BY <1>1, <1>2, <2>2, NodeStays DEF IInv
  <2> QED
    BY <2>1, <2>2
<1>7. ASSUME NEW c \in Calls PROVE CallInv(c)'
  <2>1. CallInv(c) /\ call[c] \in CallTypes
    BY <1>1 DEF IInv, FrameInv
  <2> QED
    BY <1>2, <1>4, <2>1 DEF CallInv, CallTypes
<1> QED
  BY <1>1, <1>5, <1>6, <1>7 DEF IInv
-----------------------------------------------------------------------------
(* Calls *)

\* A call is made, fails or returns.
LEMMA CallsInv ==
  ASSUME IInv, NEW c \in Calls,
         \/ \E n \in Nodes, cmd \in Commands : Apply(c, n, cmd)
         \/ ApplyFails(c) \/ ApplyReturns(c)
  PROVE  IInv'
<1>1. FrameInv /\ LogInv /\ CallInv(c) /\ call[c] \in CallTypes
  BY DEF IInv, FrameInv
<1>2. CASE \E n \in Nodes, cmd \in Commands : Apply(c, n, cmd)
  <2>1. PICK n \in Nodes, cmd \in Commands : Apply(c, n, cmd)
    BY <1>2
  <2> DEFINE leads == n \in leaders
             at == IF n \in leaders THEN "waiting" ELSE "error"
             made == [call[c] EXCEPT !.cmd = cmd, !.node = n, !.proposed = leads,
                                     !.at = at]
  <2>2. /\ UNCHANGED <<clusterVars, logVars, fsmVars, snapVars>>
        /\ call[c].at = "new" /\ n \in up /\ up' = up /\ log' = log
    BY <2>1 DEF Apply, clusterVars, logVars
  <2>3. call' = [call EXCEPT ![c] = made]
    BY <2>1 DEF Apply
  <2>4. /\ made.cmd = cmd /\ made.node = n /\ made.index = 0
        /\ made.at \in {"waiting", "error"} /\ made \in CallTypes
    <3>1. leads \in BOOLEAN /\ at \in {"waiting", "error"}
      OBVIOUS
    <3> HIDE DEF leads, at
    <3> QED
      BY <1>1, <2>2, <3>1 DEF CallTypes, CallInv
  <2> HIDE DEF made
  <2>5. call'[c] = made /\ call' \in [Calls -> CallTypes]
        /\ \A d \in Calls \ {c} : call'[d] = call[d]
    BY <1>1, <2>3, <2>4 DEF FrameInv
  <2>6. CallInv(c)'
    BY <2>2, <2>4, <2>5 DEF CallInv
  <2> QED
    BY <2>2, <2>5, <2>6, CallStep
<1>3. CASE ApplyFails(c)
  <2>1. PICK p \in {call[c].proposed, FALSE} :
          call' = [call EXCEPT ![c].at = "error", ![c].proposed = p]
    BY <1>3 DEF ApplyFails
  <2> DEFINE made == [call[c] EXCEPT !.at = "error", !.proposed = p]
  <2>2. /\ UNCHANGED <<clusterVars, logVars, fsmVars, snapVars>>
        /\ call[c].at = "waiting" /\ log' = log
    BY <1>3 DEF ApplyFails, logVars
  <2>3. call'[c] = made /\ \A d \in Calls \ {c} : call'[d] = call[d]
    BY <1>1, <2>1 DEF FrameInv
  <2>4. /\ made.at = "error" /\ made.proposed = p /\ made.cmd = call[c].cmd
        /\ made.node = call[c].node /\ made.index = call[c].index /\ made \in CallTypes
    BY <1>1, <2>1 DEF CallTypes
  <2> HIDE DEF made
  <2>5. call' \in [Calls -> CallTypes]
    BY <1>1, <2>1, <2>3, <2>4 DEF FrameInv
  <2>6. call'[c].proposed => call[c].proposed
    BY <2>1, <2>3, <2>4
  <2>7. CallInv(c)'
    BY <1>1, <2>2, <2>3, <2>4, <2>6 DEF CallInv
  <2> QED
    BY <2>2, <2>3, <2>5, <2>7, CallStep
<1>4. CASE ApplyReturns(c)
  <2>1. /\ UNCHANGED <<clusterVars, logVars, fsmVars, snapVars>>
        /\ call' = [call EXCEPT ![c] = call'[c]]
        /\ call'[c] \in CallTypes /\ call[c].at = "waiting"
        /\ call'[c].cmd = call[c].cmd /\ call'[c].node = call[c].node
        /\ call'[c].index = call[c].index /\ call'[c].at = "nil"
        /\ call'[c].proposed = call[c].proposed
        /\ call[c].index # 0 /\ applied[call[c].node] >= call[c].index
        /\ up' = up /\ log' = log /\ applied' = applied
    BY <1>1, <1>4 DEF ApplyReturns, FrameInv, CallTypes, clusterVars, logVars, fsmVars
  <2>2. applied[call[c].node] \in Nat /\ call[c].index \in Nat
    BY <1>1, <2>1 DEF CallInv, FrameInv, CallTypes
  <2>3. CallInv(c)'
    BY <1>1, <2>1, <2>2 DEF CallInv
  <2> QED
    BY <1>1, <2>1, <2>3, CallStep DEF FrameInv
<1> QED
  BY <1>2, <1>3, <1>4

\* An entry is committed: the log and its versions grow by one.
LEMMA CommitLog ==
  ASSUME IInv, NEW c \in Calls, Commit(c)
  PROVE  /\ Grows /\ LogInv' /\ call[c].cmd \in Commands
         /\ Len(log') = Len(log) + 1 /\ log'[Len(log) + 1] = call[c].cmd
<1> DEFINE l == Len(log)
           cmd == call[c].cmd
           last == versions[l + 1]
           next == Copied(FSMApply(last, cmd))
<1>1. /\ LogInv /\ l \in Nat /\ cmd \in Commands /\ Len(versions) = l + 1
      /\ last \in States
  BY DEF IInv, LogInv, CallInv, Commit
<1>2. next \in States
  BY <1>1, StatesClosed
<1>3. log' = Append(log, cmd) /\ versions' = Append(versions, next)
  BY <1>1 DEF Commit
<1> HIDE DEF next
<1>4. /\ log' \in Seq(Commands) /\ Len(log') = l + 1 /\ log'[l + 1] = cmd
      /\ \A i \in 1..l : log'[i] = log[i]
  BY <1>1, <1>3 DEF LogInv
<1>5. /\ versions' \in Seq(States) /\ Len(versions') = l + 2 /\ versions'[l + 2] = next
      /\ \A i \in 1..(l + 1) : versions'[i] = versions[i]
  BY <1>1, <1>2, <1>3 DEF LogInv
<1>6. Grows
  BY <1>1, <1>4, <1>5 DEF Grows
<1>7. VersionsFollowLog'
  <2>1. versions'[1] = NewState
    BY <1>1, <1>5 DEF LogInv, VersionsFollowLog
  <2>2. ASSUME NEW i \in 1..(l + 1)
        PROVE  versions'[i + 1] = Copied(FSMApply(versions'[i], log'[i]))
    <3>1. CASE i = l + 1
      BY <1>1, <1>4, <1>5, <3>1 DEF next
    <3>2. CASE i \in 1..l
      <4>1. versions'[i + 1] = versions[i + 1] /\ versions'[i] = versions[i]
            /\ log'[i] = log[i]
        BY <1>1, <1>4, <1>5, <3>2
      <4> QED
        BY <1>1, <3>2, <4>1 DEF LogInv, VersionsFollowLog
    <3> QED
      BY <1>1, <3>1, <3>2
  <2> QED
    BY <1>4, <2>1, <2>2 DEF VersionsFollowLog, NewState, Copied, FSMApply
<1>8. Copied(last) = last
  <2>1. CASE l = 0
    BY <1>1, <2>1, NoSnapshotDescribed DEF LogInv, VersionsFollowLog, Describes
  <2>2. CASE l # 0
    <3>1. l \in 1..l /\ versions[l] \in States /\ log[l] \in Commands
      BY <1>1, <2>2 DEF LogInv
    <3>2. last = Copied(FSMApply(versions[l], log[l]))
      BY <1>1, <3>1 DEF LogInv, VersionsFollowLog
    <3> QED
      BY <3>1, <3>2, StatesClosed, CopiedTwice
  <2> QED
    BY <2>1, <2>2
<1>9. ASSUME NEW i \in 1..(l + 1), NEW j \in 1..i, LastWrite(log[j].key, j, i)'
      PROVE  versions'[i + 1][log'[j].key] = WrittenAs(log'[j])
  <2> DEFINE k == log'[j].key
  <2>1. /\ log'[j].type # "other" /\ log'[j] \in Commands /\ k \in Keys
        /\ \A m \in (j + 1)..i : log'[m].key # k \/ log'[m].type = "other"
    BY <1>1, <1>4, <1>9, ConsensusAssumption DEF LastWrite, Command
  <2>2. CASE i \in 1..l
    <3>1. /\ versions'[i + 1] = versions[i + 1]
          /\ j \in 1..l /\ log'[j] = log[j]
          /\ \A m \in (j + 1)..i : log'[m] = log[m]
      BY <1>1, <1>4, <1>5, <2>2, SMTT(30)
    <3>2. LastWrite(log[j].key, j, i)
      BY <2>1, <3>1 DEF LastWrite
    <3> QED
      BY <1>1, <2>2, <3>1, <3>2 DEF LogInv, VersionsShowWrites
  <2>3. CASE i = l + 1 /\ j = l + 1
    BY <1>1, <1>4, <1>5, <2>1, <2>3, AppliedAt DEF next
  <2>4. CASE i = l + 1 /\ j # l + 1
    <3>1. /\ l \in 1..l /\ j \in 1..l /\ log'[j] = log[j]
          /\ \A m \in (j + 1)..l : log'[m] = log[m] /\ m \in (j + 1)..i
          /\ l + 1 \in (j + 1)..i
      BY <1>1, <1>4, <2>4
    <3>2. cmd.key # k \/ cmd.type = "other"
      BY <1>4, <2>1, <3>1
    <3>3. LastWrite(log[j].key, j, l)
      BY <2>1, <3>1 DEF LastWrite
    <3>4. last[k] = WrittenAs(log[j])
      BY <1>1, <3>1, <3>3 DEF LogInv, VersionsShowWrites
    <3>5. next[k] = Copied(last)[k]
      BY <1>1, <2>1, <3>2, AppliedAt DEF next
    <3> QED
      BY <1>1, <1>5, <1>8, <2>4, <3>1, <3>4, <3>5
  <2> QED
    BY <1>1, <2>2, <2>3, <2>4
<1>10. VersionsShowWrites'
  BY <1>4, <1>9 DEF VersionsShowWrites, WrittenAs
<1> QED
  BY <1>1, <1>4, <1>5, <1>6, <1>7, <1>10 DEF LogInv

\* The call learns its entry.
LEMMA CommitInv ==
  ASSUME IInv, NEW c \in Calls, Commit(c)
  PROVE  IInv'
<1>1. /\ FrameInv /\ LogInv /\ CallInv(c) /\ call[c] \in CallTypes
      /\ Len(log) \in Nat
  BY DEF IInv, FrameInv, LogInv
<1>2. /\ Grows /\ LogInv' /\ call[c].cmd \in Commands
      /\ Len(log') = Len(log) + 1 /\ log'[Len(log) + 1] = call[c].cmd
  BY CommitLog
<1> DEFINE entry == Len(log) + 1
           made == [call[c] EXCEPT !.proposed = FALSE, !.index = entry]
<1>3. UNCHANGED <<clusterVars, fsmVars, snapVars>> /\ call[c].proposed
  BY DEF Commit
<1>4. call'[c] = made /\ \A d \in Calls \ {c} : call'[d] = call[d]
  BY <1>1 DEF Commit, FrameInv
<1>5. /\ made.at = call[c].at /\ made.cmd = call[c].cmd /\ made.node = call[c].node
      /\ ~made.proposed /\ made.index = Len(log) + 1
      /\ made.outlived = call[c].outlived /\ made \in CallTypes
  <2>1. made \in CallTypes
    <3>1. entry \in Nat
      BY <1>1
    <3> HIDE DEF entry
    <3> QED
      BY <1>1, <3>1 DEF CallTypes
  <2>2. /\ made.at = call[c].at /\ made.cmd = call[c].cmd /\ made.node = call[c].node
        /\ made.index = Len(log) + 1
    BY <1>1 DEF CallTypes
  <2>3. made.proposed = FALSE
    BY <1>1 DEF CallTypes
  <2>4. made.outlived = call[c].outlived
    BY <1>1 DEF CallTypes
  <2> QED
    BY <2>1, <2>2, <2>3, <2>4
<1> HIDE DEF made
<1>6. call' \in [Calls -> CallTypes]
  BY <1>1, <1>4, <1>5 DEF Commit, FrameInv
<1>7. FrameInv'
  BY <1>1, <1>3, <1>6 DEF FrameInv, clusterVars, fsmVars, snapVars
<1>8. ASSUME NEW n \in Nodes PROVE NodeInv(n)'
  BY <1>1, <1>2, <1>3, NodeStays DEF IInv, fsmVars, snapVars
<1>9. up' = up /\ applied' = applied /\ \A n \in up : applied[n] <= applied'[n]
  BY <1>1, <1>3 DEF FrameInv, fsmVars, clusterVars
<1>10. CallInv(c)'
  <2>1. ~(call[c].at = "nil" /\ ~call[c].outlived) /\ call[c].at # "new"
    BY <1>1, <1>3 DEF CallInv
  <2> QED
    BY <1>1, <1>2, <1>4, <1>5, <1>9, <2>1 DEF CallInv
<1>11. ASSUME NEW d \in Calls PROVE CallInv(d)'
  <2>1. CASE d = c
    BY <1>10, <2>1
  <2>2. CASE d # c
    BY <1>1, <1>2, <1>4, <1>7, <1>9, <2>2, CallStays DEF IInv
  <2> QED
    BY <2>1, <2>2
<1> QED
  BY <1>2, <1>7, <1>8, <1>11 DEF IInv
-----------------------------------------------------------------------------
(* The theorems *)

\* Every step keeps the invariant.
LEMMA NextInv ==
  ASSUME IInv, [ConsensusNext]_consensusVars
  PROVE  IInv'
<1>1. CASE UNCHANGED consensusVars
  <2>1. /\ UNCHANGED <<logVars, fsmVars, snapVars, call>>
        /\ UNCHANGED clusterVars
    BY <1>1 DEF consensusVars
  <2>2. up \subseteq up' /\ FrameInv'
    BY <2>1 DEF IInv, FrameInv, clusterVars, fsmVars, snapVars
  <2> QED
    BY <2>1, <2>2, ClusterStep
<1>2. ASSUME NEW n \in Nodes,
             \/ NewNode(n) \/ Stop(n) \/ Elected(n) \/ Deposed(n)
             \/ ApplyEntry(n) \/ Snapshot(n) \/ Persist(n)
      PROVE  IInv'
  BY <1>2, NewNodeInv, StopInv, ClusterInv, ApplyEntryInv, SnapshotInv, PersistInv
<1>3. ASSUME NEW n \in Nodes, NEW m \in Nodes,
             AddPeer(n, m) \/ RemovePeer(n, m) \/ InstallSnapshot(m, n)
      PROVE  IInv'
  BY <1>3, ClusterInv, InstallInv
<1>4. ASSUME NEW c \in Calls,
             \/ \E n \in Nodes, cmd \in Commands : Apply(c, n, cmd)
             \/ Commit(c) \/ ApplyFails(c) \/ ApplyReturns(c)
      PROVE  IInv'
  BY <1>4, CallsInv, CommitInv
<1> QED
  BY <1>1, <1>2, <1>3, <1>4 DEF ConsensusNext

\* The invariant contains the first property.
LEMMA InvReplicas == IInv => ReplicasFollowLog
BY DEF IInv, NodeInv, ReplicasFollowLog

\* A state with the content of its version shows the last writes.
LEMMA InvReads == IInv => ReadsItsWrites
<1> SUFFICES ASSUME IInv, NEW c \in Calls, call[c].at = "nil", ~call[c].outlived
             PROVE  LET n == call[c].node
                        j == call[c].index
                    IN  /\ j \in 1..applied[n] /\ log[j] = call[c].cmd
                        /\ LastWrite(log[j].key, j, applied[n]) =>
                             Get(n, log[j].key) \in
                               IF log[j].type = "delete" THEN {Absent}
                               ELSE IF log[j].value \in {Nil, Empty} THEN {Nil, Empty}
                               ELSE {log[j].value}
  BY DEF ReadsItsWrites
<1> DEFINE n == call[c].node
           j == call[c].index
<1>1. CallInv(c) /\ FrameInv /\ LogInv /\ n \in Nodes /\ j \in Nat /\ Len(log) \in Nat
  BY DEF IInv, FrameInv, CallInv, CallTypes, LogInv
<1>2. /\ NodeInv(n) /\ applied[n] \in 0..Len(log) /\ state[n] \in States
      /\ Copied(state[n]) = versions[applied[n] + 1]
  BY <1>1 DEF IInv, NodeInv, Describes
<1>3. /\ j \in 1..applied[n] /\ log[j] = call[c].cmd
      /\ applied[n] \in 1..Len(log) /\ log[j] \in Command
  BY <1>1, <1>2, ConsensusAssumption DEF CallInv
<1> DEFINE k == log[j].key
<1>4. ASSUME LastWrite(k, j, applied[n])
      PROVE  Get(n, k) \in IF log[j].type = "delete" THEN {Absent}
                           ELSE IF log[j].value \in {Nil, Empty} THEN {Nil, Empty}
                           ELSE {log[j].value}
  <2>1. versions[applied[n] + 1][k] = WrittenAs(log[j])
    BY <1>1, <1>3, <1>4 DEF LogInv, VersionsShowWrites
  <2>2. k \in Keys /\ log[j].value \in Slices
    BY <1>3 DEF Command
  <2>3. (IF state[n][k] = Nil THEN Empty ELSE state[n][k]) = WrittenAs(log[j])
    BY <1>2, <2>1, <2>2 DEF Copied
  <2> QED
    BY <2>2, <2>3, ConsensusAssumption DEF Get, WrittenAs, Nil, Empty, Absent
<1> QED
  BY <1>3, <1>4

\* The invariant contains the types.
LEMMA InvTypes == IInv => ConsensusTypeOK
<1> SUFFICES ASSUME IInv PROVE ConsensusTypeOK
  OBVIOUS
<1>1. applied \in [Nodes -> 0..Len(log)]
  BY DEF IInv, FrameInv, NodeInv
<1> QED
  BY <1>1 DEF IInv, FrameInv, LogInv, ConsensusTypeOK

\* Types, and that no node is ahead of the log.
THEOREM ConsensusTyped == ConsensusSpec => []ConsensusTypeOK
<1>1. IInv /\ [ConsensusNext]_consensusVars => IInv'
  BY NextInv
<1> QED
  BY InitInv, <1>1, InvTypes, PTL DEF ConsensusSpec

\* Whatever restarts, lost calls, elections and snapshots lie behind it, every
\* FSM and every snapshot of every node holds exactly what the log describes
\* up to its index, although Persist runs while entries are applied and the
\* copy turns nil into an empty slice.
THEOREM ReplicasCorrect == ConsensusSpec => []ReplicasFollowLog
<1>1. IInv /\ [ConsensusNext]_consensusVars => IInv'
  BY NextInv
<1> QED
  BY InitInv, <1>1, InvReplicas, PTL DEF ConsensusSpec

\* A client whose Apply has returned nil reads its write from the same node's
\* Get until a later entry overwrites it or the node stops.
THEOREM ClientsReadTheirWrites == ConsensusSpec => []ReadsItsWrites
<1>1. IInv /\ [ConsensusNext]_consensusVars => IInv'
  BY NextInv
<1> QED
  BY InitInv, <1>1, InvReads, PTL DEF ConsensusSpec
-----------------------------------------------------------------------------
(* The two stores *)

\* Rows keyed by the members of a set.
RowsOf(f, keys, rows) ==
  /\ f = [x \in DOMAIN f |-> f[x]]
  /\ DOMAIN f \subseteq keys /\ \A x \in DOMAIN f : f[x] \in rows

MemStore ==
  [dags : {mem.dags}, runs : {mem.runs}, order : {mem.order},
   insts : {mem.insts}, idx : {mem.idx}]
PgStore ==
  [dags : {pg.dags}, runs : {pg.runs}, order : {pg.order}, insts : {pg.insts}]

StoresTypes ==
  /\ mem \in MemStore /\ pg \in PgStore
  /\ RowsOf(mem.dags, DagIDs, Specs) /\ RowsOf(pg.dags, DagIDs, Specs)
  /\ RowsOf(mem.runs, RunIDs, RunRows) /\ RowsOf(mem.insts, InstIDs, InstRows)
  /\ RowsOf(mem.idx, IdemKeys, InstIDs)

SameRows ==
  /\ mem.runs = pg.runs /\ mem.order = pg.order /\ mem.insts = pg.insts
  /\ DOMAIN mem.dags = DOMAIN pg.dags
  /\ \A d \in DOMAIN mem.dags : pg.dags[d] = Marshalled(mem.dags[d])

\* The index has the keys in use, and a key leads to its instance.
IndexRight ==
  /\ \A i \in DOMAIN mem.insts : mem.insts[i].key # NoKey =>
       Has(mem.idx, mem.insts[i].key) /\ mem.idx[mem.insts[i].key] = i
  /\ \A k \in DOMAIN mem.idx :
       Has(mem.insts, mem.idx[k]) /\ mem.insts[mem.idx[k]].key = k

StoresInv ==
  apart = "no" =>
    StoresTypes /\ SameRows /\ IndexRight /\ said.mem = said.pg

LEMMA PutType ==
  ASSUME NEW keys, NEW rows, NEW f, RowsOf(f, keys, rows),
         NEW k \in keys, NEW v \in rows
  PROVE  RowsOf(Put(f, k, v), keys, rows)
BY DEF Put, RowsOf

LEMMA WithoutType ==
  ASSUME NEW keys, NEW rows, NEW f, RowsOf(f, keys, rows), NEW k
  PROVE  RowsOf(Without(f, k), keys, rows)
BY DEF Without, RowsOf

\* An update that leaves the other columns as they are writes the whole row.
LEMMA RunUpdated ==
  ASSUME NEW f, RowsOf(f, RunIDs, RunRows), NEW r \in DOMAIN f,
         NEW row \in RunRows, f[r].dag = row.dag
  PROVE  [f EXCEPT ![r].status = row.status] = Put(f, r, row)
<1>1. [f[r] EXCEPT !.status = row.status] = row
  BY DEF RowsOf, RunRows
<1>2. [f EXCEPT ![r].status = row.status] = [f EXCEPT ![r] = row]
  BY <1>1 DEF RowsOf
<1> QED
  BY <1>2 DEF RowsOf, Put

LEMMA InstUpdated ==
  ASSUME NEW f, RowsOf(f, InstIDs, InstRows), NEW i \in DOMAIN f,
         NEW row \in InstRows, f[i].run = row.run, f[i].key = row.key
  PROVE  [f EXCEPT ![i].status = row.status] = Put(f, i, row)
<1>1. [f[i] EXCEPT !.status = row.status] = row
  BY DEF RowsOf, InstRows
<1>2. [f EXCEPT ![i].status = row.status] = [f EXCEPT ![i] = row]
  BY <1>1 DEF RowsOf
<1> QED
  BY <1>2 DEF RowsOf, Put

\* What a call that leaves runs, instances and index alone keeps of them.
LEMMA DagCall ==
  ASSUME StoresTypes, SameRows, IndexRight,
         mem' \in [dags : {mem'.dags}, runs : {mem.runs}, order : {mem.order},
                   insts : {mem.insts}, idx : {mem.idx}],
         pg' \in [dags : {pg'.dags}, runs : {pg.runs}, order : {pg.order},
                  insts : {pg.insts}],
         RowsOf(mem'.dags, DagIDs, Specs), RowsOf(pg'.dags, DagIDs, Specs),
         DOMAIN mem'.dags = DOMAIN pg'.dags,
         \A d \in DOMAIN mem'.dags : pg'.dags[d] = Marshalled(mem'.dags[d])
  PROVE  StoresTypes' /\ SameRows' /\ IndexRight'
<1>1. /\ mem'.runs = mem.runs /\ mem'.order = mem.order
      /\ mem'.insts = mem.insts /\ mem'.idx = mem.idx
      /\ pg'.runs = pg.runs /\ pg'.order = pg.order /\ pg'.insts = pg.insts
  OBVIOUS
<1>2. StoresTypes'
  BY <1>1 DEF StoresTypes, MemStore, PgStore
<1> QED
  BY <1>1, <1>2 DEF SameRows, IndexRight, Has

\* A call that neither store takes.
LEMMA NoChange ==
  ASSUME StoresTypes, SameRows, IndexRight, said'.mem = said'.pg,
         mem' = mem, pg' = pg
  PROVE  StoresInv'
BY DEF StoresInv, StoresTypes, SameRows, IndexRight, MemStore, PgStore

LEMMA SaveDAGStep ==
  ASSUME StoresInv, NEW d \in DagIDs, NEW spec \in Specs, SaveDAG(d, spec)
  PROVE  StoresInv'
<1>1. StoresTypes /\ SameRows /\ IndexRight
  BY DEF SaveDAG, Both, StoresInv
<1>2. /\ mem' = [mem EXCEPT !.dags = Put(mem.dags, d, spec)]
      /\ pg' = [pg EXCEPT !.dags = Put(pg.dags, d, Marshalled(spec))]
      /\ said' = [mem |-> TRUE, pg |-> TRUE]
  BY DEF SaveDAG, Both, MemSaveDAG, PgSaveDAG, Result
<1>3. /\ mem'.dags = Put(mem.dags, d, spec)
      /\ pg'.dags = Put(pg.dags, d, Marshalled(spec))
  BY <1>1, <1>2 DEF StoresTypes, MemStore, PgStore
<1>4. RowsOf(mem'.dags, DagIDs, Specs) /\ RowsOf(pg'.dags, DagIDs, Specs)
  <2>1. Marshalled(spec) \in Specs
    BY DEF Marshalled, Specs
  <2> QED
    BY <1>1, <1>3, <2>1, PutType DEF StoresTypes
<1>5. /\ DOMAIN mem'.dags = DOMAIN pg'.dags
      /\ \A c \in DOMAIN mem'.dags : pg'.dags[c] = Marshalled(mem'.dags[c])
  <2>1. DOMAIN mem'.dags = DOMAIN pg'.dags
    BY <1>1, <1>3 DEF SameRows, Put
  <2>2. pg'.dags[d] = Marshalled(mem'.dags[d])
    BY <1>3 DEF Put
  <2>3. ASSUME NEW c \in DOMAIN mem.dags \ {d}
        PROVE  pg'.dags[c] = Marshalled(mem'.dags[c])
    <3>1. mem'.dags[c] = mem.dags[c] /\ pg'.dags[c] = pg.dags[c]
      BY <1>1, <1>3 DEF SameRows, Put
    <3> QED
      BY <1>1, <3>1 DEF SameRows
  <2>4. DOMAIN mem'.dags = DOMAIN mem.dags \cup {d}
    BY <1>3 DEF Put
  <2> QED
    BY <2>1, <2>2, <2>3, <2>4
<1>6. StoresTypes' /\ SameRows' /\ IndexRight'
  <2>1. /\ mem' \in [dags : {mem'.dags}, runs : {mem.runs}, order : {mem.order},
                     insts : {mem.insts}, idx : {mem.idx}]
        /\ pg' \in [dags : {pg'.dags}, runs : {pg.runs}, order : {pg.order},
                    insts : {pg.insts}]
    BY <1>1, <1>2 DEF StoresTypes, MemStore, PgStore
  <2> QED
    BY <1>1, <1>4, <1>5, <2>1, DagCall
<1> QED
  BY <1>2, <1>6 DEF StoresInv

LEMMA DeleteDAGStep ==
  ASSUME StoresInv, NEW d \in DagIDs, DeleteDAG(d)
  PROVE  StoresInv'
<1> SUFFICES ASSUME ~(Has(pg.dags, d) /\ InUse(d))
             PROVE  StoresInv'
  BY DEF DeleteDAG, Both, StoresInv
<1>1. StoresTypes /\ SameRows /\ IndexRight
  BY DEF DeleteDAG, Both, StoresInv
<1>2. Has(mem.dags, d) <=> Has(pg.dags, d)
  BY <1>1 DEF SameRows, Has
<1>3. CASE ~Has(pg.dags, d)
  <2>0. Has(mem.dags, d) = FALSE /\ (Has(pg.dags, d) /\ ~InUse(d)) = FALSE
    BY <1>2, <1>3 DEF Has
  <2>1. mem' = mem /\ pg' = pg /\ said'.mem = said'.pg
    BY <2>0 DEF DeleteDAG, Both, MemDeleteDAG, PgDeleteDAG, Result
  <2> QED
    BY <1>1, <2>1, NoChange
<1>4. CASE Has(pg.dags, d)
  <2>1. /\ mem' = [mem EXCEPT !.dags = Without(mem.dags, d)]
        /\ pg' = [pg EXCEPT !.dags = Without(pg.dags, d)]
        /\ said'.mem = said'.pg
    BY <1>2, <1>4 DEF DeleteDAG, Both, MemDeleteDAG, PgDeleteDAG, Result
  <2>2. /\ mem'.dags = Without(mem.dags, d)
        /\ pg'.dags = Without(pg.dags, d)
    BY <1>1, <2>1 DEF StoresTypes, MemStore, PgStore
  <2>3. RowsOf(mem'.dags, DagIDs, Specs) /\ RowsOf(pg'.dags, DagIDs, Specs)
    BY <1>1, <2>2, WithoutType DEF StoresTypes
  <2>4. /\ DOMAIN mem'.dags = DOMAIN pg'.dags
        /\ \A c \in DOMAIN mem'.dags : pg'.dags[c] = Marshalled(mem'.dags[c])
    BY <1>1, <2>2 DEF SameRows, Without
  <2>5. /\ mem' \in [dags : {mem'.dags}, runs : {mem.runs}, order : {mem.order},
                     insts : {mem.insts}, idx : {mem.idx}]
        /\ pg' \in [dags : {pg'.dags}, runs : {pg.runs}, order : {pg.order},
                    insts : {pg.insts}]
    BY <1>1, <2>1 DEF StoresTypes, MemStore, PgStore
  <2>6. StoresTypes' /\ SameRows' /\ IndexRight'
    BY <1>1, <2>3, <2>4, <2>5, DagCall
  <2> QED
    BY <2>1, <2>6 DEF StoresInv
<1> QED
  BY <1>3, <1>4

\* A call that puts the same run into both stores, or changes nothing.
LEMMA RunCall ==
  ASSUME StoresTypes, SameRows, IndexRight, said'.mem = said'.pg,
         NEW r \in RunIDs, NEW row \in RunRows, NEW o,
         mem' = [mem EXCEPT !.runs = Put(mem.runs, r, row), !.order = o],
         pg' = [pg EXCEPT !.runs = Put(pg.runs, r, row), !.order = o]
  PROVE  StoresInv'
<1>1. /\ mem'.runs = Put(mem.runs, r, row) /\ pg'.runs = Put(pg.runs, r, row)
      /\ mem'.order = o /\ pg'.order = o
      /\ mem'.insts = mem.insts /\ mem'.idx = mem.idx /\ pg'.insts = pg.insts
      /\ mem'.dags = mem.dags /\ pg'.dags = pg.dags
      /\ mem' \in MemStore' /\ pg' \in PgStore'
  BY DEF StoresTypes, MemStore, PgStore
<1>2. RowsOf(mem'.runs, RunIDs, RunRows)
  BY <1>1, PutType DEF StoresTypes
<1>3. StoresTypes'
  BY <1>1, <1>2 DEF StoresTypes
<1>4. SameRows' /\ IndexRight'
  BY <1>1 DEF SameRows, IndexRight, Has
<1> QED
  BY <1>3, <1>4 DEF StoresInv

LEMMA CreateRunStep ==
  ASSUME StoresInv, NEW r \in RunIDs, NEW row \in RunRows, CreateRun(r, row)
  PROVE  StoresInv'
<1> SUFFICES ASSUME Has(pg.runs, r) \/ Has(pg.dags, row.dag)
             PROVE  StoresInv'
  BY DEF CreateRun, Both, StoresInv
<1>1. StoresTypes /\ SameRows /\ IndexRight
  BY DEF CreateRun, Both, StoresInv
<1>2. Has(mem.runs, r) <=> Has(pg.runs, r)
  BY <1>1 DEF SameRows, Has
<1>3. CASE Has(pg.runs, r)
  <2>1. mem' = mem /\ pg' = pg /\ said'.mem = said'.pg
    BY <1>2, <1>3 DEF CreateRun, Both, MemCreateRun, PgCreateRun, Result
  <2> QED
    BY <1>1, <2>1, NoChange
<1>4. CASE ~Has(pg.runs, r)
  <2>1. /\ mem' = [mem EXCEPT !.runs = Put(mem.runs, r, row),
                              !.order = <<r>> \o mem.order]
        /\ pg' = [pg EXCEPT !.runs = Put(pg.runs, r, row),
                            !.order = <<r>> \o mem.order]
        /\ said'.mem = said'.pg
    BY <1>1, <1>2, <1>4 DEF CreateRun, Both, MemCreateRun, PgCreateRun, Result,
       SameRows
  <2> QED
    BY <1>1, <2>1, RunCall
<1> QED
  BY <1>3, <1>4

LEMMA UpdateRunStep ==
  ASSUME StoresInv, NEW r \in RunIDs, NEW row \in RunRows, UpdateRun(r, row)
  PROVE  StoresInv'
<1> SUFFICES ASSUME Has(pg.runs, r), pg.runs[r].dag = row.dag
             PROVE  StoresInv'
  <2>1. CASE ~Has(pg.runs, r)
    BY <2>1 DEF UpdateRun, Both, StoresInv
  <2>2. CASE Has(pg.runs, r) /\ pg.runs[r].dag # row.dag
    BY <2>2 DEF UpdateRun, Both, StoresInv
  <2> QED
    BY <2>1, <2>2
<1>1. StoresTypes /\ SameRows /\ IndexRight
  BY DEF UpdateRun, Both, StoresInv
<1>2. Has(mem.runs, r)
  BY <1>1 DEF SameRows, Has
<1>3. /\ mem' = [mem EXCEPT !.runs = Put(mem.runs, r, row)]
      /\ pg' = [pg EXCEPT !.runs[r].status = row.status]
      /\ said'.mem = said'.pg
  BY <1>2 DEF UpdateRun, Both, MemUpdateRun, PgUpdateRun, Result
<1>4. [pg.runs EXCEPT ![r].status = row.status] = Put(pg.runs, r, row)
  BY <1>1, RunUpdated DEF StoresTypes, SameRows, Has
<1>5. PICK o : o = mem.order
  OBVIOUS
<1>6. /\ mem' = [mem EXCEPT !.runs = Put(mem.runs, r, row), !.order = o]
      /\ pg' = [pg EXCEPT !.runs = Put(pg.runs, r, row), !.order = o]
  <2>1. pg' = [pg EXCEPT !.runs = Put(pg.runs, r, row)]
    BY <1>3, <1>4
  <2> QED
    BY <1>1, <1>3, <1>5, <2>1 DEF StoresTypes, MemStore, PgStore, SameRows
<1>7. said'.mem = said'.pg
  BY <1>3
<1> QED
  BY <1>1, <1>6, <1>7, RunCall

\* A call that puts the same instance into both stores.
LEMMA InstCall ==
  ASSUME StoresTypes, SameRows, said'.mem = said'.pg,
         NEW i \in InstIDs, NEW row \in InstRows, NEW x,
         RowsOf(x, IdemKeys, InstIDs),
         mem' = [mem EXCEPT !.insts = Put(mem.insts, i, row), !.idx = x],
         pg' = [pg EXCEPT !.insts = Put(pg.insts, i, row)],
         IndexRight'
  PROVE  StoresInv'
<1>1. /\ mem'.insts = Put(mem.insts, i, row) /\ pg'.insts = Put(pg.insts, i, row)
      /\ mem'.runs = mem.runs /\ pg'.runs = pg.runs
      /\ mem'.order = mem.order /\ pg'.order = pg.order /\ mem'.idx = x
      /\ mem'.dags = mem.dags /\ pg'.dags = pg.dags
      /\ mem' \in MemStore' /\ pg' \in PgStore'
  BY DEF StoresTypes, MemStore, PgStore
<1>2. RowsOf(mem'.insts, InstIDs, InstRows)
  BY <1>1, PutType DEF StoresTypes
<1>3. StoresTypes'
  BY <1>1, <1>2 DEF StoresTypes
<1>4. SameRows'
  BY <1>1 DEF SameRows
<1> QED
  BY <1>3, <1>4 DEF StoresInv

LEMMA CreateTaskInstanceStep ==
  ASSUME StoresInv, NEW i \in InstIDs, NEW row \in InstRows,
         CreateTaskInstance(i, row)
  PROVE  StoresInv'
<1> SUFFICES ASSUME \/ Has(pg.insts, i)
                    \/ Free(row.key) /\ Has(pg.runs, row.run)
             PROVE  StoresInv'
  <2>1. CASE ~Has(pg.insts, i) /\ ~Free(row.key)
    BY <2>1 DEF CreateTaskInstance, Both, StoresInv
  <2>2. CASE ~Has(pg.insts, i) /\ Free(row.key) /\ ~Has(pg.runs, row.run)
    BY <2>2 DEF CreateTaskInstance, Both, StoresInv
  <2> QED
    BY <2>1, <2>2
<1>1. StoresTypes /\ SameRows /\ IndexRight
  BY DEF CreateTaskInstance, Both, StoresInv
<1>2. Has(mem.insts, i) <=> Has(pg.insts, i)
  BY <1>1 DEF SameRows, Has
<1>3. CASE Has(pg.insts, i)
  <2>1. mem' = mem /\ pg' = pg /\ said'.mem = said'.pg
    BY <1>2, <1>3 DEF CreateTaskInstance, Both, MemCreateTaskInstance,
       PgCreateTaskInstance, Result
  <2> QED
    BY <1>1, <2>1, NoChange
<1>4. CASE ~Has(pg.insts, i)
  <2>1. PICK x : x = IF row.key = NoKey THEN mem.idx ELSE Put(mem.idx, row.key, i)
    OBVIOUS
  <2>2. /\ mem' = [mem EXCEPT !.insts = Put(mem.insts, i, row), !.idx = x]
        /\ pg' = [pg EXCEPT !.insts = Put(pg.insts, i, row)]
        /\ said'.mem = said'.pg
    BY <1>1, <1>2, <1>4, <2>1 DEF CreateTaskInstance, Both, MemCreateTaskInstance,
       PgCreateTaskInstance, Result
  <2>3. row.key \in IdemKeys \cup {NoKey}
    BY DEF InstRows
  <2>4. RowsOf(x, IdemKeys, InstIDs)
    BY <1>1, <2>1, <2>3, PutType DEF StoresTypes
  <2>5. /\ mem'.insts = Put(mem.insts, i, row) /\ mem'.idx = x
        /\ i \notin DOMAIN mem.insts
        /\ \A j \in DOMAIN mem.insts : mem.insts[j].key # row.key
    BY <1>1, <1>2, <1>4, <2>2 DEF StoresTypes, MemStore, SameRows, Free, Has
  <2>6. /\ DOMAIN mem'.insts = DOMAIN mem.insts \cup {i}
        /\ mem'.insts[i] = row
        /\ \A j \in DOMAIN mem.insts : mem'.insts[j] = mem.insts[j]
    BY <2>5 DEF Put
  <2>7. IndexRight'
    <3>1. ASSUME NEW j \in DOMAIN mem'.insts, mem'.insts[j].key # NoKey
          PROVE  Has(mem'.idx, mem'.insts[j].key) /\ mem'.idx[mem'.insts[j].key] = j
      <4>1. CASE j = i
        BY <2>1, <2>5, <2>6, <3>1, <4>1 DEF Put, Has
      <4>2. CASE j \in DOMAIN mem.insts
        <5>1. /\ Has(mem.idx, mem.insts[j].key) /\ mem.idx[mem.insts[j].key] = j
              /\ mem.insts[j].key # row.key
          BY <1>1, <2>5, <2>6, <3>1, <4>2 DEF IndexRight
        <5> QED
          BY <2>1, <2>5, <2>6, <4>2, <5>1 DEF Put, Has
      <4> QED
        BY <2>6, <4>1, <4>2
    <3>2. ASSUME NEW k \in DOMAIN mem'.idx
          PROVE  Has(mem'.insts, mem'.idx[k]) /\ mem'.insts[mem'.idx[k]].key = k
      <4>1. CASE k \in DOMAIN mem.idx
        <5>1. Has(mem.insts, mem.idx[k]) /\ mem.insts[mem.idx[k]].key = k
          BY <1>1, <4>1 DEF IndexRight
        <5>2. mem'.idx[k] = mem.idx[k]
          BY <2>1, <2>5, <4>1, <5>1 DEF Put, Has
        <5> QED
          BY <2>6, <5>1, <5>2 DEF Has
      <4>2. CASE k \notin DOMAIN mem.idx
        <5>1. k = row.key /\ mem'.idx[k] = i
          BY <2>1, <2>5, <3>2, <4>2 DEF Put
        <5> QED
          BY <2>6, <5>1 DEF Has
      <4> QED
        BY <4>1, <4>2
    <3> QED
      BY <3>1, <3>2 DEF IndexRight
  <2> QED
    BY <1>1, <2>2, <2>4, <2>7, InstCall
<1> QED
  BY <1>3, <1>4

LEMMA UpdateTaskInstanceStep ==
  ASSUME StoresInv, NEW i \in InstIDs, NEW row \in InstRows,
         UpdateTaskInstance(i, row)
  PROVE  StoresInv'
<1> SUFFICES ASSUME Has(pg.insts, i), pg.insts[i].run = row.run,
                    pg.insts[i].key = row.key
             PROVE  StoresInv'
  <2>1. CASE ~Has(pg.insts, i)
    BY <2>1 DEF UpdateTaskInstance, Both, StoresInv
  <2>2. CASE /\ Has(pg.insts, i)
             /\ <<pg.insts[i].run, pg.insts[i].key>> # <<row.run, row.key>>
    BY <2>2 DEF UpdateTaskInstance, Both, StoresInv
  <2> QED
    BY <2>1, <2>2
<1>1. StoresTypes /\ SameRows /\ IndexRight
  BY DEF UpdateTaskInstance, Both, StoresInv
<1>2. Has(mem.insts, i)
  BY <1>1 DEF SameRows, Has
<1>3. /\ mem' = [mem EXCEPT !.insts = Put(mem.insts, i, row)]
      /\ pg' = [pg EXCEPT !.insts[i].status = row.status]
      /\ said'.mem = said'.pg
  BY <1>2 DEF UpdateTaskInstance, Both, MemUpdateTaskInstance,
     PgUpdateTaskInstance, Result
<1>4. [pg.insts EXCEPT ![i].status = row.status] = Put(pg.insts, i, row)
  BY <1>1, InstUpdated DEF StoresTypes, SameRows, Has
<1>5. PICK x : x = mem.idx
  OBVIOUS
<1>6. /\ mem' = [mem EXCEPT !.insts = Put(mem.insts, i, row), !.idx = x]
      /\ pg' = [pg EXCEPT !.insts = Put(pg.insts, i, row)]
  <2>1. pg' = [pg EXCEPT !.insts = Put(pg.insts, i, row)]
    BY <1>3, <1>4
  <2> QED
    BY <1>1, <1>3, <1>5, <2>1 DEF StoresTypes, MemStore
<1>7. IndexRight'
  <2>1. mem'.insts = Put(mem.insts, i, row) /\ mem'.idx = mem.idx
    BY <1>1, <1>3 DEF StoresTypes, MemStore
  <2>2. /\ DOMAIN mem'.insts = DOMAIN mem.insts
        /\ \A j \in DOMAIN mem.insts : mem'.insts[j].key = mem.insts[j].key
    BY <1>1, <1>2, <2>1 DEF Put, Has, SameRows
  <2> QED
    BY <1>1, <2>1, <2>2 DEF IndexRight, Has
<1>8. RowsOf(x, IdemKeys, InstIDs)
  BY <1>1, <1>5 DEF StoresTypes
<1> QED
  BY <1>1, <1>3, <1>6, <1>7, <1>8, InstCall

LEMMA StoresStep ==
  ASSUME StoresInv, [StoresNext]_storesVars
  PROVE  StoresInv'
<1>1. CASE UNCHANGED storesVars
  BY <1>1 DEF StoresInv, storesVars, StoresTypes, SameRows, IndexRight,
     MemStore, PgStore
<1> QED
  BY <1>1, SaveDAGStep, DeleteDAGStep, CreateRunStep, UpdateRunStep,
     CreateTaskInstanceStep, UpdateTaskInstanceStep DEF StoresNext

LEMMA StoresStart ==
  ASSUME StoresInit
  PROVE  StoresInv
<1>1. RowsOf(NoRows, DagIDs, Specs) /\ RowsOf(NoRows, RunIDs, RunRows)
      /\ RowsOf(NoRows, InstIDs, InstRows) /\ RowsOf(NoRows, IdemKeys, InstIDs)
      /\ DOMAIN NoRows = {}
  BY DEF RowsOf, NoRows
<1> QED
  BY <1>1 DEF StoresInit, StoresInv, StoresTypes, MemStore, PgStore, SameRows,
     IndexRight

LEMMA StoresInvariant == StoresSpec => []StoresInv
BY StoresStart, StoresStep, PTL DEF StoresSpec

\* The two stores answer every write and every read alike until one of the
\* named calls sets them apart, for any rows and any number of calls.
THEOREM StoresTheorem == StoresSpec => []StoresAgree
<1> SUFFICES ASSUME StoresInv, apart = "no"
             PROVE  StoresAgree
  <2>1. StoresInv => StoresAgree
    BY DEF StoresAgree
  <2> QED
    BY <2>1, StoresInvariant, PTL
<1>1. StoresTypes /\ SameRows /\ IndexRight /\ said.mem = said.pg
  BY DEF StoresInv
<1>2. ASSUME NEW d \in DagIDs
      PROVE  /\ Has(mem.dags, d) = Has(pg.dags, d)
             /\ Has(mem.dags, d) /\ ~mem.dags[d].ints => MemGetDAG(d) = PgGetDAG(d)
  <2>1. Has(mem.dags, d) = Has(pg.dags, d)
    BY <1>1 DEF SameRows, Has
  <2>2. ASSUME Has(mem.dags, d), ~mem.dags[d].ints
        PROVE  mem.dags[d] = pg.dags[d]
    <3>1. mem.dags[d] \in Specs /\ mem.dags[d].ints = FALSE
      BY <1>1, <2>2 DEF StoresTypes, RowsOf, Has, Specs
    <3>2. Marshalled(mem.dags[d]) = mem.dags[d]
      BY <3>1 DEF Marshalled, Specs
    <3> QED
      BY <1>1, <2>2, <3>2 DEF SameRows, Has
  <2> QED
    BY <2>1, <2>2 DEF MemGetDAG, PgGetDAG, At
<1>3. ASSUME NEW n \in 0..MaxLimit
      PROVE  MemListDAGs(NoTag, n) = PgListDAGs(NoTag, n)
  <2>1. {d \in DOMAIN mem.dags : NoTag = NoTag \/ mem.dags[d].tag = NoTag}
          = DOMAIN pg.dags
    BY <1>1 DEF SameRows
  <2> QED
    BY <2>1 DEF MemListDAGs, PgListDAGs
<1>4. ASSUME NEW r \in RunIDs
      PROVE  /\ MemGetRun(r) = PgGetRun(r)
             /\ MemListTaskInstances(r) = PgListTaskInstances(r)
  BY <1>1 DEF SameRows, MemGetRun, PgGetRun, MemListTaskInstances,
     PgListTaskInstances
<1>5. ASSUME NEW d \in DagIDs \cup {AnyDAG}, NEW s \in Statuses \cup {AnyStatus},
             NEW n \in 0..MaxLimit, NEW o \in 0..MaxLimit,
             o = 0 \/ o < Len(Matching(pg.order, pg.runs, d, s))
      PROVE  MemListRuns(d, s, n, o) = PgListRuns(d, s, n, o)
  <2>1. PICK all : all = Matching(pg.order, pg.runs, d, s)
    OBVIOUS
  <2>2. Matching(mem.order, mem.runs, d, s) = all
    BY <1>1, <2>1 DEF SameRows
  <2>3. (o > 0 /\ o < Len(all)) <=> o > 0
    BY <1>5, <2>1
  <2> QED
    BY <2>1, <2>2, <2>3 DEF MemListRuns, PgListRuns
<1>6. ASSUME NEW i \in InstIDs
      PROVE  MemGetTaskInstance(i) = PgGetTaskInstance(i)
  BY <1>1 DEF SameRows, MemGetTaskInstance, PgGetTaskInstance
<1>7. ASSUME NEW k \in IdemKeys
      PROVE  MemGetByKey(k) = PgGetByKey(k)
  <2>1. k # NoKey
    BY StoresAssumption DEF NoKey
  <2>2. CASE Has(mem.idx, k)
    <3>1. Has(mem.insts, mem.idx[k]) /\ mem.insts[mem.idx[k]].key = k
      BY <1>1, <2>2 DEF IndexRight, Has
    <3>2. ASSUME NEW i \in DOMAIN mem.insts, mem.insts[i].key = k
          PROVE  i = mem.idx[k]
      BY <1>1, <2>1, <3>2 DEF IndexRight
    <3>3. {i \in DOMAIN pg.insts : pg.insts[i].key = k} = {mem.idx[k]}
      BY <1>1, <3>1, <3>2 DEF SameRows, Has
    <3> QED
      BY <1>1, <2>2, <3>1, <3>3 DEF MemGetByKey, PgGetByKey, SameRows
  <2>3. CASE ~Has(mem.idx, k)
    <3>1. {i \in DOMAIN pg.insts : pg.insts[i].key = k} = {}
      BY <1>1, <2>1, <2>3 DEF SameRows, IndexRight
    <3>2. Instances(pg.insts, {}) = <<>>
      <4>1. Sorted({}) = <<>>
        BY FS_EmptySet DEF Sorted
      <4> QED
        BY <4>1 DEF Instances
    <3> QED
      BY <2>3, <3>1, <3>2 DEF MemGetByKey, PgGetByKey
  <2> QED
    BY <2>2, <2>3
<1> QED
  BY <1>1, <1>2, <1>3, <1>4, <1>5, <1>6, <1>7 DEF StoresAgree
=============================================================================
