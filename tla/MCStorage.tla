----------------------------- MODULE MCStorage -----------------------------
(* What keeps the system's data: the replicated key-value state machine, and *)
(* the two implementations of Store.  They share nothing; `part' names the   *)
(* one a behaviour is about.                                                 *)
EXTENDS Consensus, Stores, TLC

CONSTANT k

VARIABLE part

\* A nil value and a delete.  Commands of an unknown type are left to
\* StorageProofs, whose theorems hold for every set of commands.
SomeCommands ==
  {[type |-> "set", key |-> k, value |-> Nil],
   [type |-> "delete", key |-> k, value |-> Nil]}

\* Calls differ by nothing but their name.
CallSymmetry == Permutations(Calls)

Init ==
  /\ part \in {"consensus", "stores"}
  /\ ConsensusInit /\ StoresInit

Next ==
  /\ UNCHANGED part
  /\ \/ part = "consensus" /\ ConsensusNext /\ UNCHANGED storesVars
     \/ part = "stores" /\ StoresNext /\ UNCHANGED consensusVars

Spec == Init /\ [][Next]_<<part, consensusVars, storesVars>>
=============================================================================
