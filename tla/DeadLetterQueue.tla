-------------------------- MODULE DeadLetterQueue --------------------------
(***************************************************************************)
(* pkg/retry: the dead letter queue, a bounded list that drops its oldest  *)
(* entry to make room.  Every method takes the queue's mutex, so each is   *)
(* one step.  Entries are opaque.  The history variables remember what was *)
(* pushed and how many entries have left at the front, so that the content *)
(* can be compared with what it should be.                                 *)
(***************************************************************************)
EXTENDS Naturals, Sequences

CONSTANTS
  Entries,     \* the entries that may be pushed
  MaxSize,     \* maxSize
  MaxPushes    \* bound of the model: pushes considered

ASSUME DLQAssumption ==
  /\ MaxSize \in Nat \ {0}
  /\ MaxPushes \in Nat

VARIABLES
  entries,     \* the slice q.entries
  pushed,      \* history: every entry pushed, in order
  gone         \* history: how many have been evicted, popped or cleared

dlqVars == <<entries, pushed, gone>>

\* The types of the state.
DLQTypeOK ==
  /\ entries \in Seq(Entries)
  /\ pushed \in Seq(Entries)
  /\ gone \in Nat

DLQInit ==
  /\ entries = <<>>
  /\ pushed = <<>>
  /\ gone = 0

\* Mutant of PushTo: the newest entry is refused by a full queue.
PushTo_DropNewest(q, e, max) == IF Len(q) >= max THEN q ELSE Append(q, e)

\* The slice after Push: the oldest entry is evicted at capacity.
PushTo(q, e, max) == Append(IF Len(q) >= max THEN Tail(q) ELSE q, e)

Push(e) ==
  /\ Len(pushed) < MaxPushes
  /\ entries' = PushTo(entries, e, MaxSize)
  /\ pushed' = Append(pushed, e)
  /\ gone' = IF Len(entries) >= MaxSize THEN gone + 1 ELSE gone

\* Pop on an empty queue answers false and changes nothing; Peek, Len and
\* List never change anything.
Pop ==
  /\ entries # <<>>
  /\ entries' = Tail(entries)
  /\ gone' = gone + 1
  /\ UNCHANGED pushed

Clear ==
  /\ entries # <<>>
  /\ entries' = <<>>
  /\ gone' = gone + Len(entries)
  /\ UNCHANGED pushed

DLQNext == (\E e \in Entries : Push(e)) \/ Pop \/ Clear

DLQSpec == DLQInit /\ [][DLQNext]_dlqVars
-----------------------------------------------------------------------------
\* The queue holds the most recent pushes that have not left it, oldest
\* first, with none missing in between and never more than maxSize: what
\* Pop, Peek and List return is in push order, and an eviction only ever
\* costs the oldest entry.
HoldsLatest ==
  /\ Len(entries) <= MaxSize
  /\ Len(pushed) = gone + Len(entries)
  /\ \A i \in 1..Len(entries) : entries[i] = pushed[gone + i]
=============================================================================
