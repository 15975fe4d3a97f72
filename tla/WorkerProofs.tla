---------------------------- MODULE WorkerProofs ----------------------------
(***************************************************************************)
(* The pool of workers, for any number of workers, goroutines, instances   *)
(* and attempts.  The inductive invariant says where every instance is:    *)
(* it is not yet dispatched, or in one place of one channel, or with one   *)
(* goroutine, or done; and what the store, the executor and the dead       *)
(* letter queue know of it there.                                          *)
(***************************************************************************)
EXTENDS Worker, TLAPS, FiniteSetTheorems

Goroutine ==
  [at : {"select", "start", "prepare", "execute", "backoff", "finish",
         "bury", "gone"},
   ti : Instances \cup {None}, attempt : Nat,
   res : Terminal \cup {"error", None}]

WorkerTypes ==
  /\ status \in [Instances -> {"queued", "running"} \cup Terminal]
  /\ accepted \subseteq Instances /\ troubled \subseteq Instances
  /\ taskCh \in [Workers -> Seq(Instances)]
  /\ \A w \in Workers : Len(taskCh[w]) <= QueueSize
  /\ loop \in [Workers -> [Loops -> Goroutine]]
  /\ dlq \in [Workers -> Seq(Instances \X Nat)]
  /\ executed \in [Instances -> Nat]

\* Instance i waits at place n of worker w's channel; goroutine k of w has it.
InChannel(i, w, n) == n \in 1..Len(taskCh[w]) /\ taskCh[w][n] = i
Held(i, w, k) == loop[w][k].ti = i

\* Every dispatched instance is in at most one place.
ChannelsDistinct ==
  \A i \in Instances, w, v \in Workers : \A n, m \in Nat :
    InChannel(i, w, n) /\ InChannel(i, v, m) => w = v /\ n = m
HoldersDistinct ==
  \A i \in Instances, w, v \in Workers, k, l \in Loops :
    Held(i, w, k) /\ Held(i, v, l) => w = v /\ k = l
OnePlace ==
  \A i \in Instances, w, v \in Workers, k \in Loops : \A n \in Nat :
    ~(InChannel(i, w, n) /\ Held(i, v, k))
PlacesAccepted ==
  \A i \in Instances, w \in Workers :
    \/ i \in accepted
    \/ /\ \A n \in Nat : ~InChannel(i, w, n)
       /\ \A k \in Loops : ~Held(i, w, k)

\* An instance that no goroutine has seen is queued and not executed.
Untouched ==
  \A i \in Instances :
    i \notin accepted \/ (\E w \in Workers : \E n \in Nat : InChannel(i, w, n)) =>
      status[i] = "queued" /\ executed[i] = 0

\* Goroutine g with its instance, at every point of executeTask.
Consistent(g) ==
  /\ g.at \in {"select", "gone"} => g.ti = None
  /\ g.at \notin {"select", "gone"} => g.ti \in Instances /\ g.attempt >= 1
  /\ g.at = "start" => /\ status[g.ti] = "queued" /\ executed[g.ti] = 0
                       /\ g.attempt = 1 /\ g.res = None
  /\ g.at \in {"prepare", "execute", "backoff", "finish"} =>
       status[g.ti] = "running"
  /\ g.at = "prepare" => executed[g.ti] = 0 /\ g.attempt = 1 /\ g.res = None
  /\ g.at = "execute" => /\ executed[g.ti] = g.attempt - 1
                         /\ g.attempt <= MaxAttempts[g.ti]
  /\ g.at = "backoff" => /\ executed[g.ti] = g.attempt
                         /\ g.attempt < MaxAttempts[g.ti]
  /\ g.at = "finish" =>
       \/ g.res = None /\ MaxAttempts[g.ti] <= 0
       \/ g.res = "success"
       \/ /\ g.res \in {"failed", "cancelled", "error"}
          /\ executed[g.ti] = g.attempt /\ g.attempt = MaxAttempts[g.ti]
  /\ g.at = "bury" => /\ executed[g.ti] = g.attempt
                      /\ g.attempt = MaxAttempts[g.ti]
                      /\ status[g.ti] = "failed" \/ g.ti \in troubled

Goroutines == \A w \in Workers, k \in Loops : Consistent(loop[w][k])

\* What has become of an instance that was dispatched and is nowhere.
Settled(i) ==
  \/ status[i] \in Terminal \/ i \in troubled
  \/ MaxAttempts[i] <= 0 /\ status[i] = "running"
Nowhere(i) ==
  /\ \A w \in Workers : \A n \in Nat : ~InChannel(i, w, n)
  /\ \A w \in Workers, k \in Loops : ~Held(i, w, k)
DoneSettled == \A i \in accepted : Nowhere(i) => Settled(i)

\* Every dead letter is of an instance that is done.
Letters ==
  \A w \in Workers : \A n \in 1..Len(dlq[w]) :
    LET i == dlq[w][n][1] IN
    /\ i \in accepted /\ Nowhere(i)
    /\ executed[i] = MaxAttempts[i] /\ dlq[w][n][2] = MaxAttempts[i]
    /\ status[i] = "failed" \/ i \in troubled
LettersDistinct ==
  \A w, v \in Workers : \A n \in 1..Len(dlq[w]), m \in 1..Len(dlq[v]) :
    dlq[v][m][1] = dlq[w][n][1] => v = w /\ m = n

Places == ChannelsDistinct /\ HoldersDistinct /\ OnePlace /\ PlacesAccepted

WorkerInv ==
  /\ WorkerTypes /\ Places /\ Untouched /\ Goroutines /\ DoneSettled
  /\ Letters /\ LettersDistinct
-----------------------------------------------------------------------------
\* The steps of a goroutine, by what they do with its instance.

\* It goes on with its instance, or stays without one.
Keeps(w, k, g) ==
  /\ loop' = [loop EXCEPT ![w][k] = g] /\ g \in Goroutine
  /\ g.ti = loop[w][k].ti
  /\ UNCHANGED <<accepted, taskCh, dlq>>

\* It is done with it.
Releases(w, k, i) ==
  /\ loop' = [loop EXCEPT ![w][k] = Idle] /\ loop[w][k].ti = i
  /\ UNCHANGED <<accepted, taskCh>>

\* Only what concerns instance i changes.
Only(i) ==
  /\ \A j \in Instances \ {i} : status'[j] = status[j] /\ executed'[j] = executed[j]
  /\ \A j \in Instances : (j \in troubled => j \in troubled')

LEMMA IdleGoroutine == Idle \in Goroutine /\ Idle.ti = None /\ Idle.at = "select"
                       /\ Consistent(Idle)
BY DEF Idle, Goroutine, Terminal, Consistent, None

LEMMA NoneNoInstance == None \notin Instances
BY WorkerAssumption DEF None

LEMMA PlacesKept ==
  ASSUME WorkerTypes, Places, NEW w \in Workers, NEW k \in Loops,
         NEW g, Keeps(w, k, g)
  PROVE  Places' /\ \A i \in Instances : Nowhere(i)' <=> Nowhere(i)
<1>1. /\ \A v \in Workers, l \in Loops : loop'[v][l].ti = loop[v][l].ti
      /\ taskCh' = taskCh /\ accepted' = accepted
  BY DEF Keeps, WorkerTypes
<1> QED
  BY <1>1 DEF Places, ChannelsDistinct, HoldersDistinct, OnePlace,
     PlacesAccepted, Nowhere, InChannel, Held

LEMMA PlacesReleased ==
  ASSUME WorkerTypes, Places, NEW w \in Workers, NEW k \in Loops,
         NEW i \in Instances, Releases(w, k, i)
  PROVE  /\ Places'
         /\ \A j \in Instances \ {i} : Nowhere(j)' <=> Nowhere(j)
         /\ Nowhere(i)' /\ ~Nowhere(i)
         /\ i \in accepted
<1>1. /\ \A v \in Workers, l \in Loops :
           loop'[v][l].ti = IF v = w /\ l = k THEN None ELSE loop[v][l].ti
      /\ taskCh' = taskCh /\ accepted' = accepted
      /\ loop[w][k].ti = i /\ i # None
  BY IdleGoroutine, NoneNoInstance DEF Releases, WorkerTypes
<1>3. ChannelsDistinct'
  BY <1>1 DEF Places, ChannelsDistinct, InChannel
<1>4. HoldersDistinct'
  BY <1>1, NoneNoInstance DEF Places, HoldersDistinct, Held
<1>5. OnePlace'
  BY <1>1, NoneNoInstance DEF Places, OnePlace, Held, InChannel
<1>6. PlacesAccepted'
  BY <1>1, NoneNoInstance DEF Places, PlacesAccepted, Held, InChannel
<1>7. \A j \in Instances \ {i} : Nowhere(j)' <=> Nowhere(j)
  BY <1>1, NoneNoInstance DEF Nowhere, Held, InChannel
<1>8. ~Nowhere(i) /\ i \in accepted
  BY <1>1 DEF Nowhere, Held, Places, PlacesAccepted
<1>9. Nowhere(i)'
  <2>2. \A v \in Workers, l \in Loops : loop'[v][l].ti # i
    BY <1>1 DEF Places, HoldersDistinct, Held
  <2>3. \A v \in Workers : \A n \in Nat : ~InChannel(i, v, n)
    BY <1>1 DEF Places, OnePlace, Held
  <2> QED
    BY <1>1, <2>2, <2>3 DEF Nowhere, Held, InChannel
<1> QED
  BY <1>3, <1>4, <1>5, <1>6, <1>7, <1>8, <1>9 DEF Places

\* What a goroutine knows of its own instance is not disturbed by a step
\* about another one.
LEMMA ConsistentStable ==
  ASSUME NEW g \in Goroutine, Consistent(g), NEW i, Only(i), g.ti # i
  PROVE  Consistent(g)'
BY DEF Goroutine, Consistent, Only

\* A step with which goroutine k of w keeps instance i, and of which it
\* knows what it must afterwards.
LEMMA KeepsStep ==
  ASSUME WorkerInv, WorkerTypes', NEW w \in Workers, NEW k \in Loops,
         NEW i \in Instances, loop[w][k].ti = i, NEW g, Keeps(w, k, g),
         Only(i), Consistent(g)'
  PROVE  WorkerInv'
<1> USE DEF WorkerInv
<1>1. Places' /\ (\A j \in Instances : Nowhere(j)' <=> Nowhere(j))
  BY PlacesKept
<1>2. ~Nowhere(i) /\ i \in accepted
  BY DEF Nowhere, Held, Places, PlacesAccepted
<1>3. Untouched'
  <2>1. \A v \in Workers : \A n \in Nat : ~InChannel(i, v, n)
    BY DEF Places, OnePlace, Held
  <2> QED
    BY <1>2, <2>1 DEF Untouched, Keeps, InChannel, Only
<1>4. Goroutines'
  <2> SUFFICES ASSUME NEW v \in Workers, NEW l \in Loops
               PROVE  Consistent(loop[v][l])'
    BY DEF Goroutines
  <2>1. CASE v = w /\ l = k
    <3>1. loop'[v][l] = g
      BY <2>1 DEF Keeps, WorkerTypes
    <3> QED
      BY <3>1 DEF Consistent
  <2>2. CASE ~(v = w /\ l = k)
    <3>1. PICK h \in Goroutine : h = loop[v][l] /\ loop'[v][l] = h
      BY <2>2 DEF Keeps, WorkerTypes
    <3>2. h.ti # i
      BY <2>2, <3>1 DEF Places, HoldersDistinct, Held
    <3>3. Consistent(h)'
      BY <3>1, <3>2, ConsistentStable DEF Goroutines
    <3> QED
      BY <3>1, <3>3 DEF Consistent
  <2> QED
    BY <2>1, <2>2
<1>5. DoneSettled'
  BY <1>1, <1>2 DEF DoneSettled, Settled, Keeps, Only, WorkerTypes
<1>6. Letters' /\ LettersDistinct'
  <2>1. dlq' = dlq /\ accepted' = accepted
    BY DEF Keeps
  <2>2. ASSUME NEW v \in Workers, NEW n \in 1..Len(dlq[v]),
               NEW j, j = dlq[v][n][1]
        PROVE  /\ j \in accepted' /\ Nowhere(j)'
               /\ executed'[j] = MaxAttempts[j] /\ dlq[v][n][2] = MaxAttempts[j]
               /\ status'[j] = "failed" \/ j \in troubled'
    <3>1. j \in accepted /\ Nowhere(j) /\ j \in Instances /\ j # i
      BY <1>2, <2>2 DEF Letters, WorkerTypes
    <3> QED
      BY <1>1, <2>1, <2>2, <3>1 DEF Letters, Only
  <2> QED
    BY <2>1, <2>2 DEF Letters, LettersDistinct
<1> QED
  BY <1>1, <1>3, <1>4, <1>5, <1>6

\* The others' goroutines after a step that releases instance i.
LEMMA GoroutinesReleased ==
  ASSUME WorkerInv, NEW w \in Workers, NEW k \in Loops,
         NEW i \in Instances, Releases(w, k, i), Only(i)
  PROVE  Goroutines'
<1> USE DEF WorkerInv
<1> SUFFICES ASSUME NEW v \in Workers, NEW l \in Loops
             PROVE  Consistent(loop[v][l])'
  BY DEF Goroutines
<1>1. CASE v = w /\ l = k
  <2>1. loop'[v][l] = Idle
    BY <1>1 DEF Releases, WorkerTypes
  <2> QED
    BY <2>1 DEF Consistent, Idle, None
<1>2. CASE ~(v = w /\ l = k)
  <2>1. PICK h \in Goroutine : h = loop[v][l] /\ loop'[v][l] = h
    BY <1>2 DEF Releases, WorkerTypes
  <2>2. h.ti # i
    BY <1>2, <2>1 DEF Places, HoldersDistinct, Held, Releases
  <2>3. Consistent(h)'
    BY <2>1, <2>2, ConsistentStable DEF Goroutines
  <2> QED
    BY <2>1, <2>3 DEF Consistent
<1> QED
  BY <1>1, <1>2

\* The rest of the invariant, but for the dead letters.
LEMMA ReleasesRest ==
  ASSUME WorkerInv, NEW w \in Workers, NEW k \in Loops,
         NEW i \in Instances, Releases(w, k, i), Only(i), Settled(i)'
  PROVE  Places' /\ Untouched' /\ Goroutines' /\ DoneSettled'
<1> USE DEF WorkerInv
<1>1. /\ Places' /\ i \in accepted
      /\ \A j \in Instances \ {i} : Nowhere(j)' <=> Nowhere(j)
  BY PlacesReleased
<1>2. Untouched'
  <2>1. \A v \in Workers : \A n \in Nat : ~InChannel(i, v, n)
    BY DEF Places, OnePlace, Held, Releases
  <2> QED
    BY <1>1, <2>1 DEF Untouched, Releases, InChannel, Only
<1>3. DoneSettled'
  BY <1>1 DEF DoneSettled, Settled, Releases, Only, WorkerTypes
<1> QED
  BY <1>1, <1>2, <1>3, GoroutinesReleased

\* The dead letters there were, after a step about an instance that was
\* still with a goroutine.
LEMMA LettersStay ==
  ASSUME WorkerInv, NEW i \in Instances, Only(i), ~Nowhere(i),
         accepted \subseteq accepted',
         \A j \in Instances \ {i} : Nowhere(j) => Nowhere(j)'
  PROVE  \A v \in Workers : \A n \in 1..Len(dlq[v]) : \A j \in Instances :
           j = dlq[v][n][1] =>
             /\ j # i /\ j \in accepted' /\ Nowhere(j)'
             /\ executed'[j] = MaxAttempts[j] /\ dlq[v][n][2] = MaxAttempts[j]
             /\ status'[j] = "failed" \/ j \in troubled'
<1> SUFFICES ASSUME NEW v \in Workers, NEW n \in 1..Len(dlq[v]),
                    NEW j \in Instances, j = dlq[v][n][1]
             PROVE  /\ j # i /\ j \in accepted' /\ Nowhere(j)'
                    /\ executed'[j] = MaxAttempts[j]
                    /\ dlq[v][n][2] = MaxAttempts[j]
                    /\ status'[j] = "failed" \/ j \in troubled'
  OBVIOUS
<1>1. /\ j \in accepted /\ Nowhere(j)
      /\ executed[j] = MaxAttempts[j] /\ dlq[v][n][2] = MaxAttempts[j]
      /\ status[j] = "failed" \/ j \in troubled
  BY DEF WorkerInv, Letters
<1> QED
  BY <1>1 DEF Only

LEMMA LetterType ==
  ASSUME WorkerTypes, NEW v \in Workers, NEW n \in 1..Len(dlq[v])
  PROVE  dlq[v][n][1] \in Instances
BY DEF WorkerTypes

LEMMA LettersSame ==
  ASSUME WorkerInv, NEW i \in Instances, Only(i), ~Nowhere(i), dlq' = dlq,
         accepted \subseteq accepted',
         \A j \in Instances \ {i} : Nowhere(j) => Nowhere(j)'
  PROVE  Letters' /\ LettersDistinct'
<1>1. LettersDistinct'
  BY DEF WorkerInv, LettersDistinct
<1>2. ASSUME NEW v \in Workers, NEW n \in 1..Len(dlq[v]),
             NEW j, j = dlq[v][n][1]
      PROVE  /\ j \in accepted' /\ Nowhere(j)'
             /\ executed'[j] = MaxAttempts[j] /\ dlq[v][n][2] = MaxAttempts[j]
             /\ status'[j] = "failed" \/ j \in troubled'
  BY <1>2, LettersStay, LetterType DEF WorkerInv
<1> QED
  BY <1>1, <1>2 DEF Letters

LEMMA ReleasesStep ==
  ASSUME WorkerInv, WorkerTypes', NEW w \in Workers, NEW k \in Loops,
         NEW i \in Instances, Releases(w, k, i), Only(i), Settled(i)',
         dlq' = dlq
  PROVE  WorkerInv'
<1>1. Places' /\ Untouched' /\ Goroutines' /\ DoneSettled'
  BY ReleasesRest
<1>2. /\ ~Nowhere(i) /\ accepted' = accepted
      /\ \A j \in Instances \ {i} : Nowhere(j) => Nowhere(j)'
  BY PlacesReleased DEF WorkerInv, Releases
<1>3. Letters' /\ LettersDistinct'
  BY <1>2, LettersSame
<1> QED
  BY <1>1, <1>3 DEF WorkerInv

LEMMA BuryStep ==
  ASSUME WorkerInv, WorkerTypes', NEW w \in Workers, NEW k \in Loops, Bury(w, k)
  PROVE  WorkerInv'
<1> USE DEF WorkerInv
<1>1. PICK i : i = loop[w][k].ti
  OBVIOUS
<1>2. PICK a : a = loop[w][k].attempt
  OBVIOUS
<1>3. /\ i \in Instances /\ Releases(w, k, i) /\ Only(i)
      /\ UNCHANGED <<status, executed, troubled>>
      /\ dlq' = [dlq EXCEPT ![w] = Append(dlq[w], <<i, a>>)]
      /\ executed[i] = MaxAttempts[i] /\ a = MaxAttempts[i] /\ a \in Nat
      /\ status[i] = "failed" \/ i \in troubled
  <2>1. Consistent(loop[w][k]) /\ loop[w][k] \in Goroutine /\ loop[w][k].at = "bury"
    BY DEF Goroutines, Bury, WorkerTypes
  <2> QED
    BY <1>1, <1>2, <2>1 DEF Consistent, Bury, Goto, Releases, Only, poolVars,
       dispatchVars, Goroutine
<1>4. Settled(i)'
  BY <1>3 DEF Settled, Terminal
<1>5. Places' /\ Untouched' /\ Goroutines' /\ DoneSettled'
  BY <1>3, <1>4, ReleasesRest
<1>6. /\ ~Nowhere(i) /\ Nowhere(i)' /\ accepted' = accepted /\ i \in accepted
      /\ \A j \in Instances \ {i} : Nowhere(j) => Nowhere(j)'
  BY <1>3, PlacesReleased DEF Releases
<1>7. /\ \A v \in Workers \ {w} : dlq'[v] = dlq[v]
      /\ Len(dlq[w]) \in Nat /\ Len(dlq'[w]) = Len(dlq[w]) + 1
      /\ \A n \in 1..Len(dlq[w]) : dlq'[w][n] = dlq[w][n]
      /\ dlq'[w][Len(dlq[w]) + 1] = <<i, a>>
  BY <1>3 DEF WorkerTypes
<1>8. \A v \in Workers : \A n \in 1..Len(dlq'[v]) :
        \/ n \in 1..Len(dlq[v]) /\ dlq'[v][n] = dlq[v][n]
        \/ v = w /\ n = Len(dlq[w]) + 1 /\ dlq'[v][n] = <<i, a>>
  BY <1>7
<1>9. ASSUME NEW v \in Workers, NEW n \in 1..Len(dlq[v]),
             NEW j, j = dlq[v][n][1]
      PROVE  /\ j # i /\ j \in accepted' /\ Nowhere(j)'
             /\ executed'[j] = MaxAttempts[j] /\ dlq[v][n][2] = MaxAttempts[j]
             /\ status'[j] = "failed" \/ j \in troubled'
  BY <1>3, <1>6, <1>9, LettersStay, LetterType
<1>10. Letters'
  <2> SUFFICES ASSUME NEW v \in Workers, NEW n \in 1..Len(dlq'[v]),
                      NEW j, j = dlq'[v][n][1]
               PROVE  /\ j \in accepted' /\ Nowhere(j)'
                      /\ executed'[j] = MaxAttempts[j]
                      /\ dlq'[v][n][2] = MaxAttempts[j]
                      /\ status'[j] = "failed" \/ j \in troubled'
    BY DEF Letters
  <2>1. CASE n \in 1..Len(dlq[v]) /\ dlq'[v][n] = dlq[v][n]
    BY <2>1, <1>9
  <2>2. CASE dlq'[v][n] = <<i, a>>
    <3>1. j = i /\ dlq'[v][n][2] = a
      BY <2>2
    <3> QED
      BY <1>3, <1>6, <3>1
  <2> QED
    BY <1>8, <2>1, <2>2
<1>11. LettersDistinct'
  <2> SUFFICES ASSUME NEW v \in Workers, NEW u \in Workers,
                      NEW n \in 1..Len(dlq'[v]), NEW m \in 1..Len(dlq'[u]),
                      dlq'[u][m][1] = dlq'[v][n][1]
               PROVE  u = v /\ m = n
    BY DEF LettersDistinct
  <2>1. CASE n \in 1..Len(dlq[v]) /\ dlq'[v][n] = dlq[v][n]
    <3>1. dlq'[v][n][1] # i
      BY <2>1, <1>9
    <3>2. m \in 1..Len(dlq[u]) /\ dlq'[u][m] = dlq[u][m]
      BY <3>1, <1>8
    <3> QED
      BY <2>1, <3>2 DEF LettersDistinct
  <2>2. CASE v = w /\ n = Len(dlq[w]) + 1 /\ dlq'[v][n] = <<i, a>>
    <3>1. dlq'[u][m][1] = i
      BY <2>2
    <3>2. u = w /\ m = Len(dlq[w]) + 1
      BY <3>1, <1>8, <1>9
    <3> QED
      BY <2>2, <3>2
  <2> QED
    BY <1>8, <2>1, <2>2
<1> QED
  BY <1>5, <1>10, <1>11

LEMMA WorkerTypesStep ==
  ASSUME WorkerInv, [Next]_vars
  PROVE  WorkerTypes'
<1>0. WorkerTypes /\ Goroutines /\ Idle \in Goroutine /\ QueueSize \in Nat
  BY IdleGoroutine, WorkerAssumption DEF WorkerInv, QueueSize
<1>1. CASE UNCHANGED vars
  BY <1>0, <1>1 DEF WorkerTypes, vars, poolVars, dispatchVars
<1>2. ASSUME NEW i \in Instances, NEW w \in Workers, Dispatch(i, w)
      PROVE  WorkerTypes'
  BY <1>0, <1>2 DEF WorkerTypes, Dispatch, HasRoom
<1>3. ASSUME NEW i \in Instances, NEW w \in Workers, TryNext(i, w)
      PROVE  WorkerTypes'
  BY <1>0, <1>3 DEF WorkerTypes, TryNext
<1>4. CASE CancelContext \/ \E w \in Workers : StopStep(w)
  BY <1>0, <1>4 DEF WorkerTypes, CancelContext, StopStep, CloseStopCh, Wait,
     dispatchVars
<1>5. ASSUME NEW w \in Workers, NEW k \in Loops, LoopStep(w, k)
      PROVE  WorkerTypes'
  <2> DEFINE g == loop[w][k]
  <2>0. g \in Goroutine /\ (g.at \notin {"select", "gone"} => g.ti \in Instances)
    BY <1>0 DEF WorkerTypes, Goroutines, Consistent
  <2>1. ASSUME NEW h \in Goroutine, Goto(w, k, h)
        PROVE  loop' \in [Workers -> [Loops -> Goroutine]]
    BY <1>0, <2>1 DEF WorkerTypes, Goto
  <2>2. ASSUME NEW i \in Instances, NEW s \in {"queued", "running"} \cup Terminal,
               NEW o, Update(i, s, o)
        PROVE  /\ status' \in [Instances -> {"queued", "running"} \cup Terminal]
               /\ troubled' \subseteq Instances
    BY <1>0, <2>2 DEF WorkerTypes, Update
  <2>3. CASE Take(w, k)
    <3>1. [Idle EXCEPT !.at = "start", !.ti = Head(taskCh[w])] \in Goroutine
      <4>1. Head(taskCh[w]) \in Instances
        BY <1>0, <2>3 DEF WorkerTypes, Take
      <4> QED
        BY <4>1 DEF Goroutine, Idle, Terminal, None
    <3>2. /\ taskCh' \in [Workers -> Seq(Instances)]
          /\ \A v \in Workers : Len(taskCh'[v]) <= QueueSize
      <4>1. taskCh[w] \in Seq(Instances) /\ taskCh[w] # <<>>
        BY <1>0, <2>3 DEF WorkerTypes, Take
      <4>2. Tail(taskCh[w]) \in Seq(Instances) /\ Len(Tail(taskCh[w])) <= QueueSize
        BY <1>0, <4>1 DEF WorkerTypes
      <4> QED
        BY <1>0, <2>3, <4>2 DEF WorkerTypes, Take
    <3> QED
      BY <1>0, <2>1, <2>3, <3>1, <3>2 DEF WorkerTypes, Take, poolVars, dispatchVars
  <2>4. CASE Leave(w, k)
    <3>1. [Idle EXCEPT !.at = "gone"] \in Goroutine
      BY <1>0 DEF Goroutine
    <3> QED
      BY <1>0, <2>1, <2>4, <3>1 DEF WorkerTypes, Leave, poolVars, dispatchVars
  <2>5. ASSUME NEW o \in Outcomes, Start(w, k, o)
        PROVE  WorkerTypes'
    <3>1. [g EXCEPT !.at = "prepare"] \in Goroutine
      BY <2>0 DEF Goroutine
    <3> QED
      BY <1>0, <2>0, <2>1, <2>2, <2>5, <3>1 DEF WorkerTypes, Start, poolVars,
         dispatchVars
  <2>6. ASSUME NEW o \in Outcomes, FailTask(w, k, o), g.ti \in Instances
        PROVE  WorkerTypes'
    BY <1>0, <2>1, <2>2, <2>6 DEF WorkerTypes, FailTask, poolVars,
       dispatchVars, Terminal
  <2>7. CASE Prepare(w, k)
    <3>1. /\ [g EXCEPT !.at = "execute"] \in Goroutine
          /\ [g EXCEPT !.at = "finish"] \in Goroutine
      BY <2>0 DEF Goroutine
    <3> QED
      BY <1>0, <2>0, <2>1, <2>6, <2>7, <3>1 DEF WorkerTypes, Prepare, poolVars,
         dispatchVars
  <2>8. ASSUME NEW res \in Terminal \cup {"error"}, Execute(w, k, res)
        PROVE  WorkerTypes'
    <3>1. \A x \in {"backoff", "finish"} :
            [g EXCEPT !.res = res, !.at = x] \in Goroutine
      BY <2>0, <2>8 DEF Goroutine
    <3>2. executed' \in [Instances -> Nat]
      BY <1>0, <2>0, <2>8 DEF WorkerTypes, Execute
    <3>3. loop' \in [Workers -> [Loops -> Goroutine]]
      BY <2>1, <2>8, <3>1 DEF Execute
    <3> QED
      BY <1>0, <2>8, <3>2, <3>3 DEF WorkerTypes, Execute, poolVars, dispatchVars
  <2>9. CASE Backoff(w, k)
    <3>1. [g EXCEPT !.attempt = @ + 1, !.at = "execute"] \in Goroutine
      <4>1. g.attempt + 1 \in Nat
        BY <2>0 DEF Goroutine
      <4> QED
        BY <2>0, <4>1 DEF Goroutine
    <3> QED
      BY <1>0, <2>0, <2>1, <2>6, <2>9, <3>1 DEF WorkerTypes, Backoff, poolVars,
         dispatchVars
  <2>10. ASSUME NEW o \in Outcomes, Finish(w, k, o)
         PROVE  WorkerTypes'
    <3>1. [g EXCEPT !.at = "bury"] \in Goroutine
      BY <2>0 DEF Goroutine
    <3>2. FinalStatus(g.res) \in {"queued", "running"} \cup Terminal
      BY <2>0 DEF Goroutine, FinalStatus, Terminal, None
    <3> QED
      BY <1>0, <2>0, <2>1, <2>2, <2>10, <3>1, <3>2 DEF WorkerTypes, Finish,
         poolVars, dispatchVars
  <2>11. CASE Bury(w, k)
    <3>1. <<g.ti, g.attempt>> \in Instances \X Nat
      BY <2>0, <2>11 DEF Bury, Goroutine
    <3> QED
      BY <1>0, <2>1, <2>11, <3>1 DEF WorkerTypes, Bury, poolVars, dispatchVars
  <2> QED
    BY <1>5, <2>3, <2>4, <2>5, <2>7, <2>8, <2>9, <2>10, <2>11 DEF LoopStep
<1> QED
  BY <1>1, <1>2, <1>3, <1>4, <1>5 DEF Next

\* Dispatch puts a new instance at the end of a channel.
LEMMA DispatchStep ==
  ASSUME WorkerInv, WorkerTypes', NEW i \in Instances, NEW w \in Workers,
         Dispatch(i, w)
  PROVE  WorkerInv'
<1> USE DEF WorkerInv
<1>1. /\ UNCHANGED <<status, loop, dlq, executed, troubled>>
      /\ i \notin accepted /\ accepted' = accepted \cup {i}
      /\ \A v \in Workers : Len(taskCh[v]) \in Nat
      /\ \A v \in Workers \ {w} : taskCh'[v] = taskCh[v]
      /\ Len(taskCh'[w]) = Len(taskCh[w]) + 1
      /\ \A n \in 1..Len(taskCh[w]) : taskCh'[w][n] = taskCh[w][n]
      /\ taskCh'[w][Len(taskCh[w]) + 1] = i
  BY DEF Dispatch, WorkerTypes
<1>2. \A j \in Instances, v \in Workers : \A n \in Nat :
        InChannel(j, v, n)' <=> \/ InChannel(j, v, n)
                                \/ j = i /\ v = w /\ n = Len(taskCh[w]) + 1
  BY <1>1 DEF InChannel
<1>3. /\ \A v \in Workers : \A n \in Nat : ~InChannel(i, v, n)
      /\ \A v \in Workers, l \in Loops : ~Held(i, v, l)
  BY <1>1 DEF Places, PlacesAccepted
<1>4. \A j \in Instances, v \in Workers, l \in Loops : Held(j, v, l)' <=> Held(j, v, l)
  BY <1>1 DEF Held
<1>5. ChannelsDistinct'
  BY <1>2, <1>3 DEF Places, ChannelsDistinct
<1>6. HoldersDistinct' /\ OnePlace'
  BY <1>2, <1>3, <1>4 DEF Places, HoldersDistinct, OnePlace
<1>7. PlacesAccepted'
  BY <1>1, <1>2, <1>4 DEF Places, PlacesAccepted
<1>8. Untouched'
  BY <1>1, <1>2 DEF Untouched
<1>9. Goroutines'
  BY <1>1 DEF Goroutines, Consistent
<1>10. /\ \A j \in Instances \ {i} : Nowhere(j)' <=> Nowhere(j)
       /\ ~(Nowhere(i)')
  <2>1. \A j \in Instances \ {i} : Nowhere(j)' <=> Nowhere(j)
    BY <1>2, <1>4 DEF Nowhere
  <2>2. PICK m \in Nat : m = Len(taskCh[w]) + 1
    BY <1>1
  <2>3. InChannel(i, w, m)'
    BY <1>2, <2>2
  <2> QED
    BY <2>1, <2>3 DEF Nowhere
<1>11. DoneSettled'
  BY <1>1, <1>10 DEF DoneSettled, Settled, WorkerTypes
<1>12. Letters' /\ LettersDistinct'
  <2>1. ASSUME NEW v \in Workers, NEW n \in 1..Len(dlq[v]),
               NEW j, j = dlq[v][n][1]
        PROVE  /\ j \in accepted' /\ Nowhere(j)'
               /\ executed'[j] = MaxAttempts[j] /\ dlq[v][n][2] = MaxAttempts[j]
               /\ status'[j] = "failed" \/ j \in troubled'
    <3>1. j \in accepted /\ Nowhere(j) /\ j \in Instances /\ j # i
      BY <1>1, <2>1, LetterType DEF Letters
    <3> QED
      BY <1>1, <1>10, <2>1, <3>1 DEF Letters
  <2>2. LettersDistinct'
    BY <1>1 DEF LettersDistinct
  <2>3. Letters'
    BY <1>1, <2>1 DEF Letters
  <2> QED
    BY <2>2, <2>3
<1> QED
  BY <1>5, <1>6, <1>7, <1>8, <1>9, <1>11, <1>12 DEF Places

\* Take moves the instance at the head of the channel to the goroutine.
LEMMA TakeStep ==
  ASSUME WorkerInv, WorkerTypes', NEW w \in Workers, NEW k \in Loops, Take(w, k)
  PROVE  WorkerInv'
<1> USE DEF WorkerInv
<1>1. PICK i \in Instances : i = taskCh[w][1] /\ i = Head(taskCh[w])
  BY DEF Take, WorkerTypes
<1>2. /\ UNCHANGED <<status, accepted, dlq, executed, troubled>>
      /\ \A v \in Workers : Len(taskCh[v]) \in Nat
      /\ \A v \in Workers \ {w} : taskCh'[v] = taskCh[v]
      /\ Len(taskCh[w]) >= 1 /\ Len(taskCh'[w]) = Len(taskCh[w]) - 1
      /\ \A n \in 1..(Len(taskCh[w]) - 1) : taskCh'[w][n] = taskCh[w][n + 1]
  BY DEF Take, WorkerTypes, poolVars, dispatchVars
<1>3. PICK g : g = [Idle EXCEPT !.at = "start", !.ti = i]
  OBVIOUS
<1>4. /\ loop' = [loop EXCEPT ![w][k] = g]
      /\ g.at = "start" /\ g.ti = i /\ g.attempt = 1 /\ g.res = None
      /\ loop[w][k].ti = None
  <2>1. loop[w][k].ti = None
    BY DEF Take, Goroutines, Consistent
  <2> QED
    BY <1>1, <1>3, <2>1 DEF Take, Goto, Idle
<1>5. \A j \in Instances, v \in Workers, l \in Loops :
        Held(j, v, l)' <=> Held(j, v, l) \/ (j = i /\ v = w /\ l = k)
  BY <1>4, NoneNoInstance DEF Held, WorkerTypes
<1>6. \A j \in Instances, v \in Workers : \A n \in Nat :
        InChannel(j, v, n)' <=> \/ v # w /\ InChannel(j, v, n)
                                \/ v = w /\ n >= 1 /\ InChannel(j, v, n + 1)
  <2> SUFFICES ASSUME NEW j \in Instances, NEW v \in Workers, NEW n \in Nat
               PROVE  InChannel(j, v, n)' <=>
                        \/ v # w /\ InChannel(j, v, n)
                        \/ v = w /\ n >= 1 /\ InChannel(j, v, n + 1)
    OBVIOUS
  <2>1. CASE v = w
    BY <1>2, <2>1 DEF InChannel
  <2>2. CASE v # w
    BY <1>2, <2>2 DEF InChannel
  <2> QED
    BY <2>1, <2>2
<1>7. InChannel(i, w, 1) /\ i \in accepted
  BY <1>1, <1>2 DEF InChannel, Places, PlacesAccepted
<1>8. /\ \A v \in Workers, l \in Loops : ~Held(i, v, l)
      /\ \A v \in Workers : \A n \in Nat : InChannel(i, v, n) => v = w /\ n = 1
  BY <1>7 DEF Places, OnePlace, ChannelsDistinct
<1>9. ChannelsDistinct'
  BY <1>6 DEF Places, ChannelsDistinct
<1>10. HoldersDistinct'
  BY <1>5, <1>8 DEF Places, HoldersDistinct
<1>11. \A v \in Workers : \A n \in Nat : ~(InChannel(i, v, n)')
  BY <1>6, <1>8
<1>12. OnePlace'
  BY <1>5, <1>6, <1>11 DEF Places, OnePlace
<1>13. PlacesAccepted'
  BY <1>2, <1>5, <1>6, <1>7 DEF Places, PlacesAccepted
<1>14. status[i] = "queued" /\ executed[i] = 0
  BY <1>7 DEF Untouched
<1>15. Untouched'
  BY <1>2, <1>6 DEF Untouched
<1>16. Goroutines'
  <2> SUFFICES ASSUME NEW v \in Workers, NEW l \in Loops
               PROVE  Consistent(loop[v][l])'
    BY DEF Goroutines
  <2>1. CASE v = w /\ l = k
    <3>1. loop'[v][l] = g
      BY <1>4, <2>1 DEF WorkerTypes
    <3> QED
      BY <1>2, <1>4, <1>14, <3>1 DEF Consistent
  <2>2. CASE ~(v = w /\ l = k)
    <3>1. loop'[v][l] = loop[v][l] /\ Consistent(loop[v][l])
      BY <1>4, <2>2 DEF WorkerTypes, Goroutines
    <3> QED
      BY <1>2, <3>1 DEF Consistent
  <2> QED
    BY <2>1, <2>2
<1>17. /\ ~(Nowhere(i)') /\ ~Nowhere(i)
       /\ \A j \in Instances \ {i} : Nowhere(j)' <=> Nowhere(j)
  <2>1. ~(Nowhere(i)') /\ ~Nowhere(i)
    BY <1>5, <1>7 DEF Nowhere
  <2>2. ASSUME NEW j \in Instances \ {i}
        PROVE  Nowhere(j)' <=> Nowhere(j)
    <3>1. \A v \in Workers, l \in Loops : Held(j, v, l)' <=> Held(j, v, l)
      BY <1>5
    <3>2. ASSUME NEW v \in Workers, NEW n \in Nat, InChannel(j, v, n)
          PROVE  \E m \in Nat : InChannel(j, v, m)'
      <4>1. CASE v # w
        BY <1>6, <3>2, <4>1
      <4>2. CASE v = w
        <5>1. n # 1 /\ n >= 1
          BY <1>1, <2>2, <3>2, <4>2 DEF InChannel
        <5>2. n - 1 \in Nat /\ n - 1 >= 1 /\ (n - 1) + 1 = n
          BY <5>1
        <5> QED
          BY <1>6, <3>2, <4>2, <5>2
      <4> QED
        BY <4>1, <4>2
    <3>3. ASSUME NEW v \in Workers, NEW n \in Nat, InChannel(j, v, n)'
          PROVE  \E m \in Nat : InChannel(j, v, m)
      BY <1>6, <3>3
    <3> QED
      BY <3>1, <3>2, <3>3 DEF Nowhere
  <2> QED
    BY <2>1, <2>2
<1>18. DoneSettled'
  BY <1>2, <1>17 DEF DoneSettled, Settled, WorkerTypes
<1>19. Letters' /\ LettersDistinct'
  BY <1>2, <1>17, LettersSame DEF Only
<1> QED
  BY <1>9, <1>10, <1>12, <1>13, <1>15, <1>16, <1>18, <1>19 DEF Places

\* The steps that touch neither an instance nor its place.
LEMMA QuietStep ==
  ASSUME WorkerInv, WorkerTypes',
         UNCHANGED <<status, accepted, taskCh, dlq, executed, troubled>>,
         \/ loop' = loop
         \/ \E w \in Workers, k \in Loops :
              /\ loop[w][k].at = "select"
              /\ loop' = [loop EXCEPT ![w][k] = [Idle EXCEPT !.at = "gone"]]
  PROVE  WorkerInv'
<1> USE DEF WorkerInv
<1>1. \A w \in Workers, k \in Loops :
        \/ loop'[w][k] = loop[w][k]
        \/ /\ loop[w][k].at = "select" /\ loop'[w][k].at = "gone"
           /\ loop'[w][k].ti = None
  <2>1. PICK h : h = [Idle EXCEPT !.at = "gone"]
    OBVIOUS
  <2>2. h.at = "gone" /\ h.ti = None
    BY <2>1 DEF Idle
  <2>3. CASE \E w \in Workers, k \in Loops :
               /\ loop[w][k].at = "select"
               /\ loop' = [loop EXCEPT ![w][k] = h]
    <3>1. PICK w \in Workers, k \in Loops :
                 /\ loop[w][k].at = "select"
                 /\ loop' = [loop EXCEPT ![w][k] = h]
      BY <2>3
    <3>2. /\ loop'[w][k] = h
          /\ \A v \in Workers, l \in Loops :
               ~(v = w /\ l = k) => loop'[v][l] = loop[v][l]
      BY <3>1 DEF WorkerTypes
    <3> QED
      BY <2>2, <3>1, <3>2
  <2> QED
    BY <2>1, <2>3
<1>2. \A w \in Workers, k \in Loops :
        /\ loop'[w][k].ti = loop[w][k].ti
        /\ Consistent(loop[w][k])'
  <2> SUFFICES ASSUME NEW w \in Workers, NEW k \in Loops
               PROVE  /\ loop'[w][k].ti = loop[w][k].ti
                      /\ Consistent(loop[w][k])'
    OBVIOUS
  <2>1. Consistent(loop[w][k])
    BY DEF Goroutines
  <2> QED
    BY <1>1, <2>1 DEF Consistent
<1>3. Places'
  BY <1>2 DEF Places, ChannelsDistinct, HoldersDistinct, OnePlace,
     PlacesAccepted, InChannel, Held
<1>4. \A i \in Instances : Nowhere(i)' <=> Nowhere(i)
  BY <1>2 DEF Nowhere, InChannel, Held
<1>5. Untouched' /\ Goroutines'
  BY <1>2 DEF Untouched, InChannel, Goroutines
<1>6. DoneSettled'
  BY <1>4 DEF DoneSettled, Settled, WorkerTypes
<1>7. LettersDistinct'
  BY DEF LettersDistinct
<1>8. Letters'
  <2>1. ASSUME NEW v \in Workers, NEW n \in 1..Len(dlq[v]),
               NEW j, j = dlq[v][n][1]
        PROVE  /\ j \in accepted' /\ Nowhere(j)'
               /\ executed'[j] = MaxAttempts[j] /\ dlq[v][n][2] = MaxAttempts[j]
               /\ status'[j] = "failed" \/ j \in troubled'
    BY <1>4, <2>1, LetterType DEF Letters
  <2> QED
    BY <2>1 DEF Letters
<1> QED
  BY <1>3, <1>5, <1>6, <1>7, <1>8

\* A goroutine's update of its instance concerns no other.
LEMMA UpdateOnly ==
  ASSUME WorkerTypes, NEW i \in Instances, NEW s, NEW o, Update(i, s, o),
         executed' = executed
  PROVE  /\ Only(i)
         /\ Applied(o) => status'[i] = s
         /\ ~Applied(o) => status'[i] = status[i]
         /\ Failed(o) => i \in troubled'
BY DEF WorkerTypes, Update, Only

\* failTask of an instance that is Running.
LEMMA FailTaskStep ==
  ASSUME WorkerInv, WorkerTypes', NEW w \in Workers, NEW k \in Loops,
         loop[w][k].at \in {"prepare", "backoff"},
         NEW o \in Outcomes, FailTask(w, k, o)
  PROVE  WorkerInv' /\ LifecycleStep
<1> USE DEF WorkerInv
<1>1. PICK i \in Instances : i = loop[w][k].ti /\ status[i] = "running"
  BY DEF Goroutines, Consistent
<1>2. Releases(w, k, i) /\ dlq' = dlq /\ Only(i)
  BY <1>1, UpdateOnly DEF FailTask, Goto, Releases, poolVars, dispatchVars
<1>3. status'[i] = "failed" \/ (i \in troubled' /\ status'[i] = status[i])
  BY <1>1, UpdateOnly DEF FailTask, Failed, Applied
<1>4. WorkerInv'
  BY <1>2, <1>3, ReleasesStep DEF Settled, Terminal
<1>5. LifecycleStep
  BY <1>1, <1>2, <1>3 DEF LifecycleStep, Only, Terminal
<1> QED
  BY <1>4, <1>5

LEMMA LoopStepInv ==
  ASSUME WorkerInv, WorkerTypes', NEW w \in Workers, NEW k \in Loops,
         LoopStep(w, k)
  PROVE  WorkerInv' /\ LifecycleStep
<1> USE DEF WorkerInv
<1>0. PICK g : g = loop[w][k]
  OBVIOUS
<1>1. g \in Goroutine /\ Consistent(g) /\ loop \in [Workers -> [Loops -> Goroutine]]
  BY <1>0 DEF WorkerTypes, Goroutines
<1>2. CASE Take(w, k)
  BY <1>2, TakeStep DEF Take, LifecycleStep
<1>3. CASE Leave(w, k)
  BY <1>3, QuietStep DEF Leave, Goto, LifecycleStep, poolVars, dispatchVars
<1>4. ASSUME NEW o \in Outcomes, Start(w, k, o)
      PROVE  WorkerInv' /\ LifecycleStep
  <2>1. PICK i \in Instances : i = g.ti
    BY <1>0, <1>1, <1>4 DEF Start, Consistent
  <2>2. /\ g.at = "start" /\ Update(i, "running", o)
        /\ UNCHANGED <<accepted, taskCh, dlq, executed>>
        /\ loop' = [loop EXCEPT ![w][k] =
                      IF Failed(o) THEN Idle ELSE [g EXCEPT !.at = "prepare"]]
    BY <1>0, <1>4, <2>1 DEF Start, Goto, poolVars, dispatchVars
  <2>3. /\ Only(i) /\ status[i] = "queued" /\ executed[i] = 0
        /\ g.attempt = 1 /\ g.res = None
        /\ Applied(o) => status'[i] = "running"
        /\ ~Applied(o) => status'[i] = status[i]
        /\ Failed(o) => i \in troubled'
    BY <1>1, <2>1, <2>2, UpdateOnly DEF Consistent
  <2>4. LifecycleStep
    BY <2>3 DEF LifecycleStep, Only
  <2>5. CASE Failed(o)
    BY <1>0, <2>1, <2>2, <2>3, <2>4, <2>5, ReleasesStep DEF Releases, Settled
  <2>6. CASE ~Failed(o)
    <3>1. PICK h : h = [g EXCEPT !.at = "prepare"]
      OBVIOUS
    <3>2. /\ h \in Goroutine /\ h.at = "prepare" /\ h.ti = i
          /\ h.attempt = 1 /\ h.res = None
      BY <1>1, <2>1, <2>3, <3>1 DEF Goroutine
    <3>3. Consistent(h)'
      BY <2>1, <2>2, <2>3, <2>6, <3>2 DEF Consistent, Failed, Applied
    <3>4. Keeps(w, k, h)
      BY <1>0, <2>1, <2>2, <2>6, <3>1, <3>2 DEF Keeps
    <3> QED
      BY <1>0, <2>1, <2>3, <2>4, <3>3, <3>4, KeepsStep
  <2> QED
    BY <2>5, <2>6
<1>5. CASE Prepare(w, k)
  <2>1. PICK i \in Instances : i = g.ti
    BY <1>0, <1>1, <1>5 DEF Prepare, Consistent
  <2>2. CASE \E o \in Outcomes : FailTask(w, k, o)
    BY <1>5, <2>2, FailTaskStep DEF Prepare
  <2>3. CASE /\ Goto(w, k, [g EXCEPT !.at = IF MaxAttempts[g.ti] > 0
                                              THEN "execute" ELSE "finish"])
             /\ UNCHANGED <<status, poolVars, taskCh, dlq, executed, troubled>>
    <3>1. PICK h : h = [g EXCEPT !.at = IF MaxAttempts[g.ti] > 0
                                              THEN "execute" ELSE "finish"]
      OBVIOUS
    <3>2. /\ g.at = "prepare" /\ executed[i] = 0 /\ g.attempt = 1 /\ g.res = None
          /\ status[i] = "running" /\ MaxAttempts[i] \in Int
      BY <1>0, <1>1, <1>5, <2>1, WorkerAssumption DEF Prepare, Consistent
    <3>3. /\ h \in Goroutine /\ h.ti = i /\ h.attempt = 1 /\ h.res = None
          /\ h.at = IF MaxAttempts[i] > 0 THEN "execute" ELSE "finish"
      BY <1>1, <2>1, <3>1, <3>2 DEF Goroutine
    <3>4. Consistent(h)'
      BY <2>1, <2>3, <3>2, <3>3 DEF Consistent
    <3>5. Keeps(w, k, h)
      BY <1>0, <2>1, <2>3, <3>1, <3>3 DEF Keeps, Goto, poolVars, dispatchVars
    <3>6. Only(i)
      BY <2>3 DEF Only
    <3> QED
      BY <1>0, <2>1, <2>3, <3>4, <3>5, <3>6, KeepsStep DEF LifecycleStep
  <2> QED
    BY <1>0, <1>5, <2>2, <2>3 DEF Prepare
<1>6. ASSUME NEW r \in Terminal \cup {"error"}, Execute(w, k, r)
      PROVE  WorkerInv' /\ LifecycleStep
  <2>1. PICK i \in Instances : i = g.ti
    BY <1>0, <1>1, <1>6 DEF Execute, Consistent
  <2>2. PICK h : h = [g EXCEPT !.res = r,
                 !.at = IF r # "success" /\ g.attempt < MaxAttempts[g.ti]
                          THEN "backoff" ELSE "finish"]
    OBVIOUS
  <2>3. /\ g.at = "execute" /\ executed[i] = g.attempt - 1
        /\ g.attempt <= MaxAttempts[i] /\ g.attempt \in Nat /\ g.attempt >= 1
        /\ status[i] = "running" /\ MaxAttempts[i] \in Int
        /\ executed[i] \in Nat
    BY <1>0, <1>1, <1>6, <2>1, WorkerAssumption
       DEF Execute, Consistent, Goroutine, WorkerTypes
  <2>4. /\ h \in Goroutine /\ h.ti = i /\ h.attempt = g.attempt /\ h.res = r
        /\ h.at = IF r # "success" /\ g.attempt < MaxAttempts[i]
                    THEN "backoff" ELSE "finish"
    BY <1>1, <2>1, <2>2 DEF Goroutine
  <2>5. /\ executed' = [executed EXCEPT ![i] = executed[i] + 1]
        /\ loop' = [loop EXCEPT ![w][k] = h]
        /\ UNCHANGED <<status, accepted, taskCh, dlq, troubled>>
    BY <1>0, <1>6, <2>1, <2>2 DEF Execute, Goto, poolVars, dispatchVars
  <2>6. executed'[i] = g.attempt
    BY <2>3, <2>5 DEF WorkerTypes
  <2>7. Consistent(h)'
    <3>1. r \in {"success", "failed", "cancelled", "error"}
      BY <1>6 DEF Terminal
    <3> QED
      BY <2>3, <2>4, <2>5, <2>6, <3>1 DEF Consistent
  <2>8. Keeps(w, k, h) /\ Only(i)
    BY <1>0, <2>1, <2>4, <2>5 DEF Keeps, Only, WorkerTypes
  <2> QED
    BY <1>0, <2>1, <2>5, <2>7, <2>8, KeepsStep DEF LifecycleStep
<1>7. CASE Backoff(w, k)
  <2>1. PICK i \in Instances : i = g.ti
    BY <1>0, <1>1, <1>7 DEF Backoff, Consistent
  <2>2. CASE \E o \in Outcomes : FailTask(w, k, o)
    BY <1>7, <2>2, FailTaskStep DEF Backoff
  <2>3. CASE /\ Goto(w, k, [g EXCEPT !.attempt = @ + 1, !.at = "execute"])
             /\ UNCHANGED <<status, poolVars, taskCh, dlq, executed, troubled>>
    <3>1. PICK h : h = [g EXCEPT !.attempt = @ + 1, !.at = "execute"]
      OBVIOUS
    <3>2. /\ g.at = "backoff" /\ executed[i] = g.attempt
          /\ g.attempt < MaxAttempts[i] /\ g.attempt \in Nat
          /\ status[i] = "running" /\ MaxAttempts[i] \in Int
      BY <1>0, <1>1, <1>7, <2>1, WorkerAssumption DEF Backoff, Consistent, Goroutine
    <3>3. g.attempt + 1 \in Nat
      BY <3>2
    <3>4. /\ h \in Goroutine /\ h.ti = i /\ h.attempt = g.attempt + 1
          /\ h.at = "execute"
      BY <1>1, <2>1, <3>1, <3>3 DEF Goroutine
    <3>5. Consistent(h)'
      BY <2>1, <2>3, <3>2, <3>4 DEF Consistent
    <3>6. Keeps(w, k, h)
      BY <1>0, <2>1, <2>3, <3>1, <3>4 DEF Keeps, Goto, poolVars, dispatchVars
    <3>7. Only(i)
      BY <2>3 DEF Only
    <3> QED
      BY <1>0, <2>1, <2>3, <3>5, <3>6, <3>7, KeepsStep DEF LifecycleStep
  <2> QED
    BY <1>0, <1>7, <2>2, <2>3 DEF Backoff
<1>8. ASSUME NEW o \in Outcomes, Finish(w, k, o)
      PROVE  WorkerInv' /\ LifecycleStep
  <2>1. PICK i \in Instances : i = g.ti
    BY <1>0, <1>1, <1>8 DEF Finish, Consistent
  <2>2. PICK s : s = FinalStatus(g.res)
    OBVIOUS
  <2>3. /\ g.at = "finish" /\ Update(i, s, o)
        /\ UNCHANGED <<accepted, taskCh, dlq, executed>>
        /\ loop' = [loop EXCEPT ![w][k] =
                      IF s = "failed" THEN [g EXCEPT !.at = "bury"] ELSE Idle]
    BY <1>0, <1>8, <2>1, <2>2 DEF Finish, Goto, poolVars, dispatchVars
  <2>4. /\ status[i] = "running"
        /\ \/ s = "running" /\ MaxAttempts[i] <= 0
           \/ s \in {"success", "cancelled"}
           \/ /\ s = "failed" /\ g.attempt >= 1
              /\ executed[i] = g.attempt /\ g.attempt = MaxAttempts[i]
    BY <1>1, <2>1, <2>2, <2>3 DEF Consistent, FinalStatus, None
  <2>5. /\ Only(i)
        /\ Applied(o) => status'[i] = s
        /\ ~Applied(o) => status'[i] = status[i]
        /\ Failed(o) => i \in troubled'
        /\ ~Failed(o) => Applied(o)
    BY <2>3, UpdateOnly DEF Failed, Applied
  <2>6. LifecycleStep
    BY <2>4, <2>5 DEF LifecycleStep, Only, Terminal
  <2>7. CASE s = "failed"
    <3>1. PICK h : h = [g EXCEPT !.at = "bury"]
      OBVIOUS
    <3>2. /\ h \in Goroutine /\ h.ti = i /\ h.attempt = g.attempt
          /\ h.at = "bury"
      BY <1>1, <2>1, <3>1 DEF Goroutine
    <3>3. Consistent(h)'
      BY <2>3, <2>4, <2>5, <2>7, <3>2 DEF Consistent
    <3>4. Keeps(w, k, h)
      BY <1>0, <2>1, <2>3, <2>7, <3>1, <3>2 DEF Keeps
    <3> QED
      BY <1>0, <2>1, <2>5, <2>6, <3>3, <3>4, KeepsStep
  <2>8. CASE s # "failed"
    <3>1. Settled(i)'
      BY <2>4, <2>5, <2>8 DEF Settled, Terminal
    <3>2. Releases(w, k, i) /\ dlq' = dlq
      BY <1>0, <2>1, <2>3, <2>8 DEF Releases
    <3> QED
      BY <2>5, <2>6, <3>1, <3>2, ReleasesStep
  <2> QED
    BY <2>7, <2>8
<1>9. CASE Bury(w, k)
  BY <1>9, BuryStep DEF Bury, LifecycleStep
<1> QED
  BY <1>2, <1>3, <1>4, <1>5, <1>6, <1>7, <1>8, <1>9 DEF LoopStep

LEMMA WorkerNext ==
  ASSUME WorkerInv, [Next]_vars
  PROVE  WorkerInv' /\ (LifecycleStep \/ UNCHANGED vars)
<1>1. WorkerTypes'
  BY WorkerTypesStep
<1>2. CASE UNCHANGED vars
  BY <1>1, <1>2, QuietStep DEF vars, poolVars, dispatchVars
<1>3. ASSUME NEW i \in Instances, NEW w \in Workers, Dispatch(i, w) \/ TryNext(i, w)
      PROVE  WorkerInv' /\ LifecycleStep
  <2>1. LifecycleStep
    BY <1>3 DEF Dispatch, TryNext, LifecycleStep
  <2> QED
    BY <1>1, <1>3, <2>1, DispatchStep, QuietStep DEF TryNext
<1>4. ASSUME NEW w \in Workers, NEW k \in Loops, LoopStep(w, k)
      PROVE  WorkerInv' /\ LifecycleStep
  BY <1>1, <1>4, LoopStepInv
<1>5. CASE CancelContext \/ \E w \in Workers : StopStep(w)
  BY <1>1, <1>5, QuietStep DEF CancelContext, StopStep, CloseStopCh, Wait,
     dispatchVars, LifecycleStep
<1> QED
  BY <1>2, <1>3, <1>4, <1>5 DEF Next

LEMMA WorkerInit ==
  ASSUME Init
  PROVE  WorkerInv
<1> USE DEF Init
<1>1. \A w \in Workers, k \in Loops : loop[w][k] = Idle
  OBVIOUS
<1>2. \A w \in Workers : Len(taskCh[w]) = 0 /\ Len(dlq[w]) = 0
  OBVIOUS
<1>3. \A i \in Instances, w \in Workers, k \in Loops : ~Held(i, w, k)
  BY <1>1, IdleGoroutine, NoneNoInstance DEF Held
<1>4. \A i \in Instances, w \in Workers : \A n \in Nat : ~InChannel(i, w, n)
  BY <1>2 DEF InChannel
<1>5. WorkerTypes
  <2>1. QueueSize \in Nat
    BY WorkerAssumption DEF QueueSize
  <2> QED
    BY <1>2, <2>1, IdleGoroutine DEF WorkerTypes
<1>6. Places
  BY <1>3, <1>4 DEF Places, ChannelsDistinct, HoldersDistinct, OnePlace,
     PlacesAccepted
<1>7. Untouched /\ DoneSettled
  BY DEF Untouched, DoneSettled
<1>8. Goroutines
  BY <1>1, IdleGoroutine DEF Goroutines
<1>9. Letters /\ LettersDistinct
  BY <1>2 DEF Letters, LettersDistinct
<1> QED
  BY <1>5, <1>6, <1>7, <1>8, <1>9 DEF WorkerInv

LEMMA WorkerInvariant == Spec => []WorkerInv
BY WorkerInit, WorkerNext, PTL DEF Spec

\* A set without two different elements.
LEMMA AtMostOne ==
  ASSUME NEW S, \A a, b \in S : a = b
  PROVE  Cardinality(S) \in {0, 1} /\ (S = {} => Cardinality(S) = 0)
<1>1. CASE S = {}
  BY <1>1, FS_EmptySet
<1>2. CASE S # {}
  <2>1. PICK a : S = {a}
    BY <1>2
  <2> QED
    BY <2>1, FS_Singleton
<1> QED
  BY <1>1, <1>2

\* No accepted instance is lost or with two goroutines, for any number of
\* workers and goroutines and any order of Dispatch, Stop and store errors.
THEOREM AcceptedTheorem == Spec => []AcceptedIsKept
<1>1. ASSUME WorkerInv, NEW i \in accepted
      PROVE  /\ Cardinality(Holders(i)) + Cardinality(Waiting(i)) <= 1
             /\ \/ Holders(i) \cup Waiting(i) # {}
                \/ status[i] \in Terminal
                \/ i \in troubled
                \/ MaxAttempts[i] <= 0 /\ status[i] = "running"
  <2>0. i \in Instances
    BY <1>1 DEF WorkerInv, WorkerTypes
  <2>1. \A a, b \in Holders(i) : a = b
    BY <1>1, <2>0 DEF Holders, WorkerInv, Places, HoldersDistinct, Held
  <2>2. \A a \in Waiting(i) : /\ InChannel(i, a[1], a[2]) /\ a[2] \in Nat
                              /\ a \in Workers \X Nat
    <3> SUFFICES ASSUME NEW a \in Waiting(i)
                 PROVE  /\ InChannel(i, a[1], a[2]) /\ a[2] \in Nat
                        /\ a \in Workers \X Nat
      OBVIOUS
    <3>1. /\ a \in Workers \X (1..QueueSize) /\ a[2] <= Len(taskCh[a[1]])
          /\ taskCh[a[1]][a[2]] = i
      BY DEF Waiting
    <3>2. a[1] \in Workers /\ a[2] \in Nat /\ a[2] >= 1 /\ Len(taskCh[a[1]]) \in Nat
      BY <1>1, <3>1, WorkerAssumption DEF QueueSize, WorkerInv, WorkerTypes
    <3> QED
      BY <3>1, <3>2 DEF InChannel
  <2>3. \A a, b \in Waiting(i) : a = b
    <3> SUFFICES ASSUME NEW a \in Waiting(i), NEW b \in Waiting(i)
                 PROVE  a = b
      OBVIOUS
    <3>1. a[1] = b[1] /\ a[2] = b[2]
      BY <1>1, <2>0, <2>2 DEF WorkerInv, Places, ChannelsDistinct
    <3> QED
      BY <2>2, <3>1
  <2>4. Holders(i) = {} \/ Waiting(i) = {}
    <3> SUFFICES ASSUME NEW a \in Holders(i), NEW b \in Waiting(i)
                 PROVE  FALSE
      OBVIOUS
    <3>1. Held(i, a[1], a[2]) /\ a[1] \in Workers /\ a[2] \in Loops
      BY DEF Holders, Held
    <3> QED
      BY <1>1, <2>0, <2>2, <3>1 DEF WorkerInv, Places, OnePlace
  <2>5. Cardinality(Holders(i)) + Cardinality(Waiting(i)) <= 1
    <3>1. /\ Cardinality(Holders(i)) \in {0, 1}
          /\ Cardinality(Waiting(i)) \in {0, 1}
          /\ Holders(i) = {} => Cardinality(Holders(i)) = 0
          /\ Waiting(i) = {} => Cardinality(Waiting(i)) = 0
      BY <2>1, <2>3, AtMostOne
    <3> QED
      BY <2>4, <3>1
  <2>6. ASSUME Holders(i) = {}, Waiting(i) = {}
        PROVE  Settled(i)
    <3>1. ASSUME NEW w \in Workers, NEW k \in Loops, Held(i, w, k)
          PROVE  FALSE
      <4>1. <<w, k>> \in Holders(i)
        BY <3>1 DEF Holders, Held
      <4> QED
        BY <2>6, <4>1
    <3>2. ASSUME NEW w \in Workers, NEW n \in Nat, InChannel(i, w, n)
          PROVE  FALSE
      <4>1. n \in 1..QueueSize /\ n <= Len(taskCh[w]) /\ taskCh[w][n] = i
        <5>1. Len(taskCh[w]) \in Nat /\ Len(taskCh[w]) <= QueueSize /\ QueueSize \in Nat
          BY <1>1, WorkerAssumption DEF WorkerInv, WorkerTypes, QueueSize
        <5> QED
          BY <3>2, <5>1 DEF InChannel
      <4>2. <<w, n>> \in Waiting(i)
        BY <4>1 DEF Waiting
      <4> QED
        BY <2>6, <4>2
    <3>3. Nowhere(i)
      BY <3>1, <3>2 DEF Nowhere
    <3> QED
      BY <1>1, <3>3 DEF WorkerInv, DoneSettled
  <2> QED
    BY <2>5, <2>6 DEF Settled
<1>2. WorkerInv => AcceptedIsKept
  BY <1>1 DEF AcceptedIsKept
<1> QED
  BY <1>2, WorkerInvariant, PTL

\* A dead letter is a task whose attempts are used up, and there is one for
\* an instance, whichever workers and goroutines have tried it.
THEOREM DeadLetterTheorem == Spec => []DeadLettersExhausted
<1>1. WorkerInv => DeadLettersExhausted
  BY DEF WorkerInv, Letters, LettersDistinct, DeadLettersExhausted
<1> QED
  BY <1>1, WorkerInvariant, PTL

\* The workers' writes of a status go Queued, Running, terminal, once each.
THEOREM LifecycleTheorem == Spec => Lifecycle
<1>1. WorkerInv /\ [Next]_vars => [LifecycleStep]_vars
  BY WorkerNext
<1> QED
  BY <1>1, WorkerInvariant, PTL DEF Spec, Lifecycle
=============================================================================
