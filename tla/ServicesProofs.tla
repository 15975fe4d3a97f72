--------------------------- MODULE ServicesProofs ---------------------------
(***************************************************************************)
(* The dead letter queue for every capacity, set of entries and number of  *)
(* pushes; Policy.Do and Delay for every policy; the server's shutdown for *)
(* any number of connections.                                              *)
(***************************************************************************)
EXTENDS DeadLetterQueue, RetryPolicy, Server, Iteration, TLAPS

-----------------------------------------------------------------------------
(* The dead letter queue: HoldsLatest is inductive together with the types *)

\* The inductive invariant of the queue.
DLQInv == DLQTypeOK /\ HoldsLatest

\* Push keeps the queue equal to the tail of what was pushed, with and
\* without an eviction.
LEMMA DLQPush ==
  ASSUME DLQInv, NEW e \in Entries, Push(e)
  PROVE  DLQInv'
<1> USE DLQAssumption
<1>1. DLQTypeOK'
  BY DEF DLQInv, DLQTypeOK, HoldsLatest, Push, PushTo
<1>4. /\ Len(entries) \in Nat /\ Len(pushed) \in Nat /\ gone \in Nat
      /\ Len(entries) <= MaxSize
      /\ Len(pushed) = gone + Len(entries)
      /\ pushed' = Append(pushed, e) /\ Len(pushed') = Len(pushed) + 1
  <2>1. /\ Len(entries) \in Nat /\ Len(pushed) \in Nat /\ gone \in Nat
    BY DEF DLQInv, DLQTypeOK
  <2>2. pushed' = Append(pushed, e) /\ Len(pushed') = Len(pushed) + 1
    BY DEF DLQInv, DLQTypeOK, Push
  <2> QED  BY <2>1, <2>2 DEF DLQInv, HoldsLatest
<1>2. CASE Len(entries) >= MaxSize
  <2>1. /\ entries # <<>>
        /\ entries' = Append(Tail(entries), e)
        /\ Len(entries') = Len(entries)
        /\ gone' = gone + 1
        /\ pushed' = Append(pushed, e)
    BY <1>2 DEF DLQInv, DLQTypeOK, Push, PushTo
  <2>2. /\ Len(entries') <= MaxSize
        /\ Len(pushed') = gone' + Len(entries')
    BY <1>4, <2>1
  <2>3. ASSUME NEW i \in 1..Len(entries')
        PROVE  entries'[i] = pushed'[gone' + i]
    <3>1. CASE i = Len(entries)
      <4>1. entries'[i] = e
        BY <2>1, <3>1 DEF DLQInv, DLQTypeOK
      <4>2. gone' + i = Len(pushed) + 1
        BY <2>1, <3>1 DEF DLQInv, DLQTypeOK, HoldsLatest
      <4>3. pushed'[Len(pushed) + 1] = e
        BY <2>1 DEF DLQInv, DLQTypeOK
      <4> QED  BY <4>1, <4>2, <4>3
    <3>2. CASE i # Len(entries)
      <4>1. i \in 1..(Len(entries) - 1)
        <5>1. i \in 1..Len(entries) /\ Len(entries) \in Nat
          BY <1>4, <2>1, <2>3
        <5> QED  BY <3>2, <5>1
      <4>2. entries'[i] = entries[i + 1]
        BY <2>1, <4>1 DEF DLQInv, DLQTypeOK
      <4>3. entries[i + 1] = pushed[gone + (i + 1)]
        <5>1. i + 1 \in 1..Len(entries)
          BY <1>4, <4>1
        <5> QED  BY <5>1 DEF DLQInv, HoldsLatest
      <4>4. gone' + i = gone + (i + 1) /\ gone + (i + 1) \in 1..Len(pushed)
        BY <1>4, <2>1, <4>1
      <4>5. pushed'[gone + (i + 1)] = pushed[gone + (i + 1)]
        BY <2>1, <4>4 DEF DLQInv, DLQTypeOK
      <4> QED  BY <4>2, <4>3, <4>4, <4>5
    <3> QED  BY <3>1, <3>2
  <2> QED  BY <1>1, <2>2, <2>3 DEF DLQInv, HoldsLatest
<1>3. CASE Len(entries) < MaxSize
  <2>1. /\ entries' = Append(entries, e)
        /\ gone' = gone
        /\ pushed' = Append(pushed, e)
    BY <1>3 DEF DLQInv, DLQTypeOK, Push, PushTo
  <2>4. Len(entries') = Len(entries) + 1
    BY <2>1 DEF DLQInv, DLQTypeOK
  <2>2. /\ Len(entries') <= MaxSize
        /\ Len(pushed') = gone' + Len(entries')
    BY <1>3, <1>4, <2>1, <2>4
  <2>3. ASSUME NEW i \in 1..Len(entries')
        PROVE  entries'[i] = pushed'[gone' + i]
    <3>1. CASE i = Len(entries) + 1
      <4>1. gone' + i = Len(pushed) + 1
        BY <2>1, <3>1 DEF DLQInv, DLQTypeOK, HoldsLatest
      <4> QED  BY <2>1, <3>1, <4>1 DEF DLQInv, DLQTypeOK
    <3>2. CASE i \in 1..Len(entries)
      <4>1. entries'[i] = entries[i] /\ entries[i] = pushed[gone + i]
        BY <2>1, <3>2 DEF DLQInv, DLQTypeOK, HoldsLatest
      <4>2. gone + i \in 1..Len(pushed)
        BY <3>2 DEF DLQInv, DLQTypeOK, HoldsLatest
      <4>3. pushed'[gone + i] = pushed[gone + i]
        BY <2>1, <4>2 DEF DLQInv, DLQTypeOK
      <4> QED  BY <2>1, <4>1, <4>3
    <3>3. i \in 1..(Len(entries) + 1) /\ Len(entries) \in Nat
      BY <1>4, <2>3, <2>4
    <3>4. i = Len(entries) + 1 \/ i \in 1..Len(entries)
      BY <3>3
    <3> QED  BY <3>1, <3>2, <3>4
  <2> QED  BY <1>1, <2>2, <2>3 DEF DLQInv, HoldsLatest
<1> QED  BY <1>2, <1>3 DEF DLQInv, DLQTypeOK

\* DLQInv is inductive.
LEMMA DLQStep == DLQInv /\ [DLQNext]_dlqVars => DLQInv'
<1> SUFFICES ASSUME DLQInv, [DLQNext]_dlqVars PROVE DLQInv'
  OBVIOUS
<1>1. CASE Pop
  <2>1. /\ entries' = Tail(entries) /\ Len(entries') = Len(entries) - 1
        /\ Len(entries) > 0
        /\ gone' = gone + 1 /\ pushed' = pushed
    BY <1>1 DEF DLQInv, DLQTypeOK, Pop
  <2>2. DLQTypeOK'
    BY <1>1 DEF DLQInv, DLQTypeOK, Pop
  <2>3. /\ Len(entries') <= MaxSize
        /\ Len(pushed') = gone' + Len(entries')
    BY <2>1, DLQAssumption DEF DLQInv, DLQTypeOK, HoldsLatest
  <2>4. ASSUME NEW i \in 1..Len(entries')
        PROVE  entries'[i] = pushed'[gone' + i]
    <3>1. i + 1 \in 1..Len(entries) /\ entries'[i] = entries[i + 1]
      BY <2>1 DEF DLQInv, DLQTypeOK
    <3>2. entries[i + 1] = pushed[gone + (i + 1)]
      BY <3>1 DEF DLQInv, HoldsLatest
    <3>3. gone' + i = gone + (i + 1)
      BY <2>1 DEF DLQInv, DLQTypeOK
    <3> QED  BY <2>1, <3>1, <3>2, <3>3
  <2> QED  BY <2>2, <2>3, <2>4 DEF DLQInv, HoldsLatest
<1>2. CASE Clear
  BY <1>2, DLQAssumption DEF DLQInv, DLQTypeOK, HoldsLatest, Clear
<1>3. CASE UNCHANGED dlqVars
  BY <1>3 DEF DLQInv, DLQTypeOK, HoldsLatest, dlqVars
<1> QED  BY <1>1, <1>2, <1>3, DLQPush DEF DLQNext

\* The dead letter queue always holds exactly the most recent entries that
\* were not popped or cleared, in push order, within its capacity.
THEOREM DLQCorrect == DLQSpec => []HoldsLatest
<1>1. DLQInit => DLQInv
  BY DLQAssumption DEF DLQInit, DLQInv, DLQTypeOK, HoldsLatest
<1>2. DLQInv => HoldsLatest
  BY DEF DLQInv
<1> QED  BY <1>1, <1>2, DLQStep, PTL DEF DLQSpec
-----------------------------------------------------------------------------
(* What Policy.Do returns *)

\* While Do has not returned, the loop variable counts the calls made, all of
\* which failed, and an attempt that was begun or is due is within
\* MaxRetries.
DoInv ==
  /\ policy \in Policies
  /\ at \in {"loop", "wait", "call", "returned"}
  /\ attempt \in Nat /\ calls \in Nat
  /\ at # "returned" => /\ answer = "none"
                        /\ calls = attempt
                        /\ lastErr # "ok"
  /\ at \in {"wait", "call"} \/ attempt > 0 => attempt <= policy.maxRetries
  /\ AnswerIsTrue

\* Do starts with nothing called.
LEMMA DoInvInit == DoInit => DoInv
  BY DEF DoInit, DoInv, AnswerIsTrue

\* DoInv is inductive.
LEMMA DoInvNext == DoInv /\ [DoNext]_doVars => DoInv'
<1> SUFFICES ASSUME DoInv, [DoNext]_doVars PROVE DoInv'
  OBVIOUS
<1>1. policy \in Policies /\ policy.maxRetries \in Int
  BY RetryAssumption DEF DoInv
<1>2. CASE Attempt
  BY <1>1, <1>2 DEF Attempt, DoInv, AnswerIsTrue
<1>3. CASE NoAttempt
  BY <1>1, <1>3 DEF NoAttempt, Answer, DoInv, AnswerIsTrue
<1>4. CASE Wait
  BY <1>1, <1>4 DEF Wait, Answer, DoInv, AnswerIsTrue
<1>5. ASSUME NEW err \in Answers, Call(err) PROVE DoInv'
  <2>1. /\ at = "call" /\ calls' = calls + 1 /\ lastErr' = err
        /\ policy' = policy /\ attempt <= policy.maxRetries /\ calls = attempt
    BY <1>5 DEF Call, DoInv
  <2>2. CASE err = "ok"
    BY <1>1, <1>5, <2>1, <2>2 DEF Call, Answer, DoInv, AnswerIsTrue
  <2>3. CASE err # "ok" /\ ShouldRetry(policy, attempt, err)
    <3>1. attempt + 1 <= policy.maxRetries
      BY <1>1, <2>3 DEF ShouldRetry, DoInv
    <3> QED
      BY <1>1, <1>5, <2>1, <2>3, <3>1 DEF Call, DoInv, AnswerIsTrue
  <2>4. CASE err # "ok" /\ ~ShouldRetry(policy, attempt, err)
    <3>1. \/ attempt = policy.maxRetries
          \/ policy.check /\ err = "fatal"
      BY <1>1, <2>1, <2>4 DEF ShouldRetry, Answers, DoInv
    <3> QED
      BY <1>1, <1>5, <2>1, <2>4, <3>1 DEF Call, Answer, DoInv, AnswerIsTrue
  <2> QED  BY <2>2, <2>3, <2>4
<1>6. CASE CancelDo
  BY <1>1, <1>6 DEF CancelDo, DoInv, AnswerIsTrue
<1>7. CASE UNCHANGED doVars
  BY <1>7 DEF doVars, DoInv, AnswerIsTrue
<1> QED  BY <1>2, <1>3, <1>4, <1>5, <1>6, <1>7 DEF DoNext, DoStep

\* Do never reports a success that did not happen, retries that were not
\* made or a cancellation that was none, for every policy, however often fn
\* fails and whenever the context is cancelled.
THEOREM DoIsTruthful == DoSpec => []AnswerIsTrue
<1>1. DoInv => AnswerIsTrue
  BY DEF DoInv
<1> QED  BY <1>1, DoInvInit, DoInvNext, PTL DEF DoSpec
-----------------------------------------------------------------------------
(* What it waits for *)

\* A power is defined by the recursion Pow is written with.
LEMMA PowStep ==
  ASSUME NEW x \in Int
  PROVE  /\ Pow(x, 0) = 1
         /\ \A n \in Nat : Pow(x, n) \in Int /\ Pow(x, n + 1) = x * Pow(x, n)
<1> DEFINE S == Int
           F == [y \in S |-> x * y]
           power == CHOOSE r : r = [k \in Nat |-> IF k = 0 THEN 1 ELSE x * r[k - 1]]
<1>1. \A n \in Nat : Pow(x, n) = power[n]
  BY DEF Pow
<1>2. F \in [S -> S] /\ 1 \in S
  <2>1. \A y \in S : x * y \in S
    OBVIOUS
  <2> QED
    BY <2>1
<1>3. PICK r \in [Nat -> S] : r = [k \in Nat |-> IF k = 0 THEN 1 ELSE F[r[k - 1]]]
  <2> HIDE DEF S, F
  <2> QED
    BY <1>2, IterationExists
<1>4. \A k \in Nat : k # 0 => k - 1 \in Nat /\ F[r[k - 1]] = x * r[k - 1]
  OBVIOUS
<1>5. r = [k \in Nat |-> IF k = 0 THEN 1 ELSE x * r[k - 1]]
  BY <1>3, <1>4
<1>6. power = [k \in Nat |-> IF k = 0 THEN 1 ELSE x * power[k - 1]]
  BY <1>5, Zenon
<1> HIDE DEF power
<1>7. power[0] = 1
  BY <1>6
<1>8. \A k \in Nat : power[k + 1] = x * power[k]
  <2> TAKE k \in Nat
  <2>1. k + 1 \in Nat /\ k + 1 # 0 /\ (k + 1) - 1 = k
    OBVIOUS
  <2> QED
    BY <1>6, <2>1
<1> DEFINE B == {k \in Nat : power[k] \notin Int}
<1>9. B = {}
  <2> SUFFICES ASSUME B # {} PROVE FALSE
    OBVIOUS
  <2>1. PICK k \in B : \A m \in B : k <= m
    <3>1. B \in SUBSET Nat
      OBVIOUS
    <3> HIDE DEF B
    <3> QED
      BY <3>1, NatMin
  <2>2. k \in Nat /\ k # 0
    BY <1>7, <2>1
  <2>3. k - 1 \in Nat /\ ~(k <= k - 1) /\ (k - 1) + 1 = k
    BY <2>2
  <2>4. power[k - 1] \in Int
    BY <2>1, <2>3
  <2>5. power[k] = x * power[k - 1]
    BY <1>8, <2>3
  <2> QED
    BY <2>1, <2>4, <2>5
<1> QED
  BY <1>1, <1>7, <1>8, <1>9

\* Powers of natural numbers keep their order.
LEMMA PowOrder ==
  ASSUME NEW x \in Nat, NEW y \in Nat, x <= y, NEW n \in Nat
  PROVE  Pow(x, n) \in Nat /\ Pow(y, n) \in Nat /\ Pow(x, n) <= Pow(y, n)
<1> DEFINE Ordered(k) == /\ Pow(x, k) \in Nat /\ Pow(y, k) \in Nat
                         /\ Pow(x, k) <= Pow(y, k)
           B == {k \in Nat : ~Ordered(k)}
<1> SUFFICES ASSUME B # {} PROVE FALSE
  OBVIOUS
<1>1. PICK k \in B : \A m \in B : k <= m
  <2>1. B \in SUBSET Nat
    OBVIOUS
  <2> HIDE DEF B
  <2> QED
    BY <2>1, NatMin
<1>2. k \in Nat /\ k # 0
  <2>1. x \in Int /\ y \in Int
    OBVIOUS
  <2>2. Pow(x, 0) = 1 /\ Pow(y, 0) = 1
    BY <2>1, PowStep
  <2>3. Ordered(0)
    BY <2>2
  <2> QED
    BY <1>1, <2>3
<1>3. PICK m \in Nat : m = k - 1 /\ m + 1 = k /\ ~(k <= m)
  <2>1. k - 1 \in Nat /\ (k - 1) + 1 = k /\ ~(k <= k - 1)
    BY <1>2
  <2> QED
    BY <2>1
<1>4. PICK u \in Nat, v \in Nat : u = Pow(x, m) /\ v = Pow(y, m) /\ u <= v
  BY <1>1, <1>3
<1>5. Pow(x, k) = x * u /\ Pow(y, k) = y * v
  BY <1>3, <1>4, PowStep
<1>6. x * u \in Nat /\ y * v \in Nat /\ x * u <= y * v
  BY <1>4, TimesOrder, Zenon
<1> QED
  BY <1>1, <1>5, <1>6

\* Powers of a positive number are positive.
LEMMA PowPositive ==
  ASSUME NEW x \in Nat \ {0}, NEW n \in Nat
  PROVE  Pow(x, n) \in Nat \ {0}
<1> DEFINE B == {k \in Nat : Pow(x, k) \notin Nat \ {0}}
<1> SUFFICES ASSUME B # {} PROVE FALSE
  OBVIOUS
<1>1. PICK k \in B : \A m \in B : k <= m
  <2>1. B \in SUBSET Nat
    OBVIOUS
  <2> HIDE DEF B
  <2> QED
    BY <2>1, NatMin
<1>2. k \in Nat /\ k # 0
  <2>1. x \in Int /\ 1 \in Nat \ {0}
    OBVIOUS
  <2>2. Pow(x, 0) = 1
    BY <2>1, PowStep
  <2> QED
    BY <1>1, <2>1, <2>2
<1>3. PICK m \in Nat : m = k - 1 /\ m + 1 = k /\ ~(k <= m)
  <2>1. k - 1 \in Nat /\ (k - 1) + 1 = k /\ ~(k <= k - 1)
    BY <1>2
  <2> QED
    BY <2>1
<1>4. PICK u \in Nat \ {0} : u = Pow(x, m)
  BY <1>1, <1>3
<1>5. Pow(x, k) = x * u
  BY <1>3, <1>4, PowStep
<1>6. x * u \in Nat \ {0}
  BY <1>4, TimesOrder
<1> QED
  BY <1>1, <1>5, <1>6

\* What is converted is an integer; a product of a factor z / y at least one
\* has not become smaller, one of a factor at most one not larger.
LEMMA TruncatedBounds ==
  ASSUME NEW x \in Int, NEW y \in Nat \ {0}
  PROVE  /\ Truncated(x, y) \in Int
         /\ x >= 0 => Truncated(x, y) >= 0
         /\ \A a \in Nat : x >= a * y => Truncated(x, y) >= a
         /\ \A a \in Nat : x >= 0 /\ x <= a * y => Truncated(x, y) <= a
<1>1. \A z \in Int : z \div y \in Int
  OBVIOUS
<1>2. Truncated(x, y) \in Int
  BY <1>1 DEF Truncated
<1>3. ASSUME x >= 0
      PROVE  /\ x \div y >= 0
             /\ \A a \in Nat : x >= a * y => x \div y >= a
             /\ \A a \in Nat : x <= a * y => x \div y <= a
  <2>1. PICK q \in Int, s \in Nat : q = x \div y /\ x = y * q + s /\ s < y
    <3>1. x = y * (x \div y) + (x % y) /\ x % y \in 0..(y - 1)
      OBVIOUS
    <3> QED
      BY <1>1, <3>1
  <2>2. \A a \in Int : x >= a * y => q >= a
    <3> SUFFICES ASSUME NEW a \in Int, x >= a * y, ~(q >= a) PROVE FALSE
      OBVIOUS
    <3>1. PICK e \in Nat : a = q + 1 + e
      <4>1. a - q - 1 \in Nat /\ a = q + 1 + (a - q - 1)
        OBVIOUS
      <4> QED
        BY <4>1
    <3>2. a * y = y * q + y + y * e /\ y * e >= 0
      BY <3>1
    <3> QED
      BY <2>1, <3>2
  <2>3. \A a \in Int : x <= a * y => q <= a
    <3> SUFFICES ASSUME NEW a \in Int, x <= a * y, ~(q <= a) PROVE FALSE
      OBVIOUS
    <3>1. PICK e \in Nat : q = a + 1 + e
      <4>1. q - a - 1 \in Nat /\ q = a + 1 + (q - a - 1)
        OBVIOUS
      <4> QED
        BY <4>1
    <3>2. y * q = a * y + y + y * e /\ y * e >= 0
      BY <3>1
    <3> QED
      BY <2>1, <3>2
  <2>4. q >= 0
    BY <1>3, <2>2
  <2> QED
    BY <2>1, <2>2, <2>3, <2>4
<1>4. \A a \in Nat : a * y >= 0
  BY TimesOrder
<1>5. CASE x >= 0
  BY <1>2, <1>3, <1>5 DEF Truncated
<1>6. CASE ~(x >= 0)
  BY <1>2, <1>4, <1>6
<1> QED
  BY <1>5, <1>6

\* The fields of a policy.
LEMMA PolicyFields ==
  ASSUME NEW p \in Policies
  PROVE  /\ MaxInt \in Nat \ {0} /\ p.initial \in Int /\ p.max \in Int
         /\ p.initial <= MaxInt /\ p.factor \in Int /\ p.per \in Nat \ {0}
         /\ p.strategy \in Strategies
  BY RetryAssumption DEF MinInt

\* The product of the strategy is an integer; that of a policy that grows or
\* shrinks is not negative, an exponential one that grows is no less than
\* InitialBackoff, and one that shrinks no more.
LEMMA ProductBounds ==
  ASSUME NEW p \in Policies, NEW n \in Nat
  PROVE  /\ Product(p, n) \in Int
         /\ Grows(p) /\ p.strategy \in {"exponential", "linear"} => Product(p, n) >= 0
         /\ Grows(p) /\ p.strategy = "exponential" => Product(p, n) >= p.initial
         /\ Shrinks(p) => Product(p, n) <= p.initial
<1>1. PICK i \in Int, f \in Int, y \in Nat \ {0} :
        i = p.initial /\ f = p.factor /\ y = p.per
  BY PolicyFields
<1>2. CASE p.strategy = "exponential"
  <2>1. PICK g \in Int, z \in Nat \ {0} : g = Pow(f, n) /\ z = Pow(y, n)
    BY PowStep, PowPositive
  <2>2. PICK x \in Int : x = i * g
    OBVIOUS
  <2>3. Product(p, n) = Truncated(x, z)
    BY <1>1, <1>2, <2>1, <2>2 DEF Product
  <2>4. Truncated(x, z) \in Int
    BY TruncatedBounds
  <2>5. ASSUME i >= 0, f >= y
        PROVE  Truncated(x, z) >= i
    <3>1. f \in Nat /\ y \in Nat /\ y <= f /\ i \in Nat
      BY <2>5
    <3>2. g \in Nat /\ z <= g
      BY <2>1, <3>1, PowOrder
    <3>3. i * z <= i * g
      BY <3>1, <3>2, TimesOrder
    <3> QED
      BY <2>2, <3>1, <3>3, TruncatedBounds
  <2>6. ASSUME i >= 0, f \in 0..y
        PROVE  Truncated(x, z) <= i
    <3>1. f \in Nat /\ y \in Nat /\ f <= y /\ i \in Nat
      BY <2>6
    <3>2. g \in Nat /\ g <= z
      BY <2>1, <3>1, PowOrder
    <3>3. i * g <= i * z /\ i * g >= 0
      BY <3>1, <3>2, TimesOrder
    <3> QED
      BY <2>2, <3>1, <3>3, TruncatedBounds
  <2>7. Grows(p) => i >= 0 /\ f >= y
    BY <1>1, <1>2 DEF Grows
  <2>8. Shrinks(p) => i >= 0 /\ f \in 0..y
    BY <1>1 DEF Shrinks
  <2>9. Grows(p) => Product(p, n) >= i /\ Product(p, n) >= 0
    BY <2>3, <2>4, <2>5, <2>7
  <2>10. Shrinks(p) => Product(p, n) <= i
    BY <2>3, <2>6, <2>8
  <2> QED
    BY <1>1, <2>3, <2>4, <2>9, <2>10
<1>3. CASE p.strategy # "exponential"
  <2>1. PICK x \in Int : x = i * f * n
    OBVIOUS
  <2>2. Product(p, n) = Truncated(x, y)
    BY <1>1, <1>3, <2>1 DEF Product
  <2>3. Truncated(x, y) \in Int /\ (x >= 0 => Truncated(x, y) >= 0)
    BY TruncatedBounds
  <2>4. ASSUME i >= 0, f >= 0
        PROVE  x >= 0
    <3>1. i \in Nat /\ f \in Nat
      BY <2>4
    <3>2. PICK w \in Nat : w = i * f
      BY <3>1, TimesOrder
    <3>3. w * n \in Nat
      BY TimesOrder
    <3> QED
      BY <2>1, <3>2, <3>3
  <2>5. Grows(p) /\ p.strategy = "linear" => i >= 0 /\ f >= 0
    BY <1>1 DEF Grows
  <2>6. ~Shrinks(p)
    BY <1>3 DEF Shrinks
  <2> QED
    BY <1>3, <2>2, <2>3, <2>4, <2>5, <2>6
<1> QED
  BY <1>2, <1>3

\* The duration of the strategy: an integer; for a policy that grows no less
\* than InitialBackoff or, after an overflow, not positive; for one that
\* shrinks no more than InitialBackoff.
LEMMA BackoffBounds ==
  ASSUME NEW p \in Policies, NEW n \in Nat, NEW d \in Backoffs(p, n)
  PROVE  /\ d \in Int
         /\ Grows(p) => d >= p.initial \/ (d <= 0 /\ Overflows(p, n))
         /\ Shrinks(p) => d <= p.initial
<1>1. PICK i \in Int, m \in Nat \ {0} : i = p.initial /\ m = MaxInt /\ i <= m
  BY PolicyFields
<1>2. PICK x \in Int : x = Product(p, n)
  BY ProductBounds
<1>3. /\ Grows(p) /\ p.strategy \in {"exponential", "linear"} => x >= 0
      /\ Grows(p) /\ p.strategy = "exponential" => x >= i
      /\ Shrinks(p) => x <= i
  BY <1>1, <1>2, ProductBounds
<1>4. CASE p.strategy = "fixed"
  BY <1>1, <1>4 DEF Backoffs, Shrinks
<1>5. CASE p.strategy = "exponential"
  <2>1. d \in Convert(x)
    BY <1>2, <1>5 DEF Backoffs
  <2>2. /\ d \in Int
        /\ \/ x > m /\ d \in {-m - 1, m}
           \/ x < -m - 1 /\ d = -m - 1
           \/ d = x
    BY <1>1, <2>1 DEF Convert, MinInt
  <2>3. x > m => Overflows(p, n)
    BY <1>1, <1>2, <1>5 DEF Overflows
  <2>4. Grows(p) => d >= i \/ (d <= 0 /\ Overflows(p, n))
    BY <1>1, <1>3, <1>5, <2>2, <2>3
  <2>5. Shrinks(p) => d <= i
    <3>1. Shrinks(p) => i >= 0
      BY <1>1 DEF Shrinks
    <3> QED
      BY <1>1, <1>3, <2>2, <3>1
  <2> QED
    BY <1>1, <2>2, <2>4, <2>5
<1>6. CASE p.strategy = "linear"
  <2>1. PICK y \in Convert(x) : d = Plus(i, y)
    BY <1>1, <1>2, <1>6 DEF Backoffs
  <2>2. /\ y \in Int
        /\ \/ x > m /\ y \in {-m - 1, m}
           \/ x < -m - 1 /\ y = -m - 1
           \/ y = x /\ x <= m
    BY <1>1, <2>1 DEF Convert, MinInt
  <2>3. /\ d \in Int
        /\ \/ i + y > m /\ d = i + y - 2 * (m + 1)
           \/ i + y < -m - 1 /\ d = i + y + 2 * (m + 1)
           \/ d = i + y
    BY <1>1, <2>1, <2>2 DEF Plus, MinInt
  <2>4. i + x > m => Overflows(p, n)
    BY <1>1, <1>2, <1>6 DEF Overflows
  <2>5. ~Shrinks(p)
    BY <1>6 DEF Shrinks
  <2>6. Grows(p) => i >= 0 /\ x >= 0
    BY <1>1, <1>3, <1>6 DEF Grows
  <2>7. ASSUME i >= 0, x >= 0
        PROVE  d >= i \/ (d <= 0 /\ i + x > m)
    BY ONLY <1>1, <2>2, <2>3, <2>7, x \in Int, d \in Int, i \in Int
  <2> QED
    BY <1>1, <2>3, <2>4, <2>5, <2>6, <2>7
<1>7. CASE p.strategy = "unknown"
  BY <1>1, <1>7 DEF Backoffs, Grows, Shrinks
<1> QED
  BY <1>4, <1>5, <1>6, <1>7, PolicyFields DEF Strategies

\* The jitter keeps a capped duration within a quarter, unless it does not
\* fit a Duration, and then there is no pause or the longest there is.
LEMMA JitterBounds ==
  ASSUME NEW p \in Policies, NEW n \in Nat, NEW d \in Int, d <= p.max,
         NEW x \in Jittered(p, d)
  PROVE  /\ x \in Int
         /\ x = d \/ (d > 0 /\ 4 * x <= 5 * d)
         /\ \/ x = d
            \/ d > 0 /\ 4 * x + 3 >= 3 * d
            \/ x = 0 /\ Overflows(p, n)
<1>1. PICK m \in Int, u \in Nat \ {0} : m = p.max /\ d <= m /\ u = MaxInt
  BY PolicyFields
<1>2. CASE ~(p.jitter /\ d > 0)
  BY <1>2 DEF Jittered
<1>3. CASE p.jitter /\ d > 0
  <2>1. PICK y \in (3 * d) \div 4 .. (5 * d + 3) \div 4 - 1 :
               \E z \in Convert(y) : x = IF z < 0 THEN 0 ELSE z
    BY <1>3 DEF Jittered
  <2>2. y \in Int /\ 4 * y + 3 >= 3 * d /\ 4 * y <= 5 * d
    BY <1>3, <2>1
  <2>3. PICK z \in Convert(y) : x = IF z < 0 THEN 0 ELSE z
    BY <2>1
  <2>4. (y > u /\ z \in {-u - 1, u}) \/ z = y
    BY <1>1, <1>3, <2>2, <2>3 DEF Convert, MinInt
  <2>5. y > u => Overflows(p, n)
    <3>1. y > u => 5 * m > 4 * u
      BY <1>1, <2>2
    <3> QED
      BY <1>1, <1>3, <3>1 DEF Overflows
  <2>6. CASE z = y
    BY <1>3, <2>2, <2>3, <2>6
  <2>7. CASE y > u /\ z = u
    <3>1. x = u
      BY <2>3, <2>7
    <3>2. 4 * x <= 5 * d
      BY <2>2, <2>7, <3>1
    <3>3. d <= u
      BY <1>1, RetryAssumption
    <3> QED
      BY <1>3, <3>1, <3>2, <3>3
  <2>8. CASE y > u /\ z = -u - 1
    BY <1>3, <2>3, <2>5, <2>8
  <2> QED
    BY <2>4, <2>6, <2>7, <2>8
<1> QED
  BY <1>2, <1>3

\* What Do waits for is what Delay computed for the retry at hand.
WaitInv == DoInv /\ (at = "wait" => attempt > 0 /\ delay \in Delay(policy, attempt - 1))

LEMMA WaitInvNext == WaitInv /\ [DoNext]_doVars => WaitInv'
<1> SUFFICES ASSUME WaitInv, [DoNext]_doVars PROVE WaitInv'
  OBVIOUS
<1>1. DoInv'
  BY DoInvNext DEF WaitInv
<1>2. CASE Attempt
  BY <1>1, <1>2 DEF Attempt, WaitInv
<1>3. CASE NoAttempt \/ Wait
  BY <1>1, <1>3 DEF NoAttempt, Wait, Answer, WaitInv
<1>4. ASSUME NEW err \in Answers, Call(err) PROVE WaitInv'
  BY <1>1, <1>4 DEF Call, Answer, WaitInv
<1>5. CASE CancelDo \/ UNCHANGED doVars
  BY <1>1, <1>5 DEF CancelDo, doVars, WaitInv
<1> QED
  BY <1>2, <1>3, <1>4, <1>5 DEF DoNext, DoStep

\* Every wait of Do, for every strategy, factor, cap and number of retries and
\* whatever the signs of the durations: at most a quarter more than
\* MaxBackoff; for a policy that grows at least three quarters of
\* InitialBackoff, or of a smaller MaxBackoff, or after an overflow no pause;
\* for one that shrinks at most a quarter more than InitialBackoff.
THEOREM WaitsBackOff == DoSpec => []BacksOff
<1>1. ASSUME WaitInv, at = "wait"
      PROVE  BacksOff
  <2>1. policy \in Policies /\ attempt \in Nat /\ attempt > 0
    BY <1>1 DEF WaitInv, DoInv
  <2>2. PICK n \in Nat : n = attempt - 1
    BY <2>1
  <2>3. PICK d \in Backoffs(policy, n) : delay \in Jittered(policy, Capped(policy, d))
    BY <1>1, <2>2 DEF WaitInv, Delay
  <2>4. /\ d \in Int
        /\ Grows(policy) => d >= policy.initial \/ (d <= 0 /\ Overflows(policy, n))
        /\ Shrinks(policy) => d <= policy.initial
    BY <2>1, BackoffBounds
  <2>5. PICK i \in Int, m \in Int : i = policy.initial /\ m = policy.max
    BY <2>1, PolicyFields
  <2>6. PICK c \in Int : /\ c = Capped(policy, d) /\ c <= m /\ c <= d
                         /\ c = d \/ c = m
    BY <2>4, <2>5 DEF Capped
  <2>7. /\ delay \in Int
        /\ delay = c \/ (c > 0 /\ 4 * delay <= 5 * c)
        /\ \/ delay = c
           \/ c > 0 /\ 4 * delay + 3 >= 3 * c
           \/ delay = 0 /\ Overflows(policy, n)
    BY <2>1, <2>3, <2>5, <2>6, JitterBounds
  <2>8. delay <= m \/ 4 * delay <= 5 * m
    BY <2>6, <2>7
  <2>9. ASSUME Shrinks(policy)
        PROVE  4 * delay <= 5 * i
    <3>1. i >= 0 /\ c <= i
      BY <2>4, <2>5, <2>6, <2>9 DEF Shrinks
    <3> QED
      BY <2>7, <3>1
  <2>10. ASSUME Grows(policy)
         PROVE  \/ 4 * delay + 3 >= 3 * (IF i < m THEN i ELSE m)
                \/ delay <= 0 /\ Overflows(policy, n)
    <3>1. i >= 0 /\ m >= 0
      BY <2>5, <2>10 DEF Grows
    <3>2. d >= i \/ (d <= 0 /\ Overflows(policy, n))
      BY <2>4, <2>5, <2>10
    <3>3. CASE d >= i
      BY <2>4, <2>6, <2>7, <3>1, <3>3
    <3>4. CASE d <= 0 /\ Overflows(policy, n)
      BY <2>4, <2>6, <2>7, <3>1, <3>4
    <3> QED
      BY <3>2, <3>3, <3>4
  <2> QED
    BY <2>2, <2>5, <2>8, <2>9, <2>10 DEF BacksOff
<1>2. WaitInv => BacksOff
  BY <1>1 DEF BacksOff
<1>3. DoInit => WaitInv
  BY DoInvInit DEF DoInit, WaitInv
<1> QED
  BY <1>2, <1>3, WaitInvNext, PTL DEF DoSpec
-----------------------------------------------------------------------------
(* The server's shutdown *)

\* The store is closed last: after the listener, and after the last handler.
ShutdownOrder ==
  /\ mainAt \in {"handlers", "close", "exited"} => http = "down"
  /\ mainAt \in {"close", "exited"} => \A q \in Conns : ~request[q]
  /\ store = "closed" => mainAt \in {"close", "exited"}

ServerInv == ServerTypeOK /\ ShutdownOrder /\ OnlyLoopIsLate

\* Nothing runs and nothing is open when main begins.
LEMMA ServerInvInit == ServerInit => ServerInv
  BY DEF ServerInit, ServerInv, ServerTypeOK, ShutdownOrder, OnlyLoopIsLate, Mains

\* Steps of main, which never call the store themselves.
LEMMA ServerInvMain == ServerInv /\ (MainStep \/ Signal) => ServerInv'
<1> USE DEF ServerInv, ServerTypeOK, ShutdownOrder, OnlyLoopIsLate, Mains, Main,
           settings, goroutines
<1> SUFFICES ASSUME ServerInv, MainStep \/ Signal PROVE ServerInv'
  OBVIOUS
<1>1. CASE New  BY <1>1 DEF New
<1>2. CASE StartScheduler  BY <1>2 DEF StartScheduler
<1>3. CASE ListenFails  BY <1>3 DEF ListenFails
<1>4. CASE ListenGRPC  BY <1>4 DEF ListenGRPC
<1>5. CASE StartHTTP  BY <1>5 DEF StartHTTP
<1>6. CASE Signal  BY <1>6 DEF Signal
<1>7. CASE StopScheduler  BY <1>7 DEF StopScheduler
<1>8. CASE GracefulStop  BY <1>8 DEF GracefulStop
<1>9. CASE ShutdownHTTP  BY <1>9 DEF ShutdownHTTP
<1>10. CASE AwaitHandlers  BY <1>10 DEF AwaitHandlers
<1>11. CASE CloseStore  BY <1>11 DEF CloseStore
<1>12. CASE Exit  BY <1>12 DEF Exit
<1> QED
  BY <1>1, <1>2, <1>3, <1>4, <1>5, <1>6, <1>7, <1>8, <1>9, <1>10, <1>11, <1>12
  DEF MainStep

\* Steps of the goroutines.  A handler that is at work holds main before
\* "close", so the store it calls is open.
LEMMA ServerInvGoroutines ==
  ASSUME ServerInv,
         \/ Tick \/ ScheduleCall \/ LoopEnds \/ ListenHTTP
         \/ \E q \in Conns : Request(q) \/ Handle(q)
         \/ \E c \in Channels, kind \in {"unary", "stream"} :
              OpenRPC(c, kind) \/ EndRPC(c, kind)
  PROVE  ServerInv'
<1> USE DEF ServerInv, ServerTypeOK, ShutdownOrder, OnlyLoopIsLate, Mains, Alive,
           settings, goroutines
<1>1. CASE Tick  BY <1>1 DEF Tick, Loop
<1>2. CASE ScheduleCall  BY <1>2 DEF ScheduleCall, Loop, LateIfClosed
<1>3. CASE LoopEnds  BY <1>3 DEF LoopEnds, Loop
<1>4. CASE ListenHTTP  BY <1>4 DEF ListenHTTP
<1>5. ASSUME NEW q \in Conns, Request(q) PROVE ServerInv'
  BY <1>5 DEF Request
<1>6. ASSUME NEW q \in Conns, HandleWithStore(q) PROVE ServerInv'
  <2>1. store # "closed"
    BY <1>6 DEF HandleWithStore
  <2> QED
    BY <1>6, <2>1 DEF HandleWithStore, LateIfClosed
<1>7. ASSUME NEW q \in Conns, HandleWithoutStore(q) PROVE ServerInv'
  BY <1>7 DEF HandleWithoutStore
<1>8. ASSUME NEW c \in Channels, NEW kind \in {"unary", "stream"}, OpenRPC(c, kind)
      PROVE  ServerInv'
  BY <1>8 DEF OpenRPC
<1>9. ASSUME NEW c \in Channels, NEW kind \in {"unary", "stream"}, EndRPC(c, kind)
      PROVE  ServerInv'
  BY <1>9 DEF EndRPC
<1> QED
  BY <1>1, <1>2, <1>3, <1>4, <1>5, <1>6, <1>7, <1>8, <1>9 DEF Handle

\* ServerInv is inductive.
LEMMA ServerInvNext == ServerInv /\ [ServerNext]_serverVars => ServerInv'
<1> SUFFICES ASSUME ServerInv, [ServerNext]_serverVars PROVE ServerInv'
  OBVIOUS
<1>1. CASE ServerNext
  BY <1>1, ServerInvMain, ServerInvGoroutines DEF ServerNext
<1>2. CASE UNCHANGED serverVars
  BY <1>2 DEF serverVars, ServerInv, ServerTypeOK, ShutdownOrder, OnlyLoopIsLate
<1> QED  BY <1>1, <1>2

\* Server.Shutdown closes the store after the HTTP listener and after the last
\* handler, whenever the signal arrives and whatever requests come in: nobody
\* but the scheduler's loop, which Stop does not wait for, calls a closed
\* store.
THEOREM OnlyLoopUsesClosedStore == ServerSpec => []OnlyLoopIsLate
<1>1. ServerInv => OnlyLoopIsLate
  BY DEF ServerInv
<1> QED
  BY <1>1, ServerInvInit, ServerInvNext, PTL DEF ServerSpec
=============================================================================
