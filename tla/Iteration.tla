----------------------------- MODULE Iteration -----------------------------
(* Functions on the natural numbers defined by iteration, which the proofs  *)
(* about RetryPolicy and DagDefinition need.                                *)
EXTENDS Integers, WellFoundedInduction, TLAPS

\* A set of natural numbers that is not empty has a least member: an
\* induction is a proof that there is no least counterexample.
LEMMA NatMin ==
  ASSUME NEW T \in SUBSET Nat, T # {}
  PROVE  \E n \in T : \A m \in T : n <= m
<1> DEFINE R == OpToRel(<, Nat)
<1>1. IsWellFoundedOn(R, Nat)
  BY NatLessThanWellFounded
<1>2. PICK n \in T : \A m \in T : <<m, n>> \notin R
  <2> HIDE DEF R
  <2> QED
    BY <1>1, WFMin
<1>3. \A m \in T : ~(m < n)
  BY <1>2 DEF OpToRel
<1> QED
  BY <1>3

\* Products of natural numbers keep the order of their factors.
LEMMA TimesOrder ==
  ASSUME NEW a \in Nat, NEW b \in Nat
  PROVE  /\ a * b \in Nat
         /\ a # 0 /\ b # 0 => a * b # 0
         /\ \A c \in Nat, d \in Nat : a <= c /\ b <= d => a * b <= c * d
<1>1. a * b \in Nat
  OBVIOUS
<1>2. a # 0 /\ b # 0 => a * b # 0
  OBVIOUS
<1>3. ASSUME NEW c \in Nat, NEW d \in Nat, a <= c, b <= d
      PROVE  a * b <= c * d
  <2>1. PICK e \in Nat, f \in Nat : c = a + e /\ d = b + f
    <3>1. c - a \in Nat /\ d - b \in Nat /\ c = a + (c - a) /\ d = b + (d - b)
      BY <1>3
    <3> QED
      BY <3>1
  <2>2. c * d = a * b + a * f + e * b + e * f
    BY <2>1
  <2>3. a * f \in Nat /\ e * b \in Nat /\ e * f \in Nat
    OBVIOUS
  <2> QED
    BY <1>1, <2>2, <2>3
<1> QED
  BY <1>1, <1>2, <1>3

\* g holds a and what the first n applications of F make of it.
Iterates(a, F, n, g) == g[0] = a /\ \A k \in 1..n : g[k] = F[g[k - 1]]

\* For every n there are such values.
LEMMA IteratesExist ==
  ASSUME NEW S, NEW a \in S, NEW F \in [S -> S], NEW n \in Nat
  PROVE  \E g \in [0..n -> S] : Iterates(a, F, n, g)
<1> DEFINE B == {k \in Nat : ~\E g \in [0..k -> S] : Iterates(a, F, k, g)}
<1> SUFFICES ASSUME B # {} PROVE FALSE
  OBVIOUS
<1>1. PICK k \in B : \A m \in B : k <= m
  <2>1. B \in SUBSET Nat
    OBVIOUS
  <2> HIDE DEF B
  <2> QED
    BY <2>1, NatMin
<1>2. CASE k = 0
  <2> DEFINE g == [i \in 0..0 |-> a]
  <2>1. g \in [0..0 -> S] /\ Iterates(a, F, 0, g)
    BY DEF Iterates
  <2> QED
    BY <1>1, <1>2, <2>1
<1>3. CASE k # 0
  <2>1. k \in Nat \ {0} /\ k - 1 \in Nat /\ ~(k <= k - 1)
    BY <1>1, <1>3
  <2>2. PICK g \in [0..(k - 1) -> S] : Iterates(a, F, k - 1, g)
    BY <1>1, <2>1
  <2> DEFINE h == [i \in 0..k |-> IF i = k THEN F[g[k - 1]] ELSE g[i]]
  <2>3. /\ \A i \in 0..k : i = k \/ i \in 0..(k - 1)
        /\ \A i \in 1..k : i \in 0..k /\ i - 1 \in 0..k /\ i - 1 # k
        /\ \A i \in 1..k : i = k \/ i \in 1..(k - 1)
        /\ 0 \in 0..k /\ k - 1 \in 0..(k - 1)
    BY <2>1
  <2>4. h \in [0..k -> S]
    BY <2>2, <2>3
  <2>5. h[0] = a
    BY <2>1, <2>2, <2>3 DEF Iterates
  <2>6. ASSUME NEW i \in 1..k
        PROVE  h[i] = F[h[i - 1]]
    <3>1. h[i - 1] = g[i - 1]
      BY <2>3
    <3>2. CASE i = k
      BY <2>3, <3>1, <3>2
    <3>3. CASE i # k
      BY <2>2, <2>3, <3>1, <3>3 DEF Iterates
    <3> QED
      BY <3>2, <3>3
  <2> HIDE DEF h
  <2>7. Iterates(a, F, k, h)
    BY <2>5, <2>6 DEF Iterates
  <2> QED
    BY <1>1, <2>4, <2>7
<1> QED
  BY <1>2, <1>3

\* They agree with each other.
LEMMA IteratesUnique ==
  ASSUME NEW S, NEW a \in S, NEW F \in [S -> S], NEW n \in Nat, NEW m \in Nat,
         NEW g \in [0..n -> S], NEW h \in [0..m -> S],
         Iterates(a, F, n, g), Iterates(a, F, m, h)
  PROVE  \A i \in Nat : i <= n /\ i <= m => g[i] = h[i]
<1> DEFINE B == {k \in Nat : k <= n /\ k <= m /\ g[k] # h[k]}
<1> SUFFICES ASSUME B # {} PROVE FALSE
  OBVIOUS
<1>1. PICK k \in B : \A j \in B : k <= j
  <2>1. B \in SUBSET Nat
    OBVIOUS
  <2> HIDE DEF B
  <2> QED
    BY <2>1, NatMin
<1>2. k # 0
  BY <1>1 DEF Iterates
<1>3. /\ k - 1 \in Nat /\ k - 1 <= n /\ k - 1 <= m /\ ~(k <= k - 1)
      /\ k \in 1..n /\ k \in 1..m
  BY <1>1, <1>2
<1>4. g[k - 1] = h[k - 1]
  BY <1>1, <1>3
<1>5. g[k] = F[g[k - 1]] /\ h[k] = F[h[k - 1]]
  BY <1>3 DEF Iterates
<1> QED
  BY <1>1, <1>4, <1>5

\* So the function that a recursive definition by iteration speaks of exists.
LEMMA IterationExists ==
  ASSUME NEW S, NEW a \in S, NEW F \in [S -> S]
  PROVE  \E r \in [Nat -> S] :
           r = [n \in Nat |-> IF n = 0 THEN a ELSE F[r[n - 1]]]
<1> DEFINE G(n) == CHOOSE g \in [0..n -> S] : Iterates(a, F, n, g)
           r == [n \in Nat |-> G(n)[n]]
<1>1. \A n \in Nat : G(n) \in [0..n -> S] /\ Iterates(a, F, n, G(n))
  BY IteratesExist
<1> HIDE DEF G
<1>2. ASSUME NEW n \in Nat
      PROVE  r[n] \in S /\ r[n] = IF n = 0 THEN a ELSE F[r[n - 1]]
  <2>1. PICK g \in [0..n -> S] : g = G(n) /\ Iterates(a, F, n, g)
    BY <1>1
  <2>2. CASE n = 0
    BY <2>1, <2>2 DEF Iterates
  <2>3. CASE n # 0
    <3>1. PICK m \in Nat : m = n - 1 /\ m <= n /\ m <= m /\ n \in 1..n /\ n \in 0..n
      <4>1. n - 1 \in Nat /\ n - 1 <= n /\ n \in 1..n /\ n \in 0..n
        BY <2>3
      <4> QED
        BY <4>1
    <3>2. PICK h \in [0..m -> S] : h = G(m) /\ Iterates(a, F, m, h)
      BY <1>1
    <3>3. g[m] = h[m]
      <4>1. \A i \in Nat : i <= n /\ i <= m => g[i] = h[i]
        BY <2>1, <3>1, <3>2, IteratesUnique
      <4> QED
        BY <3>1, <4>1
    <3>4. g[n] = F[g[m]]
      BY <2>1, <3>1 DEF Iterates
    <3>5. r[n] = g[n] /\ r[m] = h[m]
      BY <2>1, <3>2
    <3> QED
      BY <2>1, <2>3, <3>1, <3>3, <3>4, <3>5
  <2> QED
    BY <2>2, <2>3
<1>3. r = [n \in Nat |-> r[n]]
  OBVIOUS
<1> HIDE DEF r
<1>4. r = [n \in Nat |-> IF n = 0 THEN a ELSE F[r[n - 1]]]
  BY <1>2, <1>3
<1>5. r \in [Nat -> S]
  BY <1>2, <1>3
<1> QED
  BY <1>4, <1>5
=============================================================================
