---------------------------- MODULE RetryPolicy ----------------------------
(***************************************************************************)
(* pkg/retry: the delay between attempts and Policy.Do, which calls a      *)
(* function until it succeeds, its retries are used up or the context is   *)
(* cancelled.  A Duration is an integer of MinInt..MaxInt, a backoff       *)
(* factor any rational number: neither the parser nor a Policy literal     *)
(* checks signs or sizes.  Products are exact and truncated as Go converts *)
(* them; what is kept of float64 is that they may leave the range of a     *)
(* Duration, not its rounding, its infinities and NaN.                     *)
(***************************************************************************)
EXTENDS Integers

CONSTANTS
  MaxInt,     \* the largest Duration, 2^63 - 1 in the code
  Policies    \* the policies considered

MinInt == -MaxInt - 1
\* "unknown" is any other value of the integer type Strategy.
Strategies == {"fixed", "exponential", "linear", "unknown"}

\* The fields of a policy.  BackoffFactor is factor / per; check says whether
\* there is a RetryableCheck.
ASSUME RetryAssumption ==
  /\ MaxInt \in Nat \ {0}
  /\ \A p \in Policies :
       /\ p.maxRetries \in Int
       /\ p.initial \in MinInt..MaxInt /\ p.max \in MinInt..MaxInt
       /\ p.factor \in Int /\ p.per \in Nat \ {0}
       /\ p.strategy \in Strategies
       /\ p.jitter \in BOOLEAN /\ p.check \in BOOLEAN

VARIABLES
  policy,     \* the receiver of Do
  at,         \* where the call of Do stands
  attempt,    \* its loop variable
  delay,      \* the delay it waits for
  cancelled,  \* whether the context is cancelled
  lastErr,    \* the last answer of fn, or "none" before the first call
  answer,     \* what Do has returned, or "none"
  calls       \* history: how often fn was called

doVars == <<policy, at, attempt, delay, cancelled, lastErr, answer, calls>>
-----------------------------------------------------------------------------
(* Delay *)

\* time.Duration(x / y), y > 0: towards zero.
Truncated(x, y) == IF x >= 0 THEN x \div y ELSE -((-x) \div y)

\* What a float out of range gives depends on the processor: amd64 the least
\* integer, arm64 the nearest.
Convert(x) == IF x > MaxInt THEN {MinInt, MaxInt}
              ELSE IF x < MinInt THEN {MinInt} ELSE {x}

\* The sum of two Durations wraps around.
Plus(x, y) == IF x + y > MaxInt THEN x + y - 2 * (MaxInt + 1)
              ELSE IF x + y < MinInt THEN x + y + 2 * (MaxInt + 1) ELSE x + y

\* math.Pow of a factor and the number of a retry.
Pow(x, n) == LET power[k \in Nat] == IF k = 0 THEN 1 ELSE x * power[k - 1]
             IN  power[n]

\* The product that is converted for the nth retry.
Product(p, n) ==
  IF p.strategy = "exponential"
    THEN Truncated(p.initial * Pow(p.factor, n), Pow(p.per, n))
    ELSE Truncated(p.initial * p.factor * n, p.per)

\* The durations the strategy may give for the nth retry.
Backoffs(p, n) ==
  CASE p.strategy = "fixed" -> {p.initial}
    [] p.strategy = "exponential" -> Convert(Product(p, n))
    [] p.strategy = "linear" ->
         {Plus(p.initial, x) : x \in Convert(Product(p, n))}
    [] p.strategy = "unknown" -> {0}

\* Mutant of Capped: MaxBackoff is ignored.
Capped_Not(p, d) == d

\* "Cap at max backoff."
Capped(p, d) == IF d > p.max THEN p.max ELSE d

\* Jitter: up to a quarter less or, the upper end excluded, more.  It comes
\* after the cap; a negative result counts as no delay.
Jittered(p, d) ==
  LET varied == UNION {Convert(x) :
                         x \in (3 * d) \div 4 .. (5 * d + 3) \div 4 - 1}
  IN  IF p.jitter /\ d > 0 THEN {IF x < 0 THEN 0 ELSE x : x \in varied}
                           ELSE {d}

\* The results of Delay(n).
Delay(p, n) ==
  IF n < 0 THEN {0}
           ELSE UNION {Jittered(p, Capped(p, d)) : d \in Backoffs(p, n)}
-----------------------------------------------------------------------------
(* ShouldRetry and Do *)

\* fn returns nil ("ok"), or an error that a RetryableCheck accepts or not.
Answers == {"ok", "transient", "fatal"}

ShouldRetry(p, n, err) ==
  /\ n < p.maxRetries
  /\ IF p.check THEN err = "transient" ELSE err # "ok"

DoInit ==
  /\ policy \in Policies
  /\ at = "loop"
  /\ attempt = 0
  /\ delay = 0
  /\ cancelled = FALSE
  /\ lastErr = "none"
  /\ answer = "none"
  /\ calls = 0

Answer(a) == answer' = a /\ at' = "returned"

\* The loop begins an attempt; all but the first compute a delay.
Attempt ==
  /\ at = "loop"
  /\ attempt <= policy.maxRetries
  /\ IF attempt > 0
       THEN at' = "wait" /\ delay' \in Delay(policy, attempt - 1)
       ELSE at' = "call" /\ UNCHANGED delay
  /\ UNCHANGED <<policy, attempt, cancelled, lastErr, answer, calls>>

\* The loop ends without an attempt: MaxRetries is negative.
NoAttempt ==
  /\ at = "loop"
  /\ attempt > policy.maxRetries
  /\ Answer("exhausted")
  /\ UNCHANGED <<policy, attempt, delay, cancelled, lastErr, calls>>

\* Mutant of Wait: the select has no timer.
Wait_NoTimer ==
  /\ at = "wait"
  /\ cancelled /\ Answer("cancelled")
  /\ UNCHANGED <<policy, attempt, delay, cancelled, lastErr, calls>>

\* The select: the timer fires, also when the context is cancelled, or the
\* context ends Do.
Wait ==
  /\ at = "wait"
  /\ \/ at' = "call" /\ UNCHANGED answer
     \/ cancelled /\ Answer("cancelled")
  /\ UNCHANGED <<policy, attempt, delay, cancelled, lastErr, calls>>

\* Mutant of Call: ShouldRetry is asked about the next attempt.
Call_Early(err) ==
  /\ at = "call"
  /\ calls' = calls + 1
  /\ lastErr' = err
  /\ IF err = "ok" THEN Answer("nil") /\ UNCHANGED attempt
     ELSE IF ~ShouldRetry(policy, attempt + 1, err)
       THEN Answer("exhausted") /\ UNCHANGED attempt
       ELSE at' = "loop" /\ attempt' = attempt + 1 /\ UNCHANGED answer
  /\ UNCHANGED <<policy, delay, cancelled>>

\* One call of fn.  An error that is not retried ends Do like the last one.
Call(err) ==
  /\ at = "call"
  /\ calls' = calls + 1
  /\ lastErr' = err
  /\ IF err = "ok" THEN Answer("nil") /\ UNCHANGED attempt
     ELSE IF ~ShouldRetry(policy, attempt, err)
       THEN Answer("exhausted") /\ UNCHANGED attempt
       ELSE at' = "loop" /\ attempt' = attempt + 1 /\ UNCHANGED answer
  /\ UNCHANGED <<policy, delay, cancelled>>

CancelDo ==
  /\ ~cancelled /\ at # "returned"
  /\ cancelled' = TRUE
  /\ UNCHANGED <<policy, at, attempt, delay, lastErr, answer, calls>>

DoStep == Attempt \/ NoAttempt \/ Wait \/ \E err \in Answers : Call(err)

DoNext == DoStep \/ CancelDo

DoSpec == DoInit /\ [][DoNext]_doVars
-----------------------------------------------------------------------------
(* Properties *)

\* What Do returns is true of what happened: nil after a call that succeeded
\* and only then; the context's error only if there were retries left; and
\* "exhausted" only when fn was called MaxRetries + 1 times (not at all for
\* a negative MaxRetries) or failed in a way the policy does not retry.
AnswerIsTrue ==
  /\ answer = "nil" <=> lastErr = "ok"
  /\ answer = "cancelled" => cancelled /\ calls <= policy.maxRetries
  /\ answer = "exhausted" =>
       \/ calls = policy.maxRetries + 1
       \/ calls = 0 /\ policy.maxRetries < 0
       \/ policy.check /\ lastErr = "fatal"

\* For retry n the strategy's product, or what the jitter may make of
\* MaxBackoff, does not fit a Duration.
Overflows(p, n) ==
  \/ p.strategy = "exponential" /\ Product(p, n) > MaxInt
  \/ p.strategy = "linear" /\ p.initial + Product(p, n) > MaxInt
  \/ p.jitter /\ 5 * p.max > 4 * MaxInt

\* The policies whose waits should not fall below the first, and those whose
\* factor lets them shrink.  The code takes both, and policies that are
\* neither: a negative InitialBackoff, or factors below zero.
Grows(p) ==
  /\ p.initial >= 0 /\ p.max >= 0
  /\ \/ p.strategy = "fixed"
     \/ p.strategy = "exponential" /\ p.factor >= p.per
     \/ p.strategy = "linear" /\ p.factor >= 0
Shrinks(p) ==
  /\ p.initial >= 0 /\ p.strategy = "exponential"
  /\ p.factor \in 0..p.per

\* What Do waits for, whatever the strategy, the cap and the jitter make of
\* the policy: never more than a quarter above MaxBackoff (nor above a
\* negative one at all); if the policy grows, no less than three quarters of
\* InitialBackoff or MaxBackoff, whichever is smaller, or, only when
\* something overflows, nothing at all, but no time in between; and if it
\* shrinks, never more than a quarter above InitialBackoff.
BacksOff ==
  LET least == IF policy.initial < policy.max THEN policy.initial
                                              ELSE policy.max
  IN  at = "wait" =>
        /\ delay <= policy.max \/ 4 * delay <= 5 * policy.max
        /\ Grows(policy) => \/ 4 * delay + 3 >= 3 * least
                            \/ delay <= 0 /\ Overflows(policy, attempt - 1)
        /\ Shrinks(policy) => 4 * delay <= 5 * policy.initial

\* A Do that has come to its first attempt returns, whatever fn answers.
DoReturns == (at # "loop") ~> (at = "returned")
=============================================================================
