------------------------------ MODULE Backoff ------------------------------
(***************************************************************************)
(* The sleep between two attempts: computeBackoff and the cap of Do        *)
(* (retry/retry.go), and the Retry-After hint of a 429                     *)
(* (llm/openrouter/retry.go).  A time.Duration is an integer of Width      *)
(* bits.  A product of durations wraps; a float64 outside the range of an  *)
(* integer becomes whatever the build makes of it: the least integer       *)
(* (amd64) or the nearest (arm64).                                         *)
(***************************************************************************)
EXTENDS Integers

CONSTANTS Width,       \* 64 in the code
          Second,      \* time.Second, in units of a duration
          Delays,      \* bound: the BaseDelay and MaxDelay of a policy
          Multipliers, \* bound: the Multiplier of a policy
          Jitters,     \* bound: the Jitter of a policy, in tenths
          Attempts,    \* bound: the MaxAttempts of a policy
          Hints        \* bound: the Retry-After of an answer, in seconds

MaxInt == 2^(Width - 1) - 1
MinInt == -(2^(Width - 1))

ASSUME BackoffAssumption ==
  /\ Width \in Nat \ {0} /\ Second \in Nat \ {0} /\ Attempts \in Nat \ {0}
  /\ Delays \subseteq 0..MaxInt /\ Multipliers \subseteq Nat \ {0} /\ Jitters \subseteq Nat
  /\ Hints \subseteq Int

\* Powers, of which the proofs need no more than this.
ASSUME PowersAssumption ==
  /\ 2^(Width - 1) \in Nat \ {0} /\ 2^Width = 2 * 2^(Width - 1)
  /\ \A m \in Multipliers, n \in 0..Attempts : m^n \in Nat

VARIABLES policy,   \* the Policy of the call
          attempt,  \* the attempt under way
          hint,     \* the Retry-After of the answer that failed the one before
          roll,     \* rand.Float64() in tenths, times two, less one: -10..10
          sleep     \* how long Do slept before it

backoffVars == <<policy, attempt, hint, roll, sleep>>

NoHint == -1      \* no header, or one that is no hint
Rolls == {-10, -3, 0, 9}
Policies == [base : Delays, max : Delays, multiplier : Multipliers, jitter : Jitters]

BackoffTypeOK == /\ policy \in Policies /\ attempt \in 1..Attempts
                 /\ hint \in Hints \cup {NoHint} /\ roll \in Rolls /\ sleep \in MinInt..MaxInt

BackoffInit == policy \in Policies /\ attempt = 1 /\ hint = NoHint /\ roll = 0 /\ sleep = 0

-----------------------------------------------------------------------------
Wrapped(n) == ((n - MinInt) % 2^Width) + MinInt
InRange(n) == MinInt <= n /\ n <= MaxInt
FromFloat(n) == IF InRange(n) THEN {n} ELSE {MinInt, MaxInt}

\* parseRetryAfter on seconds: too many for an integer, or fewer than none, are
\* no hint; the others are multiplied by a second.
After(h) == IF h < 0 \/ h > MaxInt THEN 0 ELSE Wrapped(h * Second)

\* computeBackoff: base * multiplier^(n - 1), within a jitter of at most one
\* whole, as a float64 until it is converted at the end.
Jitter(p) == IF p.jitter > 10 THEN 10 ELSE p.jitter

Scaled(p, n) == p.base * p.multiplier^(n - 1)

ComputeBackoff(p, n, r) ==
  IF p.base <= 0 THEN {0}
  ELSE LET d == Scaled(p, n) * (100 + Jitter(p) * r)
       IN  FromFloat(IF d < 0 THEN 0 ELSE d \div 100)

\* Do caps whatever it is going to sleep.
Capped(p, d) == IF p.max > 0 /\ d > p.max THEN p.max ELSE d

\* As if only what it computed itself were capped.
SleepsUncapped(p, n, h, r) ==
  IF After(h) > 0 THEN {After(h)}
                  ELSE {Capped(p, d) : d \in ComputeBackoff(p, n, r)}

Sleeps(p, n, h, r) ==
  IF After(h) > 0 THEN {Capped(p, After(h))}
                  ELSE {Capped(p, d) : d \in ComputeBackoff(p, n, r)}

\* An attempt fails with an error that may be retried, and is not the last: Do
\* sleeps before the next one.
FailAndSleep(h, r) ==
  /\ attempt < Attempts
  /\ attempt' = attempt + 1
  /\ hint' = h /\ roll' = r
  /\ sleep' \in Sleeps(policy, attempt, h, r)
  /\ UNCHANGED policy

BackoffNext == \E h \in Hints \cup {NoHint}, r \in Rolls : FailAndSleep(h, r)

-----------------------------------------------------------------------------
\* MaxDelay caps every sleep; a hint of the server that an integer can hold is
\* waited for, up to that cap; otherwise the sleep is within the jitter of the
\* policy's exponential, up to that cap and never below nothing - unless the
\* exponential is too large for a duration (retry.go:24-36, 57-59, 135-160).
SleepsAreBounded ==
  /\ BackoffTypeOK
  /\ attempt > 1 =>
       LET p == policy
           n == attempt - 1
           limit(d) == IF p.max > 0 /\ p.max < d THEN p.max ELSE d
           spread == IF p.jitter > 10 THEN 10 ELSE p.jitter
       IN  /\ p.max > 0 => sleep <= p.max
           /\ hint > 0 /\ hint * Second <= MaxInt => sleep = limit(hint * Second)
           /\ hint <= 0 /\ 2 * Scaled(p, n) <= MaxInt =>
                /\ sleep >= 0 /\ sleep >= limit((Scaled(p, n) * (10 - spread)) \div 10)
                /\ sleep <= limit((Scaled(p, n) * (10 + spread)) \div 10)
=============================================================================
