-------------------------- MODULE AlgorithmsProofs --------------------------
(***************************************************************************)
(* Algorithms, for every value of its constants. Sleeps: what could break  *)
(* their bounds is wrapping, so the proof is about where that happens, not *)
(* below the limits SleepsAreBounded names. Sentences: a place where one   *)
(* may end stays one when more of the reply arrives, and none appears      *)
(* before it. Corrections: levenshtein's table says exactly which words    *)
(* one or two edits lead to, and matchAt finds the best of what the rules  *)
(* allow. Prompts: the line that is built is as long as both caps let it   *)
(* be.                                                                     *)
(***************************************************************************)
EXTENDS Algorithms, SequenceTheorems, NaturalsInduction, WellFoundedInduction, TLAPS

-----------------------------------------------------------------------------
(* Integers of Width bits.                                                 *)

Half == 2^(Width - 1)

LEMMA HalfIsAll ==
  /\ Half \in Nat \ {0} /\ 2^Width = 2 * Half
  /\ MinInt = -Half /\ MaxInt = Half - 1
  /\ MinInt \in Int /\ MaxInt \in Nat
BY PowersAssumption DEF Half, MinInt, MaxInt

LEMMA Remainder ==
  ASSUME NEW a \in Int, NEW b \in Nat \ {0}
  PROVE  a % b \in 0..(b - 1) /\ (a \in 0..(b - 1) => a % b = a)
OBVIOUS

LEMMA WrappedIsInt ==
  ASSUME NEW n \in Int
  PROVE  Wrapped(n) \in MinInt..MaxInt /\ (InRange(n) => Wrapped(n) = n)
<1> DEFINE a == n - MinInt
<1>1. a \in Int /\ 2^Width \in Nat \ {0}  BY HalfIsAll
<1>2. a % 2^Width \in 0..(2^Width - 1) /\ (a \in 0..(2^Width - 1) => a % 2^Width = a)
  <2> HIDE DEF a
  <2> QED  BY <1>1, Remainder
<1>3. InRange(n) => a \in 0..(2^Width - 1)  BY HalfIsAll DEF InRange
<1>4. Wrapped(n) = (a % 2^Width) + MinInt  BY DEF Wrapped
<1> QED  BY <1>2, <1>3, <1>4, HalfIsAll

LEMMA FloatIsInt ==
  ASSUME NEW n \in Int, NEW d \in FromFloat(n)
  PROVE  d \in MinInt..MaxInt /\ (InRange(n) => d = n)
BY HalfIsAll DEF FromFloat, InRange

-----------------------------------------------------------------------------
(* What one sleep may be, by where it comes from.                          *)

Hinted == Hints \cup {NoHint}

LEMMA HintsAreInt ==
  ASSUME NEW h \in Hinted
  PROVE  h \in Int
BY BackoffAssumption DEF Hinted, NoHint

\* A hint is no sleep, or the hint itself where an integer holds it.
LEMMA AfterIsHint ==
  ASSUME NEW h \in Hinted
  PROVE  /\ After(h) \in MinInt..MaxInt
         /\ h <= 0 => After(h) = 0
         /\ h > 0 /\ h * Second <= MaxInt => After(h) = h * Second /\ After(h) > 0
<1>1. h \in Int /\ Second \in Nat \ {0}  BY HintsAreInt, BackoffAssumption
<1>2. h * Second \in Int  BY <1>1
<1>3. /\ Wrapped(h * Second) \in MinInt..MaxInt
      /\ InRange(h * Second) => Wrapped(h * Second) = h * Second
  BY <1>2, WrappedIsInt
<1>4. Wrapped(0) = 0  BY WrappedIsInt, HalfIsAll DEF InRange
<1>5. h = 0 => h * Second = 0  BY <1>1
<1>6. h > 0 => h * Second >= h
  <2>1. SUFFICES ASSUME h > 0 PROVE h * Second >= h  OBVIOUS
  <2>2. h * Second = h + h * (Second - 1)  BY <1>1
  <2>3. h * (Second - 1) >= 0  BY <1>1, <2>1
  <2> QED  BY <1>1, <1>2, <2>2, <2>3
<1>7. 0 \in MinInt..MaxInt  BY HalfIsAll
<1>8. After(h) \in MinInt..MaxInt  BY <1>3, <1>7 DEF After
<1>9. h <= 0 => After(h) = 0
  <2>1. CASE h < 0  BY <2>1, <1>1 DEF After
  <2>2. CASE h = 0  BY <2>2, <1>4, <1>5, <1>1, HalfIsAll DEF After
  <2>3. CASE h > 0  BY <2>3, <1>1
  <2> QED  BY <2>1, <2>2, <2>3, <1>1
<1>10. ASSUME h > 0, h * Second <= MaxInt PROVE After(h) = h * Second /\ After(h) > 0
  <2>1. ~(h < 0) /\ ~(h > MaxInt) /\ h * Second > 0
    BY <1>1, <1>2, <1>6, <1>10, HalfIsAll
  <2>2. InRange(h * Second)  BY <1>2, <2>1, <1>10, HalfIsAll DEF InRange
  <2> QED  BY <1>3, <2>1, <2>2 DEF After
<1> QED  BY <1>8, <1>9, <1>10

\* The spread of a policy, in tenths, and its exponential.
LEMMA PolicyTypes ==
  ASSUME NEW p \in Policies, NEW n \in 1..Attempts
  PROVE  /\ p.base \in Nat /\ p.max \in 0..MaxInt
         /\ Jitter(p) \in 0..10 /\ Scaled(p, n) \in Nat
         /\ p.base <= 0 => Scaled(p, n) = 0
<1>1. p.base \in 0..MaxInt /\ p.max \in 0..MaxInt /\ p.multiplier \in Multipliers /\ p.jitter \in Nat
  BY BackoffAssumption DEF Policies
<1>2. n - 1 \in 0..Attempts  BY BackoffAssumption
<1>3. p.multiplier^(n - 1) \in Nat  BY <1>1, <1>2, PowersAssumption
<1>4. p.base \in Nat  BY <1>1, HalfIsAll
<1>5. Jitter(p) \in 0..10  BY <1>1 DEF Jitter
<1> DEFINE power == p.multiplier^(n - 1)
<1> HIDE DEF power
<1>6. power \in Nat /\ Scaled(p, n) = p.base * power  BY <1>3 DEF power, Scaled
<1>7. p.base * power \in Nat /\ (p.base <= 0 => p.base * power = 0)
  <2>1. p.base * power \in Nat  BY <1>4, <1>6
  <2>2. p.base <= 0 => p.base = 0  BY <1>4
  <2>3. 0 * power = 0  BY <1>6
  <2> QED  BY <2>1, <2>2, <2>3
<1> QED  BY <1>1, <1>4, <1>5, <1>6, <1>7

\* The exponential within its jitter, as the code rounds it.
LEMMA JitterSpreads ==
  ASSUME NEW s \in Nat, NEW j \in 0..10, NEW r \in -10..10
  PROVE  LET d == (s * (100 + j * r)) IN
         /\ d \in Nat /\ d \div 100 \in Nat
         /\ (s * (10 - j)) \div 10 <= d \div 100 /\ d \div 100 <= (s * (10 + j)) \div 10
         /\ d \div 100 <= 2 * s
<1> DEFINE k == j * r
           low == s * (10 - j)
           high == s * (10 + j)
           d == s * (100 + k)
<1>1. k \in -(10 * j)..(10 * j)
  <2>1. k \in Int  OBVIOUS
  <2>2. j * (10 - r) >= 0 /\ j * (10 + r) >= 0  OBVIOUS
  <2>3. j * (10 - r) = 10 * j - k /\ j * (10 + r) = 10 * j + k  OBVIOUS
  <2> QED  BY <2>1, <2>2, <2>3
<1>2. 10 - j \in Nat /\ 10 + j \in Nat /\ 10 + j <= 20 /\ 100 + k \in Nat
  BY <1>1
<1>3. low \in Nat /\ high \in Nat /\ d \in Nat
  <2> HIDE DEF k
  <2> QED  BY <1>2
<1>4. 10 * low <= d /\ d <= 10 * high /\ high <= 20 * s
  <2>1. k + 10 * j >= 0 /\ 10 * j - k >= 0  BY <1>1
  <2>2. d - 10 * low = s * (k + 10 * j) /\ 10 * high - d = s * (10 * j - k)
    <3> HIDE DEF k
    <3>1. k \in Int  BY <1>1
    <3> QED  BY <3>1
  <2>3. s * (k + 10 * j) >= 0 /\ s * (10 * j - k) >= 0
    <3> HIDE DEF k
    <3>1. k \in Int  BY <1>1
    <3> QED  BY <3>1, <2>1
  <2>4. 20 * s - high = s * (10 - j) /\ s * (10 - j) >= 0  BY <1>2
  <2> HIDE DEF low, high, d
  <2> QED  BY <2>2, <2>3, <2>4, <1>3
<1>5. /\ d \div 100 \in Nat /\ low \div 10 <= d \div 100 /\ d \div 100 <= high \div 10
      /\ d \div 100 <= 2 * s
  <2> HIDE DEF low, high, d
  <2> QED  BY <1>3, <1>4
<1> QED  BY <1>3, <1>5

\* What computeBackoff may give: any duration, and one within the jitter where
\* twice the exponential is a duration.
LEMMA ComputedIsInt ==
  ASSUME NEW p \in Policies, NEW n \in 1..Attempts, NEW r \in Rolls,
         NEW d \in ComputeBackoff(p, n, r)
  PROVE  /\ d \in MinInt..MaxInt
         /\ 2 * Scaled(p, n) <= MaxInt =>
              /\ d >= 0
              /\ (Scaled(p, n) * (10 - Jitter(p))) \div 10 <= d
              /\ d <= (Scaled(p, n) * (10 + Jitter(p))) \div 10
<1> DEFINE s == Scaled(p, n)
           j == Jitter(p)
           e == s * (100 + j * r)
<1>1. s \in Nat /\ j \in 0..10 /\ (p.base <= 0 => s = 0)  BY PolicyTypes
<1>2. r \in -10..10  BY DEF Rolls
<1>3. /\ e \in Nat /\ e \div 100 \in Nat
      /\ (s * (10 - j)) \div 10 <= e \div 100 /\ e \div 100 <= (s * (10 + j)) \div 10
      /\ e \div 100 <= 2 * s
  <2> HIDE DEF s, j
  <2> QED  BY <1>1, <1>2, JitterSpreads
<1>4. CASE p.base <= 0
  <2>1. d = 0 /\ s = 0  BY <1>1, <1>4 DEF ComputeBackoff
  <2>2. 0 \in MinInt..MaxInt  BY HalfIsAll
  <2>3. (s * (10 - j)) \div 10 = 0 /\ (s * (10 + j)) \div 10 = 0
    <3> HIDE DEF s, j
    <3>1. s * (10 - j) = 0 /\ s * (10 + j) = 0  BY <1>1, <2>1
    <3>2. 0 \div 10 = 0  OBVIOUS
    <3> QED  BY <3>1, <3>2
  <2> QED  BY <2>1, <2>2, <2>3
<1>5. CASE ~(p.base <= 0)
  <2>1. d \in FromFloat(IF e < 0 THEN 0 ELSE e \div 100)  BY <1>5 DEF ComputeBackoff
  <2>2. ~(e < 0)
    <3> HIDE DEF e
    <3> QED  BY <1>3
  <2>3. d \in FromFloat(e \div 100)  BY <2>1, <2>2
  <2>4. e \div 100 \in Int  BY <1>3
  <2>5. d \in MinInt..MaxInt /\ (InRange(e \div 100) => d = e \div 100)
    <3> DEFINE q == e \div 100
    <3> HIDE DEF q
    <3>1. q \in Int /\ d \in FromFloat(q)  BY <2>3, <2>4 DEF q
    <3>2. d \in MinInt..MaxInt /\ (InRange(q) => d = q)  BY <3>1, FloatIsInt
    <3> QED  BY <3>2 DEF q
  <2>6. 2 * s <= MaxInt => InRange(e \div 100)
    <3> DEFINE q == e \div 100
    <3>1. q \in Nat /\ q <= 2 * s  BY <1>3
    <3> HIDE DEF q, s
    <3>2. 2 * s <= MaxInt => InRange(q)  BY <3>1, <1>1, HalfIsAll DEF InRange
    <3> QED  BY <3>2 DEF q
  <2> HIDE DEF e
  <2> QED  BY <1>3, <2>5, <2>6
<1> QED  BY <1>4, <1>5

-----------------------------------------------------------------------------
(* The invariant: the last sleep is one that the failed attempt could give.*)

BackoffInv == /\ BackoffTypeOK
              /\ attempt > 1 => sleep \in Sleeps(policy, attempt - 1, hint, roll)

LEMMA SleepsAreInts ==
  ASSUME NEW p \in Policies, NEW n \in 1..Attempts, NEW h \in Hinted, NEW r \in Rolls
  PROVE  Sleeps(p, n, h, r) \subseteq MinInt..MaxInt
<1>1. SUFFICES ASSUME NEW d \in Sleeps(p, n, h, r) PROVE d \in MinInt..MaxInt  OBVIOUS
<1>2. p.max \in MinInt..MaxInt  BY PolicyTypes, HalfIsAll
<1>3. CASE After(h) > 0
  <2>1. d = Capped(p, After(h))  BY <1>1, <1>3 DEF Sleeps
  <2> QED  BY <2>1, <1>2, AfterIsHint DEF Capped
<1>4. CASE ~(After(h) > 0)
  <2>1. PICK c \in ComputeBackoff(p, n, r) : d = Capped(p, c)  BY <1>1, <1>4 DEF Sleeps
  <2>2. c \in MinInt..MaxInt  BY ComputedIsInt
  <2> QED  BY <2>1, <2>2, <1>2 DEF Capped
<1> QED  BY <1>3, <1>4

LEMMA BackoffInvHolds == AlgorithmsSpec => []BackoffInv
<1>1. AlgorithmsInit => BackoffInv
  <2>1. SUFFICES ASSUME AlgorithmsInit PROVE BackoffInv  OBVIOUS
  <2>2. policy \in Policies /\ attempt = 1 /\ hint = NoHint /\ roll = 0 /\ sleep = 0
    BY <2>1 DEF AlgorithmsInit, BackoffInit
  <2>3. 0 \in Rolls /\ 0 \in MinInt..MaxInt /\ 1 \in 1..Attempts
    BY HalfIsAll, BackoffAssumption DEF Rolls
  <2> QED  BY <2>2, <2>3 DEF BackoffInv, BackoffTypeOK
<1>2. BackoffInv /\ [AlgorithmsNext]_algorithmsVars => BackoffInv'
  <2> SUFFICES ASSUME BackoffInv, [AlgorithmsNext]_algorithmsVars PROVE BackoffInv'
    OBVIOUS
  <2>1. CASE Wait
    <3>1. PICK h \in Hinted, r \in Rolls : FailAndSleep(h, r)
      BY <2>1 DEF Wait, BackoffNext, Hinted
    <3>2. /\ attempt \in 1..Attempts /\ attempt < Attempts /\ attempt' = attempt + 1
          /\ hint' = h /\ roll' = r /\ policy' = policy /\ policy \in Policies
          /\ sleep' \in Sleeps(policy, attempt, h, r)
      BY <3>1 DEF FailAndSleep, BackoffInv, BackoffTypeOK
    <3>3. sleep' \in MinInt..MaxInt  BY <3>2, SleepsAreInts
    <3>4. attempt' \in 1..Attempts /\ attempt' - 1 = attempt  BY <3>2, BackoffAssumption
    <3> QED  BY <3>2, <3>3, <3>4 DEF BackoffInv, BackoffTypeOK, Hinted
  <2>2. CASE Cut \/ Correct \/ UNCHANGED algorithmsVars
    <3>1. UNCHANGED backoffVars  BY <2>2 DEF Cut, Correct, algorithmsVars
    <3> QED  BY <3>1 DEF backoffVars, BackoffInv, BackoffTypeOK
  <2> QED  BY <2>1, <2>2 DEF AlgorithmsNext
<1> QED  BY <1>1, <1>2, PTL DEF AlgorithmsSpec

-----------------------------------------------------------------------------
(* The bounds.                                                             *)

\* MaxDelay caps every sleep, a hint that a duration holds is waited for up to
\* it, and any other sleep is within the jitter of the exponential: for every
\* policy and every width of a duration (retry/retry.go computeBackoff, Do;
\* llm/openrouter/retry.go parseRetryAfter).
THEOREM SleepsStayBounded == AlgorithmsSpec => []SleepsAreBounded
<1>1. BackoffInv => SleepsAreBounded
  <2> SUFFICES ASSUME BackoffInv, attempt > 1
               PROVE  LET p == policy
                          n == attempt - 1
                          limit(d) == IF p.max > 0 /\ p.max < d THEN p.max ELSE d
                          spread == IF p.jitter > 10 THEN 10 ELSE p.jitter
                      IN  /\ p.max > 0 => sleep <= p.max
                          /\ hint > 0 /\ hint * Second <= MaxInt => sleep = limit(hint * Second)
                          /\ hint <= 0 /\ 2 * Scaled(p, n) <= MaxInt =>
                               /\ sleep >= 0 /\ sleep >= limit((Scaled(p, n) * (10 - spread)) \div 10)
                               /\ sleep <= limit((Scaled(p, n) * (10 + spread)) \div 10)
    BY DEF SleepsAreBounded, BackoffInv
  <2> DEFINE p == policy
             n == attempt - 1
             limit(d) == IF p.max > 0 /\ p.max < d THEN p.max ELSE d
             low == (Scaled(p, n) * (10 - Jitter(p))) \div 10
             high == (Scaled(p, n) * (10 + Jitter(p))) \div 10
  <2>1. /\ p \in Policies /\ n \in 1..Attempts /\ hint \in Hinted /\ roll \in Rolls
        /\ sleep \in Sleeps(p, n, hint, roll) /\ sleep \in MinInt..MaxInt
    BY BackoffAssumption DEF BackoffInv, BackoffTypeOK, Hinted
  <2>2. p.max \in Nat /\ Scaled(p, n) \in Nat /\ Jitter(p) \in 0..10
    BY <2>1, PolicyTypes
  <2>3. low \in Int /\ high \in Int
    <3>1. \A s \in Nat, j \in 0..10 : (s * (10 - j)) \div 10 \in Int /\ (s * (10 + j)) \div 10 \in Int
      <4>1. \A a \in Int : a \div 10 \in Int  OBVIOUS
      <4>2. \A s \in Nat, j \in 0..10 : s * (10 - j) \in Int /\ s * (10 + j) \in Int  OBVIOUS
      <4> QED  BY <4>1, <4>2
    <3> QED  BY <3>1, <2>2
  <2>4. p.max > 0 => sleep <= p.max
    <3>1. \A d \in Int : p.max > 0 => Capped(p, d) <= p.max  BY <2>2 DEF Capped
    <3>2. PICK d \in Int : sleep = Capped(p, d)
      <4>1. CASE After(hint) > 0  BY <4>1, <2>1, AfterIsHint DEF Sleeps
      <4>2. CASE ~(After(hint) > 0)
        <5>1. PICK d \in ComputeBackoff(p, n, roll) : sleep = Capped(p, d)
          BY <4>2, <2>1 DEF Sleeps
        <5> QED  BY <5>1, <2>1, ComputedIsInt
      <4> QED  BY <4>1, <4>2
    <3> QED  BY <3>1, <3>2
  <2>5. hint > 0 /\ hint * Second <= MaxInt => sleep = limit(hint * Second)
    <3>1. SUFFICES ASSUME hint > 0, hint * Second <= MaxInt PROVE sleep = limit(hint * Second)
      OBVIOUS
    <3>2. After(hint) = hint * Second /\ After(hint) > 0  BY <3>1, <2>1, AfterIsHint
    <3>3. sleep = Capped(p, hint * Second)  BY <3>2, <2>1 DEF Sleeps
    <3>4. hint * Second \in Int  BY <2>1, HintsAreInt, BackoffAssumption
    <3> QED  BY <3>3, <3>4, <2>2 DEF Capped
  <2>6. hint <= 0 /\ 2 * Scaled(p, n) <= MaxInt =>
          sleep >= 0 /\ sleep >= limit(low) /\ sleep <= limit(high)
    <3>1. SUFFICES ASSUME hint <= 0, 2 * Scaled(p, n) <= MaxInt
                   PROVE  sleep >= 0 /\ sleep >= limit(low) /\ sleep <= limit(high)
      OBVIOUS
    <3>2. After(hint) = 0  BY <3>1, <2>1, AfterIsHint
    <3>3. PICK d \in ComputeBackoff(p, n, roll) : sleep = Capped(p, d)
      BY <3>2, <2>1 DEF Sleeps
    <3>4. d \in MinInt..MaxInt /\ d >= 0 /\ low <= d /\ d <= high
      BY <3>1, <2>1, ComputedIsInt
    <3>5. d \in Int  BY <3>4, HalfIsAll
    <3> HIDE DEF low, high
    <3> QED  BY <3>3, <3>4, <3>5, <2>2, <2>3 DEF Capped
  <2> QED  BY <2>4, <2>5, <2>6 DEF Jitter
<1> QED  BY <1>1, BackoffInvHolds, PTL

-----------------------------------------------------------------------------
(* Sentences.  A pass over the buffer is a recursive function, so what     *)
(* holds of it is shown for the least rune at which it could fail.         *)

\* Induction over the naturals, for a set of them.
LEMMA LeastNat ==
  ASSUME NEW T, T \subseteq Nat, T # {}
  PROVE  \E x \in T : \A y \in T : x <= y
<1>1. IsWellFoundedOn(OpToRel(<, Nat), Nat)
  BY NatLessThanWellFounded
<1>2. PICK x \in T : \A y \in T : ~ (<<y, x>> \in OpToRel(<, Nat))
  BY <1>1, WFMin
<1>3. \A y \in T : ~ (<<y, x>> \in {ss \in Nat \X Nat : ss[1] < ss[2]})
  BY <1>2, Zenon DEF OpToRel
<1>4. \A y \in T : ~(y < x)
  BY <1>3
<1> QED
  BY <1>4

\* The cuts of a pass, up to each rune.
Passed(f, text, begin, m) ==
  /\ DOMAIN f = begin..m
  /\ f[begin] = [start |-> begin, said |-> said]
  /\ \A i \in (begin + 1)..m : f[i] = CutAt(text, i, f[i - 1])

LEMMA PassesExist ==
  ASSUME NEW text, NEW begin \in Nat, NEW m \in Nat, begin <= m
  PROVE  \E f : f = [i \in begin..m |-> f[i]] /\ Passed(f, text, begin, m)
<1> DEFINE T == {n \in Nat : begin <= n /\ ~ \E f : f = [i \in begin..n |-> f[i]] /\ Passed(f, text, begin, n)}
<1>1. SUFFICES ASSUME T # {} PROVE FALSE  OBVIOUS
<1>2. PICK x \in T : \A y \in T : x <= y
  <2>1. T \subseteq Nat  OBVIOUS
  <2> HIDE DEF T
  <2> QED  BY <1>1, <2>1, LeastNat
<1>3. x \in Nat /\ begin <= x /\ ~ \E f : f = [i \in begin..x |-> f[i]] /\ Passed(f, text, begin, x)
  BY <1>2
<1>4. CASE x = begin
  <2> DEFINE g == [i \in begin..x |-> [start |-> begin, said |-> said]]
  <2>1. g = [i \in begin..x |-> g[i]]  OBVIOUS
  <2>2. begin \in begin..x /\ (begin + 1)..x = {}  BY <1>4
  <2>3. Passed(g, text, begin, x)  BY <2>2 DEF Passed
  <2> QED  BY <1>3, <2>1, <2>3
<1>5. CASE x # begin
  <2>1. x - 1 \in Nat /\ begin <= x - 1 /\ x - 1 < x  BY <1>3, <1>5
  <2>2. x - 1 \notin T  BY <1>2, <2>1
  <2>3. PICK f : f = [i \in begin..(x - 1) |-> f[i]] /\ Passed(f, text, begin, x - 1)
    BY <2>1, <2>2
  <2> DEFINE g == [i \in begin..x |-> IF i = x THEN CutAt(text, x, f[x - 1]) ELSE f[i]]
  <2>4. g = [i \in begin..x |-> g[i]]  OBVIOUS
  <2>5. begin \in begin..x /\ begin # x /\ begin \in begin..(x - 1)  BY <2>1
  <2>6. g[begin] = [start |-> begin, said |-> said]  BY <2>3, <2>5 DEF Passed
  <2>7. ASSUME NEW i \in (begin + 1)..x PROVE g[i] = CutAt(text, i, g[i - 1])
    <3>1. i \in begin..x /\ i - 1 \in begin..x /\ i - 1 # x  BY <1>3
    <3>2. g[i - 1] = f[i - 1]  BY <3>1
    <3>3. CASE i = x  BY <3>1, <3>2, <3>3
    <3>4. CASE i # x
      <4>1. i \in (begin + 1)..(x - 1)  BY <1>3, <3>4
      <4>2. g[i] = f[i]  BY <3>1, <3>4
      <4> QED  BY <2>3, <3>2, <4>1, <4>2 DEF Passed
    <3> QED  BY <3>3, <3>4
  <2>8. Passed(g, text, begin, x)
    <3>1. DOMAIN g = begin..x  OBVIOUS
    <3> HIDE DEF g
    <3> QED  BY <2>6, <2>7, <3>1 DEF Passed
  <2> HIDE DEF g
  <2> QED  BY <1>3, <2>4, <2>8
<1> QED  BY <1>4, <1>5

\* Scan is the last cut of such a pass.
LEMMA ScanPasses ==
  ASSUME NEW text, NEW begin \in Nat, Len(text) \in Nat, begin <= Len(text)
  PROVE  \E f : Passed(f, text, begin, Len(text)) /\ Scan(text, begin) = f[Len(text)]
<1> DEFINE m == Len(text)
           Step(f, i) == IF i = begin THEN [start |-> begin, said |-> said]
                                      ELSE CutAt(text, i, f[i - 1])
           scan == CHOOSE h : h = [i \in begin..m |-> Step(h, i)]
<1>1. PICK f : f = [i \in begin..m |-> f[i]] /\ Passed(f, text, begin, m)
  BY PassesExist
<1>2. f = [i \in begin..m |-> Step(f, i)]
  <2>1. \A i \in begin..m : f[i] = Step(f, i)
    <3> SUFFICES ASSUME NEW i \in begin..m PROVE f[i] = Step(f, i)  OBVIOUS
    <3>1. CASE i = begin  BY <1>1, <3>1 DEF Passed
    <3>2. CASE i # begin
      <4>1. i \in (begin + 1)..m  BY <3>2
      <4> QED  BY <1>1, <3>2, <4>1 DEF Passed
    <3> QED  BY <3>1, <3>2
  <2> HIDE DEF Step
  <2> QED  BY <1>1, <2>1
<1>3. scan = [i \in begin..m |-> Step(scan, i)]  BY <1>2
<1>4. Scan(text, begin) = scan[m]  BY Zenon DEF Scan
<1> HIDE DEF scan
<1>5. Passed(scan, text, begin, m)
  <2>1. DOMAIN scan = begin..m  BY <1>3
  <2>2. \A i \in begin..m : scan[i] = Step(scan, i)  BY <1>3
  <2>3. begin \in begin..m  OBVIOUS
  <2>4. \A i \in (begin + 1)..m : i \in begin..m /\ i # begin  OBVIOUS
  <2> QED  BY <2>1, <2>2, <2>3, <2>4 DEF Passed
<1> QED  BY <1>4, <1>5

-----------------------------------------------------------------------------
(* Where a sentence may end, and that more of the reply does not move it.  *)

Spans == [from : 1..MaxHeard, to : 1..MaxHeard, flushed : BOOLEAN]
Replies == {text \in Seq(Runes) : Len(text) <= MaxHeard}

\* MayEnd, of any text.
Ends(text, from, i) ==
  \/ text[i] = "newline"
  \/ /\ text[i] = "stop" /\ i < Len(text) /\ text[i + 1] \in Blank
     /\ \E f \in from..i : text[f] \notin Blank /\ i - f + 1 >= MinRunes

LEMMA RepliesLen ==
  ASSUME NEW text \in Replies
  PROVE  /\ Len(text) \in Nat /\ Len(text) <= MaxHeard /\ MaxHeard \in Nat
         /\ \A i \in 1..Len(text) : text[i] \in Runes
BY SentencesAssumption, LenProperties, ElementOfSeq DEF Replies

\* Trimmed before a stop is from the first rune that is no blank.
LEMMA TrimmedBeforeStop ==
  ASSUME NEW text, NEW from \in Nat, NEW i \in Nat, from <= i, text[i] \notin Blank
  PROVE  Trimmed(text, from, i) >= MinRunes
           <=> \E f \in from..i : text[f] \notin Blank /\ i - f + 1 >= MinRunes
<1> DEFINE kept == {k \in from..i : text[k] \notin Blank}
           last == CHOOSE l \in kept : \A k \in kept : k <= l
           first == CHOOSE f \in kept : \A k \in kept : f <= k
<1>1. i \in kept /\ kept \subseteq Nat /\ kept # {}  OBVIOUS
<1>2. last = i
  <2>1. \A k \in kept : k <= i  OBVIOUS
  <2>2. last \in kept /\ \A k \in kept : k <= last
    <3> HIDE DEF kept
    <3> QED  BY <1>1, <2>1
  <2>3. last <= i /\ i <= last /\ last \in Nat
    <3> HIDE DEF kept, last
    <3> QED  BY <1>1, <2>1, <2>2
  <2> HIDE DEF last
  <2> QED  BY <2>3
<1>3. first \in kept /\ \A k \in kept : first <= k
  <2> HIDE DEF kept
  <2>1. \E f \in kept : \A k \in kept : f <= k  BY <1>1, LeastNat
  <2> QED  BY <2>1
<1>4. Trimmed(text, from, i) = 1 + i - first
  <2>1. Trimmed(text, from, i) = 1 + last - first  BY <1>1 DEF Trimmed
  <2> HIDE DEF last, first
  <2> QED  BY <1>2, <2>1
<1> HIDE DEF first
<1>5. first \in Nat /\ first \in from..i /\ text[first] \notin Blank  BY <1>3
<1>6. \A f \in from..i : text[f] \notin Blank => first <= f  BY <1>3
<1> HIDE DEF kept, last
<1> QED  BY <1>4, <1>5, <1>6, SentencesAssumption

LEMMA EndsHereIsEnds ==
  ASSUME NEW text, NEW begin \in Nat, NEW i \in Nat, begin < i
  PROVE  EndsHere(text, begin, i) <=> Ends(text, begin + 1, i)
<1>1. CASE text[i] = "stop"
  <2>1. text[i] \notin Blank  BY <1>1 DEF Blank
  <2>2. Trimmed(text, begin + 1, i) >= MinRunes
          <=> \E f \in (begin + 1)..i : text[f] \notin Blank /\ i - f + 1 >= MinRunes
    BY <2>1, TrimmedBeforeStop
  <2> QED  BY <2>2 DEF EndsHere, Ends
<1>2. CASE text[i] # "stop"  BY <1>2 DEF EndsHere, Ends
<1> QED  BY <1>1, <1>2

\* A longer text ends a sentence wherever a shorter one does, and elsewhere only
\* at the last rune of that one.
LEMMA EndsStay ==
  ASSUME NEW text \in Replies, NEW delta \in Seq(Runes), text \o delta \in Replies,
         NEW from \in Nat \ {0}, NEW i \in 1..Len(text)
  PROVE  /\ Ends(text, from, i) => Ends(text \o delta, from, i)
         /\ i < Len(text) => (Ends(text \o delta, from, i) <=> Ends(text, from, i))
<1> DEFINE longer == text \o delta
<1>1. /\ text \in Seq(Runes) /\ Len(text) \in Nat /\ Len(delta) \in Nat
      /\ Len(longer) = Len(text) + Len(delta)
      /\ \A k \in 1..Len(text) : longer[k] = text[k]
  BY ConcatProperties, LenProperties DEF Replies
<1> HIDE DEF longer
<1>2. longer[i] = text[i]  BY <1>1
<1>3. i < Len(text) => i < Len(longer) /\ longer[i + 1] = text[i + 1]  BY <1>1
<1>4. \A f \in from..i : longer[f] = text[f]  BY <1>1
<1>5. Ends(text, from, i) => Ends(longer, from, i)  BY <1>2, <1>3, <1>4 DEF Ends
<1>6. i < Len(text) => (Ends(longer, from, i) => Ends(text, from, i))
  BY <1>2, <1>3, <1>4 DEF Ends
<1> QED  BY <1>5, <1>6 DEF longer

-----------------------------------------------------------------------------
(* The invariant: SentencesAreStable with said bounded by start, for the   *)
(* first m runes of a text and what has been cut off them.                 *)

Told(text, s, n) ==
  /\ n.from <= n.to /\ n.to <= s
  /\ n.flushed \/ Ends(text, n.from, n.to)
  /\ \A i \in n.from..(n.to - 1) : ~Ends(text, n.from, i)

Whole(text, c, m) ==
  /\ c.start \in 0..m /\ c.said \in Seq(Spans)
  /\ \A n \in DOMAIN c.said : Told(text, c.start, c.said[n])
  /\ \A n \in DOMAIN c.said : n > 1 => c.said[n - 1].to < c.said[n].from
  /\ \A i \in 1..c.start : text[i] = "letter" =>
       \E n \in DOMAIN c.said : i \in c.said[n].from..c.said[n].to
  /\ \A i \in (c.start + 1)..m : ~Ends(text, c.start + 1, i)

\* A sentence cut off at rune to, where it may end or is flushed.
LEMMA CutIsWhole ==
  ASSUME NEW text \in Replies, NEW m \in 0..Len(text), NEW c, Whole(text, c, m),
         NEW to \in 1..Len(text), to = m \/ to = m + 1, c.start < to,
         NEW flush \in BOOLEAN, flush \/ Ends(text, c.start + 1, to)
  PROVE  Whole(text, [start |-> to, said |-> Spoken(c.said, text, c.start, to, flush)], to)
<1> DEFINE span == [from |-> c.start + 1, to |-> to, flushed |-> flush]
           said2 == Spoken(c.said, text, c.start, to, flush)
           d == [start |-> to, said |-> said2]
<1>1. /\ Len(text) \in Nat /\ Len(text) <= MaxHeard /\ MaxHeard \in Nat
      /\ c.start \in Nat /\ c.said \in Seq(Spans) /\ Len(c.said) \in Nat
      /\ DOMAIN c.said = 1..Len(c.said)
  BY RepliesLen, LenProperties DEF Whole
<1>2. span \in Spans  BY <1>1 DEF Spans
<1>3. /\ span.from = c.start + 1 /\ span.to = to /\ span.flushed = flush  OBVIOUS
<1>4. \A n \in DOMAIN c.said : c.said[n] \in Spans
  BY <1>1, ElementOfSeq
<1>5. \A n \in DOMAIN c.said : Told(text, to, c.said[n]) /\ c.said[n].to <= c.start
  <2> SUFFICES ASSUME NEW n \in DOMAIN c.said
               PROVE  Told(text, to, c.said[n]) /\ c.said[n].to <= c.start
    OBVIOUS
  <2>1. Told(text, c.start, c.said[n])  BY DEF Whole
  <2>2. c.said[n].to \in Nat  BY <1>4 DEF Spans
  <2> QED  BY <2>1, <2>2, <1>1 DEF Told
<1>6. Told(text, to, span)
  <2>1. \A i \in (c.start + 1)..(to - 1) : ~Ends(text, c.start + 1, i)
    <3>1. \A i \in (c.start + 1)..m : ~Ends(text, c.start + 1, i)  BY DEF Whole
    <3>2. (c.start + 1)..(to - 1) \subseteq (c.start + 1)..m  BY <1>1
    <3> QED  BY <3>1, <3>2
  <2> HIDE DEF span
  <2> QED  BY <1>1, <1>3, <2>1 DEF Told
<1>7. CASE Speaks(text, c.start + 1, to)
  <2>1. said2 = Append(c.said, span)  BY <1>7 DEF Spoken
  <2>2. /\ said2 \in Seq(Spans) /\ DOMAIN said2 = 1..(Len(c.said) + 1)
        /\ \A n \in 1..Len(c.said) : said2[n] = c.said[n]
        /\ said2[Len(c.said) + 1] = span
    <3> HIDE DEF span, said2
    <3> QED  BY <1>1, <1>2, <2>1, AppendProperties, LenProperties
  <2>3. /\ d.start = to /\ d.said = said2  OBVIOUS
  <2> HIDE DEF span, said2, d
  <2>4. \A n \in DOMAIN said2 : n \in DOMAIN c.said \/ n = Len(c.said) + 1
    BY <1>1, <2>2
  <2>5. \A n \in DOMAIN said2 : Told(text, to, said2[n])
    BY <1>1, <1>5, <1>6, <2>2, <2>4
  <2>6. \A n \in DOMAIN said2 : n > 1 => said2[n - 1].to < said2[n].from
    <3> SUFFICES ASSUME NEW n \in DOMAIN said2, n > 1 PROVE said2[n - 1].to < said2[n].from
      OBVIOUS
    <3>1. n - 1 \in 1..Len(c.said) /\ said2[n - 1] = c.said[n - 1]  BY <1>1, <2>2
    <3>2. CASE n \in DOMAIN c.said
      <4>1. c.said[n - 1].to < c.said[n].from  BY <3>2 DEF Whole
      <4> QED  BY <1>1, <2>2, <3>1, <3>2, <4>1
    <3>3. CASE n = Len(c.said) + 1
      <4>1. c.said[n - 1].to <= c.start /\ c.said[n - 1].to \in Nat
        BY <1>1, <1>4, <1>5, <3>1 DEF Spans
      <4>2. said2[n] = span  BY <2>2, <3>3
      <4>3. said2[n].from = c.start + 1  BY <1>3, <4>2
      <4>4. said2[n - 1].to = c.said[n - 1].to  BY <3>1
      <4> QED  BY <1>1, <4>1, <4>3, <4>4
    <3> QED  BY <2>4, <3>2, <3>3
  <2>7. ASSUME NEW i \in 1..to, text[i] = "letter"
        PROVE  \E n \in DOMAIN said2 : i \in said2[n].from..said2[n].to
    <3>1. CASE i <= c.start
      <4>1. i \in 1..c.start  BY <3>1, <1>1
      <4>2. PICK n \in DOMAIN c.said : i \in c.said[n].from..c.said[n].to
        BY <2>7, <4>1 DEF Whole
      <4> QED  BY <4>2, <1>1, <2>2
    <3>2. CASE ~(i <= c.start)
      <4>1. i \in span.from..span.to  BY <3>2, <1>1, <1>3
      <4>2. Len(c.said) + 1 \in DOMAIN said2  BY <1>1, <2>2
      <4> QED  BY <4>1, <4>2, <2>2
    <3> QED  BY <3>1, <3>2
  <2>8. to \in 0..to /\ (to + 1)..to = {}  OBVIOUS
  <2>9. Whole(text, d, to)  BY <2>2, <2>3, <2>5, <2>6, <2>7, <2>8 DEF Whole
  <2> QED  BY <2>9 DEF d, said2
<1>8. CASE ~Speaks(text, c.start + 1, to)
  <2>1. said2 = c.said  BY <1>8 DEF Spoken
  <2>2. /\ d.start = to /\ d.said = c.said  BY <2>1
  <2> HIDE DEF said2, d
  <2>3. \A n \in DOMAIN c.said : n > 1 => c.said[n - 1].to < c.said[n].from
    BY DEF Whole
  <2>4. ASSUME NEW i \in 1..to, text[i] = "letter"
        PROVE  \E n \in DOMAIN c.said : i \in c.said[n].from..c.said[n].to
    <3>1. i \notin (c.start + 1)..to  BY <1>8, <2>4 DEF Speaks
    <3>2. i \in 1..c.start  BY <3>1, <1>1
    <3> QED  BY <2>4, <3>2 DEF Whole
  <2>5. to \in 0..to /\ (to + 1)..to = {}  OBVIOUS
  <2>6. Whole(text, d, to)  BY <1>1, <1>5, <2>2, <2>3, <2>4, <2>5 DEF Whole
  <2> QED  BY <2>6 DEF d, said2
<1> QED  BY <1>7, <1>8

\* One rune more, looked at.
LEMMA CutAtIsWhole ==
  ASSUME NEW text \in Replies, NEW i \in 1..Len(text), NEW c, Whole(text, c, i - 1)
  PROVE  Whole(text, CutAt(text, i, c), i)
<1>1. c.start \in 0..(i - 1) /\ c.start \in Nat /\ c.start < i /\ Len(text) \in Nat
  BY RepliesLen DEF Whole
<1>2. EndsHere(text, c.start, i) <=> Ends(text, c.start + 1, i)
  BY <1>1, EndsHereIsEnds
<1>3. CASE EndsHere(text, c.start, i)
  <2>1. CutAt(text, i, c) = [start |-> i, said |-> Spoken(c.said, text, c.start, i, FALSE)]
    BY <1>3 DEF CutAt
  <2>2. i - 1 \in 0..Len(text) /\ i = (i - 1) + 1  BY <1>1
  <2>3. Ends(text, c.start + 1, i)  BY <1>2, <1>3
  <2>4. Whole(text, [start |-> i, said |-> Spoken(c.said, text, c.start, i, FALSE)], i)
    BY <1>1, <2>2, <2>3, CutIsWhole
  <2> QED  BY <2>1, <2>4
<1>4. CASE ~EndsHere(text, c.start, i)
  <2>1. CutAt(text, i, c) = c  BY <1>4 DEF CutAt
  <2>2. c.start \in 0..i  BY <1>1
  <2>3. \A k \in (c.start + 1)..i : ~Ends(text, c.start + 1, k)
    <3>1. \A k \in (c.start + 1)..i : k \in (c.start + 1)..(i - 1) \/ k = i  BY <1>1
    <3>2. \A k \in (c.start + 1)..(i - 1) : ~Ends(text, c.start + 1, k)  BY DEF Whole
    <3> QED  BY <1>2, <1>4, <3>1, <3>2
  <2>4. Whole(text, c, i)  BY <2>2, <2>3 DEF Whole
  <2> QED  BY <2>1, <2>4
<1> QED  BY <1>3, <1>4

\* A whole pass.
LEMMA ScanIsWhole ==
  ASSUME NEW text \in Replies, NEW begin \in 0..Len(text),
         Whole(text, [start |-> begin, said |-> said], begin)
  PROVE  Whole(text, Scan(text, begin), Len(text))
<1>1. Len(text) \in Nat /\ begin \in Nat /\ begin <= Len(text)  BY RepliesLen
<1>2. PICK f : Passed(f, text, begin, Len(text)) /\ Scan(text, begin) = f[Len(text)]
  BY <1>1, ScanPasses
<1> DEFINE T == {i \in begin..Len(text) : ~Whole(text, f[i], i)}
<1>3. T = {}
  <2>1. SUFFICES ASSUME T # {} PROVE FALSE  OBVIOUS
  <2>2. PICK x \in T : \A y \in T : x <= y
    <3>1. T \subseteq Nat  BY <1>1
    <3> HIDE DEF T
    <3> QED  BY <2>1, <3>1, LeastNat
  <2>3. x \in begin..Len(text) /\ ~Whole(text, f[x], x)  BY <2>2
  <2>4. x # begin
    <3>1. f[begin] = [start |-> begin, said |-> said]  BY <1>2 DEF Passed
    <3> QED  BY <2>3, <3>1
  <2>5. x - 1 \in begin..Len(text) /\ x \in (begin + 1)..Len(text) /\ x \in 1..Len(text)
    BY <1>1, <2>3, <2>4
  <2>6. x - 1 \notin T  BY <1>1, <2>2, <2>3
  <2>7. Whole(text, f[x - 1], x - 1)  BY <2>5, <2>6
  <2>8. f[x] = CutAt(text, x, f[x - 1])  BY <1>2, <2>5 DEF Passed
  <2>9. Whole(text, CutAt(text, x, f[x - 1]), x)  BY <2>5, <2>7, CutAtIsWhole
  <2> QED  BY <2>3, <2>8, <2>9
<1>4. Len(text) \in begin..Len(text)  BY <1>1
<1> QED  BY <1>2, <1>3, <1>4

\* A delta leaves what has been cut off as it was.
LEMMA WholeStays ==
  ASSUME NEW text \in Replies, NEW delta \in Seq(Runes), text \o delta \in Replies,
         NEW c, Whole(text, c, Len(text))
  PROVE  Whole(text \o delta, c, c.start)
<1> DEFINE longer == text \o delta
<1>1. /\ text \in Seq(Runes) /\ Len(text) \in Nat /\ MaxHeard \in Nat
      /\ \A k \in 1..Len(text) : longer[k] = text[k]
  BY ConcatProperties, LenProperties, RepliesLen DEF Replies
<1>2. \A from \in Nat \ {0}, i \in 1..Len(text) :
        /\ Ends(text, from, i) => Ends(longer, from, i)
        /\ i < Len(text) => (Ends(longer, from, i) <=> Ends(text, from, i))
  BY EndsStay
<1> HIDE DEF longer
<1>3. /\ c.start \in 0..Len(text) /\ c.said \in Seq(Spans)
      /\ \A n \in DOMAIN c.said : c.said[n] \in Spans /\ Told(text, c.start, c.said[n])
  BY ElementOfSeq, LenProperties DEF Whole
<1>4. ASSUME NEW n \in DOMAIN c.said PROVE Told(longer, c.start, c.said[n])
  <2> DEFINE s == c.said[n]
  <2> HIDE DEF s
  <2>1. s \in Spans /\ Told(text, c.start, s)  BY <1>3, <1>4 DEF s
  <2>2. /\ s.from \in Nat \ {0} /\ s.to \in Nat \ {0} /\ s.from <= s.to
        /\ s.to <= c.start /\ s.to <= Len(text) /\ s.to \in 1..Len(text)
    BY <1>1, <1>3, <2>1 DEF Spans, Told
  <2>3. s.flushed \/ Ends(longer, s.from, s.to)  BY <1>2, <2>1, <2>2 DEF Told
  <2>4. ASSUME NEW i \in s.from..(s.to - 1) PROVE ~Ends(longer, s.from, i)
    <3>1. i \in 1..Len(text) /\ i < Len(text)  BY <1>1, <2>2
    <3>2. ~Ends(text, s.from, i)  BY <2>1 DEF Told
    <3> QED  BY <1>2, <2>2, <3>1, <3>2
  <2>5. Told(longer, c.start, s)  BY <2>2, <2>3, <2>4 DEF Told
  <2> QED  BY <2>5 DEF s
<1>5. ASSUME NEW i \in 1..c.start, longer[i] = "letter"
      PROVE  \E n \in DOMAIN c.said : i \in c.said[n].from..c.said[n].to
  <2>1. i \in 1..Len(text) /\ text[i] = "letter"  BY <1>1, <1>3, <1>5
  <2> QED  BY <2>1, <1>5 DEF Whole
<1>6. \A n \in DOMAIN c.said : n > 1 => c.said[n - 1].to < c.said[n].from
  BY DEF Whole
<1>7. c.start \in 0..c.start /\ (c.start + 1)..c.start = {}  BY <1>1, <1>3
<1>8. Whole(longer, c, c.start)  BY <1>3, <1>4, <1>5, <1>6, <1>7 DEF Whole
<1> QED  BY <1>8 DEF longer

-----------------------------------------------------------------------------
(* The steps.                                                              *)

Cutting == [start |-> start, said |-> said]

SentencesInv == heard \in Replies /\ Whole(heard, Cutting, Len(heard))

LEMMA FeedIsWhole ==
  ASSUME SentencesInv, NEW delta \in Deltas, Feed(delta)
  PROVE  SentencesInv'
<1> DEFINE text == heard \o delta
           cut == Scan(text, start)
<1>1. heard \in Replies /\ Whole(heard, Cutting, Len(heard)) /\ MaxHeard \in Nat
  BY SentencesAssumption DEF SentencesInv
<1>2. delta \in Seq(Runes)
  <2>1. PICK n \in 1..MaxDelta : delta \in [1..n -> Runes]  BY DEF Deltas
  <2>2. n \in Nat  BY <2>1, SentencesAssumption
  <2> QED  BY <2>1, <2>2
<1>3. heard' = text /\ start' = cut.start /\ said' = cut.said  BY DEF Feed
<1>4. text \in Replies /\ Len(text) = Len(heard) + Len(delta) /\ Len(heard) \in Nat /\ Len(delta) \in Nat
  <2>1. /\ text \in Seq(Runes) /\ Len(text) = Len(heard) + Len(delta)
        /\ Len(heard) \in Nat /\ Len(delta) \in Nat
    BY <1>1, <1>2, ConcatProperties, LenProperties DEF Replies
  <2>2. Len(text) <= MaxHeard  BY <2>1 DEF Feed
  <2> QED  BY <2>1, <2>2 DEF Replies
<1> HIDE DEF cut
<1>5. Whole(text, Cutting, start)
  <2>1. Cutting.start = start  BY DEF Cutting
  <2>2. Whole(text, Cutting, Cutting.start)  BY <1>1, <1>2, <1>4, WholeStays
  <2> QED  BY <2>1, <2>2
<1>6. start \in 0..Len(text)
  <2>1. start \in 0..Len(heard)  BY <1>1 DEF Whole, Cutting
  <2> QED  BY <1>4, <2>1
<1>7. Whole(text, cut, Len(text))
  <2> HIDE DEF text
  <2> QED  BY <1>4, <1>5, <1>6, ScanIsWhole DEF Cutting, cut
<1>8. Whole(text, [start |-> cut.start, said |-> cut.said], Len(text))
  <2> DEFINE d == [start |-> cut.start, said |-> cut.said]
  <2>1. d.start = cut.start /\ d.said = cut.said  OBVIOUS
  <2> HIDE DEF d, text
  <2>2. Whole(text, d, Len(text))  BY <1>7, <2>1 DEF Whole
  <2> QED  BY <2>2 DEF d
<1>9. Cutting' = [start |-> cut.start, said |-> cut.said]  BY <1>3 DEF Cutting
<1>10. SentencesInv' <=> (heard' \in Replies /\ Whole(heard', Cutting', Len(heard')))
  BY DEF SentencesInv, Whole, Told, Ends, Replies, Spans
<1> QED  BY <1>3, <1>4, <1>8, <1>9, <1>10

LEMMA FlushIsWhole ==
  ASSUME SentencesInv, Flush
  PROVE  SentencesInv'
<1>1. /\ heard \in Replies /\ Whole(heard, Cutting, Len(heard)) /\ heard' = heard
      /\ start < Len(heard) /\ start' = Len(heard)
      /\ said' = Spoken(said, heard, start, Len(heard), TRUE)
      /\ Cutting.start = start /\ Cutting.said = said
  BY DEF SentencesInv, Flush, Cutting
<1>2. Len(heard) \in Nat /\ start \in 0..Len(heard)  BY <1>1, RepliesLen DEF Whole
<1>3. Len(heard) \in 1..Len(heard) /\ Len(heard) \in 0..Len(heard)  BY <1>1, <1>2
<1>4. Whole(heard, [start |-> Len(heard), said |-> Spoken(said, heard, start, Len(heard), TRUE)],
            Len(heard))
  BY <1>1, <1>3, CutIsWhole
<1>5. Cutting' = [start |-> Len(heard), said |-> Spoken(said, heard, start, Len(heard), TRUE)]
  BY <1>1 DEF Cutting
<1>6. SentencesInv' <=> (heard' \in Replies /\ Whole(heard', Cutting', Len(heard')))
  BY DEF SentencesInv, Whole, Told, Ends, Replies, Spans
<1> QED  BY <1>1, <1>4, <1>5, <1>6

LEMMA SentencesInvHolds == AlgorithmsSpec => []SentencesInv
<1>1. AlgorithmsInit => SentencesInv
  <2>1. SUFFICES ASSUME AlgorithmsInit PROVE SentencesInv  OBVIOUS
  <2>2. heard = <<>> /\ start = 0 /\ said = <<>>  BY <2>1 DEF AlgorithmsInit, SentencesInit
  <2>3. /\ heard \in Seq(Runes) /\ Len(heard) = 0 /\ said \in Seq(Spans) /\ DOMAIN said = {}
    BY <2>2
  <2>4. heard \in Replies  BY <2>3, SentencesAssumption DEF Replies
  <2>5. Cutting.start = 0 /\ Cutting.said = said  BY <2>2 DEF Cutting
  <2>6. 1..0 = {} /\ 0 \in 0..0 /\ (0 + 1)..0 = {}  OBVIOUS
  <2>7. Whole(heard, Cutting, Len(heard))  BY <2>3, <2>5, <2>6 DEF Whole
  <2> QED  BY <2>4, <2>7 DEF SentencesInv
<1>2. SentencesInv /\ [AlgorithmsNext]_algorithmsVars => SentencesInv'
  <2> SUFFICES ASSUME SentencesInv, [AlgorithmsNext]_algorithmsVars PROVE SentencesInv'
    OBVIOUS
  <2>1. CASE Cut
    <3>1. (\E delta \in Deltas : Feed(delta)) \/ Flush  BY <2>1 DEF Cut, SentencesNext
    <3> QED  BY <3>1, FeedIsWhole, FlushIsWhole
  <2>2. CASE Correct \/ Wait \/ UNCHANGED algorithmsVars
    <3>1. heard' = heard /\ start' = start /\ said' = said
      BY <2>2 DEF Correct, Wait, algorithmsVars, sentenceVars
    <3> QED  BY <3>1 DEF SentencesInv, Cutting, Whole, Told, Ends, Replies, Spans
  <2> QED  BY <2>1, <2>2 DEF AlgorithmsNext
<1> QED  BY <1>1, <1>2, PTL DEF AlgorithmsSpec

\* Wherever a reply is cut into deltas, its sentences are the same, in their
\* order, and hold every letter that has left the buffer: for replies and deltas
\* of any length (voice/speakable.go splitSentences, voice/voice.go feed, flush).
THEOREM SentencesStayStable == AlgorithmsSpec => []SentencesAreStable
<1>1. SentencesInv => SentencesAreStable
  <2> SUFFICES ASSUME SentencesInv PROVE SentencesAreStable  OBVIOUS
  <2>1. /\ heard \in Replies /\ Whole(heard, Cutting, Len(heard))
        /\ Cutting.start = start /\ Cutting.said = said
    BY DEF SentencesInv, Cutting
  <2>2. SentencesTypeOK
    BY <2>1 DEF SentencesTypeOK, Whole, Replies, Spans
  <2>3. \A from, i : MayEnd(from, i) <=> Ends(heard, from, i)
    BY DEF MayEnd, Ends
  <2>4. ASSUME NEW n \in DOMAIN said
        PROVE  /\ n > 1 => said[n - 1].to < said[n].from
               /\ said[n].flushed \/ MayEnd(said[n].from, said[n].to)
               /\ \A i \in said[n].from..(said[n].to - 1) : ~MayEnd(said[n].from, i)
               /\ said[n].to <= start
    BY <2>1, <2>3 DEF Whole, Told
  <2>5. \A i \in 1..start : heard[i] = "letter" =>
          \E n \in DOMAIN said : i \in said[n].from..said[n].to
    BY <2>1 DEF Whole
  <2>6. \A i \in (start + 1)..Len(heard) : ~MayEnd(start + 1, i)
    BY <2>1, <2>3 DEF Whole
  <2> QED  BY <2>2, <2>4, <2>5, <2>6 DEF SentencesAreStable
<1> QED  BY <1>1, SentencesInvHolds, PTL

-----------------------------------------------------------------------------
(* The table of levenshtein.  It is filled by growing i + j, so an entry   *)
(* is what the three before it make it.                                    *)

Grid(a, b) == (0..Len(a)) \X (0..Len(b))

\* The entries with i + j < s are filled.
FilledTo(f, a, b, s) ==
  \A i \in 0..Len(a), j \in 0..Len(b) :
    i + j < s => f[<<i, j>>] = Distance(f, a, b, i, j)

LEMMA TablesExist ==
  ASSUME NEW a, NEW b, Len(a) \in Nat, Len(b) \in Nat, NEW n \in Nat
  PROVE  \E f : f = [p \in Grid(a, b) |-> f[p]] /\ FilledTo(f, a, b, n)
<1> DEFINE T == {s \in Nat : ~ \E f : f = [p \in Grid(a, b) |-> f[p]] /\ FilledTo(f, a, b, s)}
<1>1. SUFFICES ASSUME T # {} PROVE FALSE  OBVIOUS
<1>2. PICK x \in T : \A y \in T : x <= y
  <2>1. T \subseteq Nat  OBVIOUS
  <2> HIDE DEF T
  <2> QED  BY <1>1, <2>1, LeastNat
<1>3. CASE x = 0
  <2> DEFINE f == [p \in Grid(a, b) |-> 0]
  <2>1. f = [p \in Grid(a, b) |-> f[p]]  OBVIOUS
  <2>2. FilledTo(f, a, b, x)  BY <1>3 DEF FilledTo
  <2> QED  BY <1>2, <2>1, <2>2
<1>4. CASE x # 0
  <2>1. x \in Nat /\ x - 1 \in Nat /\ x - 1 < x  BY <1>4
  <2>2. x - 1 \notin T
    <3> HIDE DEF T
    <3> QED  BY <1>2, <2>1
  <2>3. PICK f : f = [p \in Grid(a, b) |-> f[p]] /\ FilledTo(f, a, b, x - 1)  BY <2>1, <2>2
  <2> DEFINE g == [p \in Grid(a, b) |-> IF p[1] + p[2] = x - 1 THEN Distance(f, a, b, p[1], p[2]) ELSE f[p]]
  <2>4. g = [p \in Grid(a, b) |-> g[p]]  OBVIOUS
  <2>5. ASSUME NEW i \in 0..Len(a), NEW j \in 0..Len(b)
        PROVE  /\ i + j = x - 1 => g[<<i, j>>] = Distance(f, a, b, i, j)
               /\ i + j # x - 1 => g[<<i, j>>] = f[<<i, j>>]
    <3>1. <<i, j>> \in Grid(a, b)  BY DEF Grid
    <3> QED  BY <3>1
  <2> HIDE DEF g
  <2>6. ASSUME NEW i \in 0..Len(a), NEW j \in 0..Len(b), i + j < x
        PROVE  g[<<i, j>>] = Distance(g, a, b, i, j)
    <3>1. Distance(f, a, b, i, j) = Distance(g, a, b, i, j)
      <4>1. i \in Nat /\ j \in Nat  OBVIOUS
      <4>2. ASSUME i > 0, j > 0
            PROVE  /\ f[<<i - 1, j>>] = g[<<i - 1, j>>]
                   /\ f[<<i, j - 1>>] = g[<<i, j - 1>>]
                   /\ f[<<i - 1, j - 1>>] = g[<<i - 1, j - 1>>]
        <5>1. /\ i - 1 \in 0..Len(a) /\ j - 1 \in 0..Len(b)
              /\ (i - 1) + j # x - 1 /\ i + (j - 1) # x - 1 /\ (i - 1) + (j - 1) # x - 1
          BY <2>1, <2>6, <4>1, <4>2
        <5> QED  BY <2>5, <5>1
      <4>3. i > 0 /\ j > 0 => /\ f[<<i - 1, j>>] = g[<<i - 1, j>>]
                              /\ f[<<i, j - 1>>] = g[<<i, j - 1>>]
                              /\ f[<<i - 1, j - 1>>] = g[<<i - 1, j - 1>>]
        BY <4>2
      <4> QED  BY <4>1, <4>3 DEF Distance
    <3>2. CASE i + j = x - 1  BY <2>5, <3>1, <3>2
    <3>3. CASE i + j # x - 1
      <4>1. i + j < x - 1  BY <2>1, <2>6, <3>3
      <4> QED  BY <2>3, <2>5, <3>1, <3>3, <4>1 DEF FilledTo
    <3> QED  BY <3>2, <3>3
  <2>7. FilledTo(g, a, b, x)  BY <2>6 DEF FilledTo
  <2> QED  BY <1>2, <2>4, <2>7
<1> QED  BY <1>3, <1>4

\* An entry, as the three before it bound it: what levenshtein's min says.
Table(f, a, b) ==
  /\ \A i \in 0..Len(a), j \in 0..Len(b) : f[<<i, j>>] \in Nat
  /\ \A i \in 0..Len(a) : f[<<i, 0>>] = i
  /\ \A j \in 0..Len(b) : f[<<0, j>>] = j
  /\ \A i \in 1..Len(a), j \in 1..Len(b) :
       LET d == f[<<i, j>>]
           up == f[<<i - 1, j>>] + 1
           left == f[<<i, j - 1>>] + 1
           across == f[<<i - 1, j - 1>>] + IF a[i] = b[j] THEN 0 ELSE 1
       IN  d <= up /\ d <= left /\ d <= across /\ d \in {up, left, across}

LEMMA AtMostIs ==
  ASSUME NEW x \in Nat, NEW y \in Nat
  PROVE  AtMost(x, y) \in {x, y} /\ AtMost(x, y) <= x /\ AtMost(x, y) <= y
BY DEF AtMost

LEMMA DistanceIsLeast ==
  ASSUME NEW f, NEW a, NEW b, NEW i \in Nat, NEW j \in Nat, i > 0, j > 0,
         f[<<i - 1, j>>] \in Nat, f[<<i, j - 1>>] \in Nat, f[<<i - 1, j - 1>>] \in Nat
  PROVE  LET d == Distance(f, a, b, i, j)
             up == f[<<i - 1, j>>] + 1
             left == f[<<i, j - 1>>] + 1
             across == f[<<i - 1, j - 1>>] + IF a[i] = b[j] THEN 0 ELSE 1
         IN  d \in Nat /\ d <= up /\ d <= left /\ d <= across /\ d \in {up, left, across}
<1>1. PICK u \in Nat : u = f[<<i - 1, j>>]  OBVIOUS
<1>2. PICK l \in Nat : l = f[<<i, j - 1>>]  OBVIOUS
<1>3. PICK c \in Nat : c = f[<<i - 1, j - 1>>] + IF a[i] = b[j] THEN 0 ELSE 1  OBVIOUS
<1>4. Distance(f, a, b, i, j) = AtMost(AtMost(u, l) + 1, c)  BY <1>1, <1>2, <1>3 DEF Distance
<1>5. PICK m \in Nat : m = AtMost(u, l)  BY AtMostIs
<1>6. m \in {u, l} /\ m <= u /\ m <= l  BY <1>5, AtMostIs
<1>7. PICK d \in Nat : d = AtMost(m + 1, c)  BY AtMostIs
<1>8. d \in {m + 1, c} /\ d <= m + 1 /\ d <= c  BY <1>7, AtMostIs
<1>9. d <= u + 1 /\ d <= l + 1 /\ d <= c /\ d \in {u + 1, l + 1, c}  BY <1>6, <1>8
<1> QED  BY <1>1, <1>2, <1>3, <1>4, <1>5, <1>7, <1>9

LEMMA DistanceAtEdge ==
  ASSUME NEW f, NEW a, NEW b, NEW i \in Nat, NEW j \in Nat
  PROVE  /\ i = 0 => Distance(f, a, b, i, j) = j
         /\ j = 0 => Distance(f, a, b, i, j) = i
<1>1. CASE i = 0  BY <1>1 DEF Distance
<1>2. CASE i > 0 /\ j = 0  BY <1>2 DEF Distance
<1> QED  BY <1>1, <1>2

LEMMA FilledIsNat ==
  ASSUME NEW a, NEW b, Len(a) \in Nat, Len(b) \in Nat, NEW f, FilledTo(f, a, b, Len(a) + Len(b) + 1)
  PROVE  \A i \in 0..Len(a), j \in 0..Len(b) : f[<<i, j>>] = Distance(f, a, b, i, j) /\ f[<<i, j>>] \in Nat
<1>1. \A i \in 0..Len(a), j \in 0..Len(b) : f[<<i, j>>] = Distance(f, a, b, i, j)
  <2> SUFFICES ASSUME NEW i \in 0..Len(a), NEW j \in 0..Len(b)
               PROVE  f[<<i, j>>] = Distance(f, a, b, i, j)
    OBVIOUS
  <2>1. PICK m \in Nat, n \in Nat : m = Len(a) /\ n = Len(b)  OBVIOUS
  <2>2. i + j < m + n + 1  BY <2>1
  <2> QED  BY <2>1, <2>2 DEF FilledTo
<1> DEFINE T == {s \in Nat : \E i \in 0..Len(a), j \in 0..Len(b) : i + j = s /\ f[<<i, j>>] \notin Nat}
<1>2. SUFFICES ASSUME T # {} PROVE FALSE
  <2>1. ASSUME NEW i \in 0..Len(a), NEW j \in 0..Len(b), f[<<i, j>>] \notin Nat PROVE i + j \in T
    <3>1. i + j \in Nat  OBVIOUS
    <3> QED  BY <2>1, <3>1
  <2> QED  BY <1>1, <2>1
<1>3. PICK x \in T : \A y \in T : x <= y
  <2>1. T \subseteq Nat  OBVIOUS
  <2> HIDE DEF T
  <2> QED  BY <1>2, <2>1, LeastNat
<1>4. PICK i \in 0..Len(a), j \in 0..Len(b) : i + j = x /\ f[<<i, j>>] \notin Nat  OBVIOUS
<1>5. ASSUME NEW k \in 0..Len(a), NEW l \in 0..Len(b), k + l < x PROVE f[<<k, l>>] \in Nat
  <2>1. k + l \in Nat /\ ~(x <= k + l)  BY <1>4, <1>5
  <2>2. k + l \notin T
    <3> HIDE DEF T
    <3> QED  BY <1>3, <2>1
  <2> QED  BY <2>1, <2>2
<1>6. CASE i = 0 \/ j = 0
  <2>1. i \in Nat /\ j \in Nat  OBVIOUS
  <2>2. Distance(f, a, b, i, j) \in {i, j}  BY <1>6, <2>1, DistanceAtEdge
  <2> QED  BY <1>1, <1>4, <2>1, <2>2
<1>7. CASE i > 0 /\ j > 0
  <2>1. /\ i - 1 \in 0..Len(a) /\ j - 1 \in 0..Len(b) /\ i \in Nat /\ j \in Nat
        /\ (i - 1) + j < x /\ i + (j - 1) < x /\ (i - 1) + (j - 1) < x
    BY <1>4, <1>7
  <2>2. f[<<i - 1, j>>] \in Nat /\ f[<<i, j - 1>>] \in Nat /\ f[<<i - 1, j - 1>>] \in Nat
    BY <1>5, <2>1
  <2>3. Distance(f, a, b, i, j) \in Nat  BY <1>7, <2>1, <2>2, DistanceIsLeast
  <2> QED  BY <1>1, <1>4, <2>3
<1> QED  BY <1>6, <1>7

LEMMA LevenshteinHasTable ==
  ASSUME NEW a, NEW b, Len(a) \in Nat, Len(b) \in Nat
  PROVE  \E f : Table(f, a, b) /\ Levenshtein(a, b) = f[<<Len(a), Len(b)>>]
<1> DEFINE dist == CHOOSE h : h = [p \in (0..Len(a)) \X (0..Len(b)) |-> Distance(h, a, b, p[1], p[2])]
           n == Len(a) + Len(b) + 1
<1>1. PICK f : f = [p \in Grid(a, b) |-> f[p]] /\ FilledTo(f, a, b, n)
  <2>1. n \in Nat  OBVIOUS
  <2> HIDE DEF n
  <2> QED  BY <2>1, TablesExist
<1>2. f = [p \in (0..Len(a)) \X (0..Len(b)) |-> Distance(f, a, b, p[1], p[2])]
  <2>1. ASSUME NEW p \in Grid(a, b) PROVE f[p] = Distance(f, a, b, p[1], p[2])
    <3>1. PICK i \in 0..Len(a), j \in 0..Len(b) : p = <<i, j>>  BY DEF Grid
    <3>2. i + j < n  OBVIOUS
    <3>3. f[<<i, j>>] = Distance(f, a, b, i, j)  BY <1>1, <3>2 DEF FilledTo
    <3> QED  BY <3>1, <3>3
  <2> QED  BY <1>1, <2>1 DEF Grid
<1>3. dist = [p \in (0..Len(a)) \X (0..Len(b)) |-> Distance(dist, a, b, p[1], p[2])]  BY <1>2
<1>4. Levenshtein(a, b) = dist[<<Len(a), Len(b)>>]  BY Zenon DEF Levenshtein
<1> HIDE DEF dist
<1>5. FilledTo(dist, a, b, n)
  <2>1. ASSUME NEW i \in 0..Len(a), NEW j \in 0..Len(b) PROVE dist[<<i, j>>] = Distance(dist, a, b, i, j)
    <3>1. <<i, j>> \in (0..Len(a)) \X (0..Len(b)) /\ <<i, j>>[1] = i /\ <<i, j>>[2] = j  OBVIOUS
    <3> QED  BY <1>3, <3>1
  <2> QED  BY <2>1 DEF FilledTo
<1>6. \A i \in 0..Len(a), j \in 0..Len(b) :
        dist[<<i, j>>] = Distance(dist, a, b, i, j) /\ dist[<<i, j>>] \in Nat
  BY <1>5, FilledIsNat
<1>7. /\ \A i \in 0..Len(a) : dist[<<i, 0>>] = i
      /\ \A j \in 0..Len(b) : dist[<<0, j>>] = j
  <2>1. ASSUME NEW i \in 0..Len(a) PROVE dist[<<i, 0>>] = i
    <3>1. i \in Nat /\ 0 \in 0..Len(b) /\ 0 \in Nat  OBVIOUS
    <3> QED  BY <1>6, <3>1, DistanceAtEdge
  <2>2. ASSUME NEW j \in 0..Len(b) PROVE dist[<<0, j>>] = j
    <3>1. j \in Nat /\ 0 \in 0..Len(a) /\ 0 \in Nat  OBVIOUS
    <3> QED  BY <1>6, <3>1, DistanceAtEdge
  <2> QED  BY <2>1, <2>2
<1>8. ASSUME NEW i \in 1..Len(a), NEW j \in 1..Len(b)
      PROVE  LET d == dist[<<i, j>>]
                 up == dist[<<i - 1, j>>] + 1
                 left == dist[<<i, j - 1>>] + 1
                 across == dist[<<i - 1, j - 1>>] + IF a[i] = b[j] THEN 0 ELSE 1
             IN  d <= up /\ d <= left /\ d <= across /\ d \in {up, left, across}
  <2>1. /\ i \in 0..Len(a) /\ j \in 0..Len(b) /\ i - 1 \in 0..Len(a) /\ j - 1 \in 0..Len(b)
        /\ i \in Nat /\ j \in Nat /\ i > 0 /\ j > 0
    OBVIOUS
  <2>2. /\ dist[<<i - 1, j>>] \in Nat /\ dist[<<i, j - 1>>] \in Nat /\ dist[<<i - 1, j - 1>>] \in Nat
        /\ dist[<<i, j>>] = Distance(dist, a, b, i, j)
    BY <1>6, <2>1
  <2> DEFINE up == dist[<<i - 1, j>>] + 1
             left == dist[<<i, j - 1>>] + 1
             across == dist[<<i - 1, j - 1>>] + IF a[i] = b[j] THEN 0 ELSE 1
             d == Distance(dist, a, b, i, j)
  <2>3. d <= up /\ d <= left /\ d <= across /\ d \in {up, left, across}
    BY <2>1, <2>2, DistanceIsLeast
  <2> QED  BY <2>2, <2>3
<1>9. Table(dist, a, b)  BY <1>6, <1>7, <1>8 DEF Table
<1> QED  BY <1>4, <1>9

-----------------------------------------------------------------------------
(* What an entry of the table says.                                        *)

LEMMA TableAt ==
  ASSUME NEW a, NEW b, Len(a) \in Nat, Len(b) \in Nat, NEW f, Table(f, a, b)
  PROVE  /\ \A i \in 0..Len(a), j \in 0..Len(b) : f[<<i, j>>] \in Nat
         /\ \A i \in 0..Len(a) : f[<<i, 0>>] = i
         /\ \A j \in 0..Len(b) : f[<<0, j>>] = j
         /\ \A i \in 1..Len(a), j \in 1..Len(b) :
              /\ f[<<i, j>>] <= f[<<i - 1, j>>] + 1
              /\ f[<<i, j>>] <= f[<<i, j - 1>>] + 1
              /\ f[<<i, j>>] <= f[<<i - 1, j - 1>>] + 1
              /\ a[i] = b[j] => f[<<i, j>>] <= f[<<i - 1, j - 1>>]
              /\ \/ f[<<i, j>>] = f[<<i - 1, j>>] + 1
                 \/ f[<<i, j>>] = f[<<i, j - 1>>] + 1
                 \/ f[<<i, j>>] = f[<<i - 1, j - 1>>] + 1
                 \/ a[i] = b[j] /\ f[<<i, j>>] = f[<<i - 1, j - 1>>]
<1>1. /\ \A i \in 0..Len(a), j \in 0..Len(b) : f[<<i, j>>] \in Nat
      /\ \A i \in 0..Len(a) : f[<<i, 0>>] = i
      /\ \A j \in 0..Len(b) : f[<<0, j>>] = j
  BY DEF Table
<1>2. ASSUME NEW i \in 1..Len(a), NEW j \in 1..Len(b)
      PROVE  /\ f[<<i, j>>] <= f[<<i - 1, j>>] + 1
             /\ f[<<i, j>>] <= f[<<i, j - 1>>] + 1
             /\ f[<<i, j>>] <= f[<<i - 1, j - 1>>] + 1
             /\ a[i] = b[j] => f[<<i, j>>] <= f[<<i - 1, j - 1>>]
             /\ \/ f[<<i, j>>] = f[<<i - 1, j>>] + 1
                \/ f[<<i, j>>] = f[<<i, j - 1>>] + 1
                \/ f[<<i, j>>] = f[<<i - 1, j - 1>>] + 1
                \/ a[i] = b[j] /\ f[<<i, j>>] = f[<<i - 1, j - 1>>]
  <2>1. i \in 0..Len(a) /\ j \in 0..Len(b) /\ i - 1 \in 0..Len(a) /\ j - 1 \in 0..Len(b)  OBVIOUS
  <2>2. PICK d \in Nat, u \in Nat, l \in Nat, c \in Nat :
          d = f[<<i, j>>] /\ u = f[<<i - 1, j>>] /\ l = f[<<i, j - 1>>] /\ c = f[<<i - 1, j - 1>>]
    BY <1>1, <2>1
  <2>3. LET across == c + IF a[i] = b[j] THEN 0 ELSE 1
        IN  d <= u + 1 /\ d <= l + 1 /\ d <= across /\ d \in {u + 1, l + 1, across}
    BY <2>2 DEF Table
  <2>4. d <= u + 1 /\ d <= l + 1 /\ d <= c + 1 /\ (a[i] = b[j] => d <= c)
    <3>1. CASE a[i] = b[j]  BY <2>3, <3>1
    <3>2. CASE a[i] # b[j]  BY <2>3, <3>2
    <3> QED  BY <3>1, <3>2
  <2>5. d = u + 1 \/ d = l + 1 \/ d = c + 1 \/ (a[i] = b[j] /\ d = c)
    <3>1. CASE a[i] = b[j]  BY <2>3, <3>1
    <3>2. CASE a[i] # b[j]  BY <2>3, <3>2
    <3> QED  BY <3>1, <3>2
  <2> QED  BY <2>2, <2>4, <2>5
<1> QED  BY <1>1, <1>2

\* One cell of the table: which of its neighbours its value comes from.
LEMMA TableChoice ==
  ASSUME NEW a, NEW b, Len(a) \in Nat, Len(b) \in Nat, NEW f, Table(f, a, b),
         NEW i \in 1..Len(a), NEW j \in 1..Len(b)
  PROVE  \/ f[<<i, j>>] = f[<<i - 1, j>>] + 1
         \/ f[<<i, j>>] = f[<<i, j - 1>>] + 1
         \/ f[<<i, j>>] = f[<<i - 1, j - 1>>] + 1
         \/ a[i] = b[j] /\ f[<<i, j>>] = f[<<i - 1, j - 1>>]
<1>1. i \in 0..Len(a) /\ j \in 0..Len(b) /\ i - 1 \in 0..Len(a) /\ j - 1 \in 0..Len(b)  OBVIOUS
<1>2. PICK d \in Nat, u \in Nat, l \in Nat, c \in Nat :
        d = f[<<i, j>>] /\ u = f[<<i - 1, j>>] /\ l = f[<<i, j - 1>>] /\ c = f[<<i - 1, j - 1>>]
  BY <1>1 DEF Table
<1>3. LET across == c + IF a[i] = b[j] THEN 0 ELSE 1
      IN  d \in {u + 1, l + 1, across}
  BY <1>2 DEF Table
<1>4. d = u + 1 \/ d = l + 1 \/ d = c + 1 \/ (a[i] = b[j] /\ d = c)
  <2>1. CASE a[i] = b[j]  BY <1>3, <2>1
  <2>2. CASE a[i] # b[j]  BY <1>3, <2>2
  <2> QED  BY <2>1, <2>2
<1> QED  BY <1>2, <1>4

\* A first pair, by the sum of the two.
LEMMA LeastPair ==
  ASSUME NEW m \in Nat, NEW n \in Nat, NEW Bad, \E i \in 0..m, j \in 0..n : <<i, j>> \in Bad
  PROVE  \E i \in 0..m, j \in 0..n :
           <<i, j>> \in Bad /\ \A k \in 0..m, l \in 0..n : k + l < i + j => <<k, l>> \notin Bad
<1> DEFINE T == {s \in Nat : \E i \in 0..m, j \in 0..n : <<i, j>> \in Bad /\ i + j = s}
<1>1. T # {}
  <2>1. PICK i \in 0..m, j \in 0..n : <<i, j>> \in Bad  OBVIOUS
  <2>2. i + j \in Nat  OBVIOUS
  <2>3. i + j \in T  BY <2>1, <2>2
  <2> QED  BY <2>3
<1>2. PICK x \in T : \A y \in T : x <= y
  <2>1. T \subseteq Nat  OBVIOUS
  <2> HIDE DEF T
  <2> QED  BY <1>1, <2>1, LeastNat
<1>3. PICK i \in 0..m, j \in 0..n : <<i, j>> \in Bad /\ i + j = x  OBVIOUS
<1>4. ASSUME NEW k \in 0..m, NEW l \in 0..n, k + l < i + j PROVE <<k, l>> \notin Bad
  <2>1. k + l \in Nat /\ ~(x <= k + l)  BY <1>3, <1>4
  <2>2. k + l \notin T
    <3> HIDE DEF T
    <3> QED  BY <1>2, <2>1
  <2> QED  BY <2>1, <2>2
<1> QED  BY <1>3, <1>4

SameUpTo(b, c, q) == \A k \in 1..q : b[k] = c[k]

\* Entries depend on the letters before them only.
LEMMA SamePrefixSameTable ==
  ASSUME NEW a, NEW b, NEW c, Len(a) \in Nat, Len(b) \in Nat, Len(c) \in Nat,
         NEW f, Table(f, a, b), NEW g, Table(g, a, c),
         NEW q \in Nat, q <= Len(b), q <= Len(c), SameUpTo(b, c, q)
  PROVE  \A i \in 0..Len(a), j \in 0..q : f[<<i, j>>] = g[<<i, j>>]
<1> DEFINE Bad == {p \in (0..Len(a)) \X (0..q) : f[p] # g[p]}
<1>1. SUFFICES ASSUME Bad # {} PROVE FALSE
  <2>1. \A i \in 0..Len(a), j \in 0..q : <<i, j>> \in (0..Len(a)) \X (0..q)  OBVIOUS
  <2> QED  BY <2>1
<1>2. PICK i \in 0..Len(a), j \in 0..q :
        <<i, j>> \in Bad /\ \A k \in 0..Len(a), l \in 0..q : k + l < i + j => <<k, l>> \notin Bad
  <2>1. \E i \in 0..Len(a), j \in 0..q : <<i, j>> \in Bad
    <3>1. PICK p \in Bad : TRUE  BY <1>1
    <3>2. p \in (0..Len(a)) \X (0..q)  OBVIOUS
    <3>3. PICK i \in 0..Len(a), j \in 0..q : p = <<i, j>>  BY <3>2
    <3> HIDE DEF Bad
    <3> QED  BY <3>1, <3>3
  <2>2. PICK S : S = Bad  OBVIOUS
  <2> HIDE DEF Bad
  <2>3. \E i \in 0..Len(a), j \in 0..q : <<i, j>> \in S  BY <2>1, <2>2
  <2>4. \E i \in 0..Len(a), j \in 0..q :
          <<i, j>> \in S /\ \A k \in 0..Len(a), l \in 0..q : k + l < i + j => <<k, l>> \notin S
    BY <2>3, LeastPair
  <2> QED  BY <2>2, <2>4
<1>3. \A k \in 0..Len(a), l \in 0..q : k + l < i + j => f[<<k, l>>] = g[<<k, l>>]
  BY <1>2
<1>4. f[<<i, j>>] # g[<<i, j>>] /\ j \in 0..Len(b) /\ j \in 0..Len(c)  BY <1>2
<1>5. CASE i = 0 \/ j = 0  BY <1>4, <1>5, TableAt
<1>6. CASE i # 0 /\ j # 0
  <2>1. /\ i \in 1..Len(a) /\ j \in 1..Len(b) /\ j \in 1..Len(c) /\ i - 1 \in 0..Len(a)
        /\ j - 1 \in 0..q /\ j - 1 \in 0..Len(b) /\ j - 1 \in 0..Len(c) /\ b[j] = c[j]
        /\ (i - 1) + j < i + j /\ i + (j - 1) < i + j /\ (i - 1) + (j - 1) < i + j
    <3>1. i \in 1..Len(a) /\ i \in Nat /\ i - 1 \in 0..Len(a)  BY <1>6
    <3>2. j \in 1..q /\ j \in Nat  BY <1>6
    <3>3. b[j] = c[j]  BY <3>2 DEF SameUpTo
    <3>4. /\ j \in 1..Len(b) /\ j \in 1..Len(c)
          /\ j - 1 \in 0..q /\ j - 1 \in 0..Len(b) /\ j - 1 \in 0..Len(c)
      BY <1>4, <3>2
    <3>5. (i - 1) + j < i + j /\ i + (j - 1) < i + j /\ (i - 1) + (j - 1) < i + j  BY <3>1, <3>2
    <3> QED  BY <3>1, <3>3, <3>4, <3>5
  <2>2. /\ f[<<i - 1, j>>] = g[<<i - 1, j>>] /\ f[<<i, j - 1>>] = g[<<i, j - 1>>]
        /\ f[<<i - 1, j - 1>>] = g[<<i - 1, j - 1>>]
    BY <1>3, <2>1
  <2>3. PICK d \in Nat, e \in Nat, u \in Nat, l \in Nat, x \in Nat :
          /\ d = f[<<i, j>>] /\ e = g[<<i, j>>]
          /\ u = f[<<i - 1, j>>] /\ l = f[<<i, j - 1>>] /\ x = f[<<i - 1, j - 1>>]
    BY <1>4, <2>1, TableAt
  <2>4. /\ d <= u + 1 /\ d <= l + 1 /\ d <= x + 1 /\ (a[i] = b[j] => d <= x)
        /\ d = u + 1 \/ d = l + 1 \/ d = x + 1 \/ (a[i] = b[j] /\ d = x)
    <3>1. /\ f[<<i, j>>] <= f[<<i - 1, j>>] + 1
          /\ f[<<i, j>>] <= f[<<i, j - 1>>] + 1
          /\ f[<<i, j>>] <= f[<<i - 1, j - 1>>] + 1
          /\ a[i] = b[j] => f[<<i, j>>] <= f[<<i - 1, j - 1>>]
          /\ \/ f[<<i, j>>] = f[<<i - 1, j>>] + 1
             \/ f[<<i, j>>] = f[<<i, j - 1>>] + 1
             \/ f[<<i, j>>] = f[<<i - 1, j - 1>>] + 1
             \/ a[i] = b[j] /\ f[<<i, j>>] = f[<<i - 1, j - 1>>]
      BY <2>1, TableAt
    <3> QED  BY <2>3, <3>1
  <2>5. /\ e <= u + 1 /\ e <= l + 1 /\ e <= x + 1 /\ (a[i] = b[j] => e <= x)
        /\ e = u + 1 \/ e = l + 1 \/ e = x + 1 \/ (a[i] = b[j] /\ e = x)
    <3>1. /\ g[<<i, j>>] <= g[<<i - 1, j>>] + 1
          /\ g[<<i, j>>] <= g[<<i, j - 1>>] + 1
          /\ g[<<i, j>>] <= g[<<i - 1, j - 1>>] + 1
          /\ a[i] = c[j] => g[<<i, j>>] <= g[<<i - 1, j - 1>>]
          /\ \/ g[<<i, j>>] = g[<<i - 1, j>>] + 1
             \/ g[<<i, j>>] = g[<<i, j - 1>>] + 1
             \/ g[<<i, j>>] = g[<<i - 1, j - 1>>] + 1
             \/ a[i] = c[j] /\ g[<<i, j>>] = g[<<i - 1, j - 1>>]
      BY <2>1, TableAt
    <3> QED  BY <2>1, <2>2, <2>3, <3>1
  <2>6. d = e  BY <2>4, <2>5
  <2> QED  BY <1>4, <2>3, <2>6
<1> QED  BY <1>5, <1>6

\* A letter more makes a difference of one at most.
LEMMA NextLetterCostsOne ==
  ASSUME NEW a, NEW b, Len(a) \in Nat, Len(b) \in Nat, NEW f, Table(f, a, b)
  PROVE  \A i \in 0..Len(a), j \in 1..Len(b) :
           f[<<i, j>>] <= f[<<i, j - 1>>] + 1 /\ f[<<i, j - 1>>] <= f[<<i, j>>] + 1
<1> SUFFICES ASSUME NEW j \in 1..Len(b)
             PROVE  \A i \in 0..Len(a) :
                      f[<<i, j>>] <= f[<<i, j - 1>>] + 1 /\ f[<<i, j - 1>>] <= f[<<i, j>>] + 1
  OBVIOUS
<1>1. j \in 0..Len(b) /\ j - 1 \in 0..Len(b)  OBVIOUS
<1>2. \A i \in 0..Len(a) : f[<<i, j>>] <= f[<<i, j - 1>>] + 1
  <2> SUFFICES ASSUME NEW i \in 0..Len(a) PROVE f[<<i, j>>] <= f[<<i, j - 1>>] + 1  OBVIOUS
  <2>1. CASE i = 0
    <3>1. f[<<0, j>>] = j /\ f[<<0, j - 1>>] = j - 1  BY <1>1, TableAt
    <3> QED  BY <2>1, <3>1
  <2>2. CASE i # 0
    <3>1. i \in 1..Len(a)  BY <2>2
    <3> QED  BY <3>1, TableAt
  <2> QED  BY <2>1, <2>2
<1> DEFINE T == {i \in 0..Len(a) : ~(f[<<i, j - 1>>] <= f[<<i, j>>] + 1)}
<1>3. SUFFICES ASSUME T # {} PROVE FALSE  BY <1>2
<1>4. PICK i \in T : \A k \in T : i <= k
  <2>1. T \subseteq Nat  OBVIOUS
  <2> HIDE DEF T
  <2> QED  BY <1>3, <2>1, LeastNat
<1>5. i \in 0..Len(a) /\ ~(f[<<i, j - 1>>] <= f[<<i, j>>] + 1)  OBVIOUS
<1>6. i # 0
  <2>1. f[<<0, j>>] = j /\ f[<<0, j - 1>>] = j - 1  BY <1>1, TableAt
  <2> QED  BY <1>5, <2>1
<1>7. i \in 1..Len(a) /\ i - 1 \in 0..Len(a) /\ ~(i <= i - 1)  BY <1>5, <1>6
<1>8. f[<<i - 1, j - 1>>] <= f[<<i - 1, j>>] + 1
  <2>1. i - 1 \notin T
    <3> HIDE DEF T
    <3> QED  BY <1>4, <1>7
  <2> QED  BY <1>7, <2>1
<1>9. PICK d \in Nat, u \in Nat, l \in Nat, x \in Nat :
        d = f[<<i, j>>] /\ u = f[<<i - 1, j>>] /\ l = f[<<i, j - 1>>] /\ x = f[<<i - 1, j - 1>>]
  BY <1>1, <1>5, <1>7, TableAt
<1>10. d = u + 1 \/ d = l + 1 \/ d = x + 1 \/ d = x
  BY <1>7, <1>9, TableAt
<1>11. l <= x + 1
  <2>1. CASE j = 1
    <3>1. f[<<i, 0>>] = i /\ f[<<i - 1, 0>>] = i - 1  BY <1>7, <1>5, TableAt
    <3> QED  BY <1>5, <1>9, <2>1, <3>1
  <2>2. CASE j # 1
    <3>1. j - 1 \in 1..Len(b)  BY <2>2
    <3>2. f[<<i, j - 1>>] <= f[<<i - 1, j - 1>>] + 1  BY <1>7, <3>1, TableAt
    <3> QED  BY <1>9, <3>2
  <2> QED  BY <2>1, <2>2
<1>12. x <= u + 1 /\ ~(l <= d + 1)  BY <1>5, <1>8, <1>9
<1> QED  BY <1>10, <1>11, <1>12

\* If an edit costs one at some letter, it costs no more behind it, where the
\* letters are the same again, shifted.
LEMMA ShiftCostsNoMore ==
  ASSUME NEW a, NEW b, NEW c, Len(a) \in Nat, Len(b) \in Nat, Len(c) \in Nat,
         NEW f, Table(f, a, b), NEW g, Table(g, a, c),
         NEW s \in Int, s >= -1, s <= 1, Len(c) = Len(b) + s,
         NEW q \in 0..Len(b), q + s >= 0,
         \A i \in 0..Len(a) : g[<<i, q + s>>] <= f[<<i, q>>] + 1,
         \A k \in (q + 1)..Len(b) : c[k + s] = b[k]
  PROVE  \A i \in 0..Len(a), j \in q..Len(b) : g[<<i, j + s>>] <= f[<<i, j>>] + 1
<1> DEFINE Bad == {p \in (0..Len(a)) \X (0..Len(b)) :
                     p[2] >= q /\ ~(g[<<p[1], p[2] + s>>] <= f[<<p[1], p[2]>>] + 1)}
<1>1. SUFFICES ASSUME Bad # {} PROVE FALSE
  <2>1. ASSUME NEW i \in 0..Len(a), NEW j \in q..Len(b), ~(g[<<i, j + s>>] <= f[<<i, j>>] + 1)
        PROVE  <<i, j>> \in Bad
    <3>1. j \in 0..Len(b) /\ j >= q  OBVIOUS
    <3>2. <<i, j>> \in (0..Len(a)) \X (0..Len(b))  BY <3>1
    <3> QED  BY <2>1, <3>1, <3>2
  <2> QED  BY <2>1
<1>2. PICK i \in 0..Len(a), j \in 0..Len(b) :
        <<i, j>> \in Bad /\ \A k \in 0..Len(a), l \in 0..Len(b) : k + l < i + j => <<k, l>> \notin Bad
  <2>1. \E i \in 0..Len(a), j \in 0..Len(b) : <<i, j>> \in Bad
    <3>1. PICK p \in Bad : TRUE  BY <1>1
    <3>2. p \in (0..Len(a)) \X (0..Len(b))  OBVIOUS
    <3>3. PICK i \in 0..Len(a), j \in 0..Len(b) : p = <<i, j>>  BY <3>2
    <3> HIDE DEF Bad
    <3> QED  BY <3>1, <3>3
  <2>2. PICK S : S = Bad  OBVIOUS
  <2> HIDE DEF Bad
  <2>3. \E i \in 0..Len(a), j \in 0..Len(b) : <<i, j>> \in S  BY <2>1, <2>2
  <2>4. \E i \in 0..Len(a), j \in 0..Len(b) :
          <<i, j>> \in S /\ \A k \in 0..Len(a), l \in 0..Len(b) : k + l < i + j => <<k, l>> \notin S
    <3>1. PICK m \in Nat, n \in Nat : m = Len(a) /\ n = Len(b)  OBVIOUS
    <3>2. \E i \in 0..m, j \in 0..n : <<i, j>> \in S  BY <2>3, <3>1
    <3>3. \E i \in 0..m, j \in 0..n :
            <<i, j>> \in S /\ \A k \in 0..m, l \in 0..n : k + l < i + j => <<k, l>> \notin S
      BY <3>2, LeastPair
    <3> QED  BY <3>1, <3>3
  <2> QED  BY <2>2, <2>4
<1>3. \A k \in 0..Len(a), l \in 0..Len(b) :
        k + l < i + j /\ l >= q => g[<<k, l + s>>] <= f[<<k, l>>] + 1
  BY <1>2
<1>4. j >= q /\ ~(g[<<i, j + s>>] <= f[<<i, j>>] + 1)  BY <1>2
<1>5. j # q  BY <1>4
<1>6. /\ j \in 1..Len(b) /\ j \in (q + 1)..Len(b) /\ j - 1 \in 0..Len(b) /\ j - 1 >= q
      /\ j + s \in 1..Len(c) /\ j + s \in 0..Len(c) /\ (j + s) - 1 = (j - 1) + s
      /\ (j - 1) + s \in 0..Len(c)
  BY <1>4, <1>5
<1>7. CASE i = 0
  <2>1. f[<<0, j>>] = j /\ g[<<0, j + s>>] = j + s  BY <1>6, TableAt
  <2> QED  BY <1>4, <1>7, <2>1
<1>8. CASE i # 0
  <2>1. /\ i \in 1..Len(a) /\ i - 1 \in 0..Len(a)
        /\ (i - 1) + j < i + j /\ i + (j - 1) < i + j /\ (i - 1) + (j - 1) < i + j
    BY <1>6, <1>8
  <2>2. PICK d \in Nat, u \in Nat, l \in Nat, x \in Nat :
          d = f[<<i, j>>] /\ u = f[<<i - 1, j>>] /\ l = f[<<i, j - 1>>] /\ x = f[<<i - 1, j - 1>>]
    <3>1. /\ f[<<i, j>>] \in Nat /\ f[<<i - 1, j>>] \in Nat
          /\ f[<<i, j - 1>>] \in Nat /\ f[<<i - 1, j - 1>>] \in Nat
      BY <1>6, <2>1, TableAt
    <3> QED  BY <3>1
  <2>3. PICK e \in Nat, v \in Nat, m \in Nat, y \in Nat :
          /\ e = g[<<i, j + s>>] /\ v = g[<<i - 1, j + s>>]
          /\ m = g[<<i, (j - 1) + s>>] /\ y = g[<<i - 1, (j - 1) + s>>]
    <3>1. /\ g[<<i, j + s>>] \in Nat /\ g[<<i - 1, j + s>>] \in Nat
          /\ g[<<i, (j - 1) + s>>] \in Nat /\ g[<<i - 1, (j - 1) + s>>] \in Nat
      BY <1>6, <2>1, TableAt
    <3> QED  BY <3>1
  <2>4. d = u + 1 \/ d = l + 1 \/ d = x + 1 \/ (a[i] = b[j] /\ d = x)
    <3>1. \/ f[<<i, j>>] = f[<<i - 1, j>>] + 1
          \/ f[<<i, j>>] = f[<<i, j - 1>>] + 1
          \/ f[<<i, j>>] = f[<<i - 1, j - 1>>] + 1
          \/ a[i] = b[j] /\ f[<<i, j>>] = f[<<i - 1, j - 1>>]
      BY <1>6, <2>1, TableAt
    <3> QED  BY <2>2, <3>1
  <2>5. g[<<i, (j + s) - 1>>] = m /\ g[<<i - 1, (j + s) - 1>>] = y /\ c[j + s] = b[j]
    BY <1>6, <2>3
  <2>6. e <= v + 1 /\ e <= m + 1 /\ e <= y + 1 /\ (a[i] = b[j] => e <= y)
    <3>1. /\ g[<<i, j + s>>] <= g[<<i - 1, j + s>>] + 1
          /\ g[<<i, j + s>>] <= g[<<i, (j + s) - 1>>] + 1
          /\ g[<<i, j + s>>] <= g[<<i - 1, (j + s) - 1>>] + 1
          /\ a[i] = c[j + s] => g[<<i, j + s>>] <= g[<<i - 1, (j + s) - 1>>]
      <4>1. PICK t \in 1..Len(c) : t = j + s  BY <1>6
      <4>2. /\ g[<<i, t>>] <= g[<<i - 1, t>>] + 1
            /\ g[<<i, t>>] <= g[<<i, t - 1>>] + 1
            /\ g[<<i, t>>] <= g[<<i - 1, t - 1>>] + 1
            /\ a[i] = c[t] => g[<<i, t>>] <= g[<<i - 1, t - 1>>]
        BY <2>1, TableAt
      <4> QED  BY <4>1, <4>2
    <3> QED  BY <2>3, <2>5, <3>1
  <2>7. v <= u + 1 /\ m <= l + 1 /\ y <= x + 1
    BY <1>3, <1>4, <1>6, <2>1, <2>2, <2>3
  <2>8. e <= d + 1
    <3>1. CASE d = u + 1  BY <2>6, <2>7, <3>1
    <3>2. CASE d = l + 1  BY <2>6, <2>7, <3>2
    <3>3. CASE d = x + 1  BY <2>6, <2>7, <3>3
    <3>4. CASE a[i] = b[j] /\ d = x  BY <2>6, <2>7, <3>4
    <3> QED  BY <2>4, <3>1, <3>2, <3>3, <3>4
  <2> QED  BY <1>4, <2>2, <2>3, <2>8
<1> QED  BY <1>7, <1>8

-----------------------------------------------------------------------------
(* An edit costs at most one more.                                         *)

\* What RemoveAt, EXCEPT and InsertAt make of w, letter by letter.
Dropped(w, v, p) ==
  /\ Len(v) = Len(w) - 1
  /\ \A k \in 1..(p - 1) : v[k] = w[k]
  /\ \A k \in (p + 1)..Len(w) : v[k - 1] = w[k]
Changed(w, v, p) ==
  /\ Len(v) = Len(w)
  /\ \A k \in 1..Len(w) : k # p => v[k] = w[k]
Added(w, v, p) ==
  /\ Len(v) = Len(w) + 1
  /\ \A k \in 1..(p - 1) : v[k] = w[k]
  /\ \A k \in p..Len(w) : v[k + 1] = w[k]

OneEdit(w, v) ==
  \/ v = w
  \/ \E p \in 1..Len(w) : Dropped(w, v, p)
  \/ \E p \in 1..Len(w) : Changed(w, v, p)
  \/ \E p \in 1..(Len(w) + 1) : Added(w, v, p)

LEMMA DropCostsOne ==
  ASSUME NEW a, NEW b, NEW c, Len(a) \in Nat, Len(b) \in Nat, Len(c) \in Nat,
         NEW f, Table(f, a, b), NEW g, Table(g, a, c), NEW p \in 1..Len(b), Dropped(b, c, p)
  PROVE  g[<<Len(a), Len(c)>>] <= f[<<Len(a), Len(b)>>] + 1
<1>1. PICK m \in Nat, n \in Nat : m = Len(a) /\ n = Len(b)  OBVIOUS
<1>2. /\ p \in 1..n /\ Len(c) = n - 1 /\ p - 1 \in Nat /\ p - 1 <= Len(b) /\ p - 1 <= Len(c)
      /\ Len(c) = Len(b) + (-1) /\ p + (-1) = p - 1 /\ p \in 0..Len(b) /\ n \in p..n
  BY <1>1 DEF Dropped
<1>3. \A i \in 0..Len(a) : g[<<i, p + (-1)>>] <= f[<<i, p>>] + 1
  <2> SUFFICES ASSUME NEW i \in 0..Len(a) PROVE g[<<i, p - 1>>] <= f[<<i, p>>] + 1  BY <1>2
  <2>1. f[<<i, p - 1>>] = g[<<i, p - 1>>]
    <3>1. PICK q \in Nat : q = p - 1  BY <1>2
    <3>2. q <= Len(b) /\ q <= Len(c) /\ q \in 0..q  BY <1>2, <3>1
    <3>3. SameUpTo(b, c, q)  BY <3>1 DEF Dropped, SameUpTo
    <3>4. f[<<i, q>>] = g[<<i, q>>]  BY <3>2, <3>3, SamePrefixSameTable
    <3> QED  BY <3>1, <3>4
  <2>2. f[<<i, p - 1>>] <= f[<<i, p>>] + 1  BY NextLetterCostsOne
  <2> QED  BY <2>1, <2>2
<1>4. \A k \in (p + 1)..Len(b) : c[k + (-1)] = b[k]
  <2>1. \A k \in (p + 1)..Len(b) : k + (-1) = k - 1  OBVIOUS
  <2> QED  BY <2>1 DEF Dropped
<1>5. PICK s \in Int : s = -1  OBVIOUS
<1>6. \A i \in 0..Len(a), j \in p..Len(b) : g[<<i, j + s>>] <= f[<<i, j>>] + 1
  <2>1. s >= -1 /\ s <= 1 /\ p + s >= 0 /\ Len(c) = Len(b) + s  BY <1>1, <1>2, <1>5
  <2>2. \A i \in 0..Len(a) : g[<<i, p + s>>] <= f[<<i, p>>] + 1  BY <1>3, <1>5
  <2>3. \A k \in (p + 1)..Len(b) : c[k + s] = b[k]  BY <1>4, <1>5
  <2> QED  BY <1>2, <2>1, <2>2, <2>3, ShiftCostsNoMore
<1>7. m \in 0..m /\ n + s = Len(c)  BY <1>1, <1>2, <1>5
<1> QED  BY <1>1, <1>2, <1>6, <1>7

LEMMA ChangeCostsOne ==
  ASSUME NEW a, NEW b, NEW c, Len(a) \in Nat, Len(b) \in Nat, Len(c) \in Nat,
         NEW f, Table(f, a, b), NEW g, Table(g, a, c), NEW p \in 1..Len(b), Changed(b, c, p)
  PROVE  g[<<Len(a), Len(c)>>] <= f[<<Len(a), Len(b)>>] + 1
<1>1. PICK m \in Nat, n \in Nat : m = Len(a) /\ n = Len(b)  OBVIOUS
<1>2. /\ p \in 1..n /\ p \in Nat /\ Len(c) = n /\ p - 1 \in Nat /\ p - 1 <= Len(b) /\ p - 1 <= Len(c)
      /\ p \in 0..Len(b) /\ p \in 0..Len(c) /\ p \in 1..Len(c) /\ n \in p..n
      /\ p - 1 \in 0..Len(b) /\ p - 1 \in 0..Len(c) /\ p - 1 \in 0..(p - 1)
  BY <1>1 DEF Changed
<1>3. \A i \in 0..Len(a) : f[<<i, p - 1>>] = g[<<i, p - 1>>]
  <2>1. \A k \in 1..(p - 1) : b[k] = c[k]
    <3>1. \A k \in 1..(p - 1) : k \in 1..Len(b) /\ k # p  BY <1>1, <1>2
    <3> QED  BY <3>1 DEF Changed
  <2>2. PICK q \in Nat : q = p - 1  BY <1>2
  <2>3. q <= Len(b) /\ q <= Len(c) /\ q \in 0..q /\ SameUpTo(b, c, q)
    BY <1>2, <2>1, <2>2 DEF SameUpTo
  <2>4. ASSUME NEW i \in 0..Len(a) PROVE f[<<i, q>>] = g[<<i, q>>]
    BY <2>2, <2>3, SamePrefixSameTable
  <2> QED  BY <2>2, <2>4
<1>4. \A i \in 0..Len(a) : g[<<i, p>>] <= f[<<i, p>>] + 1
  <2> DEFINE T == {i \in 0..Len(a) : ~(g[<<i, p>>] <= f[<<i, p>>] + 1)}
  <2>1. SUFFICES ASSUME T # {} PROVE FALSE  OBVIOUS
  <2>2. PICK i \in T : \A k \in T : i <= k
    <3>1. T \subseteq Nat  OBVIOUS
    <3> HIDE DEF T
    <3> QED  BY <2>1, <3>1, LeastNat
  <2>3. i \in 0..Len(a) /\ ~(g[<<i, p>>] <= f[<<i, p>>] + 1)  OBVIOUS
  <2>4. i # 0
    <3>1. f[<<0, p>>] = p /\ g[<<0, p>>] = p  BY <1>2, TableAt
    <3> QED  BY <1>2, <2>3, <3>1
  <2>5. i \in 1..Len(a) /\ i - 1 \in 0..Len(a) /\ ~(i <= i - 1)  BY <2>3, <2>4
  <2>6. g[<<i - 1, p>>] <= f[<<i - 1, p>>] + 1
    <3>1. i - 1 \notin T
      <4> HIDE DEF T
      <4> QED  BY <2>2, <2>5
    <3> QED  BY <2>5, <3>1
  <2>7. /\ f[<<i, p>>] \in Nat /\ f[<<i - 1, p>>] \in Nat /\ f[<<i, p - 1>>] \in Nat
        /\ f[<<i - 1, p - 1>>] \in Nat /\ g[<<i, p>>] \in Nat /\ g[<<i - 1, p>>] \in Nat
    <3>1. \A k \in 0..Len(a), j \in 0..Len(b) : f[<<k, j>>] \in Nat  BY TableAt
    <3>2. \A k \in 0..Len(a), j \in 0..Len(c) : g[<<k, j>>] \in Nat  BY TableAt
    <3> QED  BY <1>2, <2>3, <2>5, <3>1, <3>2
  <2>8. PICK d \in Nat, u \in Nat, l \in Nat, x \in Nat, e \in Nat, v \in Nat :
          /\ d = f[<<i, p>>] /\ u = f[<<i - 1, p>>] /\ l = f[<<i, p - 1>>]
          /\ x = f[<<i - 1, p - 1>>] /\ e = g[<<i, p>>] /\ v = g[<<i - 1, p>>]
    BY <2>7
  <2>9. d = u + 1 \/ d = l + 1 \/ d = x + 1 \/ d = x
    <3>1. \/ f[<<i, p>>] = f[<<i - 1, p>>] + 1
          \/ f[<<i, p>>] = f[<<i, p - 1>>] + 1
          \/ f[<<i, p>>] = f[<<i - 1, p - 1>>] + 1
          \/ f[<<i, p>>] = f[<<i - 1, p - 1>>]
      BY <2>5, TableAt
    <3> QED  BY <2>8, <3>1
  <2>10. e <= v + 1 /\ e <= l + 1 /\ e <= x + 1
    <3>1. /\ g[<<i, p>>] <= g[<<i - 1, p>>] + 1
          /\ g[<<i, p>>] <= g[<<i, p - 1>>] + 1
          /\ g[<<i, p>>] <= g[<<i - 1, p - 1>>] + 1
      <4>1. \A k \in 1..Len(a), j \in 1..Len(c) :
              /\ g[<<k, j>>] <= g[<<k - 1, j>>] + 1
              /\ g[<<k, j>>] <= g[<<k, j - 1>>] + 1
              /\ g[<<k, j>>] <= g[<<k - 1, j - 1>>] + 1
        <5> SUFFICES ASSUME NEW k \in 1..Len(a), NEW j \in 1..Len(c)
                     PROVE  /\ g[<<k, j>>] <= g[<<k - 1, j>>] + 1
                            /\ g[<<k, j>>] <= g[<<k, j - 1>>] + 1
                            /\ g[<<k, j>>] <= g[<<k - 1, j - 1>>] + 1
          OBVIOUS
        <5> QED  BY TableAt
      <4> QED  BY <1>2, <2>5, <4>1
    <3>2. g[<<i, p - 1>>] = l /\ g[<<i - 1, p - 1>>] = x  BY <1>3, <2>3, <2>5, <2>8
    <3> QED  BY <2>8, <3>1, <3>2
  <2>11. v <= u + 1 /\ ~(e <= d + 1)  BY <2>3, <2>6, <2>8
  <2> QED  BY <2>9, <2>10, <2>11
<1>5. \A i \in 0..Len(a), j \in p..Len(b) : g[<<i, j + 0>>] <= f[<<i, j>>] + 1
  <2>1. PICK s \in Int : s = 0  OBVIOUS
  <2>2. s >= -1 /\ s <= 1 /\ p + s >= 0 /\ Len(c) = Len(b) + s /\ p + s = p
    BY <1>1, <1>2, <2>1
  <2>3. \A i \in 0..Len(a) : g[<<i, p + s>>] <= f[<<i, p>>] + 1  BY <1>4, <2>2
  <2>4. \A k \in (p + 1)..Len(b) : c[k + s] = b[k]
    <3>1. \A k \in (p + 1)..Len(b) : k \in 1..Len(b) /\ k # p /\ k + s = k  BY <1>1, <1>2, <2>1
    <3> QED  BY <3>1 DEF Changed
  <2>5. \A i \in 0..Len(a), j \in p..Len(b) : g[<<i, j + s>>] <= f[<<i, j>>] + 1
    BY <1>2, <2>2, <2>3, <2>4, ShiftCostsNoMore
  <2> QED  BY <2>1, <2>5
<1>6. m \in 0..m /\ n + 0 = n  BY <1>1
<1> QED  BY <1>1, <1>2, <1>5, <1>6

LEMMA AddCostsOne ==
  ASSUME NEW a, NEW b, NEW c, Len(a) \in Nat, Len(b) \in Nat, Len(c) \in Nat,
         NEW f, Table(f, a, b), NEW g, Table(g, a, c), NEW p \in 1..(Len(b) + 1), Added(b, c, p)
  PROVE  g[<<Len(a), Len(c)>>] <= f[<<Len(a), Len(b)>>] + 1
<1>1. PICK m \in Nat, n \in Nat : m = Len(a) /\ n = Len(b)  OBVIOUS
<1>2. PICK q \in Nat : q = p - 1  OBVIOUS
<1>3. /\ q <= Len(b) /\ q <= Len(c) /\ Len(c) = n + 1 /\ q \in 0..Len(b) /\ q + 1 \in 1..Len(c)
      /\ n \in q..n /\ (q + 1) - 1 = q /\ q \in 0..q /\ q + 1 = p
  BY <1>1, <1>2 DEF Added
<1>4. \A i \in 0..Len(a) : g[<<i, q + 1>>] <= f[<<i, q>>] + 1
  <2> SUFFICES ASSUME NEW i \in 0..Len(a) PROVE g[<<i, q + 1>>] <= f[<<i, q>>] + 1  OBVIOUS
  <2>1. SameUpTo(b, c, q)  BY <1>2 DEF Added, SameUpTo
  <2>2. f[<<i, q>>] = g[<<i, q>>]  BY <1>3, <2>1, SamePrefixSameTable
  <2>3. g[<<i, q + 1>>] <= g[<<i, (q + 1) - 1>>] + 1  BY <1>3, NextLetterCostsOne
  <2> QED  BY <1>3, <2>2, <2>3
<1>5. \A i \in 0..Len(a), j \in q..Len(b) : g[<<i, j + 1>>] <= f[<<i, j>>] + 1
  <2>1. PICK s \in Int : s = 1  OBVIOUS
  <2>2. s >= -1 /\ s <= 1 /\ q + s >= 0 /\ Len(c) = Len(b) + s  BY <1>1, <1>3, <2>1
  <2>3. \A i \in 0..Len(a) : g[<<i, q + s>>] <= f[<<i, q>>] + 1  BY <1>4, <2>1
  <2>4. \A k \in (q + 1)..Len(b) : c[k + s] = b[k]  BY <1>3, <2>1 DEF Added
  <2>5. \A i \in 0..Len(a), j \in q..Len(b) : g[<<i, j + s>>] <= f[<<i, j>>] + 1
    BY <1>3, <2>2, <2>3, <2>4, ShiftCostsNoMore
  <2> QED  BY <2>1, <2>5
<1>6. m \in 0..m  BY <1>1
<1> QED  BY <1>1, <1>3, <1>5, <1>6

LEMMA EditCostsOne ==
  ASSUME NEW a, NEW b, NEW c, Len(a) \in Nat, Len(b) \in Nat, Len(c) \in Nat, OneEdit(b, c)
  PROVE  /\ Levenshtein(a, b) \in Nat /\ Levenshtein(a, c) \in Nat
         /\ Levenshtein(a, c) <= Levenshtein(a, b) + 1
<1>1. PICK f : Table(f, a, b) /\ Levenshtein(a, b) = f[<<Len(a), Len(b)>>]  BY LevenshteinHasTable
<1>2. PICK g : Table(g, a, c) /\ Levenshtein(a, c) = g[<<Len(a), Len(c)>>]  BY LevenshteinHasTable
<1>3. Len(a) \in 0..Len(a) /\ Len(b) \in 0..Len(b) /\ Len(c) \in 0..Len(c)  OBVIOUS
<1>4. Levenshtein(a, b) \in Nat /\ Levenshtein(a, c) \in Nat  BY <1>1, <1>2, <1>3, TableAt
<1>5. CASE c = b  BY <1>4, <1>5
<1>6. CASE \E p \in 1..Len(b) : Dropped(b, c, p)  BY <1>1, <1>2, <1>4, <1>6, DropCostsOne
<1>7. CASE \E p \in 1..Len(b) : Changed(b, c, p)  BY <1>1, <1>2, <1>4, <1>7, ChangeCostsOne
<1>8. CASE \E p \in 1..(Len(b) + 1) : Added(b, c, p)  BY <1>1, <1>2, <1>4, <1>8, AddCostsOne
<1> QED  BY <1>4, <1>5, <1>6, <1>7, <1>8 DEF OneEdit

\* No letters differ, so nothing is to be paid.
LEMMA SameCostsNothing ==
  ASSUME NEW a, Len(a) \in Nat
  PROVE  Levenshtein(a, a) = 0
<1>1. PICK f : Table(f, a, a) /\ Levenshtein(a, a) = f[<<Len(a), Len(a)>>]  BY LevenshteinHasTable
<1> DEFINE T == {i \in 0..Len(a) : f[<<i, i>>] # 0}
<1>2. SUFFICES ASSUME T # {} PROVE FALSE
  <2>1. Len(a) \in 0..Len(a)  OBVIOUS
  <2> QED  BY <1>1, <2>1
<1>3. PICK i \in T : \A k \in T : i <= k
  <2>1. T \subseteq Nat  OBVIOUS
  <2> HIDE DEF T
  <2> QED  BY <1>2, <2>1, LeastNat
<1>4. i \in 0..Len(a) /\ f[<<i, i>>] # 0  OBVIOUS
<1>5. i # 0
  <2>1. f[<<0, 0>>] = 0  BY <1>1, <1>4, TableAt
  <2> QED  BY <1>4, <2>1
<1>6. i \in 1..Len(a) /\ i - 1 \in 0..Len(a) /\ ~(i <= i - 1)  BY <1>4, <1>5
<1>7. f[<<i - 1, i - 1>>] = 0
  <2>1. i - 1 \notin T
    <3> HIDE DEF T
    <3> QED  BY <1>3, <1>6
  <2> QED  BY <1>6, <2>1
<1>8. f[<<i, i>>] <= f[<<i - 1, i - 1>>] /\ f[<<i, i>>] \in Nat  BY <1>1, <1>4, <1>6, TableAt
<1> QED  BY <1>4, <1>7, <1>8

-----------------------------------------------------------------------------
(* The edits, letter by letter.                                            *)

Words == Seq(Alphabet)

LEMMA WordIs ==
  ASSUME NEW w \in Words
  PROVE  /\ Len(w) \in Nat /\ DOMAIN w = 1..Len(w) /\ w = [k \in 1..Len(w) |-> w[k]]
         /\ \A k \in 1..Len(w) : w[k] \in Alphabet
BY LenProperties, ElementOfSeq DEF Words

LEMMA SameWord ==
  ASSUME NEW v \in Words, NEW w \in Words, Len(v) = Len(w), \A k \in 1..Len(w) : v[k] = w[k]
  PROVE  v = w
BY SeqEqual DEF Words

LEMMA CutWord ==
  ASSUME NEW w \in Words, NEW i \in Nat, NEW j \in Nat, i >= 1, i <= j + 1, j <= Len(w)
  PROVE  /\ SubSeq(w, i, j) \in Words /\ Len(SubSeq(w, i, j)) = j - i + 1
         /\ \A k \in 1..(j - i + 1) : SubSeq(w, i, j)[k] = w[i + k - 1]
<1>1. Len(w) \in Nat /\ \A k \in 1..Len(w) : w[k] \in Alphabet  BY WordIs
<1>2. \A k \in i..j : w[k] \in Alphabet  BY <1>1
<1>3. SubSeq(w, i, j) \in Words  BY <1>2, SubSeqProperties DEF Words
<1> QED  BY <1>1, <1>3, SubSeqProperties

LEMMA FirstLetters ==
  ASSUME NEW w \in Words, NEW q \in Nat, q <= Len(w)
  PROVE  /\ SubSeq(w, 1, q) \in Words /\ Len(SubSeq(w, 1, q)) = q
         /\ \A k \in 1..q : SubSeq(w, 1, q)[k] = w[k]
<1>1. PICK i \in Nat : i = 1 /\ i >= 1 /\ i <= q + 1 /\ q - i + 1 = q  OBVIOUS
<1>2. /\ SubSeq(w, i, q) \in Words /\ Len(SubSeq(w, i, q)) = q - i + 1
      /\ \A k \in 1..(q - i + 1) : SubSeq(w, i, q)[k] = w[i + k - 1]
  BY <1>1, CutWord
<1>3. \A k \in 1..q : 1 + k - 1 = k  OBVIOUS
<1> QED  BY <1>1, <1>2, <1>3

LEMMA RemoveAtIs ==
  ASSUME NEW w \in Words, NEW p \in 1..Len(w)
  PROVE  RemoveAt(w, p) \in Words /\ Dropped(w, RemoveAt(w, p), p)
<1>1. PICK n \in Nat : n = Len(w)  BY WordIs
<1>2. PICK x \in Words : x = SubSeq(w, 1, p - 1) /\ Len(x) = p - 1 /\ \A k \in 1..(p - 1) : x[k] = w[k]
  <2>1. PICK q \in Nat : q = p - 1 /\ q <= Len(w)  BY <1>1
  <2>2. /\ SubSeq(w, 1, q) \in Words /\ Len(SubSeq(w, 1, q)) = q
        /\ \A k \in 1..q : SubSeq(w, 1, q)[k] = w[k]
    BY <2>1, FirstLetters
  <2> QED  BY <2>1, <2>2
<1>3. PICK y \in Words : /\ y = SubSeq(w, p + 1, n) /\ Len(y) = n - p
                         /\ \A k \in 1..(n - p) : y[k] = w[p + k]
  <2>1. p + 1 \in Nat /\ p + 1 >= 1 /\ p + 1 <= n + 1 /\ n <= Len(w) /\ n - (p + 1) + 1 = n - p
    BY <1>1
  <2>2. SubSeq(w, p + 1, n) \in Words /\ Len(SubSeq(w, p + 1, n)) = n - p
    BY <2>1, CutWord
  <2>3. \A k \in 1..(n - p) : SubSeq(w, p + 1, n)[k] = w[(p + 1) + k - 1] /\ (p + 1) + k - 1 = p + k
    BY <2>1, CutWord
  <2> QED  BY <2>2, <2>3
<1>4. PICK v : v = x \o y  OBVIOUS
<1>5. RemoveAt(w, p) = v  BY <1>1, <1>2, <1>3, <1>4 DEF RemoveAt
<1>6. /\ v \in Words /\ Len(v) = Len(x) + Len(y)
      /\ \A k \in 1..(Len(x) + Len(y)) : v[k] = IF k <= Len(x) THEN x[k] ELSE y[k - Len(x)]
  BY <1>4, ConcatProperties DEF Words
<1>n. p \in 1..n /\ p \in Nat /\ n \in Nat  BY <1>1
<1>x. Len(x) = p - 1  BY <1>2
<1>y. Len(y) = n - p  BY <1>3
<1>s. (p - 1) + (n - p) = n - 1  BY <1>n
<1>l. /\ Len(x) = p - 1 /\ Len(y) = n - p /\ p \in 1..n /\ p \in Nat /\ n \in Nat
      /\ Len(x) + Len(y) = n - 1
  BY <1>n, <1>x, <1>y, <1>s
<1>7. Len(v) = Len(w) - 1  BY <1>1, <1>6, <1>l
<1>8. ASSUME NEW k \in 1..(p - 1) PROVE v[k] = w[k]
  <2>1. k \in 1..(Len(x) + Len(y)) /\ k <= Len(x)  BY <1>l
  <2> QED  BY <1>2, <1>6, <2>1
<1>9. ASSUME NEW k \in (p + 1)..Len(w) PROVE v[k - 1] = w[k]
  <2>1. /\ k - 1 \in 1..(Len(x) + Len(y)) /\ ~(k - 1 <= Len(x)) /\ (k - 1) - Len(x) = k - p
        /\ k - p \in 1..(n - p) /\ p + (k - p) = k
    BY <1>1, <1>l
  <2> QED  BY <1>3, <1>6, <2>1
<1> QED  BY <1>5, <1>6, <1>7, <1>8, <1>9 DEF Dropped

LEMMA InsertAtIs ==
  ASSUME NEW w \in Words, NEW p \in 1..(Len(w) + 1), NEW l \in Alphabet
  PROVE  InsertAt(w, p, l) \in Words /\ Added(w, InsertAt(w, p, l), p) /\ InsertAt(w, p, l)[p] = l
<1>1. PICK n \in Nat : n = Len(w)  BY WordIs
<1>2. PICK x \in Words : x = SubSeq(w, 1, p - 1) /\ Len(x) = p - 1 /\ \A k \in 1..(p - 1) : x[k] = w[k]
  <2>1. PICK q \in Nat : q = p - 1 /\ q <= Len(w)  BY <1>1
  <2>2. /\ SubSeq(w, 1, q) \in Words /\ Len(SubSeq(w, 1, q)) = q
        /\ \A k \in 1..q : SubSeq(w, 1, q)[k] = w[k]
    BY <2>1, FirstLetters
  <2> QED  BY <2>1, <2>2
<1>3. PICK y \in Words : /\ y = SubSeq(w, p, n) /\ Len(y) = n - p + 1
                         /\ \A k \in 1..(n - p + 1) : y[k] = w[p + k - 1]
  <2>1. p \in Nat /\ p >= 1 /\ p <= n + 1 /\ n <= Len(w)  BY <1>1
  <2> QED  BY <2>1, CutWord
<1>4. PICK z \in Words : z = <<l>> /\ Len(z) = 1 /\ z[1] = l
  <2>1. <<l>> \in Seq(Alphabet) /\ Len(<<l>>) = 1 /\ <<l>>[1] = l  OBVIOUS
  <2> QED  BY <2>1 DEF Words
<1>5. PICK u : u = x \o z  OBVIOUS
<1>6. /\ u \in Words /\ Len(u) = Len(x) + Len(z)
      /\ \A k \in 1..(Len(x) + Len(z)) : u[k] = IF k <= Len(x) THEN x[k] ELSE z[k - Len(x)]
  BY <1>5, ConcatProperties DEF Words
<1>7. PICK v : v = u \o y  OBVIOUS
<1>8. InsertAt(w, p, l) = v  BY <1>1, <1>2, <1>3, <1>4, <1>5, <1>7 DEF InsertAt
<1>9. /\ v \in Words /\ Len(v) = Len(u) + Len(y)
      /\ \A k \in 1..(Len(u) + Len(y)) : v[k] = IF k <= Len(u) THEN u[k] ELSE y[k - Len(u)]
  BY <1>6, <1>7, ConcatProperties DEF Words
<1>10. Len(u) = p /\ Len(v) = n + 1  BY <1>1, <1>2, <1>3, <1>4, <1>6, <1>9
<1>11. u[p] = l
  <2>1. p \in 1..(Len(x) + Len(z)) /\ ~(p <= Len(x)) /\ p - Len(x) = 1  BY <1>1, <1>2, <1>4
  <2> QED  BY <1>4, <1>6, <2>1
<1>12. v[p] = l
  <2>1. p \in 1..(Len(u) + Len(y)) /\ p <= Len(u)  BY <1>1, <1>3, <1>10
  <2> QED  BY <1>9, <1>11, <2>1
<1>13. ASSUME NEW k \in 1..(p - 1) PROVE v[k] = w[k]
  <2>1. /\ k \in 1..(Len(x) + Len(z)) /\ k <= Len(x) /\ k \in 1..(Len(u) + Len(y)) /\ k <= Len(u)
    BY <1>1, <1>2, <1>3, <1>4, <1>10
  <2> QED  BY <1>2, <1>6, <1>9, <2>1
<1>14. ASSUME NEW k \in p..Len(w) PROVE v[k + 1] = w[k]
  <2>1. /\ k + 1 \in 1..(Len(u) + Len(y)) /\ ~(k + 1 <= Len(u)) /\ (k + 1) - Len(u) = k - p + 1
        /\ k - p + 1 \in 1..(n - p + 1) /\ p + (k - p + 1) - 1 = k
    BY <1>1, <1>3, <1>10
  <2> QED  BY <1>3, <1>9, <2>1
<1> QED  BY <1>1, <1>8, <1>9, <1>10, <1>12, <1>13, <1>14 DEF Added

LEMMA ReplaceAtIs ==
  ASSUME NEW w \in Words, NEW p \in 1..Len(w), NEW l \in Alphabet
  PROVE  /\ ReplaceAt(w, p, l) \in Words /\ Changed(w, ReplaceAt(w, p, l), p)
         /\ ReplaceAt(w, p, l)[p] = l
<1>1. /\ Len(w) \in Nat /\ DOMAIN w = 1..Len(w) /\ \A k \in 1..Len(w) : w[k] \in Alphabet  BY WordIs
<1>2. PICK v : v = [w EXCEPT ![p] = l]  OBVIOUS
<1>3. /\ v \in [1..Len(w) -> Alphabet] /\ v[p] = l
      /\ \A k \in 1..Len(w) : k # p => v[k] = w[k]
  BY <1>1, <1>2
<1>4. v \in Words /\ Len(v) = Len(w)  BY <1>1, <1>3 DEF Words
<1> QED  BY <1>2, <1>3, <1>4 DEF Changed, ReplaceAt

\* Edited is what it is called.
LEMMA EditedIsOneEdit ==
  ASSUME NEW w \in Words
  PROVE  /\ \A v \in Edited(w) : v \in Words /\ OneEdit(w, v)
         /\ \A v \in Words : OneEdit(w, v) => v \in Edited(w)
<1>1. Len(w) \in Nat /\ DOMAIN w = 1..Len(w)  BY WordIs
<1>2. ASSUME NEW v \in Edited(w) PROVE v \in Words /\ OneEdit(w, v)
  <2>1. CASE v = w  BY <2>1 DEF OneEdit
  <2>2. CASE \E i \in 1..Len(w) : v = RemoveAt(w, i)  BY <2>2, RemoveAtIs DEF OneEdit
  <2>3. CASE \E i \in 1..Len(w), x \in Alphabet : v = ReplaceAt(w, i, x)
    <3>1. PICK i \in 1..Len(w), x \in Alphabet : v = ReplaceAt(w, i, x)  BY <2>3
    <3>2. v \in Words /\ Changed(w, v, i)  BY <3>1, ReplaceAtIs
    <3> QED  BY <3>2 DEF OneEdit
  <2>4. CASE \E i \in 1..(Len(w) + 1), x \in Alphabet : v = InsertAt(w, i, x)  BY <2>4, InsertAtIs DEF OneEdit
  <2> QED  BY <1>1, <2>1, <2>2, <2>3, <2>4 DEF Edited
<1>3. ASSUME NEW v \in Words, OneEdit(w, v) PROVE v \in Edited(w)
  <2>1. Len(v) \in Nat /\ \A k \in 1..Len(v) : v[k] \in Alphabet  BY WordIs
  <2>2. CASE v = w  BY <2>2 DEF Edited
  <2>3. ASSUME NEW p \in 1..Len(w), Dropped(w, v, p) PROVE v \in Edited(w)
    <3>1. PICK u \in Words : u = RemoveAt(w, p) /\ Dropped(w, u, p)  BY RemoveAtIs
    <3>2. ASSUME NEW k \in 1..Len(u) PROVE v[k] = u[k]
      <4>1. Len(u) = Len(w) - 1  BY <3>1 DEF Dropped
      <4>2. CASE k < p
        <5>1. k \in 1..(p - 1)  BY <1>1, <4>2
        <5> QED  BY <2>3, <3>1, <5>1 DEF Dropped
      <4>3. CASE ~(k < p)
        <5>1. k + 1 \in (p + 1)..Len(w) /\ (k + 1) - 1 = k  BY <1>1, <4>1, <4>3
        <5>2. v[(k + 1) - 1] = w[k + 1] /\ u[(k + 1) - 1] = w[k + 1]  BY <2>3, <3>1, <5>1 DEF Dropped
        <5> QED  BY <5>1, <5>2
      <4> QED  BY <4>2, <4>3
    <3>3. Len(v) = Len(u)  BY <2>3, <3>1 DEF Dropped
    <3>4. v = u  BY <3>2, <3>3, SameWord
    <3> QED  BY <1>1, <3>1, <3>4 DEF Edited
  <2>4. ASSUME NEW p \in 1..Len(w), Changed(w, v, p) PROVE v \in Edited(w)
    <3>1. PICK l \in Alphabet : l = v[p]  BY <2>1, <2>4 DEF Changed
    <3>2. PICK u \in Words : u = ReplaceAt(w, p, l) /\ Changed(w, u, p) /\ u[p] = v[p]
      BY <3>1, ReplaceAtIs
    <3>3. ASSUME NEW k \in 1..Len(u) PROVE v[k] = u[k]
      BY <2>4, <3>2 DEF Changed
    <3>4. Len(v) = Len(u)  BY <2>4, <3>2 DEF Changed
    <3>5. v = u  BY <3>3, <3>4, SameWord
    <3> QED  BY <1>1, <3>1, <3>2, <3>5 DEF Edited
  <2>5. ASSUME NEW p \in 1..(Len(w) + 1), Added(w, v, p) PROVE v \in Edited(w)
    <3>1. v[p] \in Alphabet
      <4>1. p \in 1..Len(v)  BY <1>1, <2>5 DEF Added
      <4> QED  BY <2>1, <4>1
    <3>2. PICK u \in Words : u = InsertAt(w, p, v[p]) /\ Added(w, u, p) /\ u[p] = v[p]
      BY <3>1, InsertAtIs
    <3>3. ASSUME NEW k \in 1..Len(u) PROVE v[k] = u[k]
      <4>1. Len(u) = Len(w) + 1  BY <3>2 DEF Added
      <4>2. CASE k < p
        <5>1. k \in 1..(p - 1)  BY <1>1, <4>2
        <5> QED  BY <2>5, <3>2, <5>1 DEF Added
      <4>3. CASE k > p
        <5>1. k - 1 \in p..Len(w) /\ (k - 1) + 1 = k  BY <1>1, <4>1, <4>3
        <5>2. v[(k - 1) + 1] = w[k - 1] /\ u[(k - 1) + 1] = w[k - 1]  BY <2>5, <3>2, <5>1 DEF Added
        <5> QED  BY <5>1, <5>2
      <4>4. CASE k = p  BY <3>2, <4>4
      <4>5. k \in Int /\ p \in Int  OBVIOUS
      <4> QED  BY <4>2, <4>3, <4>4, <4>5
    <3>4. Len(v) = Len(u)  BY <2>5, <3>2 DEF Added
    <3>5. v = u  BY <3>3, <3>4, SameWord
    <3> QED  BY <1>1, <3>1, <3>2, <3>5 DEF Edited
  <2> QED  BY <1>3, <2>2, <2>3, <2>4, <2>5 DEF OneEdit
<1> QED  BY <1>2, <1>3

-----------------------------------------------------------------------------
(* Edits at the end of a word, and edits of a word that grows.             *)

LEMMA AppendIs ==
  ASSUME NEW w \in Words, NEW x \in Alphabet
  PROVE  /\ Append(w, x) \in Words /\ Len(Append(w, x)) = Len(w) + 1
         /\ Append(w, x)[Len(w) + 1] = x
         /\ \A k \in 1..Len(w) : Append(w, x)[k] = w[k]
BY AppendProperties DEF Words

LEMMA LastIsEdited ==
  ASSUME NEW w \in Words, NEW x \in Alphabet, NEW y \in Alphabet
  PROVE  /\ OneEdit(w, Append(w, x)) /\ OneEdit(Append(w, x), w)
         /\ OneEdit(Append(w, x), Append(w, y))
<1>1. PICK n \in Nat : n = Len(w)  BY WordIs
<1>2. PICK u \in Words : /\ u = Append(w, x) /\ Len(u) = n + 1
                         /\ \A k \in 1..n : u[k] = w[k]
  BY <1>1, AppendIs
<1>3. PICK v \in Words : /\ v = Append(w, y) /\ Len(v) = n + 1
                         /\ \A k \in 1..n : v[k] = w[k]
  BY <1>1, AppendIs
<1>4. PICK p \in Nat : p = n + 1  OBVIOUS
<1>5. OneEdit(w, u)
  <2>1. p \in 1..(Len(w) + 1) /\ \A k \in 1..(p - 1) : k \in 1..n  BY <1>1, <1>4
  <2>2. \A k \in p..Len(w) : u[k + 1] = w[k]  BY <1>1, <1>4
  <2>3. Added(w, u, p)  BY <1>1, <1>2, <2>1, <2>2 DEF Added
  <2> QED  BY <2>1, <2>3 DEF OneEdit
<1>6. OneEdit(u, w)
  <2>1. p \in 1..Len(u) /\ \A k \in 1..(p - 1) : k \in 1..n  BY <1>2, <1>4
  <2>2. \A k \in (p + 1)..Len(u) : w[k - 1] = u[k]  BY <1>2, <1>4
  <2>3. Len(w) = Len(u) - 1  BY <1>1, <1>2
  <2>4. Dropped(u, w, p)  BY <1>2, <2>1, <2>2, <2>3 DEF Dropped
  <2> QED  BY <2>1, <2>4 DEF OneEdit
<1>7. OneEdit(u, v)
  <2>1. p \in 1..Len(u) /\ \A k \in 1..Len(u) : k # p => k \in 1..n  BY <1>2, <1>4
  <2>2. Changed(u, v, p)  BY <1>2, <1>3, <2>1 DEF Changed
  <2> QED  BY <2>1, <2>2 DEF OneEdit
<1> QED  BY <1>2, <1>3, <1>5, <1>6, <1>7

LEMMA EditsGrow ==
  ASSUME NEW w \in Words, NEW v \in Words, NEW x \in Alphabet, OneEdit(w, v)
  PROVE  OneEdit(Append(w, x), Append(v, x))
<1>1. PICK n \in Nat : n = Len(w)  BY WordIs
<1>2. PICK m \in Nat : m = Len(v)  BY WordIs
<1>3. PICK W \in Words : /\ W = Append(w, x) /\ Len(W) = n + 1 /\ W[n + 1] = x
                         /\ \A k \in 1..n : W[k] = w[k]
  BY <1>1, AppendIs
<1>4. PICK V \in Words : /\ V = Append(v, x) /\ Len(V) = m + 1 /\ V[m + 1] = x
                         /\ \A k \in 1..m : V[k] = v[k]
  BY <1>2, AppendIs
<1>5. CASE v = w  BY <1>5 DEF OneEdit
<1>6. ASSUME NEW p \in 1..Len(w), Dropped(w, v, p) PROVE OneEdit(W, V)
  <2>1. m = n - 1 /\ p \in 1..n /\ p \in Nat  BY <1>1, <1>2, <1>6 DEF Dropped
  <2>2. \A k \in 1..(p - 1) : V[k] = W[k]
    <3>1. \A k \in 1..(p - 1) : k \in 1..n /\ k \in 1..m  BY <2>1
    <3> QED  BY <1>3, <1>4, <1>6, <3>1 DEF Dropped
  <2>3. ASSUME NEW k \in (p + 1)..(n + 1) PROVE V[k - 1] = W[k]
    <3>1. CASE k = n + 1
      <4>1. k - 1 = m + 1  BY <2>1, <3>1
      <4> QED  BY <1>3, <1>4, <3>1, <4>1
    <3>2. CASE k # n + 1
      <4>1. k \in (p + 1)..Len(w) /\ k \in 1..n /\ k - 1 \in 1..m  BY <1>1, <2>1, <3>2
      <4>2. v[k - 1] = w[k]  BY <1>6, <4>1 DEF Dropped
      <4> QED  BY <1>3, <1>4, <4>1, <4>2
    <3> QED  BY <3>1, <3>2
  <2>4. Len(V) = Len(W) - 1 /\ p \in 1..Len(W)  BY <1>3, <1>4, <2>1
  <2>5. Dropped(W, V, p)  BY <1>3, <2>2, <2>3, <2>4 DEF Dropped
  <2> QED  BY <2>4, <2>5 DEF OneEdit
<1>7. ASSUME NEW p \in 1..Len(w), Changed(w, v, p) PROVE OneEdit(W, V)
  <2>1. m = n /\ p \in 1..n /\ p \in Nat  BY <1>1, <1>2, <1>7 DEF Changed
  <2>2. ASSUME NEW k \in 1..(n + 1), k # p PROVE V[k] = W[k]
    <3>1. CASE k = n + 1  BY <1>3, <1>4, <2>1, <3>1
    <3>2. CASE k # n + 1
      <4>1. k \in 1..n /\ k \in 1..Len(w)  BY <1>1, <3>2
      <4> QED  BY <1>3, <1>4, <1>7, <2>1, <2>2, <4>1 DEF Changed
    <3> QED  BY <3>1, <3>2
  <2>3. Len(V) = Len(W) /\ p \in 1..Len(W)  BY <1>3, <1>4, <2>1
  <2>4. Changed(W, V, p)  BY <1>3, <2>2, <2>3 DEF Changed
  <2> QED  BY <2>3, <2>4 DEF OneEdit
<1>8. ASSUME NEW p \in 1..(Len(w) + 1), Added(w, v, p) PROVE OneEdit(W, V)
  <2>1. m = n + 1 /\ p \in 1..(n + 1) /\ p \in Nat  BY <1>1, <1>2, <1>8 DEF Added
  <2>2. \A k \in 1..(p - 1) : V[k] = W[k]
    <3>1. \A k \in 1..(p - 1) : k \in 1..n /\ k \in 1..m  BY <2>1
    <3> QED  BY <1>3, <1>4, <1>8, <3>1 DEF Added
  <2>3. ASSUME NEW k \in p..(n + 1) PROVE V[k + 1] = W[k]
    <3>1. CASE k = n + 1
      <4>1. k + 1 = m + 1  BY <2>1, <3>1
      <4> QED  BY <1>3, <1>4, <3>1, <4>1
    <3>2. CASE k # n + 1
      <4>1. k \in p..Len(w) /\ k \in 1..n /\ k + 1 \in 1..m  BY <1>1, <2>1, <3>2
      <4>2. v[k + 1] = w[k]  BY <1>8, <4>1 DEF Added
      <4> QED  BY <1>3, <1>4, <4>1, <4>2
    <3> QED  BY <3>1, <3>2
  <2>4. Len(V) = Len(W) + 1 /\ p \in 1..(Len(W) + 1)  BY <1>3, <1>4, <2>1
  <2>5. Added(W, V, p)  BY <1>3, <2>2, <2>3, <2>4 DEF Added
  <2> QED  BY <2>4, <2>5 DEF OneEdit
<1> QED  BY <1>3, <1>4, <1>5, <1>6, <1>7, <1>8 DEF OneEdit

-----------------------------------------------------------------------------
(* So many edits as the entry says are enough.                             *)

\* v is w after at most d edits, if d is two or less.
Near(w, v, d) ==
  \E e \in Words : /\ IF d >= 2 THEN OneEdit(w, e) ELSE e = w
                   /\ IF d >= 1 THEN OneEdit(e, v) ELSE v = e

LEMMA NearSteps ==
  ASSUME NEW w \in Words, NEW v \in Words, NEW d \in 0..2, Near(w, v, d)
  PROVE  /\ \A u \in Words : d <= 1 /\ OneEdit(u, w) => Near(u, v, d + 1)
         /\ \A u \in Words : d <= 1 /\ OneEdit(v, u) => Near(w, u, d + 1)
         /\ \A x \in Alphabet : Near(Append(w, x), Append(v, x), d)
<1>1. PICK e \in Words : /\ IF d >= 2 THEN OneEdit(w, e) ELSE e = w
                         /\ IF d >= 1 THEN OneEdit(e, v) ELSE v = e
  BY DEF Near
<1>2. ASSUME NEW u \in Words, d <= 1, OneEdit(u, w) PROVE Near(u, v, d + 1)
  <2>1. CASE d = 0  BY <1>1, <1>2, <2>1 DEF Near
  <2>2. CASE d = 1  BY <1>1, <1>2, <2>2 DEF Near
  <2> QED  BY <1>2, <2>1, <2>2
<1>3. ASSUME NEW u \in Words, d <= 1, OneEdit(v, u) PROVE Near(w, u, d + 1)
  <2>1. CASE d = 0  BY <1>1, <1>3, <2>1 DEF Near
  <2>2. CASE d = 1  BY <1>1, <1>3, <2>2 DEF Near
  <2> QED  BY <1>3, <2>1, <2>2
<1>4. ASSUME NEW x \in Alphabet PROVE Near(Append(w, x), Append(v, x), d)
  <2>1. Append(e, x) \in Words  BY AppendIs
  <2>2. IF d >= 2 THEN OneEdit(Append(w, x), Append(e, x)) ELSE Append(e, x) = Append(w, x)
    BY <1>1, EditsGrow
  <2>3. IF d >= 1 THEN OneEdit(Append(e, x), Append(v, x)) ELSE Append(v, x) = Append(e, x)
    BY <1>1, EditsGrow
  <2> QED  BY <2>1, <2>2, <2>3 DEF Near
<1> QED  BY <1>2, <1>3, <1>4

LEMMA PrefixIs ==
  ASSUME NEW w \in Words
  PROVE  /\ SubSeq(w, 1, Len(w)) = w
         /\ \A i \in 0..Len(w) : SubSeq(w, 1, i) \in Words
         /\ \A i \in 1..Len(w) : SubSeq(w, 1, i) = Append(SubSeq(w, 1, i - 1), w[i])
<1>1. PICK n \in Nat : n = Len(w)  BY WordIs
<1>2. ASSUME NEW i \in 0..Len(w)
      PROVE  /\ SubSeq(w, 1, i) \in Words /\ Len(SubSeq(w, 1, i)) = i
             /\ \A k \in 1..i : SubSeq(w, 1, i)[k] = w[k]
  <2>1. i \in Nat /\ i <= Len(w)  BY <1>1
  <2> QED  BY <2>1, FirstLetters
<1>3. SubSeq(w, 1, Len(w)) = w
  <2>1. n \in 0..Len(w)  BY <1>1
  <2>2. PICK v \in Words : v = SubSeq(w, 1, n) /\ Len(v) = n /\ \A k \in 1..n : v[k] = w[k]
    BY <1>2, <2>1
  <2>3. v = w  BY <1>1, <2>2, SameWord
  <2> QED  BY <1>1, <2>2, <2>3
<1>4. ASSUME NEW i \in 1..Len(w) PROVE SubSeq(w, 1, i) = Append(SubSeq(w, 1, i - 1), w[i])
  <2>1. i \in 0..Len(w) /\ i - 1 \in 0..Len(w) /\ w[i] \in Alphabet  BY <1>1, WordIs
  <2>2. PICK u \in Words : u = SubSeq(w, 1, i - 1) /\ Len(u) = i - 1 /\ \A k \in 1..(i - 1) : u[k] = w[k]
    BY <1>2, <2>1
  <2>3. PICK v \in Words : v = SubSeq(w, 1, i) /\ Len(v) = i /\ \A k \in 1..i : v[k] = w[k]
    BY <1>2, <2>1
  <2>4. PICK x \in Words : /\ x = Append(u, w[i]) /\ Len(x) = Len(u) + 1 /\ x[Len(u) + 1] = w[i]
                           /\ \A k \in 1..Len(u) : x[k] = u[k]
    BY <2>1, AppendIs
  <2>5. Len(x) = Len(v) /\ Len(u) + 1 = i /\ i \in Nat  BY <1>1, <2>2, <2>3, <2>4
  <2>6. ASSUME NEW k \in 1..Len(v) PROVE x[k] = v[k]
    <3>1. CASE k = i  BY <2>3, <2>4, <2>5, <3>1
    <3>2. CASE k # i
      <4>1. k \in 1..(i - 1) /\ k \in 1..i /\ k \in 1..Len(u)  BY <2>2, <2>3, <2>5, <3>2
      <4> QED  BY <2>2, <2>3, <2>4, <4>1
    <3> QED  BY <3>1, <3>2
  <2>7. x = v  BY <2>5, <2>6, SameWord
  <2> QED  BY <2>2, <2>3, <2>4, <2>7
<1> QED  BY <1>2, <1>3, <1>4

LEMMA TableStep ==
  ASSUME NEW a, NEW b, Len(a) \in Nat, Len(b) \in Nat, NEW f, Table(f, a, b),
         NEW i \in 0..Len(a), NEW j \in 0..Len(b), i # 0 \/ j # 0
  PROVE  \/ i > 0 /\ f[<<i, j>>] = f[<<i - 1, j>>] + 1
         \/ j > 0 /\ f[<<i, j>>] = f[<<i, j - 1>>] + 1
         \/ i > 0 /\ j > 0 /\ f[<<i, j>>] = f[<<i - 1, j - 1>>] + 1
         \/ i > 0 /\ j > 0 /\ a[i] = b[j] /\ f[<<i, j>>] = f[<<i - 1, j - 1>>]
<1>1. CASE i > 0 /\ j > 0
  <2>1. i \in 1..Len(a) /\ j \in 1..Len(b)  BY <1>1
  <2>2. \/ f[<<i, j>>] = f[<<i - 1, j>>] + 1
        \/ f[<<i, j>>] = f[<<i, j - 1>>] + 1
        \/ f[<<i, j>>] = f[<<i - 1, j - 1>>] + 1
        \/ a[i] = b[j] /\ f[<<i, j>>] = f[<<i - 1, j - 1>>]
    BY <2>1, TableChoice
  <2> QED  BY <1>1, <2>2, Zenon
<1>2. CASE i > 0 /\ j = 0
  <2>1. i - 1 \in 0..Len(a)  BY <1>2
  <2>2. f[<<i, 0>>] = i /\ f[<<i - 1, 0>>] = i - 1  BY <2>1, TableAt
  <2>3. i = (i - 1) + 1  OBVIOUS
  <2> QED  BY <1>2, <2>2, <2>3
<1>3. CASE i = 0 /\ j > 0
  <2>1. j - 1 \in 0..Len(b)  BY <1>3
  <2>2. f[<<0, j>>] = j /\ f[<<0, j - 1>>] = j - 1  BY <2>1, TableAt
  <2>3. j = (j - 1) + 1  OBVIOUS
  <2> QED  BY <1>3, <2>2, <2>3
<1> QED  BY <1>1, <1>2, <1>3

LEMMA TableIsNear ==
  ASSUME NEW a \in Words, NEW b \in Words, NEW f, Table(f, a, b)
  PROVE  \A i \in 0..Len(a), j \in 0..Len(b), d \in 0..2 :
           f[<<i, j>>] <= d => Near(SubSeq(a, 1, i), SubSeq(b, 1, j), d)
<1>1. PICK m \in Nat, n \in Nat : m = Len(a) /\ n = Len(b)  BY WordIs
<1> DEFINE Bad == {p \in (0..m) \X (0..n) : \E d \in 0..2 :
                     f[p] <= d /\ ~Near(SubSeq(a, 1, p[1]), SubSeq(b, 1, p[2]), d)}
<1>2. SUFFICES ASSUME Bad # {} PROVE FALSE
  <2>1. ASSUME NEW i \in 0..m, NEW j \in 0..n, NEW d \in 0..2, f[<<i, j>>] <= d,
               ~Near(SubSeq(a, 1, i), SubSeq(b, 1, j), d)
        PROVE  <<i, j>> \in Bad
    <3>1. <<i, j>> \in (0..m) \X (0..n) /\ <<i, j>>[1] = i /\ <<i, j>>[2] = j  OBVIOUS
    <3> QED  BY <2>1, <3>1
  <2> QED  BY <1>1, <2>1
<1>3. PICK i \in 0..m, j \in 0..n :
        <<i, j>> \in Bad /\ \A k \in 0..m, l \in 0..n : k + l < i + j => <<k, l>> \notin Bad
  <2>1. \E i \in 0..m, j \in 0..n : <<i, j>> \in Bad
    <3>1. PICK p \in Bad : TRUE  BY <1>2
    <3>2. p \in (0..m) \X (0..n)  OBVIOUS
    <3>3. PICK i \in 0..m, j \in 0..n : p = <<i, j>>  BY <3>2
    <3> HIDE DEF Bad
    <3> QED  BY <3>1, <3>3
  <2>2. PICK S : S = Bad  OBVIOUS
  <2> HIDE DEF Bad
  <2>3. \E i \in 0..m, j \in 0..n : <<i, j>> \in S  BY <2>1, <2>2
  <2>4. \E i \in 0..m, j \in 0..n :
          <<i, j>> \in S /\ \A k \in 0..m, l \in 0..n : k + l < i + j => <<k, l>> \notin S
    BY <2>3, LeastPair
  <2> QED  BY <2>2, <2>4
<1>4. PICK d \in 0..2 : f[<<i, j>>] <= d /\ ~Near(SubSeq(a, 1, i), SubSeq(b, 1, j), d)
  <2>1. <<i, j>>[1] = i /\ <<i, j>>[2] = j  OBVIOUS
  <2> QED  BY <1>3, <2>1
<1>5. ASSUME NEW k \in 0..m, NEW l \in 0..n, NEW c \in 0..2, k + l < i + j, f[<<k, l>>] <= c
      PROVE  Near(SubSeq(a, 1, k), SubSeq(b, 1, l), c)
  <2>1. <<k, l>> \notin Bad
    <3> HIDE DEF Bad
    <3> QED  BY <1>3, <1>5
  <2>2. <<k, l>> \in (0..m) \X (0..n) /\ <<k, l>>[1] = k /\ <<k, l>>[2] = l  OBVIOUS
  <2> QED  BY <1>5, <2>1, <2>2
<1> HIDE DEF Bad
<1>6. /\ \A k \in 0..m : SubSeq(a, 1, k) \in Words
      /\ \A l \in 0..n : SubSeq(b, 1, l) \in Words
  BY <1>1, PrefixIs
<1>7. \A k \in 0..m, l \in 0..n : f[<<k, l>>] \in Nat  BY <1>1, TableAt
<1>8. i # 0 \/ j # 0
  <2>1. SUFFICES ASSUME i = 0, j = 0 PROVE FALSE  OBVIOUS
  <2>2. SubSeq(a, 1, 0) = << >> /\ SubSeq(b, 1, 0) = << >>
    <3>1. 0 \in 0..m /\ 0 \in 0..n  OBVIOUS
    <3>2. /\ SubSeq(a, 1, 0) \in Words /\ SubSeq(b, 1, 0) \in Words  BY <1>6, <3>1
    <3>3. Len(SubSeq(a, 1, 0)) = 0 /\ Len(SubSeq(b, 1, 0)) = 0
      <4>1. 0 \in Nat /\ 0 <= Len(a) /\ 0 <= Len(b)  BY <1>1
      <4> QED  BY <4>1, FirstLetters
    <3> QED  BY <3>2, <3>3, EmptySeq DEF Words
  <2>3. << >> \in Words  BY DEF Words
  <2>4. Near(<< >>, << >>, d)  BY <2>3 DEF Near, OneEdit
  <2> QED  BY <1>4, <2>1, <2>2, <2>4
<1>9. CASE i > 0 /\ f[<<i, j>>] = f[<<i - 1, j>>] + 1
  <2>1. /\ i - 1 \in 0..m /\ i \in 1..Len(a) /\ a[i] \in Alphabet /\ (i - 1) + j < i + j
        /\ i \in 1..m
    BY <1>1, <1>9, WordIs
  <2>2. d - 1 \in 0..2 /\ d - 1 <= 1 /\ (d - 1) + 1 = d /\ f[<<i - 1, j>>] <= d - 1
    <3>1. PICK x \in Nat : x = f[<<i - 1, j>>]  BY <1>7, <2>1
    <3> QED  BY <1>4, <1>9, <3>1
  <2>3. PICK u \in Words, v \in Words : u = SubSeq(a, 1, i - 1) /\ v = SubSeq(b, 1, j)
    BY <1>6, <2>1
  <2>4. Near(u, v, d - 1)  BY <1>5, <2>1, <2>2, <2>3
  <2>5. SubSeq(a, 1, i) = Append(u, a[i])  BY <2>1, <2>3, PrefixIs
  <2>6. Append(u, a[i]) \in Words /\ OneEdit(Append(u, a[i]), u)  BY <2>1, AppendIs, LastIsEdited
  <2>7. Near(Append(u, a[i]), v, (d - 1) + 1)  BY <2>2, <2>4, <2>6, NearSteps
  <2> QED  BY <1>4, <2>2, <2>3, <2>5, <2>7
<1>10. CASE j > 0 /\ f[<<i, j>>] = f[<<i, j - 1>>] + 1
  <2>1. /\ j - 1 \in 0..n /\ j \in 1..Len(b) /\ b[j] \in Alphabet /\ i + (j - 1) < i + j
    BY <1>1, <1>10, WordIs
  <2>2. d - 1 \in 0..2 /\ d - 1 <= 1 /\ (d - 1) + 1 = d /\ f[<<i, j - 1>>] <= d - 1
    <3>1. PICK x \in Nat : x = f[<<i, j - 1>>]  BY <1>7, <2>1
    <3> QED  BY <1>4, <1>10, <3>1
  <2>3. PICK u \in Words, v \in Words : u = SubSeq(a, 1, i) /\ v = SubSeq(b, 1, j - 1)
    BY <1>6, <2>1
  <2>4. Near(u, v, d - 1)  BY <1>5, <2>1, <2>2, <2>3
  <2>5. SubSeq(b, 1, j) = Append(v, b[j])  BY <2>1, <2>3, PrefixIs
  <2>6. Append(v, b[j]) \in Words /\ OneEdit(v, Append(v, b[j]))  BY <2>1, AppendIs, LastIsEdited
  <2>7. Near(u, Append(v, b[j]), (d - 1) + 1)  BY <2>2, <2>4, <2>6, NearSteps
  <2> QED  BY <1>4, <2>2, <2>3, <2>5, <2>7
<1>11. ASSUME i > 0, j > 0
       PROVE  /\ i - 1 \in 0..m /\ i \in 1..Len(a) /\ a[i] \in Alphabet
              /\ j - 1 \in 0..n /\ j \in 1..Len(b) /\ b[j] \in Alphabet
              /\ (i - 1) + (j - 1) < i + j
  <2>1. i - 1 \in 0..m /\ i \in 1..Len(a) /\ j - 1 \in 0..n /\ j \in 1..Len(b)  BY <1>1, <1>11
  <2>2. (i - 1) + (j - 1) < i + j  OBVIOUS
  <2>3. a[i] \in Alphabet /\ b[j] \in Alphabet  BY <2>1, WordIs
  <2> QED  BY <2>1, <2>2, <2>3
<1>12. CASE i > 0 /\ j > 0 /\ f[<<i, j>>] = f[<<i - 1, j - 1>>] + 1
  <2>2. d - 1 \in 0..2 /\ d - 1 <= 1 /\ (d - 1) + 1 = d /\ f[<<i - 1, j - 1>>] <= d - 1
    <3>1. PICK x \in Nat : x = f[<<i - 1, j - 1>>]  BY <1>7, <1>11, <1>12
    <3> QED  BY <1>4, <1>12, <3>1
  <2>3. PICK u \in Words, v \in Words : u = SubSeq(a, 1, i - 1) /\ v = SubSeq(b, 1, j - 1)
    BY <1>6, <1>11, <1>12
  <2>4. Near(u, v, d - 1)  BY <1>5, <1>11, <1>12, <2>2, <2>3
  <2>5. SubSeq(a, 1, i) = Append(u, a[i]) /\ SubSeq(b, 1, j) = Append(v, b[j])
    BY <1>11, <1>12, <2>3, PrefixIs
  <2>6. PICK x \in Alphabet, y \in Alphabet : x = a[i] /\ y = b[j]  BY <1>11, <1>12
  <2>7. /\ Append(u, x) \in Words /\ Append(v, x) \in Words /\ Append(v, y) \in Words
        /\ OneEdit(Append(v, x), Append(v, y))
    BY AppendIs, LastIsEdited
  <2>8. Near(Append(u, x), Append(v, x), d - 1)  BY <2>2, <2>4, NearSteps
  <2>9. Near(Append(u, x), Append(v, y), (d - 1) + 1)  BY <2>2, <2>7, <2>8, NearSteps
  <2> QED  BY <1>4, <2>2, <2>5, <2>6, <2>9
<1>13. CASE i > 0 /\ j > 0 /\ a[i] = b[j] /\ f[<<i, j>>] = f[<<i - 1, j - 1>>]
  <2>1. PICK u \in Words, v \in Words : u = SubSeq(a, 1, i - 1) /\ v = SubSeq(b, 1, j - 1)
    BY <1>6, <1>11, <1>13
  <2>2. Near(u, v, d)  BY <1>4, <1>5, <1>11, <1>13, <2>1
  <2>3. SubSeq(a, 1, i) = Append(u, a[i]) /\ SubSeq(b, 1, j) = Append(v, b[j])
    BY <1>11, <1>13, <2>1, PrefixIs
  <2>4. Near(Append(u, a[i]), Append(v, a[i]), d)  BY <1>11, <1>13, <2>2, NearSteps
  <2> QED  BY <1>4, <1>13, <2>3, <2>4
<1>14. i \in 0..Len(a) /\ j \in 0..Len(b) /\ Len(a) \in Nat /\ Len(b) \in Nat  BY <1>1
<1> QED  BY <1>8, <1>9, <1>10, <1>12, <1>13, <1>14, TableStep

\* The distance levenshtein computes is the number of edits it takes, as far as
\* matchAt asks.
LEMMA LevenshteinIsEdits ==
  ASSUME NEW a \in Words, NEW b \in Words, NEW d \in 1..2
  PROVE  Levenshtein(a, b) \in Nat /\ (Levenshtein(a, b) <= d <=> b \in Within(a, d))
<1>1. PICK m \in Nat, n \in Nat : m = Len(a) /\ n = Len(b)  BY WordIs
<1>2. PICK f : Table(f, a, b) /\ Levenshtein(a, b) = f[<<Len(a), Len(b)>>]  BY <1>1, LevenshteinHasTable
<1>3. Levenshtein(a, b) \in Nat  BY <1>1, <1>2, TableAt
<1>4. Levenshtein(a, b) <= d => Near(a, b, d)
  <2>1. m \in 0..Len(a) /\ n \in 0..Len(b) /\ d \in 0..2  BY <1>1
  <2>2. f[<<m, n>>] <= d => Near(SubSeq(a, 1, m), SubSeq(b, 1, n), d)  BY <1>2, <2>1, TableIsNear
  <2>3. SubSeq(a, 1, m) = a /\ SubSeq(b, 1, n) = b  BY <1>1, PrefixIs
  <2> QED  BY <1>1, <1>2, <2>2, <2>3
<1>5. ASSUME Near(a, b, d) PROVE Levenshtein(a, b) <= d
  <2>1. PICK e \in Words : /\ IF d >= 2 THEN OneEdit(a, e) ELSE e = a
                           /\ OneEdit(e, b)
    BY <1>5 DEF Near
  <2>2. Len(e) \in Nat /\ Len(a) \in Nat /\ Len(b) \in Nat  BY WordIs
  <2>3. Levenshtein(a, a) = 0  BY <2>2, SameCostsNothing
  <2>4. Levenshtein(a, e) \in Nat /\ Levenshtein(a, b) <= Levenshtein(a, e) + 1
    BY <2>1, <2>2, EditCostsOne
  <2>5. CASE d = 1
    <3>1. e = a  BY <2>1, <2>5
    <3> QED  BY <1>3, <2>3, <2>4, <2>5, <3>1
  <2>6. CASE d = 2
    <3>1. OneEdit(a, e)  BY <2>1, <2>6
    <3>2. Levenshtein(a, e) <= Levenshtein(a, a) + 1  BY <2>2, <3>1, EditCostsOne
    <3> QED  BY <1>3, <2>3, <2>4, <2>6, <3>2
  <2> QED  BY <2>5, <2>6
<1>6. Near(a, b, d) <=> b \in Within(a, d)
  <2>1. CASE d = 1
    <3>1. Within(a, d) = Edited(a)  BY <2>1 DEF Within
    <3>2. Near(a, b, d) <=> OneEdit(a, b)  BY <2>1 DEF Near
    <3> QED  BY <3>1, <3>2, EditedIsOneEdit
  <2>2. CASE d = 2
    <3>1. Within(a, d) = UNION {Edited(e) : e \in Edited(a)}  BY <2>2 DEF Within
    <3>2. Near(a, b, d) <=> \E e \in Words : OneEdit(a, e) /\ OneEdit(e, b)  BY <2>2 DEF Near
    <3>3. b \in Within(a, d) <=> \E e \in Edited(a) : b \in Edited(e)  BY <3>1
    <3> QED  BY <3>2, <3>3, EditedIsOneEdit
  <2> QED  BY <2>1, <2>2
<1> QED  BY <1>3, <1>4, <1>5, <1>6

LEMMA NearIsAsLong ==
  ASSUME NEW a \in Words, NEW b \in Words, NEW d \in 1..2, b \in Within(a, d)
  PROVE  Len(b) <= Len(a) + d /\ Len(a) <= Len(b) + d
<1>1. ASSUME NEW w \in Words, NEW v \in Words, v \in Edited(w)
      PROVE  Len(v) <= Len(w) + 1 /\ Len(w) <= Len(v) + 1
  <2>1. Len(w) \in Nat /\ Len(v) \in Nat /\ OneEdit(w, v)  BY <1>1, WordIs, EditedIsOneEdit
  <2>2. Len(v) \in {Len(w), Len(w) - 1, Len(w) + 1}  BY <2>1 DEF OneEdit, Dropped, Changed, Added
  <2> QED  BY <2>1, <2>2
<1>2. Len(a) \in Nat /\ Len(b) \in Nat  BY WordIs
<1>3. CASE d = 1
  <2>1. b \in Edited(a)  BY <1>3 DEF Within
  <2> QED  BY <1>1, <1>2, <1>3, <2>1
<1>4. CASE d = 2
  <2>1. PICK e \in Edited(a) : b \in Edited(e)  BY <1>4 DEF Within
  <2>2. e \in Words  BY <2>1, EditedIsOneEdit
  <2>3. Len(e) \in Nat  BY <2>2, WordIs
  <2>4. Len(e) <= Len(a) + 1 /\ Len(a) <= Len(e) + 1  BY <1>1, <2>1, <2>2
  <2>5. Len(b) <= Len(e) + 1 /\ Len(e) <= Len(b) + 1  BY <1>1, <2>1, <2>2
  <2> QED  BY <1>2, <1>4, <2>3, <2>4, <2>5
<1> QED  BY <1>3, <1>4

-----------------------------------------------------------------------------
(* The letters of words.                                                   *)

Joined(f, ss, i) == IF i = 1 THEN ss[i] ELSE f[i - 1] \o ss[i]

LEMMA JoinsExist ==
  ASSUME NEW S, NEW ss \in Seq(Seq(S)), NEW n \in 0..Len(ss)
  PROVE  \E f : f = [i \in 1..n |-> f[i]] /\ \A i \in 1..n : f[i] = Joined(f, ss, i) /\ f[i] \in Seq(S)
<1>1. Len(ss) \in Nat /\ \A i \in 1..Len(ss) : ss[i] \in Seq(S)  BY LenProperties, ElementOfSeq
<1> DEFINE Is(f, m) == f = [i \in 1..m |-> f[i]] /\ \A i \in 1..m : f[i] = Joined(f, ss, i) /\ f[i] \in Seq(S)
           T == {m \in 0..Len(ss) : ~ \E f : Is(f, m)}
<1>2. SUFFICES ASSUME T # {} PROVE FALSE  OBVIOUS
<1>3. PICK x \in T : \A y \in T : x <= y
  <2>1. T \subseteq Nat  OBVIOUS
  <2> HIDE DEF T
  <2> QED  BY <1>2, <2>1, LeastNat
<1>4. x \in 0..Len(ss) /\ x \in Nat /\ ~ \E f : Is(f, x)  BY <1>3
<1>5. CASE x = 0
  <2> DEFINE f == [i \in 1..0 |-> ss]
  <2>1. Is(f, x)  BY <1>5
  <2> HIDE DEF f, Is
  <2> QED  BY <1>4, <2>1
<1>6. CASE x # 0
  <2>1. /\ x - 1 \in 0..Len(ss) /\ ~(x <= x - 1) /\ x \in 1..Len(ss)
        /\ x - 1 \in Nat /\ x - 1 < x
    BY <1>1, <1>4, <1>6
  <2>2. x - 1 \notin T
    <3> HIDE DEF T
    <3> QED  BY <1>3, <2>1
  <2>3. PICK f : Is(f, x - 1)  BY <2>1, <2>2
  <2>4. PICK v : v = IF x = 1 THEN ss[x] ELSE f[x - 1] \o ss[x]  OBVIOUS
  <2>5. v \in Seq(S)
    <3>1. CASE x = 1  BY <1>1, <2>1, <2>4, <3>1
    <3>2. CASE x # 1
      <4>1. x - 1 \in 1..(x - 1)  BY <2>1, <3>2
      <4>2. f[x - 1] \in Seq(S) /\ ss[x] \in Seq(S)  BY <1>1, <2>1, <2>3, <4>1
      <4> QED  BY <2>4, <3>2, <4>2, ConcatProperties
    <3> QED  BY <3>1, <3>2
  <2> DEFINE g == [i \in 1..x |-> IF i = x THEN v ELSE f[i]]
  <2>6. g = [i \in 1..x |-> g[i]]  OBVIOUS
  <2>7. \A i \in 1..x : (i = x => g[i] = v) /\ (i # x => g[i] = f[i] /\ i \in 1..(x - 1))
    BY <2>1
  <2> HIDE DEF g
  <2>8. ASSUME NEW i \in 1..x PROVE g[i] = Joined(g, ss, i) /\ g[i] \in Seq(S)
    <3>1. i > 1 => i - 1 \in 1..x /\ i - 1 # x  BY <2>1
    <3>2. i > 1 => g[i - 1] = f[i - 1]  BY <2>7, <3>1
    <3>3. CASE i = x
      <4>1. g[i] = v /\ g[i] \in Seq(S)  BY <2>5, <2>7, <3>3
      <4>2. CASE x = 1  BY <2>4, <3>3, <4>1, <4>2 DEF Joined
      <4>3. CASE x # 1
        <5>1. i > 1 /\ g[i - 1] = f[x - 1]  BY <2>1, <3>2, <3>3, <4>3
        <5> QED  BY <2>4, <3>3, <4>1, <4>3, <5>1 DEF Joined
      <4> QED  BY <4>2, <4>3
    <3>4. CASE i # x
      <4>1. g[i] = f[i] /\ i \in 1..(x - 1)  BY <2>7, <3>4
      <4>2. f[i] = Joined(f, ss, i) /\ f[i] \in Seq(S)  BY <2>3, <4>1
      <4>3. Joined(f, ss, i) = Joined(g, ss, i)  BY <3>2 DEF Joined
      <4> QED  BY <4>1, <4>2, <4>3
    <3> QED  BY <3>3, <3>4
  <2>9. Is(g, x)  BY <2>6, <2>8
  <2> HIDE DEF Is
  <2> QED  BY <1>4, <2>9
<1> QED  BY <1>5, <1>6

LEMMA FlattenIs ==
  ASSUME NEW S, NEW ss \in Seq(Seq(S))
  PROVE  \E f : /\ \A i \in 1..Len(ss) : f[i] = Joined(f, ss, i) /\ f[i] \in Seq(S)
                /\ FlattenSeq(ss) = IF Len(ss) = 0 THEN << >> ELSE f[Len(ss)]
<1>1. PICK n \in Nat : n = Len(ss)  BY LenProperties
<1>2. CASE n = 0
  <2>1. ss = << >>  BY <1>1, <1>2, EmptySeq
  <2>2. FlattenSeq(ss) = << >>  BY <1>1, <1>2, <2>1 DEF FlattenSeq
  <2>3. \A i \in 1..Len(ss) : FALSE  BY <1>1, <1>2
  <2> QED  BY <1>1, <1>2, <2>2, <2>3
<1>3. CASE n # 0
  <2> DEFINE flatten == CHOOSE h : h = [i \in 1..Len(ss) |-> IF i = 1 THEN ss[i] ELSE h[i - 1] \o ss[i]]
  <2>1. PICK f : f = [i \in 1..n |-> f[i]] /\ \A i \in 1..n : f[i] = Joined(f, ss, i) /\ f[i] \in Seq(S)
    <3>1. n \in 0..Len(ss)  BY <1>1
    <3> QED  BY <3>1, JoinsExist
  <2>2. f = [i \in 1..Len(ss) |-> IF i = 1 THEN ss[i] ELSE f[i - 1] \o ss[i]]
    BY <1>1, <2>1 DEF Joined
  <2>3. flatten = [i \in 1..Len(ss) |-> IF i = 1 THEN ss[i] ELSE flatten[i - 1] \o ss[i]]
    BY <2>2
  <2>4. FlattenSeq(ss) = flatten[Len(ss)]  BY <1>1, <1>3, Zenon DEF FlattenSeq
  <2> HIDE DEF flatten
  <2>5. \A i \in 1..n : flatten[i] = Joined(flatten, ss, i)  BY <1>1, <2>3 DEF Joined
  <2> DEFINE T == {i \in 1..n : flatten[i] # f[i]}
  <2>6. T = {}
    <3>1. SUFFICES ASSUME T # {} PROVE FALSE  OBVIOUS
    <3>2. PICK x \in T : \A y \in T : x <= y
      <4>1. T \subseteq Nat  OBVIOUS
      <4> HIDE DEF T
      <4> QED  BY <3>1, <4>1, LeastNat
    <3>3. x \in 1..n /\ flatten[x] # f[x]  BY <3>2
    <3>4. x > 1 => flatten[x - 1] = f[x - 1]
      <4>1. x > 1 => x - 1 \in 1..n /\ ~(x <= x - 1)  BY <3>3
      <4>2. x > 1 => x - 1 \notin T
        <5> HIDE DEF T
        <5> QED  BY <3>2, <4>1
      <4> QED  BY <4>1, <4>2
    <3>5. Joined(flatten, ss, x) = Joined(f, ss, x)  BY <3>3, <3>4 DEF Joined
    <3> QED  BY <2>1, <2>5, <3>3, <3>5
  <2>7. \A i \in 1..n : flatten[i] = f[i]  BY <2>6
  <2>8. n \in 1..n  BY <1>3
  <2> HIDE DEF T
  <2> QED  BY <1>1, <1>3, <2>1, <2>4, <2>7, <2>8
<1> QED  BY <1>2, <1>3

LEMMA FlattenGrows ==
  ASSUME NEW S, NEW ss \in Seq(Seq(S)), NEW s \in Seq(S)
  PROVE  /\ FlattenSeq(ss) \in Seq(S)
         /\ FlattenSeq(<< >>) = << >>
         /\ FlattenSeq(Append(ss, s)) = FlattenSeq(ss) \o s
<1>1. PICK n \in Nat : n = Len(ss)  BY LenProperties
<1>2. PICK tt \in Seq(Seq(S)) : /\ tt = Append(ss, s) /\ Len(tt) = n + 1 /\ tt[n + 1] = s
                                /\ \A i \in 1..n : tt[i] = ss[i]
  <2>1. PICK T : T = Seq(S)  OBVIOUS
  <2>2. /\ Append(ss, s) \in Seq(T) /\ Len(Append(ss, s)) = Len(ss) + 1
        /\ Append(ss, s)[Len(ss) + 1] = s
        /\ \A i \in 1..Len(ss) : Append(ss, s)[i] = ss[i]
    BY <2>1, AppendProperties
  <2> QED  BY <1>1, <2>1, <2>2
<1>3. PICK f : /\ \A i \in 1..n : f[i] = Joined(f, ss, i) /\ f[i] \in Seq(S)
               /\ FlattenSeq(ss) = IF n = 0 THEN << >> ELSE f[n]
  BY <1>1, FlattenIs
<1>4. PICK g : /\ \A i \in 1..(n + 1) : g[i] = Joined(g, tt, i) /\ g[i] \in Seq(S)
               /\ FlattenSeq(tt) = IF n + 1 = 0 THEN << >> ELSE g[n + 1]
  <2>1. PICK g : /\ \A i \in 1..Len(tt) : g[i] = Joined(g, tt, i) /\ g[i] \in Seq(S)
                 /\ FlattenSeq(tt) = IF Len(tt) = 0 THEN << >> ELSE g[Len(tt)]
    BY FlattenIs
  <2> QED  BY <1>2, <2>1
<1> DEFINE T == {i \in 1..n : g[i] # f[i]}
<1>5. T = {}
  <2>1. SUFFICES ASSUME T # {} PROVE FALSE  OBVIOUS
  <2>2. PICK x \in T : \A y \in T : x <= y
    <3>1. T \subseteq Nat  OBVIOUS
    <3> HIDE DEF T
    <3> QED  BY <2>1, <3>1, LeastNat
  <2>3. x \in 1..n /\ x \in 1..(n + 1) /\ g[x] # f[x]  BY <2>2
  <2>4. x > 1 => g[x - 1] = f[x - 1]
    <3>1. x > 1 => x - 1 \in 1..n /\ ~(x <= x - 1)  BY <2>3
    <3>2. x > 1 => x - 1 \notin T
      <4> HIDE DEF T
      <4> QED  BY <2>2, <3>1
    <3> QED  BY <3>1, <3>2
  <2>5. Joined(g, tt, x) = Joined(f, ss, x)  BY <1>2, <2>3, <2>4 DEF Joined
  <2> QED  BY <1>3, <1>4, <2>3, <2>5
<1>6. \A i \in 1..n : g[i] = f[i]  BY <1>5
<1> HIDE DEF T
<1>7. FlattenSeq(ss) \in Seq(S)
  <2>1. n # 0 => n \in 1..n  OBVIOUS
  <2> QED  BY <1>3, <2>1
<1>8. FlattenSeq(<< >>) = << >>  BY DEF FlattenSeq
<1>9. FlattenSeq(tt) = g[n + 1] /\ g[n + 1] = Joined(g, tt, n + 1)
  <2>1. n + 1 \in 1..(n + 1) /\ n + 1 # 0  OBVIOUS
  <2> QED  BY <1>4, <2>1
<1>10. CASE n = 0
  <2>1. FlattenSeq(tt) = s  BY <1>2, <1>9, <1>10 DEF Joined
  <2>2. FlattenSeq(ss) = << >>  BY <1>3, <1>10
  <2>3. << >> \o s = s  BY ConcatEmptySeq
  <2> QED  BY <1>2, <1>7, <1>8, <2>1, <2>2, <2>3
<1>11. CASE n # 0
  <2>1. n \in 1..n /\ (n + 1) - 1 = n /\ n + 1 # 1  BY <1>11
  <2>2. FlattenSeq(tt) = g[n] \o s  BY <1>2, <1>9, <2>1 DEF Joined
  <2> QED  BY <1>2, <1>3, <1>6, <1>7, <1>8, <1>11, <2>1, <2>2
<1> QED  BY <1>10, <1>11

LEMMA LettersAreLetters ==
  ASSUME NEW ws \in Seq(Words)
  PROVE  /\ Letters(ws) \in Words
         /\ ws # << >> /\ (\A i \in 1..Len(ws) : ws[i] # << >>) => Letters(ws) # << >>
<1>1. FlattenSeq(ws) \in Seq(Alphabet)
  <2>1. << >> \in Seq(Alphabet)  OBVIOUS
  <2> QED  BY <2>1, FlattenGrows DEF Words
<1>2. ASSUME ws # << >>, \A i \in 1..Len(ws) : ws[i] # << >> PROVE FlattenSeq(ws) # << >>
  <2>1. PICK us \in Seq(Words), w \in Words : ws = Append(us, w)  BY <1>2, SequenceEmptyOrAppend
  <2>2. PICK n \in Nat : n = Len(us)  BY <2>1, LenProperties
  <2>3. Len(ws) = n + 1 /\ ws[n + 1] = w  BY <2>1, <2>2, AppendProperties
  <2>4. w # << >>
    <3>1. n + 1 \in 1..Len(ws)  BY <2>2, <2>3
    <3> QED  BY <1>2, <2>3, <3>1
  <2>5. FlattenSeq(us) \in Seq(Alphabet) /\ FlattenSeq(ws) = FlattenSeq(us) \o w
    BY <2>1, FlattenGrows DEF Words
  <2> QED  BY <2>1, <2>4, <2>5, ConcatEqualIffEmpty DEF Words
<1> QED  BY <1>1, <1>2 DEF Letters, Words

-----------------------------------------------------------------------------
(* What is left of the transcript, and its first words.                    *)

LEMMA GreatestNat ==
  ASSUME NEW B \in Nat, NEW T, T \subseteq 0..B, T # {}
  PROVE  \E x \in T : \A y \in T : y <= x
<1> DEFINE U == {B - y : y \in T}
<1>1. PICK u \in U : \A v \in U : u <= v
  <2>1. U \subseteq Nat
    <3>1. \A y \in T : y \in 0..B  OBVIOUS
    <3> QED  BY <3>1
  <2>2. U # {}  OBVIOUS
  <2> HIDE DEF U
  <2> QED  BY <2>1, <2>2, LeastNat
<1>2. PICK x \in T : u = B - x  OBVIOUS
<1>3. ASSUME NEW y \in T PROVE y <= x
  <2>1. B - x <= B - y  BY <1>1, <1>2
  <2>2. x \in 0..B /\ y \in 0..B  OBVIOUS
  <2> QED  BY <2>1, <2>2
<1> QED  BY <1>3

LEMMA WidestIs ==
  ASSUME NEW B \in Nat, NEW T, T \subseteq 0..B, T # {}
  PROVE  Widest(T) \in T /\ \A y \in T : y <= Widest(T)
BY GreatestNat DEF Widest

LEMMA VocabularyIs ==
  ASSUME VocabularyTypeOK
  PROVE  /\ toks \in Seq(Words) /\ Len(toks) \in Nat /\ DOMAIN toks = 1..Len(toks)
         /\ \A i \in 1..Len(toks) : toks[i] \in Words /\ toks[i] # << >>
         /\ vocab.terms \in Seq(Words) /\ Len(vocab.terms) \in Nat
         /\ DOMAIN vocab.terms = 1..Len(vocab.terms)
         /\ \A i \in DOMAIN vocab.terms : vocab.terms[i] \in Words /\ Len(vocab.terms[i]) \in Nat
         /\ \A r \in vocab.reps : r.words \in Seq(Words)
         /\ at \in 1..(Len(toks) + 1)
         /\ {MaxTerms, MaxBytes, FuzzyMin, FuzzyTwo, MinWord, Window, FuzzyWindow} \subseteq Nat \ {0}
<1>1. toks \in Seq(Words \ {<< >>})  BY VocabularyAssumption DEF VocabularyTypeOK, Words
<1>2. toks \in Seq(Words)  BY <1>1, SeqMonotonic
<1>3. Len(toks) \in Nat /\ DOMAIN toks = 1..Len(toks)  BY <1>2, LenProperties
<1>4. \A i \in 1..Len(toks) : toks[i] \in Words \ {<< >>}  BY <1>1, ElementOfSeq
<1>5. vocab.terms \in Seq(Words) /\ \A r \in vocab.reps : r.words \in Seq(Words)
  BY VocabularyAssumption DEF VocabularyTypeOK, Words
<1>6. Len(vocab.terms) \in Nat /\ DOMAIN vocab.terms = 1..Len(vocab.terms)  BY <1>5, LenProperties
<1>7. \A i \in DOMAIN vocab.terms : vocab.terms[i] \in Words  BY <1>5, <1>6, ElementOfSeq
<1>8. \A i \in DOMAIN vocab.terms : Len(vocab.terms[i]) \in Nat  BY <1>7, WordIs
<1>9. {MaxTerms, MaxBytes, FuzzyMin, FuzzyTwo, MinWord, Window, FuzzyWindow} \subseteq Nat \ {0}
  BY VocabularyAssumption
<1> QED  BY <1>2, <1>3, <1>4, <1>5, <1>6, <1>7, <1>8, <1>9 DEF VocabularyTypeOK

LEMMA RestIs ==
  ASSUME VocabularyTypeOK, at <= Len(toks)
  PROVE  /\ Len(toks) \in Nat /\ at \in 1..Len(toks)
         /\ Rest \in Seq(Words) /\ Len(Rest) = Len(toks) - at + 1 /\ Len(Rest) \in Nat \ {0}
         /\ \A n \in 1..Len(Rest) :
              /\ Rest[n] = toks[at + n - 1] /\ Len(Rest[n]) \in Nat
              /\ SubSeq(Rest, 1, n) = SubSeq(toks, at, at + n - 1)
              /\ SubSeq(Rest, 1, n) \in Seq(Words) /\ Len(SubSeq(Rest, 1, n)) = n
              /\ Letters(SubSeq(Rest, 1, n)) \in Words /\ Letters(SubSeq(Rest, 1, n)) # << >>
<1>1. PICK m \in Nat : m = Len(toks)  BY VocabularyIs
<1>2. at \in 1..m /\ m \in 1..m /\ at \in Int /\ m \in Int  BY <1>1, VocabularyIs
<1>3. \A i \in 1..m : toks[i] \in Words /\ toks[i] # << >>  BY <1>1, VocabularyIs
<1>4. toks \in Seq(Words)  BY VocabularyIs
<1>5. PICK L \in Nat : L = m - at + 1  BY <1>2
<1>6. L # 0 /\ at <= m  BY <1>2, <1>5
<1>7. /\ Rest \in Seq(Words) /\ Len(Rest) = L
      /\ \A n \in 1..L : Rest[n] = toks[at + n - 1]
  <2>1. \A i \in at..m : toks[i] \in Words  BY <1>2, <1>3
  <2>2. Rest = SubSeq(toks, at, m)  BY <1>1 DEF Rest
  <2>3. /\ SubSeq(toks, at, m) \in Seq(Words)
        /\ Len(SubSeq(toks, at, m)) = IF at <= m THEN m - at + 1 ELSE 0
        /\ \A n \in 1..(m - at + 1) : SubSeq(toks, at, m)[n] = toks[at + n - 1]
    BY <1>2, <2>1, SubSeqProperties
  <2> QED  BY <1>5, <1>6, <2>2, <2>3
<1>8. ASSUME NEW n \in 1..L
      PROVE  /\ Rest[n] = toks[at + n - 1] /\ Len(Rest[n]) \in Nat /\ Rest[n] \in Words /\ Rest[n] # << >>
             /\ SubSeq(Rest, 1, n) = SubSeq(toks, at, at + n - 1)
             /\ SubSeq(Rest, 1, n) \in Seq(Words) /\ Len(SubSeq(Rest, 1, n)) = n
             /\ \A k \in 1..n : SubSeq(Rest, 1, n)[k] = Rest[k]
  <2>1. at + n - 1 \in 1..m  BY <1>2, <1>5
  <2>2. Rest[n] = toks[at + n - 1] /\ Rest[n] \in Words /\ Rest[n] # << >>  BY <1>3, <1>7, <2>1
  <2>3. Len(Rest[n]) \in Nat  BY <2>2, WordIs
  <2>4. SubSeq(Rest, 1, n) = SubSeq(toks, at, at + n - 1)
    <3>1. Rest = SubSeq(toks, at, m)  BY <1>1 DEF Rest
    <3>2. /\ at \in 1..Len(toks) /\ m \in 1..Len(toks)
          /\ 1 \in 1..(m - at + 1) /\ n \in 1..(m - at + 1)
      BY <1>1, <1>2, <1>5
    <3>3. SubSeq(SubSeq(toks, at, m), 1, n) = SubSeq(toks, at + 1 - 1, at + n - 1)
      BY <1>4, <3>2, SubSeqOfSubSeq
    <3>4. at + 1 - 1 = at  BY <1>2
    <3> QED  BY <3>1, <3>3, <3>4
  <2>5. /\ SubSeq(Rest, 1, n) \in Seq(Words)
        /\ Len(SubSeq(Rest, 1, n)) = IF 1 <= n THEN n - 1 + 1 ELSE 0
        /\ \A k \in 1..(n - 1 + 1) : SubSeq(Rest, 1, n)[k] = Rest[1 + k - 1]
    <3>1. 1 \in Int /\ n \in Int /\ \A k \in 1..n : k \in 1..Len(Rest)  BY <1>7
    <3>2. \A k \in 1..n : Rest[k] \in Words  BY <1>7, <3>1, ElementOfSeq
    <3> QED  BY <3>1, <3>2, SubSeqProperties
  <2>6. n - 1 + 1 = n /\ 1 <= n /\ \A k \in 1..n : 1 + k - 1 = k  OBVIOUS
  <2> QED  BY <2>2, <2>3, <2>4, <2>5, <2>6
<1>9. ASSUME NEW n \in 1..L
      PROVE  Letters(SubSeq(Rest, 1, n)) \in Words /\ Letters(SubSeq(Rest, 1, n)) # << >>
  <2>1. PICK ws \in Seq(Words) : ws = SubSeq(Rest, 1, n) /\ Len(ws) = n /\ \A k \in 1..n : ws[k] = Rest[k]
    BY <1>8
  <2>2. \A k \in 1..Len(ws) : ws[k] # << >>
    <3>1. \A k \in 1..n : k \in 1..L  OBVIOUS
    <3> QED  BY <1>8, <2>1, <3>1
  <2>3. ws # << >>
    <3>1. Len(ws) # 0  BY <2>1
    <3> QED  BY <3>1, EmptySeq
  <2> QED  BY <2>1, <2>2, <2>3, LettersAreLetters
<1> QED  BY <1>1, <1>2, <1>5, <1>6, <1>7, <1>8, <1>9

-----------------------------------------------------------------------------
(* The three rules, as matchAt reads them and as they are meant.           *)

Fit(rest) == {r \in vocab.reps : r.words # << >> /\ r.canon # << >> /\ IsPrefix(r.words, rest)}

LEMMA FitIsHeard ==
  ASSUME VocabularyTypeOK, at <= Len(toks)
  PROVE  /\ RepsAt(Rest) = {r \in Fit(Rest) : \A s \in Fit(Rest) : Len(s.words) <= Len(r.words)}
         /\ \A r \in Fit(Rest) : /\ Len(r.words) \in 1..Len(Rest)
                                 /\ Heard(at, at + Len(r.words) - 1, r.canon)
         /\ \A to \in at..Len(toks) : \A c : Heard(at, to, c) =>
              \E r \in Fit(Rest) : r.canon = c /\ at + Len(r.words) - 1 = to
<1>1. RepsAt(Rest) = {r \in Fit(Rest) : \A s \in Fit(Rest) : Len(s.words) <= Len(r.words)}
  BY DEF RepsAt, Fit
<1>2. PICK L \in Nat : L = Len(Rest)  BY RestIs
<1>3. PICK m \in Nat : m = Len(toks) /\ L = m - at + 1 /\ at \in 1..m
  <2>1. Len(toks) \in Nat /\ at \in 1..Len(toks) /\ Len(Rest) = Len(toks) - at + 1  BY RestIs
  <2> QED  BY <1>2, <2>1
<1>4. ASSUME NEW r \in Fit(Rest)
      PROVE  Len(r.words) \in 1..Len(Rest) /\ Heard(at, at + Len(r.words) - 1, r.canon)
  <2>1. r \in vocab.reps /\ r.words # << >> /\ r.canon # << >> /\ IsPrefix(r.words, Rest)  BY DEF Fit
  <2>2. r.words \in Seq(Words)  BY <2>1, VocabularyIs
  <2>3. Len(r.words) \in Nat \ {0}  BY <2>1, <2>2, EmptySeq
  <2>4. PICK n \in Nat \ {0} : n = Len(r.words)  BY <2>3
  <2>5. n \in 1..L /\ SubSeq(r.words, 1, n) = SubSeq(Rest, 1, n)  BY <1>2, <2>1, <2>4 DEF IsPrefix
  <2>6. SubSeq(r.words, 1, n) = r.words  BY <2>2, <2>4, SubSeqFull
  <2>7. SubSeq(Rest, 1, n) = SubSeq(toks, at, at + n - 1)  BY <1>2, <2>5, RestIs
  <2> QED  BY <1>2, <2>1, <2>4, <2>5, <2>6, <2>7 DEF Heard
<1>5. ASSUME NEW to \in at..Len(toks), NEW c, Heard(at, to, c)
      PROVE  \E r \in Fit(Rest) : r.canon = c /\ at + Len(r.words) - 1 = to
  <2>1. PICK r \in vocab.reps : r.words = SubSeq(toks, at, to) /\ r.canon = c /\ c # << >>
    BY <1>5 DEF Heard
  <2>2. PICK n \in Nat : n = to - at + 1  BY <1>3
  <2>3. n \in 1..L /\ at + n - 1 = to  BY <1>3, <2>2
  <2>4. r.words = SubSeq(Rest, 1, n) /\ Len(r.words) = n  BY <1>2, <2>1, <2>3, RestIs
  <2>5. r.words \in Seq(Words)  BY VocabularyIs
  <2>6. SubSeq(r.words, 1, n) = r.words  BY <2>4, <2>5, SubSeqFull
  <2>7. r.words # << >>
    <3>1. Len(r.words) # 0  BY <2>3, <2>4
    <3> QED  BY <3>1, EmptySeq
  <2>8. IsPrefix(r.words, Rest)  BY <1>2, <2>3, <2>4, <2>6 DEF IsPrefix
  <2> QED  BY <2>1, <2>3, <2>4, <2>7, <2>8 DEF Fit
<1> QED  BY <1>1, <1>4, <1>5

LEMMA TermsAreSpelt ==
  ASSUME VocabularyTypeOK, at <= Len(toks)
  PROVE  /\ \A n \in 1..AtMost(Window, Len(Rest)) : \A i \in TermsAt(Rest, n) :
              i \in DOMAIN vocab.terms /\ Spelt(at, at + n - 1, vocab.terms[i])
         /\ \A to \in at..Len(toks) : \A c : Spelt(at, to, c) =>
              \E n \in 1..AtMost(Window, Len(Rest)) : at + n - 1 = to /\ TermsAt(Rest, n) # {}
<1>1. PICK L \in Nat : L = Len(Rest)  BY RestIs
<1>2. PICK m \in Nat : m = Len(toks) /\ L = m - at + 1 /\ at \in 1..m
  <2>1. Len(toks) \in Nat /\ at \in 1..Len(toks) /\ Len(Rest) = Len(toks) - at + 1  BY RestIs
  <2> QED  BY <1>1, <2>1
<1>3. PICK W \in Nat : W = Window  BY VocabularyAssumption
<1>4. PICK w \in Nat : w = AtMost(Window, Len(Rest)) /\ w <= L /\ w <= W /\ w \in {L, W}
  BY <1>1, <1>3, AtMostIs
<1>5. ASSUME NEW n \in 1..w, NEW i \in TermsAt(Rest, n)
      PROVE  i \in DOMAIN vocab.terms /\ Spelt(at, at + n - 1, vocab.terms[i])
  <2>1. i \in DOMAIN vocab.terms /\ vocab.terms[i] = Letters(SubSeq(Rest, 1, n))  BY DEF TermsAt, Terms
  <2>2. SubSeq(Rest, 1, n) = SubSeq(toks, at, at + n - 1)
    <3>1. n \in 1..Len(Rest)  BY <1>1, <1>4
    <3> QED  BY <3>1, RestIs
  <2>3. (at + n - 1) - at < Window  BY <1>2, <1>3, <1>4
  <2> QED  BY <2>1, <2>2, <2>3 DEF Spelt, Range
<1>6. ASSUME NEW to \in at..Len(toks), NEW c, Spelt(at, to, c)
      PROVE  \E n \in 1..w : at + n - 1 = to /\ TermsAt(Rest, n) # {}
  <2>1. to - at < W /\ c = Letters(SubSeq(toks, at, to)) /\ c \in Range(vocab.terms)
    BY <1>3, <1>6 DEF Spelt
  <2>2. PICK n \in Nat : n = to - at + 1  BY <1>2
  <2>3. n \in 1..L /\ n \in 1..w /\ at + n - 1 = to  BY <1>2, <1>4, <2>1, <2>2
  <2>4. c = Letters(SubSeq(Rest, 1, n)) /\ c # << >>
    <3>1. n \in 1..Len(Rest)  BY <1>1, <2>3
    <3> QED  BY <2>1, <2>3, <3>1, RestIs
  <2>5. PICK i \in DOMAIN vocab.terms : vocab.terms[i] = c  BY <2>1 DEF Range
  <2>6. i \in TermsAt(Rest, n)  BY <2>4, <2>5 DEF TermsAt, Terms
  <2> QED  BY <2>3, <2>6
<1> QED  BY <1>4, <1>5, <1>6

LEMMA MaxDistIs == \A key \in Words : MaxDist(key) \in 1..2
BY DEF MaxDist

LEMMA NearIsMissed ==
  ASSUME VocabularyTypeOK, at <= Len(toks)
  PROVE  /\ \A n \in 1..AtMost(FuzzyWindow, Len(Rest)) : \A i \in NearAt(Rest, n) :
              i \in DOMAIN vocab.terms /\ Missed(at, at + n - 1, vocab.terms[i])
         /\ \A n \in 1..AtMost(FuzzyWindow, Len(Rest)) : \A i \in NearAt(Rest, n) :
              Len(vocab.terms[i]) <= Len(Letters(SubSeq(Rest, 1, n))) + 2
         /\ \A to \in at..Len(toks) : \A c : Missed(at, to, c) =>
              \E n \in 1..AtMost(FuzzyWindow, Len(Rest)) : at + n - 1 = to /\ NearAt(Rest, n) # {}
<1>1. PICK L \in Nat : L = Len(Rest)  BY RestIs
<1>2. PICK m \in Nat : m = Len(toks) /\ L = m - at + 1 /\ at \in 1..m
  <2>1. Len(toks) \in Nat /\ at \in 1..Len(toks) /\ Len(Rest) = Len(toks) - at + 1  BY RestIs
  <2> QED  BY <1>1, <2>1
<1>3. PICK W \in Nat : W = FuzzyWindow  BY VocabularyAssumption
<1>4. PICK w \in Nat : w = AtMost(FuzzyWindow, Len(Rest)) /\ w <= L /\ w <= W /\ w \in {L, W}
  BY <1>1, <1>3, AtMostIs
<1>5. ASSUME NEW n \in 1..L, NEW i \in DOMAIN vocab.terms
      PROVE  i \in NearAt(Rest, n) <=>
               LET got == Letters(SubSeq(toks, at, at + n - 1))
                   key == vocab.terms[i]
               IN  /\ vocab.fuzzy /\ Len(key) >= FuzzyMin
                   /\ \A k \in at..(at + n - 1) : Len(toks[k]) >= MinWord
                   /\ got[1] = key[1]
                   /\ key \in Within(got, MaxDist(key))
  <2>1. PICK got \in Words : got = Letters(SubSeq(Rest, 1, n)) /\ got = Letters(SubSeq(toks, at, at + n - 1))
    BY <1>1, RestIs
  <2>2. PICK key \in Words : key = vocab.terms[i] /\ Len(key) \in Nat  BY VocabularyIs
  <2>3. MaxDist(key) \in 1..2  BY MaxDistIs
  <2>4. key \in Within(got, MaxDist(key)) =>
          Len(got) <= Len(key) + MaxDist(key) /\ Len(key) <= Len(got) + MaxDist(key)
    BY <2>3, NearIsAsLong
  <2>5. Levenshtein(got, key) <= MaxDist(key) <=> key \in Within(got, MaxDist(key))
    BY <2>3, LevenshteinIsEdits
  <2>6. Len(key) >= FuzzyMin => key # << >>
    <3>1. FuzzyMin \in Nat \ {0}  BY VocabularyIs
    <3> QED  BY <2>2, <3>1, EmptySeq
  <2>7. (\A k \in 1..n : Len(Rest[k]) >= MinWord) <=> \A k \in at..(at + n - 1) : Len(toks[k]) >= MinWord
    <3>1. ASSUME NEW k \in 1..n PROVE Rest[k] = toks[at + k - 1] /\ at + k - 1 \in at..(at + n - 1)
      <4>1. k \in 1..Len(Rest)  BY <1>1
      <4>2. at + k - 1 \in at..(at + n - 1)  BY <1>2
      <4> QED  BY <4>1, <4>2, RestIs
    <3>2. ASSUME NEW j \in at..(at + n - 1) PROVE \E k \in 1..n : toks[j] = Rest[k]
      <4>1. j - at + 1 \in 1..n /\ at + (j - at + 1) - 1 = j  BY <1>2
      <4> QED  BY <3>1, <4>1
    <3> QED  BY <3>1, <3>2
  <2>8. i \in NearAt(Rest, n) <=>
           /\ key # << >> /\ vocab.fuzzy /\ Len(key) >= FuzzyMin
           /\ \A k \in 1..n : Len(Rest[k]) >= MinWord
           /\ got[1] = key[1]
           /\ Len(got) <= Len(key) + MaxDist(key) /\ Len(key) <= Len(got) + MaxDist(key)
           /\ Levenshtein(got, key) <= MaxDist(key)
    BY <2>1, <2>2 DEF NearAt, Terms
  <2> QED  BY <2>1, <2>2, <2>4, <2>5, <2>6, <2>7, <2>8
<1>6. \A n \in 1..L : NearAt(Rest, n) \subseteq DOMAIN vocab.terms  BY DEF NearAt, Terms
<1>7. ASSUME NEW n \in 1..w, NEW i \in NearAt(Rest, n)
      PROVE  /\ i \in DOMAIN vocab.terms /\ Missed(at, at + n - 1, vocab.terms[i])
             /\ Len(vocab.terms[i]) <= Len(Letters(SubSeq(Rest, 1, n))) + 2
  <2>1. n \in 1..L /\ n \in 1..Len(Rest) /\ i \in DOMAIN vocab.terms  BY <1>1, <1>4, <1>6
  <2>2. (at + n - 1) - at < FuzzyWindow  BY <1>2, <1>3, <1>4
  <2>3. Missed(at, at + n - 1, vocab.terms[i])
    BY <1>5, <2>1, <2>2 DEF Missed, MaxDist, Range
  <2>4. Len(vocab.terms[i]) <= Len(Letters(SubSeq(Rest, 1, n))) + MaxDist(vocab.terms[i])
    BY DEF NearAt
  <2>5. /\ vocab.terms[i] \in Words /\ Len(vocab.terms[i]) \in Nat
        /\ Len(Letters(SubSeq(Rest, 1, n))) \in Nat /\ MaxDist(vocab.terms[i]) \in 1..2
    BY <2>1, VocabularyIs, RestIs, WordIs, MaxDistIs
  <2> QED  BY <2>1, <2>3, <2>4, <2>5
<1>8. ASSUME NEW to \in at..Len(toks), NEW c, Missed(at, to, c)
      PROVE  \E n \in 1..w : at + n - 1 = to /\ NearAt(Rest, n) # {}
  <2>1. to - at < W /\ c \in Range(vocab.terms)  BY <1>3, <1>8 DEF Missed
  <2>2. PICK n \in Nat : n = to - at + 1  BY <1>2
  <2>3. n \in 1..L /\ n \in 1..w /\ at + n - 1 = to  BY <1>2, <1>4, <2>1, <2>2
  <2>4. PICK i \in DOMAIN vocab.terms : vocab.terms[i] = c  BY <2>1 DEF Range
  <2>5. i \in NearAt(Rest, n)  BY <1>5, <1>8, <2>3, <2>4 DEF Missed, MaxDist
  <2> QED  BY <2>3, <2>5
<1> QED  BY <1>4, <1>7, <1>8

-----------------------------------------------------------------------------
(* What matchAt finds is the best there is, and it finds something where   *)
(* there is something.                                                     *)

LEMMA FirstIs ==
  ASSUME VocabularyTypeOK, NEW B \in Nat, NEW ts, ts # {}, ts \subseteq DOMAIN vocab.terms,
         \A i \in ts : Len(vocab.terms[i]) <= B
  PROVE  First(ts) \in ts
<1> DEFINE lens == {Len(vocab.terms[i]) : i \in ts}
<1>1. \A i \in ts : i \in Nat /\ Len(vocab.terms[i]) \in 0..B
  <2>1. \A i \in ts : i \in 1..Len(vocab.terms) /\ Len(vocab.terms[i]) \in Nat  BY VocabularyIs
  <2> QED  BY <2>1
<1>2. PICK K \in lens : \A l \in lens : l <= K
  <2>1. lens \subseteq 0..B /\ lens # {}  BY <1>1
  <2> HIDE DEF lens
  <2> QED  BY <2>1, GreatestNat
<1> DEFINE longest == {i \in ts : Len(vocab.terms[i]) = K}
<1>3. PICK i \in longest : \A j \in longest : i <= j
  <2>1. longest \subseteq Nat /\ longest # {}  BY <1>1
  <2> HIDE DEF longest
  <2> QED  BY <2>1, LeastNat
<1>4. i \in ts /\ Len(vocab.terms[i]) = K  OBVIOUS
<1>5. ASSUME NEW j \in ts
      PROVE  LET k == Len(vocab.terms[i])  l == Len(vocab.terms[j]) IN k > l \/ (k = l /\ i <= j)
  <2>1. Len(vocab.terms[j]) <= K /\ Len(vocab.terms[j]) \in Nat /\ K \in Nat  BY <1>1, <1>2, <1>4
  <2>2. CASE Len(vocab.terms[j]) = K
    <3>1. j \in longest  BY <2>2
    <3> HIDE DEF longest
    <3> QED  BY <1>3, <1>4, <2>2, <3>1
  <2>3. CASE Len(vocab.terms[j]) # K  BY <1>4, <2>1, <2>3
  <2> QED  BY <2>2, <2>3
<1> QED  BY <1>4, <1>5 DEF First

\* What a mark by one rule rules out.
Best(by, from, to, canon) ==
  /\ Allowed(by, from, to, canon)
  /\ \A t \in from..Len(toks), c \in Canons :
       /\ t > to => ~Allowed(by, from, t, c)
       /\ by # "words" => ~Heard(from, t, c)
       /\ by = "near" => ~Spelt(from, t, c)
Still(i) == \A t \in i..Len(toks), c \in Canons : ~Heard(i, t, c) /\ ~Spelt(i, t, c) /\ ~Missed(i, t, c)

LEMMA MatchIsBest ==
  ASSUME VocabularyTypeOK, at <= Len(toks)
  PROVE  /\ \A m \in MatchAt(Rest) : /\ m.n \in 1..Len(Rest) /\ m.by \in {"words", "letters", "near"}
                                     /\ Best(m.by, at, at + m.n - 1, m.canon)
         /\ MatchAt(Rest) = {} => Still(at)
<1>1. PICK L \in Nat \ {0} : L = Len(Rest)  BY RestIs
<1>2. at \in Nat /\ Len(toks) \in Nat  BY RestIs
<1>3. RepsAt(Rest) = {} => Fit(Rest) = {}
  <2>1. SUFFICES ASSUME Fit(Rest) # {} PROVE RepsAt(Rest) # {}  OBVIOUS
  <2> DEFINE lens == {Len(r.words) : r \in Fit(Rest)}
  <2>2. PICK K \in lens : \A l \in lens : l <= K
    <3>1. lens \subseteq 0..L /\ lens # {}
      <4>1. \A r \in Fit(Rest) : Len(r.words) \in 0..L  BY <1>1, FitIsHeard
      <4> QED  BY <2>1, <4>1
    <3> HIDE DEF lens
    <3> QED  BY <3>1, GreatestNat
  <2>3. PICK r \in Fit(Rest) : Len(r.words) = K  OBVIOUS
  <2>4. \A s \in Fit(Rest) : Len(s.words) <= Len(r.words)  BY <2>2, <2>3
  <2>5. r \in RepsAt(Rest)  BY <2>3, <2>4, FitIsHeard
  <2> QED  BY <2>5
<1> DEFINE exact == {n \in 1..AtMost(Window, Len(Rest)) : TermsAt(Rest, n) # {}}
           near == {n \in 1..AtMost(FuzzyWindow, Len(Rest)) : NearAt(Rest, n) # {}}
<1>4. exact \subseteq 1..L /\ near \subseteq 1..L
  <2>1. /\ AtMost(Window, L) \in Nat /\ AtMost(Window, L) <= L
        /\ AtMost(FuzzyWindow, L) \in Nat /\ AtMost(FuzzyWindow, L) <= L
    BY VocabularyAssumption, AtMostIs
  <2> QED  BY <1>1, <2>1
<1>5. Fit(Rest) = {} => \A t \in at..Len(toks), c \in Canons : ~Heard(at, t, c)  BY FitIsHeard
<1>6. exact = {} => \A t \in at..Len(toks), c \in Canons : ~Spelt(at, t, c)
  <2>1. ASSUME NEW t \in at..Len(toks), NEW c \in Canons, Spelt(at, t, c) PROVE exact # {}
    <3>1. PICK n \in 1..AtMost(Window, Len(Rest)) : at + n - 1 = t /\ TermsAt(Rest, n) # {}
      BY <2>1, TermsAreSpelt
    <3>2. n \in exact  BY <3>1
    <3> QED  BY <3>2
  <2> QED  BY <2>1
<1>7. near = {} => \A t \in at..Len(toks), c \in Canons : ~Missed(at, t, c)
  <2>1. ASSUME NEW t \in at..Len(toks), NEW c \in Canons, Missed(at, t, c) PROVE near # {}
    <3>1. PICK n \in 1..AtMost(FuzzyWindow, Len(Rest)) : at + n - 1 = t /\ NearAt(Rest, n) # {}
      BY <2>1, NearIsMissed
    <3>2. n \in near  BY <3>1
    <3> QED  BY <3>2
  <2> QED  BY <2>1
<1>8. CASE RepsAt(Rest) # {}
  <2>1. MatchAt(Rest) = {[n |-> Len(r.words), canon |-> r.canon, by |-> "words"] : r \in RepsAt(Rest)}
    BY <1>8 DEF MatchAt
  <2>2. ASSUME NEW m \in MatchAt(Rest)
        PROVE  m.n \in 1..Len(Rest) /\ m.by = "words" /\ Best(m.by, at, at + m.n - 1, m.canon)
    <3>1. PICK r \in RepsAt(Rest) : m.n = Len(r.words) /\ m.canon = r.canon /\ m.by = "words"  BY <2>1
    <3>2. r \in Fit(Rest) /\ \A s \in Fit(Rest) : Len(s.words) <= Len(r.words)  BY FitIsHeard
    <3>3. m.n \in 1..Len(Rest) /\ Heard(at, at + m.n - 1, m.canon)  BY <3>1, <3>2, FitIsHeard
    <3>4. ASSUME NEW t \in at..Len(toks), NEW c \in Canons, t > at + m.n - 1 PROVE ~Heard(at, t, c)
      <4>1. SUFFICES ASSUME Heard(at, t, c) PROVE FALSE  OBVIOUS
      <4>2. PICK s \in Fit(Rest) : at + Len(s.words) - 1 = t  BY <4>1, FitIsHeard
      <4>3. Len(s.words) <= m.n /\ Len(s.words) \in 1..Len(Rest)  BY <3>1, <3>2, FitIsHeard
      <4> QED  BY <1>1, <1>2, <3>3, <3>4, <4>2, <4>3
    <3> QED  BY <3>1, <3>3, <3>4 DEF Best, Allowed
  <2>3. MatchAt(Rest) # {}  BY <1>8, <2>1
  <2> QED  BY <2>2, <2>3
<1>9. CASE RepsAt(Rest) = {} /\ exact # {}
  <2>1. MatchAt(Rest) = {[n |-> Widest(exact), by |-> "letters",
                          canon |-> vocab.terms[First(TermsAt(Rest, Widest(exact)))]]}
    BY <1>9 DEF MatchAt
  <2>2. PICK n \in exact : n = Widest(exact) /\ \A k \in exact : k <= n
    <3>1. exact \subseteq 0..L /\ exact # {}  BY <1>4, <1>9
    <3> HIDE DEF exact
    <3> QED  BY <3>1, WidestIs
  <2>3. n \in 1..L /\ n \in 1..AtMost(Window, Len(Rest)) /\ TermsAt(Rest, n) # {}  BY <1>4
  <2>4. PICK i \in TermsAt(Rest, n) : i = First(TermsAt(Rest, n))
    <3>1. TermsAt(Rest, n) \subseteq DOMAIN vocab.terms  BY DEF TermsAt, Terms
    <3>2. PICK B \in Nat : B = Len(Letters(SubSeq(Rest, 1, n)))
      <4>1. Letters(SubSeq(Rest, 1, n)) \in Words  BY <1>1, <2>3, RestIs
      <4> QED  BY <4>1, WordIs
    <3>3. \A i \in TermsAt(Rest, n) : Len(vocab.terms[i]) <= B  BY <3>2 DEF TermsAt
    <3> QED  BY <2>3, <3>1, <3>3, FirstIs
  <2>5. i \in DOMAIN vocab.terms /\ Spelt(at, at + n - 1, vocab.terms[i])  BY <2>3, <2>4, TermsAreSpelt
  <2>6. ASSUME NEW t \in at..Len(toks), NEW c \in Canons, t > at + n - 1 PROVE ~Spelt(at, t, c)
    <3>1. SUFFICES ASSUME Spelt(at, t, c) PROVE FALSE  OBVIOUS
    <3>2. PICK k \in 1..AtMost(Window, Len(Rest)) : at + k - 1 = t /\ TermsAt(Rest, k) # {}
      BY <3>1, TermsAreSpelt
    <3>3. k \in exact  BY <3>2
    <3>4. k <= n /\ k \in 1..L  BY <1>4, <2>2, <3>3
    <3> HIDE DEF exact
    <3> QED  BY <1>2, <2>3, <2>6, <3>2, <3>4
  <2>7. \A t \in at..Len(toks), c \in Canons : ~Heard(at, t, c)  BY <1>3, <1>5, <1>9
  <2>8. Best("letters", at, at + n - 1, vocab.terms[i])  BY <2>5, <2>6, <2>7 DEF Best, Allowed
  <2>9. MatchAt(Rest) = {[n |-> n, by |-> "letters", canon |-> vocab.terms[i]]}  BY <2>1, <2>2, <2>4
  <2> HIDE DEF exact
  <2>10. \A m \in MatchAt(Rest) : m.n = n /\ m.by = "letters" /\ m.canon = vocab.terms[i]  BY <2>9
  <2>11. MatchAt(Rest) # {}  BY <2>9
  <2>12. n \in 1..Len(Rest)  BY <1>1, <2>3
  <2> QED  BY <2>8, <2>10, <2>11, <2>12
<1>10. CASE RepsAt(Rest) = {} /\ exact = {} /\ near # {}
  <2>1. MatchAt(Rest) = {[n |-> Widest(near), by |-> "near",
                          canon |-> vocab.terms[First(NearAt(Rest, Widest(near)))]]}
    BY <1>10 DEF MatchAt
  <2>2. PICK n \in near : n = Widest(near) /\ \A k \in near : k <= n
    <3>1. near \subseteq 0..L /\ near # {}  BY <1>4, <1>10
    <3> HIDE DEF near
    <3> QED  BY <3>1, WidestIs
  <2>3. n \in 1..L /\ n \in 1..AtMost(FuzzyWindow, Len(Rest)) /\ NearAt(Rest, n) # {}  BY <1>4
  <2>4. PICK i \in NearAt(Rest, n) : i = First(NearAt(Rest, n))
    <3>1. NearAt(Rest, n) \subseteq DOMAIN vocab.terms  BY DEF NearAt, Terms
    <3>2. PICK B \in Nat : B = Len(Letters(SubSeq(Rest, 1, n))) + 2
      <4>1. Letters(SubSeq(Rest, 1, n)) \in Words  BY <1>1, <2>3, RestIs
      <4> QED  BY <4>1, WordIs
    <3>3. \A i \in NearAt(Rest, n) : Len(vocab.terms[i]) <= B  BY <2>3, <3>2, NearIsMissed
    <3> QED  BY <2>3, <3>1, <3>3, FirstIs
  <2>5. i \in DOMAIN vocab.terms /\ Missed(at, at + n - 1, vocab.terms[i])  BY <2>3, <2>4, NearIsMissed
  <2>6. ASSUME NEW t \in at..Len(toks), NEW c \in Canons, t > at + n - 1 PROVE ~Missed(at, t, c)
    <3>1. SUFFICES ASSUME Missed(at, t, c) PROVE FALSE  OBVIOUS
    <3>2. PICK k \in 1..AtMost(FuzzyWindow, Len(Rest)) : at + k - 1 = t /\ NearAt(Rest, k) # {}
      BY <3>1, NearIsMissed
    <3>3. k \in near  BY <3>2
    <3>4. k <= n /\ k \in 1..L  BY <1>4, <2>2, <3>3
    <3> HIDE DEF near
    <3> QED  BY <1>2, <2>3, <2>6, <3>2, <3>4
  <2>7. \A t \in at..Len(toks), c \in Canons : ~Heard(at, t, c) /\ ~Spelt(at, t, c)
    BY <1>3, <1>5, <1>6, <1>10
  <2>8. Best("near", at, at + n - 1, vocab.terms[i])  BY <2>5, <2>6, <2>7 DEF Best, Allowed
  <2>9. MatchAt(Rest) = {[n |-> n, by |-> "near", canon |-> vocab.terms[i]]}  BY <2>1, <2>2, <2>4
  <2> HIDE DEF near
  <2>10. \A m \in MatchAt(Rest) : m.n = n /\ m.by = "near" /\ m.canon = vocab.terms[i]  BY <2>9
  <2>11. MatchAt(Rest) # {}  BY <2>9
  <2>12. n \in 1..Len(Rest)  BY <1>1, <2>3
  <2> QED  BY <2>8, <2>10, <2>11, <2>12
<1>11. CASE RepsAt(Rest) = {} /\ exact = {} /\ near = {}
  <2>1. MatchAt(Rest) = {}  BY <1>11 DEF MatchAt
  <2>2. Still(at)  BY <1>3, <1>5, <1>6, <1>7, <1>11 DEF Still
  <2> QED  BY <2>1, <2>2
<1> HIDE DEF exact, near
<1> QED  BY <1>8, <1>9, <1>10, <1>11

Marks == [from : Nat, to : Nat, canon : Canons, by : {"words", "letters", "near"}]

CorrectionInv ==
  /\ VocabularyTypeOK
  /\ spans \in Seq(Marks)
  /\ \A n \in 1..Len(spans) :
       LET s == spans[n] IN
       /\ s.from <= s.to /\ s.to < at
       /\ n > 1 => spans[n - 1].to < s.from
       /\ Best(s.by, s.from, s.to, s.canon)
  /\ \A i \in 1..(at - 1) : ~Covered(i) => Still(i)

LEMMA SameTranscript ==
  ASSUME UNCHANGED <<vocab, toks>>
  PROVE  /\ Canons' = Canons /\ Marks' = Marks
         /\ \A by, from, to, canon : Best(by, from, to, canon)' <=> Best(by, from, to, canon)
         /\ \A i : Still(i)' <=> Still(i)
<1>1. vocab' = vocab /\ toks' = toks  OBVIOUS
<1>2. Canons' = Canons  BY <1>1 DEF Canons
<1>3. ASSUME NEW from, NEW to, NEW canon
      PROVE  /\ Heard(from, to, canon)' <=> Heard(from, to, canon)
             /\ Spelt(from, to, canon)' <=> Spelt(from, to, canon)
             /\ Missed(from, to, canon)' <=> Missed(from, to, canon)
  BY <1>1 DEF Heard, Spelt, Missed
<1>4. \A by, from, to, canon : Allowed(by, from, to, canon)' <=> Allowed(by, from, to, canon)
  BY <1>3 DEF Allowed
<1>5. \A by, from, to, canon : Best(by, from, to, canon)' <=> Best(by, from, to, canon)
  BY <1>1, <1>2, <1>3, <1>4 DEF Best
<1>6. \A i : Still(i)' <=> Still(i)  BY <1>1, <1>2, <1>3 DEF Still
<1> QED  BY <1>2, <1>5, <1>6 DEF Marks

LEMMA AllowedIsCanon ==
  ASSUME NEW by, NEW from, NEW to, NEW canon, Allowed(by, from, to, canon)
  PROVE  canon \in Canons
BY DEF Allowed, Heard, Spelt, Missed, Canons

LEMMA ReplaceIsSound ==
  ASSUME CorrectionInv, Replace
  PROVE  CorrectionInv'
<1>1. /\ VocabularyTypeOK /\ at <= Len(toks) /\ spans \in Seq(Marks)
      /\ vocab' = vocab /\ toks' = toks
  BY DEF CorrectionInv, Replace
<1>2. PICK m \in MatchAt(Rest) :
        /\ spans' = Append(spans, [from |-> at, to |-> at + m.n - 1, canon |-> m.canon, by |-> m.by])
        /\ at' = at + m.n
  BY DEF Replace
<1>3. /\ m.n \in 1..Len(Rest) /\ m.by \in {"words", "letters", "near"}
      /\ Best(m.by, at, at + m.n - 1, m.canon)
  BY <1>1, MatchIsBest
<1>4. at \in Nat \ {0} /\ Len(toks) \in Nat /\ Len(Rest) = Len(toks) - at + 1  BY <1>1, RestIs
<1>5. m.canon \in Canons  BY <1>3, AllowedIsCanon DEF Best
<1>6. PICK s \in Marks : /\ s = [from |-> at, to |-> at + m.n - 1, canon |-> m.canon, by |-> m.by]
                         /\ s.from = at /\ s.to = at + m.n - 1 /\ s.canon = m.canon /\ s.by = m.by
  <2>1. at + m.n - 1 \in Nat  BY <1>3, <1>4
  <2>2. PICK f \in Nat, t \in Nat, c \in Canons, b \in {"words", "letters", "near"} :
          f = at /\ t = at + m.n - 1 /\ c = m.canon /\ b = m.by
    BY <1>3, <1>4, <1>5, <2>1
  <2>3. [from |-> f, to |-> t, canon |-> c, by |-> b] \in Marks  BY DEF Marks
  <2> QED  BY <2>2, <2>3
<1>7. PICK N \in Nat : N = Len(spans)  BY <1>1, LenProperties
<1>8. /\ spans' \in Seq(Marks) /\ Len(spans') = N + 1 /\ spans'[N + 1] = s
      /\ \A n \in 1..N : spans'[n] = spans[n]
  BY <1>1, <1>2, <1>6, <1>7, AppendProperties
<1>9. at' \in 1..(Len(toks) + 1) /\ at' = s.to + 1 /\ at < at' /\ at' \in Nat
  BY <1>2, <1>3, <1>4, <1>6
<1>10. /\ Canons' = Canons /\ Marks' = Marks
       /\ \A by, from, to, canon : Best(by, from, to, canon)' <=> Best(by, from, to, canon)
       /\ \A i : Still(i)' <=> Still(i)
  BY <1>1, SameTranscript
<1>11. \A n \in 1..N : spans[n] \in Marks  BY <1>1, <1>7, ElementOfSeq
<1>12. \A n \in 1..(N + 1) : spans'[n] \in Marks
  <2>1. \A n \in 1..Len(spans') : spans'[n] \in Marks  BY <1>8, ElementOfSeq
  <2> QED  BY <1>8, <2>1
<1>13. VocabularyTypeOK'
  <2>1. DOMAIN spans' = 1..(N + 1)  BY <1>8, LenProperties
  <2>2. \A n \in DOMAIN spans' : spans'[n].by \in {"words", "letters", "near"}  BY <1>12, <2>1 DEF Marks
  <2>3. vocab' \in Vocabularies /\ toks' \in Texts /\ at' \in 1..(Len(toks') + 1)
    BY <1>1, <1>9 DEF VocabularyTypeOK
  <2> QED  BY <2>2, <2>3 DEF VocabularyTypeOK
<1>14. ASSUME NEW n \in 1..(N + 1)
       PROVE  LET t == spans'[n] IN
              /\ t.from <= t.to /\ t.to < at'
              /\ n > 1 => spans'[n - 1].to < t.from
              /\ Best(t.by, t.from, t.to, t.canon)
  <2>1. CASE n \in 1..N
    <3>1. spans'[n] = spans[n] /\ (n > 1 => n - 1 \in 1..N)  BY <1>8, <2>1
    <3>2. n > 1 => spans'[n - 1] = spans[n - 1]  BY <1>8, <3>1
    <3>3. LET t == spans[n] IN
          /\ t.from <= t.to /\ t.to < at
          /\ n > 1 => spans[n - 1].to < t.from
          /\ Best(t.by, t.from, t.to, t.canon)
      BY <1>7, <2>1 DEF CorrectionInv
    <3>4. spans[n].to \in Nat  BY <1>11, <2>1 DEF Marks
    <3>5. spans[n].to < at'  BY <1>4, <1>9, <3>3, <3>4
    <3> QED  BY <3>1, <3>2, <3>3, <3>5
  <2>2. CASE n = N + 1
    <3>1. n > 1 => n - 1 \in 1..N /\ spans'[n - 1] = spans[n - 1]  BY <1>7, <1>8, <2>2
    <3>2. n > 1 => spans[n - 1].to < at  BY <1>7, <3>1 DEF CorrectionInv
    <3>3. s.from <= s.to /\ s.to < at'  BY <1>3, <1>4, <1>6, <1>9
    <3> QED  BY <1>3, <1>6, <1>8, <2>2, <3>1, <3>2, <3>3
  <2> QED  BY <2>1, <2>2
<1>15. ASSUME NEW i \in 1..(at' - 1), ~Covered(i)' PROVE Still(i)
  <2>1. ~ \E n \in 1..(N + 1) : i \in spans'[n].from..spans'[n].to
    <3>1. DOMAIN spans' = 1..(N + 1)  BY <1>8, LenProperties
    <3> QED  BY <1>15, <3>1 DEF Covered
  <2>2. i < at
    <3>1. ~(i \in s.from..s.to)
      <4>1. N + 1 \in 1..(N + 1)  OBVIOUS
      <4> QED  BY <1>8, <2>1, <4>1
    <3>2. i <= s.to /\ i \in Nat /\ s.to \in Nat  BY <1>6, <1>9 DEF Marks
    <3> QED  BY <1>4, <1>6, <3>1, <3>2
  <2>3. ~Covered(i)
    <3>1. DOMAIN spans = 1..N  BY <1>1, <1>7, LenProperties
    <3>2. \A n \in 1..N : n \in 1..(N + 1) /\ spans'[n] = spans[n]  BY <1>8
    <3> QED  BY <2>1, <3>1, <3>2 DEF Covered
  <2>4. i \in 1..(at - 1)  BY <1>4, <1>9, <2>2
  <2> QED  BY <2>3, <2>4 DEF CorrectionInv
<1> QED  BY <1>8, <1>10, <1>13, <1>14, <1>15 DEF CorrectionInv

LEMMA KeepIsSound ==
  ASSUME CorrectionInv, Keep
  PROVE  CorrectionInv'
<1>1. /\ VocabularyTypeOK /\ at <= Len(toks) /\ spans \in Seq(Marks)
      /\ vocab' = vocab /\ toks' = toks /\ spans' = spans /\ at' = at + 1 /\ MatchAt(Rest) = {}
  BY DEF CorrectionInv, Keep
<1>2. at \in Nat \ {0} /\ Len(toks) \in Nat  BY <1>1, RestIs
<1>3. PICK N \in Nat : N = Len(spans)  BY <1>1, LenProperties
<1>4. \A n \in 1..N : spans[n].to \in Nat
  <2>1. \A n \in 1..N : spans[n] \in Marks  BY <1>1, <1>3, ElementOfSeq
  <2> QED  BY <2>1 DEF Marks
<1>5. Still(at)  BY <1>1, MatchIsBest
<1>6. /\ Canons' = Canons /\ Marks' = Marks
      /\ \A by, from, to, canon : Best(by, from, to, canon)' <=> Best(by, from, to, canon)
      /\ \A i : Still(i)' <=> Still(i)
  BY <1>1, SameTranscript
<1>7. VocabularyTypeOK'  BY <1>1, <1>2 DEF VocabularyTypeOK
<1>8. ASSUME NEW n \in 1..N
      PROVE  LET t == spans[n] IN
             /\ t.from <= t.to /\ t.to < at + 1
             /\ n > 1 => spans[n - 1].to < t.from
             /\ Best(t.by, t.from, t.to, t.canon)
  <2>1. LET t == spans[n] IN
        /\ t.from <= t.to /\ t.to < at
        /\ n > 1 => spans[n - 1].to < t.from
        /\ Best(t.by, t.from, t.to, t.canon)
    BY <1>3 DEF CorrectionInv
  <2>2. spans[n].to < at + 1  BY <1>2, <1>4, <2>1
  <2> QED  BY <2>1, <2>2
<1>9. \A i : Covered(i)' <=> Covered(i)  BY <1>1 DEF Covered
<1>10. ASSUME NEW i \in 1..((at + 1) - 1), ~Covered(i) PROVE Still(i)
  <2>1. CASE i = at  BY <1>5, <2>1
  <2>2. CASE i # at
    <3>1. i \in 1..(at - 1)  BY <1>2, <2>2
    <3> QED  BY <1>10, <3>1 DEF CorrectionInv
  <2> QED  BY <2>1, <2>2
<1> QED  BY <1>1, <1>3, <1>6, <1>7, <1>8, <1>9, <1>10 DEF CorrectionInv

LEMMA CorrectionInvHolds == AlgorithmsSpec => []CorrectionInv
<1>1. AlgorithmsInit => CorrectionInv
  <2>1. SUFFICES ASSUME AlgorithmsInit PROVE CorrectionInv  OBVIOUS
  <2>2. vocab \in Vocabularies /\ toks \in Texts /\ at = 1 /\ spans = << >>
    BY <2>1 DEF AlgorithmsInit, VocabularyInit
  <2>3. Len(toks) \in Nat
    <3>1. toks \in Seq(Seq(Alphabet) \ {<< >>})  BY <2>2, VocabularyAssumption
    <3> QED  BY <3>1, LenProperties
  <2>4. DOMAIN spans = {} /\ Len(spans) = 0 /\ spans \in Seq(Marks)  BY <2>2
  <2>5. VocabularyTypeOK  BY <2>2, <2>3, <2>4 DEF VocabularyTypeOK
  <2>6. 1..0 = {} /\ 1..(at - 1) = {}  BY <2>2
  <2> QED  BY <2>4, <2>5, <2>6 DEF CorrectionInv
<1>2. CorrectionInv /\ [AlgorithmsNext]_algorithmsVars => CorrectionInv'
  <2> SUFFICES ASSUME CorrectionInv, [AlgorithmsNext]_algorithmsVars PROVE CorrectionInv'
    OBVIOUS
  <2>1. CASE Correct
    <3>1. Replace \/ Keep  BY <2>1 DEF Correct, VocabularyNext
    <3> QED  BY <3>1, ReplaceIsSound, KeepIsSound
  <2>2. CASE Cut \/ Wait \/ UNCHANGED algorithmsVars
    <3>1. vocab' = vocab /\ toks' = toks /\ at' = at /\ spans' = spans
      BY <2>2 DEF Cut, Wait, algorithmsVars, vocabularyVars
    <3>2. /\ Canons' = Canons /\ Marks' = Marks
          /\ \A by, from, to, canon : Best(by, from, to, canon)' <=> Best(by, from, to, canon)
          /\ \A i : Still(i)' <=> Still(i)
      BY <3>1, SameTranscript
    <3>3. VocabularyTypeOK'  BY <3>1 DEF VocabularyTypeOK, CorrectionInv
    <3>4. \A i : Covered(i)' <=> Covered(i)  BY <3>1 DEF Covered
    <3> QED  BY <3>1, <3>2, <3>3, <3>4 DEF CorrectionInv
  <2> QED  BY <2>1, <2>2 DEF AlgorithmsNext
<1> QED  BY <1>1, <1>2, PTL DEF AlgorithmsSpec

\* What Correct replaces it may replace, by the best rule there is at that word,
\* and what it leaves alone no rule would change: for every vocabulary and every
\* transcript (llm/vocabulary.go Correct, matchAt, levenshtein).
THEOREM CorrectionStaysSound == AlgorithmsSpec => []CorrectionIsSound
<1>1. CorrectionInv => CorrectionIsSound
  <2> SUFFICES ASSUME CorrectionInv PROVE CorrectionIsSound  OBVIOUS
  <2>1. VocabularyTypeOK /\ spans \in Seq(Marks)  BY DEF CorrectionInv
  <2>2. DOMAIN spans = 1..Len(spans)  BY <2>1, LenProperties
  <2>3. ASSUME NEW n \in DOMAIN spans
        PROVE  LET s == spans[n] IN
               /\ n > 1 => spans[n - 1].to < s.from
               /\ Best(s.by, s.from, s.to, s.canon)
    BY <2>2 DEF CorrectionInv
  <2>4. \A i \in 1..(at - 1) : ~Covered(i) => Still(i)  BY DEF CorrectionInv
  <2> QED  BY <2>1, <2>3, <2>4 DEF CorrectionIsSound, Best, Still
<1> QED  BY <1>1, CorrectionInvHolds, PTL

-----------------------------------------------------------------------------
(* The terms of a prompt.  Two functions go along the terms: the line that *)
(* promptLine builds, and the terms that are not blank; the line stays     *)
(* with them until a cap stops it, and then stays what it is.              *)

Lines == [terms : Seq(Words), full : BOOLEAN, bytes : Nat]
EmptyLine == [terms |-> << >>, full |-> FALSE, bytes |-> 0]

\* The line l, where the terms so far that are not blank are ts.
Fills(l, ts) ==
  /\ l \in Lines /\ ts \in Seq(Words)
  /\ Len(l.terms) <= MaxTerms /\ l.bytes = Bytes(l.terms) /\ l.bytes <= MaxBytes
  /\ ~l.full => l.terms = ts
  /\ l.full => /\ Len(l.terms) < Len(ts) /\ \A k \in 1..Len(l.terms) : ts[k] = l.terms[k]
               /\ Len(l.terms) = MaxTerms \/ l.bytes + 2 + Len(ts[Len(l.terms) + 1]) > MaxBytes

LEMMA BytesGrow ==
  ASSUME NEW ts \in Seq(Words), NEW t \in Words, Bytes(ts) \in Nat
  PROVE  Bytes(Append(ts, t)) = Bytes(ts) + Len(t) + IF ts = << >> THEN 0 ELSE 2
<1>1. PICK n \in Nat : n = Len(ts)  BY LenProperties
<1>2. PICK k \in Nat : k = Len(t)  BY WordIs
<1>3. Append(ts, t) # << >> /\ Len(Append(ts, t)) = n + 1  BY <1>1, AppendProperties
<1>4. PICK x \in Words : x = Letters(ts)  BY LettersAreLetters
<1>5. Letters(Append(ts, t)) = x \o t /\ Letters(<< >>) = << >>
  BY <1>4, FlattenGrows DEF Letters, Words
<1>6. PICK b \in Nat : b = Len(x)  BY WordIs
<1>7. Len(x \o t) = b + k  BY <1>2, <1>6, ConcatProperties DEF Words
<1>8. Bytes(Append(ts, t)) = b + k + 2 * n  BY <1>3, <1>5, <1>7 DEF Bytes
<1>9. CASE ts = << >>
  <2>1. n = 0 /\ b = 0 /\ Bytes(ts) = 0  BY <1>1, <1>4, <1>5, <1>6, <1>9 DEF Bytes
  <2> QED  BY <1>2, <1>8, <1>9, <2>1
<1>10. CASE ts # << >>
  <2>1. Bytes(ts) = b + 2 * (n - 1)  BY <1>1, <1>4, <1>6, <1>10 DEF Bytes
  <2> QED  BY <1>1, <1>2, <1>8, <1>10, <2>1
<1> QED  BY <1>9, <1>10

LEMMA ListedFills ==
  ASSUME NEW l, NEW ts, Fills(l, ts), NEW t \in Words
  PROVE  Fills(Listed(l, t), IF t = << >> THEN ts ELSE Append(ts, t))
<1>1. /\ l \in Lines /\ l.terms \in Seq(Words) /\ l.full \in BOOLEAN /\ l.bytes \in Nat
      /\ ts \in Seq(Words) /\ Len(l.terms) \in Nat /\ Len(ts) \in Nat /\ Len(t) \in Nat
  BY LenProperties, WordIs DEF Fills, Lines
<1>2. PICK us \in Seq(Words) : /\ us = Append(ts, t) /\ Len(us) = Len(ts) + 1 /\ us[Len(ts) + 1] = t
                               /\ \A k \in 1..Len(ts) : us[k] = ts[k]
  <2>1. /\ Append(ts, t) \in Seq(Words) /\ Len(Append(ts, t)) = Len(ts) + 1
        /\ Append(ts, t)[Len(ts) + 1] = t
        /\ \A k \in 1..Len(ts) : Append(ts, t)[k] = ts[k]
    BY <1>1, AppendProperties
  <2> QED  BY <2>1
<1>m. MaxTerms \in Nat /\ MaxBytes \in Nat  BY VocabularyAssumption
<1>3. CASE t = << >>
  <2>1. Listed(l, t) = l  BY <1>3 DEF Listed
  <2> QED  BY <1>3, <2>1
<1>4. CASE t # << >> /\ l.full
  <2>1. Listed(l, t) = l  BY <1>4 DEF Listed
  <2>2. Len(l.terms) < Len(ts) /\ \A k \in 1..Len(l.terms) : ts[k] = l.terms[k]
    BY <1>4 DEF Fills
  <2>3. Len(l.terms) + 1 \in 1..Len(ts) /\ \A k \in 1..Len(l.terms) : k \in 1..Len(ts)  BY <1>1, <2>2
  <2>4. us[Len(l.terms) + 1] = ts[Len(l.terms) + 1] /\ \A k \in 1..Len(l.terms) : us[k] = l.terms[k]
    BY <1>2, <2>2, <2>3
  <2>5. Len(l.terms) < Len(us)  BY <1>1, <1>2, <2>2
  <2>6. Fills(l, us)  BY <1>1, <1>4, <2>4, <2>5 DEF Fills
  <2> QED  BY <1>2, <1>4, <2>1, <2>6
<1>5. CASE t # << >> /\ ~l.full /\ NoRoom(l, t)
  <2>1. PICK m : m = [l EXCEPT !.full = TRUE]  OBVIOUS
  <2>2. m \in Lines /\ m.full /\ m.terms = l.terms /\ m.bytes = l.bytes  BY <1>1, <2>1 DEF Lines
  <2>3. Listed(l, t) = m
    <3>1. ~(l.full \/ t = << >>) /\ (~l.full /\ t # << >> /\ NoRoom(l, t))  BY <1>5
    <3>2. Listed(l, t) = [l EXCEPT !.full = TRUE]  BY <3>1, Zenon DEF Listed
    <3> QED  BY <2>1, <3>2
  <2>4. l.terms = ts  BY <1>5 DEF Fills
  <2>5. Len(l.terms) = MaxTerms \/ l.bytes + 2 + Len(t) > MaxBytes
    <3>1. Len(l.terms) = MaxTerms \/ l.bytes + Len(t) + 2 > MaxBytes  BY <1>5 DEF NoRoom
    <3>2. l.bytes + Len(t) + 2 = l.bytes + 2 + Len(t)  BY <1>1
    <3> QED  BY <3>1, <3>2
  <2>6. /\ Len(m.terms) < Len(us) /\ \A k \in 1..Len(m.terms) : us[k] = m.terms[k]
        /\ us[Len(m.terms) + 1] = t
    BY <1>1, <1>2, <2>2, <2>4
  <2>7. Fills(m, us)  BY <1>2, <2>2, <2>5, <2>6 DEF Fills
  <2> QED  BY <1>2, <1>5, <2>3, <2>7
<1>6. CASE t # << >> /\ ~l.full /\ ~NoRoom(l, t)
  <2>1. PICK b : b = l.bytes + Len(t) + (IF l.terms = << >> THEN 0 ELSE 2)  OBVIOUS
  <2>2. l.terms = ts /\ l.bytes = Bytes(ts)  BY <1>6 DEF Fills
  <2>3. b \in Nat /\ b <= MaxBytes
    <3>1. ~(l.bytes + Len(t) + 2 > MaxBytes)  BY <1>6 DEF NoRoom
    <3>2. PICK x \in Nat, y \in Nat : x = l.bytes /\ y = Len(t)  BY <1>1
    <3>3. b = x + y \/ b = x + y + 2  BY <2>1, <3>2
    <3> QED  BY <1>m, <3>1, <3>2, <3>3
  <2>4. b = Bytes(us)
    <3>1. Bytes(ts) \in Nat  BY <1>1, <2>2
    <3> QED  BY <1>1, <1>2, <2>1, <2>2, <3>1, BytesGrow
  <2>5. PICK m : m = [terms |-> us, full |-> FALSE, bytes |-> b]  OBVIOUS
  <2>6. m \in Lines /\ ~m.full /\ m.terms = us /\ m.bytes = b  BY <1>2, <2>3, <2>5 DEF Lines
  <2>7. Listed(l, t) = m
    <3>1. ~(l.full \/ t = << >>) /\ ~(~l.full /\ t # << >> /\ NoRoom(l, t))  BY <1>6
    <3>2. Listed(l, t) = [terms |-> Append(l.terms, t), full |-> FALSE,
                          bytes |-> l.bytes + Len(t) + (IF l.terms = << >> THEN 0 ELSE 2)]
      BY <3>1, Zenon DEF Listed
    <3> QED  BY <1>2, <2>1, <2>2, <2>5, <3>2
  <2>8. Len(us) <= MaxTerms
    <3>1. Len(ts) <= MaxTerms  BY <2>2 DEF Fills
    <3>2. Len(ts) # MaxTerms  BY <1>6, <2>2 DEF NoRoom
    <3> QED  BY <1>1, <1>2, <1>m, <3>1, <3>2
  <2>9. Fills(m, us)  BY <1>2, <2>3, <2>4, <2>6, <2>8 DEF Fills
  <2> QED  BY <1>2, <1>6, <2>7, <2>9
<1> QED  BY <1>1, <1>3, <1>4, <1>5, <1>6

LEMMA LinesExist ==
  ASSUME NEW terms, NEW n \in Nat
  PROVE  \E f : /\ f = [i \in 0..n |-> f[i]] /\ f[0] = EmptyLine
                /\ \A i \in 1..n : f[i] = Listed(f[i - 1], terms[i])
<1> DEFINE Is(f, m) == /\ f = [i \in 0..m |-> f[i]] /\ f[0] = EmptyLine
                       /\ \A i \in 1..m : f[i] = Listed(f[i - 1], terms[i])
           T == {m \in 0..n : ~ \E f : Is(f, m)}
<1>1. SUFFICES ASSUME T # {} PROVE FALSE
  <2>1. n \in 0..n  OBVIOUS
  <2> HIDE DEF Is
  <2>2. \E f : Is(f, n)  BY <2>1
  <2> USE DEF Is
  <2> QED  BY <2>2
<1>2. PICK x \in T : \A y \in T : x <= y
  <2>1. T \subseteq Nat  OBVIOUS
  <2> HIDE DEF T
  <2> QED  BY <1>1, <2>1, LeastNat
<1>3. x \in 0..n /\ x \in Nat /\ ~ \E f : Is(f, x)  BY <1>2
<1>4. CASE x = 0
  <2> DEFINE f == [i \in 0..0 |-> EmptyLine]
  <2>1. f = [i \in 0..0 |-> f[i]] /\ f[0] = EmptyLine  OBVIOUS
  <2>2. \A i \in 1..0 : FALSE  OBVIOUS
  <2> HIDE DEF f
  <2>3. Is(f, x)  BY <1>4, <2>1, <2>2
  <2> HIDE DEF Is
  <2> QED  BY <1>3, <2>3
<1>5. CASE x # 0
  <2>1. x - 1 \in 0..n /\ ~(x <= x - 1)  BY <1>3, <1>5
  <2>2. x - 1 \notin T
    <3> HIDE DEF T
    <3> QED  BY <1>2, <2>1
  <2>3. PICK f : Is(f, x - 1)  BY <2>1, <2>2
  <2> DEFINE g == [i \in 0..x |-> IF i = x THEN Listed(f[x - 1], terms[x]) ELSE f[i]]
  <2>4. /\ g = [i \in 0..x |-> g[i]] /\ g[x] = Listed(f[x - 1], terms[x])
        /\ \A i \in 0..(x - 1) : g[i] = f[i]
    BY <1>3
  <2> HIDE DEF g
  <2>5. g[0] = EmptyLine
    <3>1. 0 \in 0..(x - 1)  BY <1>3, <1>5
    <3> QED  BY <2>3, <2>4, <3>1
  <2>6. ASSUME NEW i \in 1..x PROVE g[i] = Listed(g[i - 1], terms[i])
    <3>1. i - 1 \in 0..(x - 1)  BY <1>3
    <3>2. g[i - 1] = f[i - 1]  BY <2>4, <3>1
    <3>3. CASE i = x  BY <2>4, <3>2, <3>3
    <3>4. CASE i # x
      <4>1. i \in 0..(x - 1) /\ i \in 1..(x - 1)  BY <1>3, <3>4
      <4>2. f[i] = Listed(f[i - 1], terms[i])  BY <2>3, <4>1
      <4> QED  BY <2>4, <3>2, <4>1, <4>2
    <3> QED  BY <3>3, <3>4
  <2>7. Is(g, x)  BY <2>4, <2>5, <2>6
  <2> HIDE DEF Is
  <2> QED  BY <1>3, <2>7
<1> QED  BY <1>4, <1>5

LEMMA PromptFills ==
  ASSUME vocab.terms \in Seq(Words), VocabularyAssumption
  PROVE  \E l : Fills(l, Filled) /\ PromptTerms(vocab) = l.terms
<1>1. PICK n \in Nat : n = Len(vocab.terms)  BY LenProperties
<1>2. PICK terms \in Seq(Words) : terms = vocab.terms  OBVIOUS
<1>3. DOMAIN terms = 1..n /\ Len(terms) = n  BY <1>1, <1>2, LenProperties
<1>4. \A i \in 1..n : terms[i] \in Words  BY <1>3, ElementOfSeq
<1> DEFINE line == CHOOSE h : h = [i \in 0..Len(vocab.terms) |->
             IF i = 0 THEN [terms |-> << >>, full |-> FALSE, bytes |-> 0] ELSE Listed(h[i - 1], vocab.terms[i])]
           ones == [i \in DOMAIN vocab.terms |-> IF vocab.terms[i] = << >> THEN << >> ELSE <<vocab.terms[i]>>]
<1>5. /\ line[0] = EmptyLine
      /\ \A i \in 1..n : line[i] = Listed(line[i - 1], terms[i])
      /\ PromptTerms(vocab) = line[n].terms
  <2>1. PICK f : /\ f = [i \in 0..n |-> f[i]] /\ f[0] = EmptyLine
                 /\ \A i \in 1..n : f[i] = Listed(f[i - 1], terms[i])
    BY LinesExist
  <2>2. f = [i \in 0..Len(vocab.terms) |->
              IF i = 0 THEN [terms |-> << >>, full |-> FALSE, bytes |-> 0] ELSE Listed(f[i - 1], vocab.terms[i])]
    <3>1. \A i \in 0..n : f[i] = IF i = 0 THEN EmptyLine ELSE Listed(f[i - 1], terms[i])
      <4>1. \A i \in 0..n : i = 0 \/ i \in 1..n  OBVIOUS
      <4> QED  BY <2>1, <4>1
    <3> QED  BY <1>1, <1>2, <2>1, <3>1 DEF EmptyLine
  <2>3. line = [i \in 0..Len(vocab.terms) |->
                 IF i = 0 THEN [terms |-> << >>, full |-> FALSE, bytes |-> 0] ELSE Listed(line[i - 1], vocab.terms[i])]
    BY <2>2
  <2>4. PromptTerms(vocab) = line[Len(vocab.terms)].terms  BY Zenon DEF PromptTerms
  <2> HIDE DEF line
  <2>5. 0 \in 0..n /\ \A i \in 1..n : i \in 0..n /\ i # 0  OBVIOUS
  <2> QED  BY <1>1, <1>2, <2>3, <2>4, <2>5 DEF EmptyLine
<1>6. ones \in Seq(Seq(Words)) /\ Len(ones) = n
  <2>1. ones = [i \in 1..n |-> IF terms[i] = << >> THEN << >> ELSE <<terms[i]>>]  BY <1>2, <1>3
  <2>2. \A i \in 1..n : (IF terms[i] = << >> THEN << >> ELSE <<terms[i]>>) \in Seq(Words)  BY <1>4
  <2>3. ones \in [1..n -> Seq(Words)]  BY <2>1, <2>2
  <2>4. DOMAIN ones = 1..n  BY <2>3
  <2>5. \E k \in Nat : ones \in [1..k -> Seq(Words)]  BY <2>3
  <2> HIDE DEF ones
  <2>6. ones \in Seq(Seq(Words))  BY <2>5, SeqDef
  <2> QED  BY <2>4, <2>6, LenProperties
<1>7. Filled = FlattenSeq(ones)  BY DEF Filled
<1>8. \A i \in 1..n : ones[i] = IF terms[i] = << >> THEN << >> ELSE <<terms[i]>>  BY <1>2, <1>3
<1> HIDE DEF line, ones
<1>9. PICK f : /\ \A i \in 1..n : f[i] = Joined(f, ones, i) /\ f[i] \in Seq(Words)
               /\ FlattenSeq(ones) = IF n = 0 THEN << >> ELSE f[n]
  <2>1. PICK f : /\ \A i \in 1..Len(ones) : f[i] = Joined(f, ones, i) /\ f[i] \in Seq(Words)
                 /\ FlattenSeq(ones) = IF Len(ones) = 0 THEN << >> ELSE f[Len(ones)]
    BY <1>6, FlattenIs
  <2> QED  BY <1>6, <2>1
<1> DEFINE G(i) == IF i = 0 THEN << >> ELSE f[i]
<1>10. ASSUME NEW i \in 1..n
       PROVE  G(i) = IF terms[i] = << >> THEN G(i - 1) ELSE Append(G(i - 1), terms[i])
  <2>1. G(i) = G(i - 1) \o ones[i]
    <3>1. i = 1 => G(i) = ones[i] /\ ones[i] \in Seq(Words) /\ << >> \o ones[i] = ones[i]
      <4>1. i = 1 => f[i] = ones[i] /\ f[i] \in Seq(Words)  BY <1>9 DEF Joined
      <4> QED  BY <4>1, ConcatEmptySeq
    <3>2. i # 1 => f[i] = f[i - 1] \o ones[i]  BY <1>9 DEF Joined
    <3>3. i # 1 => i - 1 # 0  OBVIOUS
    <3>4. i # 0 /\ (i = 1 => i - 1 = 0)  OBVIOUS
    <3>5. CASE i = 1
      <4>1. G(i - 1) = << >>  BY <3>4, <3>5
      <4> QED  BY <3>1, <3>5, <4>1
    <3>6. CASE i # 1
      <4>1. G(i) = f[i] /\ G(i - 1) = f[i - 1]  BY <3>3, <3>4, <3>6
      <4> QED  BY <3>2, <3>6, <4>1
    <3> QED  BY <3>5, <3>6
  <2>2. G(i - 1) \in Seq(Words)
    <3>1. i # 1 => i - 1 \in 1..n  OBVIOUS
    <3> QED  BY <1>9, <3>1
  <2>3. PICK g \in Seq(Words) : g = G(i - 1)  BY <2>2
  <2>4. g \o << >> = g /\ Append(g, terms[i]) = g \o <<terms[i]>>
    BY <1>4, ConcatEmptySeq, AppendIsConcat
  <2> QED  BY <1>8, <2>1, <2>3, <2>4
<1>11. G(0) = << >> /\ Filled = G(n)  BY <1>7, <1>9
<1> DEFINE T == {i \in 0..n : ~Fills(line[i], G(i))}
<1>12. T = {}
  <2>1. SUFFICES ASSUME T # {} PROVE FALSE  OBVIOUS
  <2>2. PICK x \in T : \A y \in T : x <= y
    <3>1. T \subseteq Nat  OBVIOUS
    <3> HIDE DEF T
    <3> QED  BY <2>1, <3>1, LeastNat
  <2>3. x \in 0..n /\ ~Fills(line[x], G(x))  BY <2>2
  <2> HIDE DEF G
  <2>4. x # 0
    <3>1. EmptyLine \in Lines /\ EmptyLine.terms = << >> /\ ~EmptyLine.full /\ EmptyLine.bytes = 0  BY DEF EmptyLine, Lines
    <3>2. Bytes(<< >>) = 0 /\ Len(<< >>) = 0 /\ << >> \in Seq(Words)  BY DEF Bytes
    <3>3. Fills(EmptyLine, << >>)  BY <3>1, <3>2, VocabularyAssumption DEF Fills
    <3> QED  BY <1>5, <1>11, <2>3, <3>3
  <2>5. x \in 1..n /\ x - 1 \in 0..n /\ ~(x <= x - 1)  BY <2>3, <2>4
  <2>6. Fills(line[x - 1], G(x - 1))
    <3>1. x - 1 \notin T
      <4> HIDE DEF T
      <4> QED  BY <2>2, <2>5
    <3> QED  BY <2>5, <3>1
  <2>7. Fills(Listed(line[x - 1], terms[x]), IF terms[x] = << >> THEN G(x - 1) ELSE Append(G(x - 1), terms[x]))
    BY <1>4, <2>5, <2>6, ListedFills
  <2> QED  BY <1>5, <1>10, <2>3, <2>5, <2>7
<1>13. Fills(line[n], Filled)
  <2>1. n \in 0..n  OBVIOUS
  <2> HIDE DEF G
  <2> QED  BY <1>11, <1>12, <2>1
<1> QED  BY <1>5, <1>13

\* A prompt names the terms from the first on, as many as the two caps allow: for
\* every vocabulary and both caps (llm/vocabulary.go promptLine).
THEOREM PromptStaysFull == AlgorithmsSpec => []PromptIsFull
<1>1. CorrectionInv => PromptIsFull
  <2> SUFFICES ASSUME CorrectionInv PROVE PromptIsFull  OBVIOUS
  <2>1. vocab.terms \in Seq(Words)  BY VocabularyIs DEF CorrectionInv
  <2>2. PICK l : Fills(l, Filled) /\ PromptTerms(vocab) = l.terms
    BY <2>1, VocabularyAssumption, PromptFills
  <2>3. PICK named \in Seq(Words) : named = l.terms  BY <2>2 DEF Fills, Lines
  <2>4. /\ Len(named) \in Nat /\ Len(Filled) \in Nat /\ Filled \in Seq(Words)
    BY <2>2, LenProperties DEF Fills
  <2>5. Len(named) <= MaxTerms /\ Bytes(named) <= MaxBytes /\ l.bytes = Bytes(named)
    BY <2>2, <2>3 DEF Fills
  <2>6. SubSeq(named, 1, Len(named)) = named  BY SubSeqFull
  <2>7. CASE ~l.full
    <3>1. named = Filled  BY <2>2, <2>3, <2>7 DEF Fills
    <3>2. IsPrefix(named, Filled)  BY <2>4, <3>1 DEF IsPrefix
    <3> QED  BY <2>2, <2>3, <2>5, <3>1, <3>2 DEF PromptIsFull
  <2>8. CASE l.full
    <3>1. /\ Len(named) < Len(Filled) /\ \A k \in 1..Len(named) : Filled[k] = named[k]
          /\ Len(named) = MaxTerms \/ l.bytes + 2 + Len(Filled[Len(named) + 1]) > MaxBytes
      BY <2>2, <2>3, <2>8 DEF Fills
    <3>2. SubSeq(Filled, 1, Len(named)) = named
      <4>1. \A k \in 1..Len(named) : k \in 1..Len(Filled)  BY <2>4, <3>1
      <4>2. \A k \in 1..Len(named) : Filled[k] \in Words  BY <2>4, <4>1, ElementOfSeq
      <4>3. PICK v \in Seq(Words) : /\ v = SubSeq(Filled, 1, Len(named))
                                    /\ Len(v) = IF 1 <= Len(named) THEN Len(named) - 1 + 1 ELSE 0
                                    /\ \A k \in 1..(Len(named) - 1 + 1) : v[k] = Filled[1 + k - 1]
        <5>1. 1 \in Int /\ Len(named) \in Int  BY <2>4
        <5>2. /\ SubSeq(Filled, 1, Len(named)) \in Seq(Words)
              /\ Len(SubSeq(Filled, 1, Len(named))) = IF 1 <= Len(named) THEN Len(named) - 1 + 1 ELSE 0
              /\ \A k \in 1..(Len(named) - 1 + 1) : SubSeq(Filled, 1, Len(named))[k] = Filled[1 + k - 1]
          BY <4>2, <5>1, SubSeqProperties
        <5> QED  BY <5>2
      <4>4. Len(v) = Len(named)  BY <2>4, <4>3
      <4>5. ASSUME NEW k \in 1..Len(named) PROVE v[k] = named[k]
        <5>1. k \in 1..(Len(named) - 1 + 1) /\ 1 + k - 1 = k  BY <2>4
        <5> QED  BY <3>1, <4>3, <5>1
      <4> QED  BY <4>3, <4>4, <4>5, SeqEqual
    <3>3. IsPrefix(named, Filled)  BY <2>4, <2>6, <3>1, <3>2 DEF IsPrefix
    <3> QED  BY <2>2, <2>3, <2>5, <3>1, <3>3 DEF PromptIsFull
  <2> QED  BY <2>7, <2>8
<1> QED  BY <1>1, CorrectionInvHolds, PTL
=============================================================================
