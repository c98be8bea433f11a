------------------------- MODULE CollectRetryProofs -------------------------
(***************************************************************************)
(* A stream, what Collect makes of it and the two retries around it, for   *)
(* any number of attempts, chunks and tool calls and any capacity of the   *)
(* channel.                                                                *)
(***************************************************************************)
EXTENDS CollectRetry, SequenceTheorems, FiniteSetTheorems, NaturalsInduction, WellFoundedInduction,
        TLAPS

-----------------------------------------------------------------------------
(* The calls that a flush sends.                                           *)

\* Induction over the naturals, for a set of them.
LEMMA LeastNat ==
  ASSUME NEW T, T \subseteq Nat, T # {}
  PROVE  \E x \in T : \A y \in T : x <= y
<1>1. IsWellFoundedOn(OpToRel(<, Nat), Nat)
  BY NatLessThanWellFounded
<1>2. PICK x \in T : \A y \in T : ~ (<<y, x>> \in OpToRel(<, Nat))
  BY <1>1, WFMin
<1>3. \A y \in T : ~ (<<y, x>> \in {ss \in Nat \X Nat : ss[1] < ss[2]})
  BY <1>2, Zenon DEF OpToRel
<1>4. \A y \in T : ~(y < x)
  BY <1>3
<1> QED
  BY <1>4

\* The least of a set comes first, before the others in their order.
LEMMA OrderExists ==
  ASSUME NEW S, S \subseteq Nat, IsFiniteSet(S)
  PROVE  \E s \in [1..Cardinality(S) -> S] : Ascending(s)
<1> DEFINE Ordered(R) == \E s \in [1..Cardinality(R) -> R] : Ascending(s)
           T == {n \in Nat : \E R \in SUBSET Nat : IsFiniteSet(R) /\ Cardinality(R) = n /\ ~Ordered(R)}
<1>1. Cardinality(S) \in Nat  BY FS_CardinalityType
<1>2. SUFFICES T = {}
  <2>1. Cardinality(S) \notin T  BY <1>2
  <2> QED  BY <1>1, <2>1
<1>3. SUFFICES ASSUME T # {} PROVE FALSE  OBVIOUS
<1>4. PICK x \in T : \A y \in T : x <= y
  <2>1. T \subseteq Nat  OBVIOUS
  <2> HIDE DEF T
  <2> QED  BY <1>3, <2>1, LeastNat
<1>5. PICK R \in SUBSET Nat : IsFiniteSet(R) /\ Cardinality(R) = x /\ ~Ordered(R)
  BY <1>4
<1>6. x \in Nat  BY <1>4
<1>7. CASE x = 0
  <2>1. R = {} /\ Cardinality(R) = 0  BY <1>5, <1>7, FS_EmptySet
  <2>2. <<>> \in [1..0 -> R]  OBVIOUS
  <2>3. Ascending(<<>>)  BY DEF Ascending
  <2> QED  BY <1>5, <2>1, <2>2, <2>3
<1>8. CASE x # 0
  <2>1. R # {}  BY <1>5, <1>8, FS_EmptySet
  <2>2. PICK m \in R : \A r \in R : m <= r  BY <2>1, LeastNat
  <2> DEFINE Q == R \ {m}
  <2>3. IsFiniteSet(Q) /\ Cardinality(Q) = x - 1  BY <1>5, FS_RemoveElement
  <2>4. x - 1 \in Nat /\ x - 1 < x  BY <1>6, <1>8
  <2>5. x - 1 \notin T  BY <1>4, <1>6, <2>4
  <2>6. Q \in SUBSET Nat  BY <1>5
  <2>7. Ordered(Q)  BY <2>3, <2>4, <2>5, <2>6
  <2>8. PICK s \in [1..(x - 1) -> Q] : Ascending(s)  BY <2>3, <2>7
  <2> DEFINE t == [j \in 1..x |-> IF j = 1 THEN m ELSE s[j - 1]]
  <2>9. \A j \in 1..x : j # 1 => j - 1 \in 1..(x - 1) /\ s[j - 1] \in Q
    <3> SUFFICES ASSUME NEW j \in 1..x, j # 1 PROVE j - 1 \in 1..(x - 1) /\ s[j - 1] \in Q
      OBVIOUS
    <3>1. j - 1 \in 1..(x - 1)  BY <1>6
    <3> QED  BY <2>8, <3>1
  <2>10. t \in [1..x -> R]  BY <2>9
  <2>11. ASSUME NEW j \in 1..x, NEW k \in 1..x, j < k PROVE t[j] < t[k]
    <3>1. k # 1 /\ t[k] = s[k - 1] /\ s[k - 1] \in Q  BY <1>6, <2>9, <2>11
    <3>2. CASE j = 1
      <4>1. t[j] = m  BY <3>2
      <4>2. m <= s[k - 1] /\ m # s[k - 1] /\ m \in Nat /\ s[k - 1] \in Nat
        BY <2>2, <3>1, <1>5
      <4> QED  BY <3>1, <4>1, <4>2
    <3>3. CASE j # 1
      <4>1. t[j] = s[j - 1] /\ j - 1 \in 1..(x - 1) /\ k - 1 \in 1..(x - 1) /\ j - 1 < k - 1
        BY <1>6, <2>9, <2>11, <3>1, <3>3
      <4>2. DOMAIN s = 1..(x - 1)  BY <2>8
      <4> QED  BY <2>8, <3>1, <4>1, <4>2 DEF Ascending
    <3> QED  BY <3>2, <3>3
  <2>12. Ascending(t)
    <3>1. DOMAIN t = 1..x  OBVIOUS
    <3> HIDE DEF t
    <3> QED  BY <2>11, <3>1 DEF Ascending
  <2> QED  BY <1>5, <2>10, <2>12
<1> QED  BY <1>7, <1>8

LEMMA SortedAscends ==
  ASSUME NEW S, S \subseteq Nat, IsFiniteSet(S)
  PROVE  /\ Cardinality(S) \in Nat
         /\ Sorted(S) \in [1..Cardinality(S) -> S] /\ Ascending(Sorted(S))
         /\ \A x \in S : \E j \in DOMAIN Sorted(S) : Sorted(S)[j] = x
<1> DEFINE n == Cardinality(S)
           s == Sorted(S)
<1>1. n \in Nat  BY FS_CardinalityType
<1>2. s \in [1..n -> S] /\ Ascending(s)  BY OrderExists DEF Sorted
<1> HIDE DEF s, n
<1>3. ASSUME NEW j \in 1..n, NEW k \in 1..n, s[j] = s[k] PROVE j = k
  <2>1. s[j] \in Nat  BY <1>2
  <2>2. ~(j < k) /\ ~(k < j)  BY <1>2, <1>3, <2>1 DEF Ascending
  <2> QED  BY <1>1, <2>2
<1>4. s \in Injection(1..n, S)
  <2>1. DOMAIN s = 1..n  BY <1>2
  <2> QED  BY <1>2, <1>3, <2>1 DEF Injection, IsInjective
<1>5. Cardinality(1..n) = n
  <2>1. 1 \in Int /\ n \in Int  BY <1>1
  <2>2. Cardinality(1..n) = IF 1 > n THEN 0 ELSE n - 1 + 1  BY <2>1, FS_Interval
  <2> QED  BY <1>1, <2>2
<1>6. s \in Surjection(1..n, S)  BY <1>4, <1>5, FS_Injection DEF n
<1>7. \A x \in S : \E j \in 1..n : s[j] = x  BY <1>6 DEF Surjection
<1>8. DOMAIN s = 1..n  BY <1>2
<1> QED  BY <1>1, <1>2, <1>7, <1>8 DEF s, n

\* What a flush sends: one call for each index with fragments.
LEMMA CallsOfFlush ==
  ASSUME NEW a
  PROVE  LET cs == Calls(a)
         IN  /\ Len(cs) \in Nat /\ DOMAIN cs = 1..Len(cs)
             /\ \A j \in 1..Len(cs) : \E i \in Indexes : a[i] # <<>> /\ cs[j] = CallEv(i, a[i])
             /\ \A i \in Indexes : a[i] # <<>> => \E j \in 1..Len(cs) : cs[j] = CallEv(i, a[i])
             /\ \A j, k \in 1..Len(cs) : j # k => cs[j].n # cs[k].n
<1> DEFINE U == {i \in Indexes : a[i] # <<>>}
           s == Sorted(U)
           n == Cardinality(U)
           cs == [j \in DOMAIN s |-> CallEv(s[j], a[s[j]])]
<1>1. U \subseteq Nat /\ IsFiniteSet(U)  BY StreamAssumption, FS_Subset
<1> HIDE DEF U
<1>2. /\ n \in Nat /\ s \in [1..n -> U] /\ Ascending(s)
      /\ \A x \in U : \E j \in DOMAIN s : s[j] = x
  BY <1>1, SortedAscends
<1> HIDE DEF s, n
<1>3. DOMAIN s = 1..n /\ \A j \in 1..n : s[j] \in U /\ s[j] \in Nat  BY <1>1, <1>2
<1>4. DOMAIN cs = 1..n /\ Len(cs) = n
  <2>1. DOMAIN cs = 1..n  BY <1>3
  <2>2. cs = [j \in 1..n |-> CallEv(s[j], a[s[j]])]  BY <1>3
  <2>3. Len([j \in 1..n |-> CallEv(s[j], a[s[j]])]) = n  BY <1>2
  <2> QED  BY <2>1, <2>2, <2>3
<1>5. \A j \in 1..n : cs[j] = CallEv(s[j], a[s[j]]) /\ cs[j].n = s[j]
  BY <1>3 DEF CallEv, Ev
<1>6. \A j, k \in 1..n : j # k => s[j] # s[k]
  <2> SUFFICES ASSUME NEW j \in 1..n, NEW k \in 1..n, j # k PROVE s[j] # s[k]  OBVIOUS
  <2>1. CASE j < k
    <3>1. s[j] < s[k]  BY <1>2, <1>3, <2>1 DEF Ascending
    <3> QED  BY <1>3, <3>1
  <2>2. CASE k < j
    <3>1. s[k] < s[j]  BY <1>2, <1>3, <2>2 DEF Ascending
    <3> QED  BY <1>3, <3>1
  <2> QED  BY <1>2, <2>1, <2>2
<1>7. Calls(a) = cs  BY DEF Calls, U, s
<1> HIDE DEF cs
<1> QED  BY <1>2, <1>3, <1>4, <1>5, <1>6, <1>7 DEF U

-----------------------------------------------------------------------------
(* The two retries.                                                        *)

Retried == {"server", "rate"}
Trying == {"ready", "trying", "sleeping"}
Results == Errors \cup {"none", "ok", "ctx"}

HttpInv ==
  /\ Http!RetryTypeOK
  /\ hErr \in Retried \cup {"none"}
  /\ hAt = "sleeping" => hTry < HttpAttempts
  /\ hAt = "done" => hRes # "none"

AgainInv ==
  /\ Again!RetryTypeOK
  /\ aErr \in {"none", "server"}
  /\ aAt = "sleeping" => aTry < Again!Attempts

LEMMA AttemptsAreNat ==
  /\ Http!Attempts = HttpAttempts /\ HttpAttempts \in Nat \ {0}
  /\ Again!Attempts \in Nat \ {0}
BY StreamAssumption, RetriesAssumption DEF Http!Attempts, Again!Attempts

\* What any step of the request does to its retry, ...
HttpStep == \/ Http!Do \/ Http!Try \/ Http!Wait \/ Http!Succeed
            \/ \E e \in {"server", "rate", "fatal"} : Http!Fail(e)
            \/ UNCHANGED httpVars

LEMMA HttpSteps ==
  ASSUME HttpInv, HttpStep
  PROVE  HttpInv'
<1> USE AttemptsAreNat DEF HttpInv, Http!RetryTypeOK, Retried
<1>1. CASE Http!Do  BY <1>1 DEF Http!Do
<1>2. CASE Http!Try  BY <1>2 DEF Http!Try
<1>3. CASE Http!Wait
  <2>1. CASE Http!Bail
    BY <2>1 DEF Http!Bail, Http!Return, Errors
  <2>2. CASE Http!Wake
    BY <2>2 DEF Http!Wake
  <2>3. CASE Http!Cancelled
    BY <2>3 DEF Http!Cancelled, Http!Return
  <2> QED  BY <1>3, <2>1, <2>2, <2>3 DEF Http!Wait
<1>4. CASE Http!Succeed  BY <1>4 DEF Http!Succeed, Http!Return
<1>5. CASE \E e \in {"server", "rate", "fatal"} : Http!Fail(e)
  BY <1>5 DEF Http!Fail, Http!Return, Errors
<1>6. CASE UNCHANGED httpVars  BY <1>6 DEF httpVars
<1> QED  BY <1>1, <1>2, <1>3, <1>4, <1>5, <1>6 DEF HttpStep

\* ... and of the calls of Collect to theirs.
AgainStep == \/ Again!Do \/ Again!Try \/ Again!Wait \/ Again!Succeed
             \/ Again!Fail(res) /\ res \in Errors \cup {"ctx"}
             \/ UNCHANGED againVars

LEMMA AgainSteps ==
  ASSUME AgainInv, AgainStep
  PROVE  AgainInv'
<1> USE AttemptsAreNat DEF AgainInv, Again!RetryTypeOK
<1>1. CASE Again!Do  BY <1>1 DEF Again!Do
<1>2. CASE Again!Try  BY <1>2 DEF Again!Try
<1>3. CASE Again!Wait
  <2>1. CASE Again!Bail
    BY <2>1 DEF Again!Bail, Again!Return, Errors
  <2>2. CASE Again!Wake
    BY <2>2 DEF Again!Wake
  <2>3. CASE Again!Cancelled
    BY <2>3 DEF Again!Cancelled, Again!Return
  <2> QED  BY <1>3, <2>1, <2>2, <2>3 DEF Again!Wait
<1>4. CASE Again!Succeed  BY <1>4 DEF Again!Succeed, Again!Return
<1>5. CASE Again!Fail(res) /\ res \in Errors \cup {"ctx"}
  BY <1>5 DEF Again!Fail, Again!Return, Errors
<1>6. CASE UNCHANGED againVars  BY <1>6 DEF againVars
<1> QED  BY <1>1, <1>2, <1>3, <1>4, <1>5, <1>6 DEF AgainStep

\* Where the two and Collect are, and what the last failure was.
LastInv ==
  /\ cpc \in {"idle", "opening", "collecting", "returned"} /\ res \in Results
  /\ last \in Results
  /\ hAt \in Trying => cpc = "opening"
  /\ cpc \in {"idle", "opening", "collecting"} => res = "none"
  /\ cpc = "returned" => res # "none" /\ last = res
  /\ aAt # "trying" => cpc \in {"idle", "returned"}
  /\ hAt \in Trying => IF hErr = "none" THEN last \in {"none", "server"} ELSE last = hErr
  /\ aAt = "ready" => last \in {"none", "server"}
  /\ aAt = "sleeping" => last = "server"
  /\ aAt = "idle" => cpc = "idle" /\ last = "none"

RetryInv == HttpInv /\ AgainInv /\ LastInv

\* The error that Collect may return from what it receives.
SaysWhy == \A m \in DOMAIN out : out[m].kind = "error" => out[m].why \in Errors

LEMMA RetryInit == RInit => RetryInv
<1> SUFFICES ASSUME RInit PROVE RetryInv  OBVIOUS
<1>1. Http!RetryInit /\ Again!RetryInit /\ last = "none" /\ cpc = "idle" /\ res = "none"
  BY DEF RInit, Init
<1>2. HttpInv  BY <1>1, AttemptsAreNat DEF HttpInv, Http!RetryInit, Http!RetryTypeOK
<1>3. AgainInv  BY <1>1, AttemptsAreNat DEF AgainInv, Again!RetryInit, Again!RetryTypeOK
<1>4. LastInv  BY <1>1 DEF LastInv, Http!RetryInit, Again!RetryInit, Results, Trying
<1> QED  BY <1>2, <1>3, <1>4 DEF RetryInv

LEMMA RetryStep ==
  ASSUME RetryInv, SaysWhy, got \in 0..Len(out), Len(out) \in Nat, DOMAIN out = 1..Len(out),
         [RNext]_rvars
  PROVE  RetryInv'
<1> USE DEF RetryInv
<1>r. cpc = "returned" => res \in Errors \cup {"ok", "ctx"}
  BY DEF LastInv, Results
<1>1. CASE CallRetry
  <2>1. UNCHANGED <<httpVars, cpc, res, last>> /\ Again!Do /\ aAt = "idle"
    BY <1>1 DEF CallRetry, vars
  <2>2. HttpInv' /\ AgainInv'  BY <2>1, HttpSteps, AgainSteps DEF HttpStep, AgainStep
  <2>3. LastInv'  BY <2>1 DEF LastInv, Again!Do, httpVars, Trying, Results
  <2> QED  BY <2>2, <2>3
<1>2. CASE Attempt
  <2>1. /\ Again!Try /\ Http!Do /\ cpc' = "opening" /\ res' = "none" /\ last' = last
    BY <1>2 DEF Attempt
  <2>2. HttpInv' /\ AgainInv'  BY <2>1, HttpSteps, AgainSteps DEF HttpStep, AgainStep
  <2>3. LastInv'  BY <2>1 DEF LastInv, Again!Try, Http!Do, Trying, Results
  <2> QED  BY <2>2, <2>3
<1>3. CASE WaitAgain
  <2>1. UNCHANGED <<httpVars, cpc, res, last>> /\ Again!Wait
    BY <1>3 DEF WaitAgain, vars
  <2>2. HttpInv' /\ AgainInv'  BY <2>1, HttpSteps, AgainSteps DEF HttpStep, AgainStep
  <2>3. aAt \in {"ready", "sleeping"} /\ aAt' \in {"ready", "done"} /\ (aAt' = "ready" => aAt = "sleeping")
    BY <2>1 DEF Again!Wait, Again!Bail, Again!Wake, Again!Cancelled, Again!Return
  <2>4. LastInv'  BY <2>1, <2>3 DEF LastInv, httpVars, Trying, Results
  <2> QED  BY <2>2, <2>4
<1>4. CASE Inner
  <2>1. aAt = "trying" /\ UNCHANGED againVars /\ aAt' = aAt /\ (Opening \/ Collect)
    BY <1>4 DEF Inner, Told, againVars
  <2>t. last' = IF res' # res THEN res' ELSE IF hErr' # hErr /\ hErr' # "none" THEN hErr' ELSE last
    BY <1>4 DEF Inner, Told
  <2>a. AgainInv'  BY <2>1, AgainSteps DEF AgainStep
  <2>2. CASE Request
    <3>1. (Http!Try \/ Http!Wait) /\ cpc' = cpc /\ res' = res  BY <2>2 DEF Request
    <3>2. HttpInv'  BY <3>1, HttpSteps DEF HttpStep
    <3>3. hAt \in Trying /\ (hErr' = hErr \/ (hErr' = "none" /\ hAt' = "done"))
      BY <3>1 DEF Http!Try, Http!Wait, Http!Bail, Http!Wake, Http!Cancelled, Http!Return, Trying
    <3>4. last' = last  BY <2>t, <3>1, <3>3
    <3>5. LastInv'  BY <2>1, <3>1, <3>3, <3>4 DEF LastInv, Trying, Results
    <3> QED  BY <2>a, <3>2, <3>5
  <2>3. CASE RequestFails
    <3>1. PICK e \in {"server", "rate", "fatal"} : Http!Fail(e) /\ cpc' = cpc /\ res' = res
      BY <2>3 DEF RequestFails
    <3>2. HttpInv'  BY <3>1, HttpSteps DEF HttpStep
    <3>3. hAt \in Trying /\ ((hErr' = "none" /\ hAt' = "done") \/ (hErr' = e /\ hAt' = "sleeping"))
      BY <3>1 DEF Http!Fail, Http!Return, Trying
    <3>4. CASE hErr' = "none" /\ hAt' = "done"
      <4>1. last' = last  BY <2>t, <3>1, <3>4
      <4>2. LastInv'  BY <2>1, <3>1, <3>3, <3>4, <4>1 DEF LastInv, Trying, Results
      <4> QED  BY <2>a, <3>2, <4>2
    <3>5. CASE hErr' = e /\ hAt' = "sleeping"
      <4>1. e # "none" /\ e \in Results  BY DEF Results, Errors
      <4>2. last' = e
        BY <2>t, <3>1, <3>3, <3>5, <4>1 DEF LastInv
      <4>3. LastInv'  BY <2>1, <3>1, <3>3, <3>5, <4>1, <4>2 DEF LastInv, Trying
      <4> QED  BY <2>a, <3>2, <4>3
    <3> QED  BY <3>3, <3>4, <3>5
  <2>4. CASE Opens
    <3>1. Http!Succeed /\ cpc' = "collecting" /\ res' = res  BY <2>4 DEF Opens
    <3>2. HttpInv'  BY <3>1, HttpSteps DEF HttpStep
    <3>3. hAt = "trying" /\ hErr' = "none" /\ hAt' = "done"
      BY <3>1 DEF Http!Succeed, Http!Return
    <3>4. last' = last  BY <2>t, <3>1, <3>3
    <3>5. LastInv'  BY <2>1, <3>1, <3>3, <3>4 DEF LastInv, Trying, Results
    <3> QED  BY <2>a, <3>2, <3>5
  <2>5. CASE AskFails
    <3>1. /\ cpc = "opening" /\ hAt = "done" /\ cpc' = "returned" /\ res' = hRes
          /\ UNCHANGED httpVars /\ hAt' = hAt
      BY <2>5 DEF AskFails, httpVars
    <3>2. HttpInv'  BY <3>1, HttpSteps DEF HttpStep
    <3>3. hRes # "none" /\ hRes \in Results  BY <3>1 DEF HttpInv, Http!RetryTypeOK, Results
    <3>4. res = "none"  BY <3>1 DEF LastInv
    <3>5. last' = hRes  BY <2>t, <3>1, <3>3, <3>4
    <3>6. LastInv'  BY <2>1, <3>1, <3>3, <3>5 DEF LastInv, Trying
    <3> QED  BY <2>a, <3>2, <3>6
  <2>6. CASE Collect
    <3>1. UNCHANGED httpVars /\ hAt' = hAt /\ hErr' = hErr /\ cpc = "collecting"
      BY <2>6 DEF Collect, Receive, SeeClosed, SeeContext, httpVars
    <3>2. HttpInv'  BY <3>1, HttpSteps DEF HttpStep
    <3>3. hAt \notin Trying /\ res = "none"  BY <3>1 DEF LastInv
    <3>4. \/ cpc' = cpc /\ res' = res
          \/ cpc' = "returned" /\ res' \in Errors \cup {"ok", "ctx"}
      <4>1. CASE Receive
        <5>1. got' = got + 1 /\ got < Len(out) /\ got' \in DOMAIN out  BY <4>1 DEF Receive
        <5> QED  BY <4>1, <5>1 DEF Receive, SaysWhy
      <4> QED  BY <2>6, <4>1 DEF Collect, SeeClosed, SeeContext
    <3>5. CASE cpc' = cpc /\ res' = res
      <4>1. last' = last  BY <2>t, <3>1, <3>5
      <4>2. LastInv'  BY <2>1, <3>1, <3>3, <3>5, <4>1 DEF LastInv, Trying
      <4> QED  BY <2>a, <3>2, <4>2
    <3>6. CASE cpc' = "returned" /\ res' \in Errors \cup {"ok", "ctx"}
      <4>1. res' # "none" /\ res' \in Results  BY <3>6 DEF Errors, Results
      <4>2. last' = res'  BY <2>t, <3>3, <4>1
      <4>3. LastInv'  BY <2>1, <3>1, <3>3, <3>6, <4>1, <4>2 DEF LastInv, Trying
      <4> QED  BY <2>a, <3>2, <4>3
    <3> QED  BY <3>4, <3>5, <3>6
  <2> QED  BY <2>1, <2>2, <2>3, <2>4, <2>5, <2>6 DEF Opening
<1>5. CASE Stream
  <2>1. UNCHANGED <<httpVars, againVars, cpc, res>> /\ Told
    BY <1>5 DEF Stream, Told, Reading, Sending, Scan, ScanEnds, ScanBreaks, EmitNext, EmitEnd, Close
  <2>2. last' = last  BY <2>1 DEF Told, httpVars
  <2>3. HttpInv' /\ AgainInv'  BY <2>1, HttpSteps, AgainSteps DEF HttpStep, AgainStep
  <2>4. LastInv'  BY <2>1, <2>2 DEF LastInv, httpVars, againVars
  <2> QED  BY <2>3, <2>4
<1>6. CASE CollectReturned
  <2>1. /\ aAt = "trying" /\ cpc = "returned" /\ UNCHANGED <<httpVars, cpc, res, last>>
        /\ IF res = "ok" THEN Again!Succeed ELSE Again!Fail(res)
    BY <1>6 DEF CollectReturned, vars
  <2>2. HttpInv' /\ AgainInv'  BY <1>r, <2>1, HttpSteps, AgainSteps DEF HttpStep, AgainStep
  <2>3. aAt' = "done" \/ (aAt' = "sleeping" /\ res = "server")
    BY <2>1 DEF Again!Succeed, Again!Fail, Again!Return
  <2>4. LastInv'  BY <2>1, <2>3 DEF LastInv, httpVars
  <2> QED  BY <2>2, <2>4
<1>7. CASE Cancel \/ UNCHANGED rvars
  <2>1. UNCHANGED <<httpVars, againVars, cpc, res, last>>
    BY <1>7 DEF Cancel, CtxOver, rvars, vars
  <2>2. HttpInv' /\ AgainInv'  BY <2>1, HttpSteps, AgainSteps DEF HttpStep, AgainStep
  <2>3. LastInv'  BY <2>1 DEF LastInv, httpVars, againVars
  <2> QED  BY <2>2, <2>3
<1> QED  BY <1>1, <1>2, <1>3, <1>4, <1>5, <1>6, <1>7 DEF RNext

-----------------------------------------------------------------------------
(* What the stream is made of.                                             *)

Events == {e \in Event : e.kind = "error" => e.why \in Errors}

StreamTyped ==
  /\ heard \in Seq(Chunk) /\ asm \in [Indexes -> Seq(Nat)]
  /\ sawError \in BOOLEAN /\ usageSent \in BOOLEAN
  /\ finish \in Failures \cup {"none", "stop"}
  /\ body \in {"open", "done", "eof", "left", "broken"}
  /\ batch \in Seq(Events) /\ out \in Seq(Events)
  /\ got \in 0..Len(out) /\ Len(out) - got <= OutCap
  /\ ctx \in CtxEnds \cup {"nil"}

\* Where processStream is, and with it what the others may have seen.
PlaceInv ==
  /\ ppc \in {"none", "scanning", "emitting", "ending", "closing", "closed"}
  /\ ppc = "none" => Unopened
  /\ cpc \in {"idle", "opening"} => ppc = "none"
  /\ ppc = "emitting" <=> batch # <<>>
  /\ ppc \in {"none", "scanning"} => body = "open"
  /\ ppc \in {"ending", "closing", "closed"} => body # "open"
  /\ body = "left" => ctx # "nil"

StreamInv == StreamTyped /\ PlaceInv

LEMMA EventsOfTypes ==
  /\ \A k \in {"text", "usage", "end"}, n \in Nat : Ev(k, n) \in Events /\ Ev(k, n).kind = k /\ Ev(k, n).n = n
  /\ \A i \in Nat, p \in Seq(Nat) :
       CallEv(i, p) \in Events /\ CallEv(i, p).kind = "call" /\ CallEv(i, p).n = i /\ CallEv(i, p).parts = p
  /\ \A e \in Errors : ErrorEv(e) \in Events /\ ErrorEv(e).kind = "error" /\ ErrorEv(e).why = e
<1>1. <<>> \in Seq(Nat)  OBVIOUS
<1>2. \A k \in {"text", "usage", "end"}, n \in Nat : Ev(k, n) \in Events /\ Ev(k, n).kind = k /\ Ev(k, n).n = n
  BY <1>1 DEF Ev, Events, Event, Kinds
<1>3. \A i \in Nat, p \in Seq(Nat) :
        CallEv(i, p) \in Events /\ CallEv(i, p).kind = "call" /\ CallEv(i, p).n = i /\ CallEv(i, p).parts = p
  BY DEF CallEv, Ev, Events, Event, Kinds
<1>4. \A e \in Errors : ErrorEv(e) \in Events /\ ErrorEv(e).kind = "error" /\ ErrorEv(e).why = e
  BY <1>1 DEF ErrorEv, Ev, Events, Event, Kinds
<1> QED  BY <1>2, <1>3, <1>4

LEMMA CallsAreEvents ==
  ASSUME NEW a \in [Indexes -> Seq(Nat)]
  PROVE  /\ Calls(a) \in Seq(Events)
         /\ \A j \in 1..Len(Calls(a)) : Calls(a)[j].kind = "call"
<1> DEFINE cs == Calls(a)
<1>1. /\ Len(cs) \in Nat /\ DOMAIN cs = 1..Len(cs)
      /\ \A j \in 1..Len(cs) : \E i \in Indexes : a[i] # <<>> /\ cs[j] = CallEv(i, a[i])
  BY CallsOfFlush
<1>2. \A i \in Indexes : i \in Nat /\ a[i] \in Seq(Nat)  BY StreamAssumption
<1>3. \A j \in 1..Len(cs) : cs[j] \in Events /\ cs[j].kind = "call"
  BY <1>1, <1>2, EventsOfTypes
<1>4. cs = [j \in DOMAIN cs |-> cs[j]]  BY DEF Calls
<1> HIDE DEF cs
<1>5. cs \in [1..Len(cs) -> Events]  BY <1>1, <1>3, <1>4
<1>6. cs \in Seq(Events)  BY <1>1, <1>5
<1> QED  BY <1>3, <1>6 DEF cs

LEMMA ChunkFields ==
  ASSUME NEW c \in Chunks
  PROVE  /\ c \in Chunk /\ c.text \in BOOLEAN /\ c.usage \in BOOLEAN
         /\ c.frag \in Indexes \cup {NoIndex}
         /\ c.finish \in Failures \cup {"none", "stop"} /\ c.error \in Failures \cup {"none"}
BY StreamAssumption DEF Chunk

LEMMA ClassIsError == \A f \in Failures : Class(f) \in Errors
BY DEF Class, Failures, Errors

\* Fragment k of a chunk joins those of its index.
LEMMA FedIsTyped ==
  ASSUME StreamTyped, NEW c \in Chunks, NEW k \in Nat
  PROVE  Fed(c, k) \in [Indexes -> Seq(Nat)]
<1>1. CASE c.frag = NoIndex  BY <1>1 DEF Fed, StreamTyped
<1>2. CASE c.frag # NoIndex
  <2>1. c.frag \in Indexes  BY <1>2, ChunkFields
  <2>2. Append(asm[c.frag], k) \in Seq(Nat)  BY <2>1, AppendProperties DEF StreamTyped
  <2> QED  BY <1>2, <2>1, <2>2 DEF Fed, StreamTyped
<1> QED  BY <1>1, <1>2

LEMMA PartsOfBatch ==
  ASSUME NEW c \in Chunks, NEW k \in Nat
  PROVE  /\ UsageOf(c, k) \in Seq(Events) /\ TextOf(c, k) \in Seq(Events)
         /\ \A f \in Failures : <<ErrorEv(Class(f))>> \in Seq(Events)
         /\ <<>> \in Seq(Events)
<1>1. \A e \in Events : <<e>> \in Seq(Events)  OBVIOUS
<1>2. <<>> \in Seq(Events)  OBVIOUS
<1>3. Ev("usage", k) \in Events /\ Ev("text", k) \in Events  BY EventsOfTypes
<1>4. \A f \in Failures : ErrorEv(Class(f)) \in Events  BY ClassIsError, EventsOfTypes
<1> QED  BY <1>1, <1>2, <1>3, <1>4 DEF UsageOf, TextOf

\* A chunk is read.
LEMMA ScanTyped ==
  ASSUME StreamInv, NEW c \in Chunks, Scan(c)
  PROVE  /\ heard' \in Seq(Chunk) /\ Len(heard') = Len(heard) + 1 /\ Len(heard) \in Nat
         /\ Len(heard') \in Nat
         /\ asm' \in [Indexes -> Seq(Nat)] /\ sawError' \in BOOLEAN
         /\ finish' \in Failures \cup {"none", "stop"} /\ batch' \in Seq(Events)
<1> DEFINE k == Len(heard')
           a == Fed(c, k)
           text == TextOf(c, k)
           usage == UsageOf(c, k)
           done == IF c.finish = "none" THEN <<>> ELSE Calls(a)
           bad == IF c.finish \in Failures THEN <<ErrorEv(Class(c.finish))>> ELSE <<>>
<1>1. heard' = Append(heard, c) /\ heard \in Seq(Chunk) /\ c \in Chunk
  BY ChunkFields DEF Scan, StreamInv, StreamTyped
<1>2. heard' \in Seq(Chunk) /\ k = Len(heard) + 1 /\ Len(heard) \in Nat /\ k \in Nat
  BY <1>1, AppendProperties, LenProperties
<1>3. NoFragments \in [Indexes -> Seq(Nat)]
  <2>1. <<>> \in Seq(Nat)  OBVIOUS
  <2> QED  BY <2>1 DEF NoFragments
<1>4. a \in [Indexes -> Seq(Nat)]  BY <1>2, FedIsTyped DEF StreamInv
<1>5. /\ usage \in Seq(Events) /\ text \in Seq(Events)
      /\ \A f \in Failures : <<ErrorEv(Class(f))>> \in Seq(Events)
      /\ <<>> \in Seq(Events)
  BY <1>2, PartsOfBatch
<1>6. Calls(a) \in Seq(Events) /\ Calls(asm) \in Seq(Events)
  BY <1>4, CallsAreEvents DEF StreamInv, StreamTyped
<1>7. \A s, t \in Seq(Events) : s \o t \in Seq(Events)  BY ConcatProperties
<1>8. done \in Seq(Events) /\ bad \in Seq(Events)  BY <1>5, <1>6
<1>c. AfterError(c, k) \/ Envelope(c, k) \/ Choice(c, k)  BY DEF Scan
<1> HIDE DEF k
<1>9. CASE AfterError(c, k)
  BY <1>2, <1>5, <1>9 DEF AfterError, StreamInv, StreamTyped, k
<1>10. CASE Envelope(c, k)
  <2>1. /\ batch' = Calls(asm) \o usage \o <<ErrorEv(Class(c.error))>> /\ asm' = NoFragments
        /\ sawError' = TRUE /\ finish' = c.error /\ c.error # "none" /\ c.error \in Failures
    BY <1>10, ChunkFields DEF Envelope
  <2>2. <<ErrorEv(Class(c.error))>> \in Seq(Events)  BY <1>5, <2>1
  <2> DEFINE err == <<ErrorEv(Class(c.error))>>
             calls == Calls(asm)
  <2> HIDE DEF usage, err, calls
  <2>3. calls \o usage \o err \in Seq(Events)  BY <1>5, <1>6, <1>7, <2>2 DEF err, calls
  <2> QED  BY <1>2, <1>3, <2>1, <2>3 DEF k, err, calls
<1>11. CASE Choice(c, k)
  <2>1. /\ batch' = text \o done \o bad \o usage
        /\ asm' = (IF c.finish = "none" THEN a ELSE NoFragments)
        /\ sawError' = (c.finish \in Failures)
        /\ finish' = IF c.finish = "none" THEN finish ELSE c.finish
    BY <1>11 DEF Choice
  <2> HIDE DEF a, text, done, bad, usage
  <2>2. text \o done \o bad \o usage \in Seq(Events)  BY <1>5, <1>7, <1>8
  <2> QED  BY <1>2, <1>3, <1>4, <2>1, <2>2, ChunkFields DEF StreamInv, StreamTyped, k
<1> QED  BY <1>c, <1>9, <1>10, <1>11

LEMMA EmitTyped ==
  ASSUME StreamTyped, NEW e \in Events, Emit(e)
  PROVE  /\ out' \in Seq(Events) /\ got \in 0..Len(out') /\ Len(out') - got <= OutCap
         /\ Len(out') \in Nat /\ Len(out) \in Nat
<1>1. out \in Seq(Events) /\ Len(out) \in Nat /\ got \in 0..Len(out) /\ OutCap \in Nat
  BY LenProperties, StreamAssumption DEF StreamTyped
<1>2. CASE Len(out) - got < OutCap /\ out' = Append(out, e)
  <2>1. out' \in Seq(Events) /\ Len(out') = Len(out) + 1  BY <1>1, <1>2, AppendProperties
  <2> QED  BY <1>1, <1>2, <2>1
<1>3. CASE UNCHANGED out  BY <1>1, <1>3 DEF StreamTyped
<1> QED  BY <1>2, <1>3 DEF Emit

\* The steps of processStream, ...
LEMMA StreamKept ==
  ASSUME StreamInv, Stream
  PROVE  StreamInv'
<1> USE DEF StreamInv
<1>1. UNCHANGED <<ctx, got, cpc>>
  BY DEF Stream, Reading, Sending, Scan, ScanEnds, ScanBreaks, EmitNext, EmitEnd, Close
<1>2. /\ out \in Seq(Events) /\ Len(out) \in Nat /\ got \in 0..Len(out)
      /\ ppc # "none" => cpc \notin {"idle", "opening"}
  BY LenProperties DEF StreamTyped, PlaceInv
<1>3. ASSUME NEW c \in Chunks, Scan(c) PROVE StreamInv'
  <2>1. /\ ppc = "scanning" /\ ctx = "nil" /\ usageSent' = (usageSent \/ c.usage)
        /\ ppc' = (IF batch' = <<>> THEN "scanning" ELSE "emitting")
        /\ UNCHANGED <<body, out>>
    BY <1>3 DEF Scan
  <2>2. StreamTyped'
    BY <1>1, <1>3, <2>1, ScanTyped, ChunkFields DEF StreamTyped
  <2>3. PlaceInv'  BY <1>1, <1>2, <2>1 DEF PlaceInv
  <2> QED  BY <2>2, <2>3
<1>4. CASE ScanEnds
  <2>1. /\ ppc = "scanning" /\ ppc' = "ending" /\ body' \in {"done", "eof", "left"}
        /\ (body' = "left" => ctx # "nil")
        /\ UNCHANGED <<heard, asm, sawError, usageSent, finish, batch, out>>
    BY <1>4 DEF ScanEnds
  <2>2. StreamTyped'  BY <1>1, <2>1 DEF StreamTyped
  <2>3. PlaceInv'  BY <1>1, <1>2, <2>1 DEF PlaceInv
  <2> QED  BY <2>2, <2>3
<1>5. CASE ScanBreaks
  <2>1. /\ ppc = "scanning" /\ body' = "broken"
        /\ UNCHANGED <<heard, sawError, usageSent, finish, out>>
    BY <1>5 DEF ScanBreaks
  <2>2. CASE sawError
    <3>1. ppc' = "ending" /\ UNCHANGED <<batch, asm>>  BY <1>5, <2>2 DEF ScanBreaks
    <3>2. StreamTyped'  BY <1>1, <2>1, <3>1 DEF StreamTyped
    <3>3. PlaceInv'  BY <1>1, <1>2, <2>1, <3>1 DEF PlaceInv
    <3> QED  BY <3>2, <3>3
  <2>3. CASE ~sawError
    <3> DEFINE err == <<ErrorEv("server")>>
               calls == Calls(asm)
    <3>1. ppc' = "emitting" /\ asm' = NoFragments /\ batch' = calls \o err
      BY <1>5, <2>3 DEF ScanBreaks
    <3>2. NoFragments \in [Indexes -> Seq(Nat)]
      <4>1. <<>> \in Seq(Nat)  OBVIOUS
      <4> QED  BY <4>1 DEF NoFragments
    <3>3. calls \in Seq(Events) /\ err \in Seq(Events) /\ Len(err) = 1
      <4>1. calls \in Seq(Events)  BY CallsAreEvents DEF StreamTyped
      <4>2. ErrorEv("server") \in Events  BY EventsOfTypes DEF Errors
      <4> QED  BY <4>1, <4>2
    <3> HIDE DEF calls, err
    <3>4. batch' \in Seq(Events) /\ Len(batch') = Len(calls) + 1 /\ Len(calls) \in Nat
      BY <3>1, <3>3, ConcatProperties, LenProperties
    <3>5. batch' # <<>>  BY <3>4
    <3>6. StreamTyped'  BY <1>1, <2>1, <3>1, <3>2, <3>4 DEF StreamTyped
    <3>7. PlaceInv'  BY <1>1, <1>2, <2>1, <3>1, <3>5 DEF PlaceInv
    <3> QED  BY <3>6, <3>7
  <2> QED  BY <2>2, <2>3
<1>6. CASE EmitNext
  <2>1. /\ ppc = "emitting" /\ Emit(Head(batch)) /\ batch' = Tail(batch) /\ UNCHANGED scanVars
        /\ ppc' = (IF batch' # <<>> THEN "emitting" ELSE IF body = "open" THEN "scanning" ELSE "ending")
    BY <1>6 DEF EmitNext
  <2>2. batch # <<>> /\ batch \in Seq(Events)  BY <2>1 DEF PlaceInv, StreamTyped
  <2>3. Head(batch) \in Events /\ Tail(batch) \in Seq(Events)  BY <2>2, HeadTailProperties
  <2>4. StreamTyped'  BY <1>1, <2>1, <2>3, EmitTyped DEF StreamTyped, scanVars
  <2>5. PlaceInv'  BY <1>1, <1>2, <2>1 DEF PlaceInv, scanVars
  <2> QED  BY <2>4, <2>5
<1>7. CASE EmitEnd
  <2>1. /\ ppc = "ending" /\ Emit(Ev("end", 0)) /\ ppc' = "closing"
        /\ UNCHANGED <<scanVars, batch>>
    BY <1>7 DEF EmitEnd
  <2>2. Ev("end", 0) \in Events  BY EventsOfTypes
  <2>3. StreamTyped'  BY <1>1, <2>1, <2>2, EmitTyped DEF StreamTyped, scanVars
  <2>4. PlaceInv'  BY <1>1, <1>2, <2>1 DEF PlaceInv, scanVars
  <2> QED  BY <2>3, <2>4
<1>8. CASE Close
  <2>1. ppc = "closing" /\ ppc' = "closed" /\ UNCHANGED <<scanVars, batch, out>>
    BY <1>8 DEF Close
  <2>2. StreamTyped'  BY <1>1, <2>1 DEF StreamTyped, scanVars
  <2>3. PlaceInv'  BY <1>1, <1>2, <2>1 DEF PlaceInv, scanVars
  <2> QED  BY <2>2, <2>3
<1> QED  BY <1>3, <1>4, <1>5, <1>6, <1>7, <1>8 DEF Stream, Reading, Sending

\* ... and those of the others.
LEMMA UnopenedIsTyped ==
  ASSUME Unopened, ctx \in CtxEnds \cup {"nil"}
  PROVE  StreamInv
<1>1. <<>> \in Seq(Nat) /\ <<>> \in Seq(Chunk) /\ <<>> \in Seq(Events) /\ Len(<<>>) = 0
  OBVIOUS
<1>2. NoFragments \in [Indexes -> Seq(Nat)]  BY <1>1 DEF NoFragments
<1>3. Len(<<>>) - 0 <= OutCap /\ 0 \in 0..Len(<<>>)
  <2>1. OutCap \in Nat  BY StreamAssumption
  <2> QED  BY <1>1, <2>1
<1>5. /\ heard = <<>> /\ asm = NoFragments /\ out = <<>> /\ batch = <<>> /\ got = 0
      /\ sawError = FALSE /\ usageSent = FALSE /\ finish = "none" /\ body = "open"
  BY DEF Unopened
<1>6. StreamTyped  BY <1>1, <1>2, <1>3, <1>5 DEF StreamTyped
<1>4. PlaceInv  BY DEF PlaceInv, Unopened
<1> QED  BY <1>4, <1>6 DEF StreamInv

LEMMA StreamStep ==
  ASSUME StreamInv, RetryInv, [RNext]_rvars
  PROVE  StreamInv'
<1> DEFINE streamVars == <<ctx, ppc, scanVars, batch, out, got>>
<1>u. ASSUME UNCHANGED streamVars, cpc' = cpc \/ cpc \notin {"idle", "opening"} \/ ppc = "none",
             cpc' \in {"idle", "opening"} => ppc = "none"
      PROVE  StreamInv'
  <2>1. StreamTyped'  BY <1>u DEF StreamInv, StreamTyped, scanVars
  <2>2. PlaceInv'  BY <1>u DEF StreamInv, PlaceInv, Unopened, scanVars
  <2> QED  BY <2>1, <2>2 DEF StreamInv
<1>p. cpc \in {"idle", "opening"} => ppc = "none"  BY DEF StreamInv, PlaceInv
<1>1. CASE CallRetry \/ WaitAgain \/ CollectReturned \/ UNCHANGED rvars
  <2>1. UNCHANGED streamVars /\ cpc' = cpc
    BY <1>1 DEF CallRetry, WaitAgain, CollectReturned, rvars, vars
  <2> QED  BY <1>p, <1>u, <2>1
<1>2. CASE Attempt
  <2>1. Unopened' /\ ctx' = ctx  BY <1>2 DEF Attempt, Unopened, NoFragments
  <2>2. ctx' \in CtxEnds \cup {"nil"}  BY <2>1 DEF StreamInv, StreamTyped
  <2>3. StreamTyped'
    <3>1. <<>> \in Seq(Nat) /\ <<>> \in Seq(Chunk) /\ <<>> \in Seq(Events) /\ Len(<<>>) = 0
      OBVIOUS
    <3>2. NoFragments \in [Indexes -> Seq(Nat)]  BY <3>1 DEF NoFragments
    <3>3. Len(<<>>) - 0 <= OutCap /\ 0 \in 0..Len(<<>>)
      <4>1. OutCap \in Nat  BY StreamAssumption
      <4> QED  BY <3>1, <4>1
    <3>4. /\ heard' = <<>> /\ asm' = NoFragments /\ out' = <<>> /\ batch' = <<>> /\ got' = 0
          /\ sawError' = FALSE /\ usageSent' = FALSE /\ finish' = "none" /\ body' = "open"
      BY <1>2 DEF Attempt
    <3> QED  BY <2>2, <3>1, <3>2, <3>3, <3>4 DEF StreamTyped
  <2>4. PlaceInv'  BY <2>1 DEF PlaceInv, Unopened
  <2> QED  BY <2>3, <2>4 DEF StreamInv
<1>3. CASE Inner
  <2>1. CASE Request \/ RequestFails \/ AskFails \/ SeeClosed \/ SeeContext
    <3>1. UNCHANGED streamVars /\ (cpc' = cpc \/ cpc' = "returned")
      BY <2>1 DEF Request, RequestFails, AskFails, SeeClosed, SeeContext
    <3>2. cpc' = cpc \/ cpc \notin {"idle", "opening"} \/ ppc = "none"  BY <1>p
    <3>3. cpc' \in {"idle", "opening"} => ppc = "none"  BY <1>p, <3>1
    <3> QED  BY <1>u, <3>1, <3>2, <3>3
  <2>2. CASE Opens
    <3>1. /\ hAt = "trying" /\ ppc' = "scanning" /\ cpc' = "collecting"
          /\ UNCHANGED <<ctx, scanVars, batch, out, got>>
      BY <2>2 DEF Opens, Http!Succeed
    <3>2. ppc = "none"  BY <1>p, <3>1 DEF RetryInv, LastInv, Trying
    <3>3. StreamTyped'  BY <3>1 DEF StreamInv, StreamTyped, scanVars
    <3>4. PlaceInv'  BY <3>1, <3>2 DEF StreamInv, PlaceInv, scanVars
    <3> QED  BY <3>3, <3>4 DEF StreamInv
  <2>3. CASE Receive
    <3>1. /\ cpc = "collecting" /\ got < Len(out) /\ got' = got + 1
          /\ UNCHANGED <<ctx, ppc, scanVars, batch, out>> /\ cpc' \in {"collecting", "returned"}
      BY <2>3 DEF Receive
    <3>2. Len(out) \in Nat /\ got \in 0..Len(out) /\ OutCap \in Nat
      BY LenProperties, StreamAssumption DEF StreamInv, StreamTyped
    <3>3. StreamTyped'  BY <3>1, <3>2 DEF StreamInv, StreamTyped, scanVars
    <3>4. ppc # "none"
      <4>1. ppc = "none" => out = <<>>  BY DEF StreamInv, PlaceInv, Unopened
      <4> QED  BY <3>1, <3>2, <4>1
    <3>5. PlaceInv'  BY <3>1, <3>4 DEF StreamInv, PlaceInv, scanVars
    <3> QED  BY <3>3, <3>5 DEF StreamInv
  <2> QED  BY <1>3, <2>1, <2>2, <2>3 DEF Inner, Opening, Collect
<1>4. CASE Stream  BY <1>4, StreamKept
<1>5. CASE Cancel
  <2>1. ctx = "nil" /\ ctx' \in CtxEnds /\ UNCHANGED <<ppc, scanVars, batch, out, got, cpc>>
    BY <1>5 DEF Cancel, CtxOver
  <2>2. StreamTyped'  BY <2>1 DEF StreamInv, StreamTyped, scanVars
  <2>3. PlaceInv'  BY <2>1 DEF StreamInv, PlaceInv, Unopened, scanVars
  <2> QED  BY <2>2, <2>3 DEF StreamInv
<1> QED  BY <1>1, <1>2, <1>3, <1>4, <1>5 DEF RNext

CtlInv == StreamInv /\ RetryInv

LEMMA SaysWhyHolds ==
  ASSUME StreamInv
  PROVE  SaysWhy /\ got \in 0..Len(out) /\ Len(out) \in Nat /\ DOMAIN out = 1..Len(out)
<1>1. out \in Seq(Events) /\ got \in 0..Len(out)  BY DEF StreamInv, StreamTyped
<1>2. Len(out) \in Nat /\ DOMAIN out = 1..Len(out) /\ \A m \in 1..Len(out) : out[m] \in Events
  BY <1>1, LenProperties, ElementOfSeq
<1> QED  BY <1>1, <1>2 DEF SaysWhy, Events

LEMMA CtlInvHolds == RSpec => []CtlInv
<1>1. RInit => CtlInv
  <2>1. SUFFICES ASSUME RInit PROVE CtlInv  OBVIOUS
  <2>2. Unopened /\ ctx = "nil"  BY <2>1 DEF RInit, Init
  <2> QED  BY <2>1, <2>2, UnopenedIsTyped, RetryInit DEF CtlInv
<1>2. CtlInv /\ [RNext]_rvars => CtlInv'
  BY SaysWhyHolds, RetryStep, StreamStep DEF CtlInv
<1> QED  BY <1>1, <1>2, PTL DEF RSpec

-----------------------------------------------------------------------------
(* Type correctness, and no retry in vain.                                 *)

LEMMA CtlIsTyped == CtlInv => RTypeOK
<1> SUFFICES ASSUME CtlInv PROVE RTypeOK  OBVIOUS
<1>1. StreamTyped /\ PlaceInv /\ HttpInv /\ AgainInv /\ LastInv
  BY DEF CtlInv, StreamInv, RetryInv
<1>2. \A s \in Seq(Events) : s \in Seq(Event)
  <2>1. Events \subseteq Event  BY DEF Events
  <2> SUFFICES ASSUME NEW s \in Seq(Events) PROVE s \in Seq(Event)  OBVIOUS
  <2>2. Len(s) \in Nat /\ s \in [1..Len(s) -> Events]  BY LenProperties
  <2>3. s \in [1..Len(s) -> Event]  BY <2>1, <2>2
  <2> QED  BY <2>2, <2>3
<1>3. got \in Nat  BY <1>1, LenProperties DEF StreamTyped
<1>4. TypeOK  BY <1>1, <1>2, <1>3 DEF TypeOK, StreamTyped, PlaceInv, HttpInv, LastInv, Results
<1> QED  BY <1>1, <1>4 DEF RTypeOK, AgainInv, LastInv, Results

\* A request is sent again, by whichever of the two retries, only after a failure
\* that may be chance, and within the bounds of both (openrouter/retry.go:16-17,
\* helpers.go:20-25, 41-46).
THEOREM RetriesAreNotInVain == RSpec => NothingIsRetriedInVain
<1>1. CtlInv /\ [RNext]_rvars =>
        [hAt # "trying" /\ hAt' = "trying" =>
           /\ last \in {"none", "server", "rate"}
           /\ hTry <= HttpAttempts /\ aTry <= Again!Attempts]_rvars
  <2> SUFFICES ASSUME CtlInv, [RNext]_rvars, hAt # "trying", hAt' = "trying"
               PROVE  /\ last \in {"none", "server", "rate"}
                      /\ hTry <= HttpAttempts /\ aTry <= Again!Attempts
    OBVIOUS
  <2>1. HttpInv /\ AgainInv /\ LastInv  BY DEF CtlInv, RetryInv
  <2>2. hTry <= HttpAttempts /\ aTry <= Again!Attempts
    BY <2>1, AttemptsAreNat DEF HttpInv, AgainInv, Http!RetryTypeOK, Again!RetryTypeOK
  <2>3. hAt = "ready"
    <3>1. CASE Attempt  BY <3>1 DEF Attempt, Http!Do
    <3>2. CASE Inner
      <4>1. CASE Request
        BY <4>1 DEF Request, Http!Try, Http!Wait, Http!Bail, Http!Wake, Http!Cancelled, Http!Return
      <4>2. CASE RequestFails  BY <4>2 DEF RequestFails, Http!Fail, Http!Return
      <4>3. CASE Opens  BY <4>3 DEF Opens, Http!Succeed, Http!Return
      <4>4. CASE AskFails \/ Collect
        BY <4>4 DEF AskFails, Collect, Receive, SeeClosed, SeeContext, httpVars
      <4> QED  BY <3>2, <4>1, <4>2, <4>3, <4>4 DEF Inner, Opening
    <3>3. CASE Stream
      BY <3>3 DEF Stream, Reading, Sending, Scan, ScanEnds, ScanBreaks, EmitNext, EmitEnd, Close,
                  httpVars
    <3>4. CASE CallRetry \/ WaitAgain \/ CollectReturned \/ Cancel \/ UNCHANGED rvars
      BY <3>4 DEF CallRetry, WaitAgain, CollectReturned, Cancel, CtxOver, rvars, vars, httpVars
    <3> QED  BY <3>1, <3>2, <3>3, <3>4 DEF RNext
  <2>4. last \in {"none", "server", "rate"}
    BY <2>1, <2>3 DEF LastInv, HttpInv, Trying, Retried
  <2> QED  BY <2>2, <2>4
<1> QED  BY <1>1, CtlIsTyped, CtlInvHolds, PTL DEF RSpec, NothingIsRetriedInVain

-----------------------------------------------------------------------------
(* The order of the events.                                                *)

KindsOf(s) == {s[j].kind : j \in DOMAIN s}

\* Priced once, and after an error nothing but priced.
Orderly(s) ==
  /\ \A j, k \in DOMAIN s : j < k /\ s[j].kind = "error" => s[k].kind = "usage"
  /\ \A j, k \in DOMAIN s : s[j].kind = "usage" /\ s[k].kind = "usage" => j = k

OrderInv ==
  /\ "end" \in KindsOf(out) => ppc \in {"closing", "closed"}
  /\ ppc \in {"closing", "closed"} => ctx # "nil" \/ "end" \in KindsOf(out)
  /\ "end" \notin KindsOf(batch)
  /\ "usage" \in KindsOf(out) \cup KindsOf(batch) => usageSent
  /\ ~("usage" \in KindsOf(out) /\ "usage" \in KindsOf(batch))
  /\ "error" \in KindsOf(out) \cup KindsOf(batch) => sawError \/ body = "broken"
  /\ "error" \in KindsOf(out) => KindsOf(batch) \subseteq {"usage"}
  /\ Orderly(batch)

LEMMA ConcatIs ==
  ASSUME NEW S, NEW s \in Seq(S), NEW t \in Seq(S)
  PROVE  /\ s \o t \in Seq(S) /\ DOMAIN (s \o t) = 1..(Len(s) + Len(t))
         /\ Len(s \o t) = Len(s) + Len(t)
         /\ DOMAIN s = 1..Len(s) /\ DOMAIN t = 1..Len(t) /\ Len(s) \in Nat /\ Len(t) \in Nat
         /\ \A j \in 1..Len(s) : (s \o t)[j] = s[j]
         /\ \A j \in 1..Len(t) : (s \o t)[Len(s) + j] = t[j] /\ Len(s) + j \in DOMAIN (s \o t)
         /\ \A j \in DOMAIN (s \o t) :
              j \in 1..Len(s) \/ (j > Len(s) /\ j - Len(s) \in 1..Len(t) /\ (s \o t)[j] = t[j - Len(s)])
<1> DEFINE u == s \o t
<1>1. Len(s) \in Nat /\ Len(t) \in Nat /\ DOMAIN s = 1..Len(s) /\ DOMAIN t = 1..Len(t)
  BY LenProperties
<1>2. /\ u \in Seq(S) /\ Len(u) = Len(s) + Len(t)
      /\ \A j \in 1..(Len(s) + Len(t)) : u[j] = IF j <= Len(s) THEN s[j] ELSE t[j - Len(s)]
  BY ConcatProperties
<1> HIDE DEF u
<1>3. DOMAIN u = 1..(Len(s) + Len(t))  BY <1>2, LenProperties
<1>4. \A j \in 1..Len(s) : u[j] = s[j]  BY <1>1, <1>2
<1>5. \A j \in 1..Len(t) : u[Len(s) + j] = t[j] /\ Len(s) + j \in DOMAIN u
  <2> SUFFICES ASSUME NEW j \in 1..Len(t) PROVE u[Len(s) + j] = t[j] /\ Len(s) + j \in DOMAIN u
    OBVIOUS
  <2>1. Len(s) + j \in 1..(Len(s) + Len(t)) /\ ~(Len(s) + j <= Len(s)) /\ Len(s) + j - Len(s) = j
    BY <1>1
  <2> QED  BY <1>2, <1>3, <2>1
<1>6. \A j \in DOMAIN u :
        j \in 1..Len(s) \/ (j > Len(s) /\ j - Len(s) \in 1..Len(t) /\ u[j] = t[j - Len(s)])
  <2> SUFFICES ASSUME NEW j \in DOMAIN u, j \notin 1..Len(s)
               PROVE  j > Len(s) /\ j - Len(s) \in 1..Len(t) /\ u[j] = t[j - Len(s)]
    OBVIOUS
  <2>1. j > Len(s) /\ j - Len(s) \in 1..Len(t) /\ ~(j <= Len(s))  BY <1>1, <1>3
  <2> QED  BY <1>2, <1>3, <2>1
<1> QED  BY <1>1, <1>2, <1>3, <1>4, <1>5, <1>6 DEF u

LEMMA KindsOfConcat ==
  ASSUME NEW s \in Seq(Events), NEW t \in Seq(Events)
  PROVE  /\ KindsOf(s \o t) = KindsOf(s) \cup KindsOf(t)
         /\ Orderly(s) /\ Orderly(t) /\ ("error" \in KindsOf(s) => KindsOf(t) \subseteq {"usage"})
              /\ ~("usage" \in KindsOf(s) /\ "usage" \in KindsOf(t))
            => Orderly(s \o t)
<1> DEFINE u == s \o t
<1>1. /\ DOMAIN u = 1..(Len(s) + Len(t))
      /\ DOMAIN s = 1..Len(s) /\ DOMAIN t = 1..Len(t) /\ Len(s) \in Nat /\ Len(t) \in Nat
      /\ \A j \in 1..Len(s) : u[j] = s[j] /\ j \in DOMAIN u
      /\ \A j \in 1..Len(t) : u[Len(s) + j] = t[j] /\ Len(s) + j \in DOMAIN u
      /\ \A j \in DOMAIN u :
           j \in 1..Len(s) \/ (j > Len(s) /\ j - Len(s) \in 1..Len(t) /\ u[j] = t[j - Len(s)])
  BY ConcatIs
<1> HIDE DEF u
<1>2. KindsOf(u) = KindsOf(s) \cup KindsOf(t)
  <2>1. ASSUME NEW k \in KindsOf(u) PROVE k \in KindsOf(s) \cup KindsOf(t)
    <3>1. PICK j \in DOMAIN u : k = u[j].kind  BY DEF KindsOf
    <3> QED  BY <1>1, <3>1 DEF KindsOf
  <2>2. ASSUME NEW k \in KindsOf(s) PROVE k \in KindsOf(u)
    <3>1. PICK j \in DOMAIN s : k = s[j].kind  BY DEF KindsOf
    <3>2. j \in DOMAIN u /\ k = u[j].kind  BY <1>1, <3>1
    <3> QED  BY <3>2 DEF KindsOf
  <2>3. ASSUME NEW k \in KindsOf(t) PROVE k \in KindsOf(u)
    <3>1. PICK j \in DOMAIN t : k = t[j].kind  BY DEF KindsOf
    <3>2. Len(s) + j \in DOMAIN u /\ k = u[Len(s) + j].kind  BY <1>1, <3>1
    <3> QED  BY <3>2 DEF KindsOf
  <2> QED  BY <2>1, <2>2, <2>3
<1>3. ASSUME Orderly(s), Orderly(t), "error" \in KindsOf(s) => KindsOf(t) \subseteq {"usage"},
             ~("usage" \in KindsOf(s) /\ "usage" \in KindsOf(t))
      PROVE  Orderly(u)
  <2>1. \A j \in DOMAIN s : s[j].kind \in KindsOf(s)  BY DEF KindsOf
  <2>2. \A j \in DOMAIN t : t[j].kind \in KindsOf(t)  BY DEF KindsOf
  <2>3. ASSUME NEW j \in DOMAIN u, NEW k \in DOMAIN u, j < k, u[j].kind = "error"
        PROVE  u[k].kind = "usage"
    <3>1. CASE j \in 1..Len(s) /\ k \in 1..Len(s)
      BY <1>1, <1>3, <2>3, <3>1 DEF Orderly
    <3>2. CASE j \in 1..Len(s) /\ k \notin 1..Len(s)
      <4>1. s[j].kind = "error" /\ j \in DOMAIN s  BY <1>1, <2>3, <3>2
      <4>2. k - Len(s) \in DOMAIN t /\ u[k] = t[k - Len(s)]  BY <1>1, <3>2
      <4> QED  BY <1>3, <2>1, <2>2, <4>1, <4>2
    <3>3. CASE j \notin 1..Len(s)
      <4>1. j > Len(s) /\ j - Len(s) \in DOMAIN t /\ u[j] = t[j - Len(s)]  BY <1>1, <3>3
      <4>2. k \notin 1..Len(s)  BY <1>1, <2>3, <4>1
      <4>3. k - Len(s) \in DOMAIN t /\ u[k] = t[k - Len(s)]  BY <1>1, <4>2
      <4>4. j - Len(s) < k - Len(s)  BY <1>1, <2>3, <4>1, <4>3
      <4> QED  BY <1>3, <2>3, <4>1, <4>3, <4>4 DEF Orderly
    <3> QED  BY <3>1, <3>2, <3>3
  <2>4. ASSUME NEW j \in DOMAIN u, NEW k \in DOMAIN u, u[j].kind = "usage", u[k].kind = "usage"
        PROVE  j = k
    <3>1. CASE j \in 1..Len(s) /\ k \in 1..Len(s)
      BY <1>1, <1>3, <2>4, <3>1 DEF Orderly
    <3>2. CASE j \notin 1..Len(s) /\ k \notin 1..Len(s)
      <4>1. /\ j - Len(s) \in DOMAIN t /\ u[j] = t[j - Len(s)]
            /\ k - Len(s) \in DOMAIN t /\ u[k] = t[k - Len(s)]
        BY <1>1, <3>2
      <4>2. j - Len(s) = k - Len(s)  BY <1>3, <2>4, <4>1 DEF Orderly
      <4> QED  BY <1>1, <4>2
    <3>3. CASE j \in 1..Len(s) /\ k \notin 1..Len(s)
      BY <1>1, <1>3, <2>1, <2>2, <2>4, <3>3
    <3>4. CASE j \notin 1..Len(s) /\ k \in 1..Len(s)
      BY <1>1, <1>3, <2>1, <2>2, <2>4, <3>4
    <3> QED  BY <3>1, <3>2, <3>3, <3>4
  <2> QED  BY <2>3, <2>4 DEF Orderly
<1> QED  BY <1>2, <1>3 DEF u

LEMMA KindsOfOne ==
  /\ KindsOf(<<>>) = {} /\ Orderly(<<>>)
  /\ \A e : KindsOf(<<e>>) = {e.kind} /\ Orderly(<<e>>)
<1>1. KindsOf(<<>>) = {} /\ Orderly(<<>>)  BY DEF KindsOf, Orderly
<1>2. ASSUME NEW e PROVE KindsOf(<<e>>) = {e.kind} /\ Orderly(<<e>>)
  <2>1. DOMAIN <<e>> = {1} /\ <<e>>[1] = e  OBVIOUS
  <2> DEFINE s == <<e>>
  <2>2. DOMAIN s = {1} /\ s[1] = e  BY <2>1
  <2> HIDE DEF s
  <2>3. KindsOf(s) = {e.kind} /\ Orderly(s)  BY <2>2 DEF KindsOf, Orderly
  <2> QED  BY <2>3 DEF s
<1> QED  BY <1>1, <1>2

LEMMA KindsOfAppend ==
  ASSUME NEW s \in Seq(Events), NEW e \in Events
  PROVE  KindsOf(Append(s, e)) = KindsOf(s) \cup {e.kind}
<1>1. Append(s, e) = s \o <<e>> /\ <<e>> \in Seq(Events)  BY AppendIsConcat
<1> QED  BY <1>1, KindsOfConcat, KindsOfOne

\* What is left once the first event has been sent.
LEMMA KindsOfTail ==
  ASSUME NEW s \in Seq(Events), s # <<>>, Orderly(s)
  PROVE  /\ KindsOf(s) = {Head(s).kind} \cup KindsOf(Tail(s)) /\ Orderly(Tail(s))
         /\ Head(s).kind = "error" => KindsOf(Tail(s)) \subseteq {"usage"}
         /\ Head(s).kind = "usage" => "usage" \notin KindsOf(Tail(s))
<1> DEFINE t == Tail(s)
<1>1. /\ Len(s) \in Nat \ {0} /\ DOMAIN s = 1..Len(s)
      /\ DOMAIN t = 1..(Len(s) - 1) /\ Head(s) = s[1]
      /\ \A j \in 1..(Len(s) - 1) : t[j] = s[j + 1]
  BY HeadTailProperties, LenProperties, EmptySeq
<1> HIDE DEF t
<1>2. 1 \in DOMAIN s /\ \A j \in DOMAIN t : j + 1 \in DOMAIN s /\ t[j] = s[j + 1] /\ 1 < j + 1 /\ j \in Nat
  BY <1>1
<1>3. \A j \in DOMAIN s : j = 1 \/ (j - 1 \in DOMAIN t /\ s[j] = t[j - 1])
  <2> SUFFICES ASSUME NEW j \in DOMAIN s, j # 1 PROVE j - 1 \in DOMAIN t /\ s[j] = t[j - 1]
    OBVIOUS
  <2>1. j - 1 \in 1..(Len(s) - 1) /\ (j - 1) + 1 = j  BY <1>1
  <2> QED  BY <1>1, <2>1
<1>4. KindsOf(s) = {Head(s).kind} \cup KindsOf(t)  BY <1>1, <1>2, <1>3 DEF KindsOf
<1>5. Orderly(t)
  <2>1. ASSUME NEW j \in DOMAIN t, NEW k \in DOMAIN t, j < k, t[j].kind = "error"
        PROVE  t[k].kind = "usage"
    <3>1. j + 1 < k + 1  BY <1>2, <2>1
    <3> QED  BY <1>2, <2>1, <3>1 DEF Orderly
  <2>2. ASSUME NEW j \in DOMAIN t, NEW k \in DOMAIN t, t[j].kind = "usage", t[k].kind = "usage"
        PROVE  j = k
    <3>1. j + 1 = k + 1  BY <1>2, <2>2 DEF Orderly
    <3> QED  BY <1>2, <3>1
  <2> QED  BY <2>1, <2>2 DEF Orderly
<1>6. Head(s).kind = "error" => KindsOf(t) \subseteq {"usage"}
  BY <1>1, <1>2 DEF Orderly, KindsOf
<1>7. Head(s).kind = "usage" => "usage" \notin KindsOf(t)
  <2>1. ASSUME Head(s).kind = "usage", NEW j \in DOMAIN t, t[j].kind = "usage" PROVE FALSE
    <3>1. 1 = j + 1  BY <1>1, <1>2, <2>1 DEF Orderly
    <3> QED  BY <1>2, <3>1
  <2> QED  BY <2>1 DEF KindsOf
<1> QED  BY <1>4, <1>5, <1>6, <1>7 DEF t

LEMMA KindsOfCalls ==
  ASSUME NEW a \in [Indexes -> Seq(Nat)]
  PROVE  Calls(a) \in Seq(Events) /\ KindsOf(Calls(a)) \subseteq {"call"} /\ Orderly(Calls(a))
<1>1. /\ Calls(a) \in Seq(Events) /\ DOMAIN Calls(a) = 1..Len(Calls(a))
      /\ \A j \in 1..Len(Calls(a)) : Calls(a)[j].kind = "call"
  BY CallsAreEvents, CallsOfFlush
<1> QED  BY <1>1 DEF KindsOf, Orderly

\* What a chunk has to send is in order by itself.
LEMMA ScanOrderly ==
  ASSUME StreamInv, NEW c \in Chunks, Scan(c)
  PROVE  /\ Orderly(batch') /\ "end" \notin KindsOf(batch')
         /\ "usage" \in KindsOf(batch') => c.usage /\ ~usageSent
         /\ "error" \in KindsOf(batch') => sawError'
         /\ sawError => KindsOf(batch') \subseteq {"usage"} /\ sawError'
<1> DEFINE k == Len(heard')
           a == Fed(c, k)
           text == TextOf(c, k)
           usage == UsageOf(c, k)
           done == IF c.finish = "none" THEN <<>> ELSE Calls(a)
           bad == IF c.finish \in Failures THEN <<ErrorEv(Class(c.finish))>> ELSE <<>>
<1>1. k \in Nat /\ sawError \in BOOLEAN /\ asm \in [Indexes -> Seq(Nat)]
  BY ScanTyped DEF StreamInv, StreamTyped
<1>2. a \in [Indexes -> Seq(Nat)]
  BY <1>1, FedIsTyped DEF StreamInv
<1>c. AfterError(c, k) \/ Envelope(c, k) \/ Choice(c, k)  BY DEF Scan
<1> HIDE DEF k
<1>3. /\ usage \in Seq(Events) /\ KindsOf(usage) \subseteq {"usage"} /\ Orderly(usage)
      /\ "usage" \in KindsOf(usage) => c.usage /\ ~usageSent
  <2>1. Ev("usage", k).kind = "usage"  BY <1>1, EventsOfTypes
  <2> QED  BY <1>1, <2>1, PartsOfBatch, KindsOfOne DEF UsageOf
<1>4. text \in Seq(Events) /\ KindsOf(text) \subseteq {"text"} /\ Orderly(text)
  <2>1. Ev("text", k).kind = "text"  BY <1>1, EventsOfTypes
  <2> QED  BY <1>1, <2>1, PartsOfBatch, KindsOfOne DEF TextOf
<1>5. \A f \in Failures : LET err == <<ErrorEv(Class(f))>>
                          IN  err \in Seq(Events) /\ KindsOf(err) = {"error"} /\ Orderly(err)
  <2> SUFFICES ASSUME NEW f \in Failures
               PROVE  /\ <<ErrorEv(Class(f))>> \in Seq(Events)
                      /\ KindsOf(<<ErrorEv(Class(f))>>) = {"error"} /\ Orderly(<<ErrorEv(Class(f))>>)
    OBVIOUS
  <2>1. ErrorEv(Class(f)) \in Events /\ ErrorEv(Class(f)).kind = "error"
    BY ClassIsError, EventsOfTypes
  <2> QED  BY <2>1, KindsOfOne
<1>6. <<>> \in Seq(Events) /\ KindsOf(<<>>) = {} /\ Orderly(<<>>)  BY KindsOfOne
<1>7. done \in Seq(Events) /\ KindsOf(done) \subseteq {"call"} /\ Orderly(done)
  BY <1>2, <1>6, KindsOfCalls
<1>8. /\ bad \in Seq(Events) /\ KindsOf(bad) \subseteq {"error"} /\ Orderly(bad)
      /\ "error" \in KindsOf(bad) => c.finish \in Failures
  BY <1>5, <1>6
<1>9. CASE AfterError(c, k)
  <2>1. sawError /\ batch' = usage /\ sawError' = sawError  BY <1>9 DEF AfterError
  <2> HIDE DEF usage
  <2> QED  BY <1>3, <2>1
<1>10. CASE Envelope(c, k)
  <2> DEFINE err == <<ErrorEv(Class(c.error))>>
             calls == Calls(asm)
  <2>1. batch' = calls \o usage \o err /\ sawError' = TRUE /\ ~sawError /\ c.error \in Failures
    BY <1>10, ChunkFields DEF Envelope
  <2>2. err \in Seq(Events) /\ KindsOf(err) = {"error"} /\ Orderly(err)  BY <1>5, <2>1
  <2>3. calls \in Seq(Events) /\ KindsOf(calls) \subseteq {"call"} /\ Orderly(calls)
    BY <1>1, KindsOfCalls
  <2> HIDE DEF usage, err, calls
  <2>4. /\ calls \o usage \in Seq(Events) /\ Orderly(calls \o usage)
        /\ KindsOf(calls \o usage) = KindsOf(calls) \cup KindsOf(usage)
    BY <1>3, <2>3, KindsOfConcat, ConcatProperties
  <2>5. /\ Orderly(calls \o usage \o err)
        /\ KindsOf(calls \o usage \o err) = KindsOf(calls) \cup KindsOf(usage) \cup {"error"}
    <3> DEFINE head == calls \o usage
    <3>1. head \in Seq(Events) /\ Orderly(head) /\ KindsOf(head) \subseteq {"call", "usage"}
      BY <1>3, <2>3, <2>4
    <3> HIDE DEF head
    <3>2. Orderly(head \o err) /\ KindsOf(head \o err) = KindsOf(head) \cup {"error"}
      BY <2>2, <3>1, KindsOfConcat
    <3> QED  BY <2>4, <3>2 DEF head
  <2> QED  BY <1>3, <2>1, <2>3, <2>5
<1>11. CASE Choice(c, k)
  <2>1. /\ batch' = text \o done \o bad \o usage /\ ~sawError
        /\ sawError' = (c.finish \in Failures)
    BY <1>11 DEF Choice
  <2> HIDE DEF a, text, done, bad, usage
  <2>2. /\ text \o done \in Seq(Events) /\ Orderly(text \o done)
        /\ KindsOf(text \o done) = KindsOf(text) \cup KindsOf(done)
    BY <1>4, <1>7, KindsOfConcat, ConcatProperties
  <2>3. /\ text \o done \o bad \in Seq(Events) /\ Orderly(text \o done \o bad)
        /\ KindsOf(text \o done \o bad) = KindsOf(text) \cup KindsOf(done) \cup KindsOf(bad)
    BY <1>4, <1>7, <1>8, <2>2, KindsOfConcat, ConcatProperties
  <2>4. /\ Orderly(text \o done \o bad \o usage)
        /\ KindsOf(text \o done \o bad \o usage)
             = KindsOf(text) \cup KindsOf(done) \cup KindsOf(bad) \cup KindsOf(usage)
    BY <1>3, <1>4, <1>7, <1>8, <2>3, KindsOfConcat
  <2> QED  BY <1>3, <1>4, <1>7, <1>8, <2>1, <2>4
<1> QED  BY <1>c, <1>9, <1>10, <1>11

LEMMA OrderStep ==
  ASSUME CtlInv, OrderInv, [RNext]_rvars
  PROVE  OrderInv'
<1>i. StreamTyped /\ PlaceInv /\ LastInv  BY DEF CtlInv, StreamInv, RetryInv
<1>o. out \in Seq(Events) /\ batch \in Seq(Events)  BY <1>i DEF StreamTyped
<1>u. ASSUME UNCHANGED <<ctx, ppc, sawError, usageSent, body, batch, out>> PROVE OrderInv'
  BY <1>u DEF OrderInv, KindsOf, Orderly
<1>1. CASE CallRetry \/ WaitAgain \/ CollectReturned \/ UNCHANGED rvars
  BY <1>1, <1>u DEF CallRetry, WaitAgain, CollectReturned, rvars, vars, scanVars
<1>2. CASE Attempt
  <2>1. out' = <<>> /\ batch' = <<>> /\ ppc' = "none"  BY <1>2 DEF Attempt
  <2> QED  BY <2>1 DEF OrderInv, KindsOf, Orderly
<1>3. CASE Inner
  <2>1. CASE Request \/ RequestFails \/ AskFails \/ Collect
    BY <2>1, <1>u DEF Request, RequestFails, AskFails, Collect, Receive, SeeClosed, SeeContext, scanVars
  <2>2. CASE Opens
    <3>1. /\ hAt = "trying" /\ ppc' = "scanning"
          /\ UNCHANGED <<ctx, sawError, usageSent, body, batch, out>>
      BY <2>2 DEF Opens, Http!Succeed, scanVars
    <3>2. ppc = "none"  BY <1>i, <3>1 DEF LastInv, Trying, PlaceInv
    <3> QED  BY <3>1, <3>2 DEF OrderInv, KindsOf, Orderly
  <2> QED  BY <1>3, <2>1, <2>2 DEF Inner, Opening
<1>4. CASE Stream
  <2>1. ASSUME NEW c \in Chunks, Scan(c) PROVE OrderInv'
    <3>1. /\ ppc = "scanning" /\ ppc' \in {"scanning", "emitting"} /\ body = "open"
          /\ usageSent' = (usageSent \/ c.usage) /\ UNCHANGED <<ctx, body, out>>
      BY <1>i, <2>1 DEF Scan, PlaceInv
    <3>2. /\ Orderly(batch') /\ "end" \notin KindsOf(batch')
          /\ "usage" \in KindsOf(batch') => c.usage /\ ~usageSent
          /\ "error" \in KindsOf(batch') => sawError'
          /\ sawError => KindsOf(batch') \subseteq {"usage"} /\ sawError'
      BY <2>1, ScanOrderly DEF CtlInv
    <3>3. KindsOf(out') = KindsOf(out) /\ Orderly(batch)' = Orderly(batch')
      BY <3>1 DEF KindsOf, Orderly
    <3>4. KindsOf(batch)' = KindsOf(batch') /\ KindsOf(out)' = KindsOf(out')
      BY DEF KindsOf
    <3>5. "error" \in KindsOf(out) => sawError  BY <3>1 DEF OrderInv
    <3> QED  BY <3>1, <3>2, <3>3, <3>4, <3>5 DEF OrderInv
  <2>2. CASE ScanEnds
    <3>1. /\ ppc = "scanning" /\ ppc' = "ending" /\ body = "open"
          /\ UNCHANGED <<ctx, sawError, usageSent, batch, out>>
      BY <1>i, <2>2 DEF ScanEnds, PlaceInv
    <3> QED  BY <3>1 DEF OrderInv, KindsOf, Orderly
  <2>3. CASE ScanBreaks
    <3>1. /\ ppc = "scanning" /\ body' = "broken" /\ body = "open" /\ UNCHANGED <<ctx, sawError, usageSent, out>>
      BY <1>i, <2>3 DEF ScanBreaks, PlaceInv
    <3>2. CASE sawError
      <4>1. ppc' = "ending" /\ batch' = batch  BY <2>3, <3>2 DEF ScanBreaks
      <4> QED  BY <3>1, <4>1 DEF OrderInv, KindsOf, Orderly
    <3>3. CASE ~sawError
      <4> DEFINE err == <<ErrorEv("server")>>
                 calls == Calls(asm)
      <4>1. ppc' = "emitting" /\ batch' = calls \o err  BY <2>3, <3>3 DEF ScanBreaks
      <4>2. err \in Seq(Events) /\ KindsOf(err) = {"error"} /\ Orderly(err)
        <5>1. ErrorEv("server") \in Events /\ ErrorEv("server").kind = "error"
          BY EventsOfTypes DEF Errors
        <5> QED  BY <5>1, KindsOfOne
      <4>3. calls \in Seq(Events) /\ KindsOf(calls) \subseteq {"call"} /\ Orderly(calls)
        BY <1>i, KindsOfCalls DEF StreamTyped
      <4> HIDE DEF err, calls
      <4>4. Orderly(calls \o err) /\ KindsOf(calls \o err) = KindsOf(calls) \cup {"error"}
        BY <4>2, <4>3, KindsOfConcat
      <4>5. Orderly(batch') /\ KindsOf(batch') \subseteq {"call", "error"}
        BY <4>1, <4>3, <4>4
      <4>6. "error" \notin KindsOf(out)  BY <3>1, <3>3 DEF OrderInv
      <4>7. /\ KindsOf(batch)' = KindsOf(batch') /\ KindsOf(out)' = KindsOf(out)
            /\ Orderly(batch)' = Orderly(batch')
        BY <3>1 DEF KindsOf, Orderly
      <4> QED  BY <3>1, <4>1, <4>5, <4>6, <4>7 DEF OrderInv
    <3> QED  BY <3>2, <3>3
  <2>4. CASE EmitNext
    <3>1. /\ ppc = "emitting" /\ Emit(Head(batch)) /\ batch' = Tail(batch) /\ UNCHANGED <<ctx, scanVars>>
          /\ ppc' \in {"emitting", "scanning", "ending"}
      BY <2>4 DEF EmitNext
    <3>2. batch # <<>> /\ Orderly(batch)  BY <1>i, <3>1 DEF PlaceInv, OrderInv
    <3>3. /\ KindsOf(batch) = {Head(batch).kind} \cup KindsOf(Tail(batch)) /\ Orderly(Tail(batch))
          /\ Head(batch).kind = "error" => KindsOf(Tail(batch)) \subseteq {"usage"}
          /\ Head(batch).kind = "usage" => "usage" \notin KindsOf(Tail(batch))
      BY <1>o, <3>2, KindsOfTail
    <3>4. KindsOf(out') = KindsOf(out) \/ KindsOf(out') = KindsOf(out) \cup {Head(batch).kind}
      <4>1. Head(batch) \in Events  BY <1>o, <3>2, HeadTailProperties
      <4> QED  BY <1>o, <3>1, <4>1, KindsOfAppend DEF Emit
    <3>5. /\ KindsOf(batch)' = KindsOf(Tail(batch)) /\ KindsOf(out)' = KindsOf(out')
          /\ Orderly(batch)' = Orderly(Tail(batch))
      BY <3>1 DEF KindsOf, Orderly
    <3> QED  BY <3>1, <3>3, <3>4, <3>5 DEF OrderInv, scanVars
  <2>5. CASE EmitEnd
    <3>1. /\ ppc = "ending" /\ ppc' = "closing" /\ Emit(Ev("end", 0)) /\ UNCHANGED <<ctx, scanVars, batch>>
      BY <2>5 DEF EmitEnd
    <3>2. Ev("end", 0) \in Events /\ Ev("end", 0).kind = "end"  BY EventsOfTypes
    <3>3. \/ KindsOf(out') = KindsOf(out) /\ ctx # "nil"
          \/ KindsOf(out') = KindsOf(out) \cup {"end"}
      BY <1>o, <3>1, <3>2, KindsOfAppend DEF Emit, KindsOf
    <3>4. batch = <<>>  BY <1>i, <3>1 DEF PlaceInv
    <3>5. /\ KindsOf(batch)' = {} /\ KindsOf(batch) = {} /\ KindsOf(out)' = KindsOf(out')
          /\ Orderly(batch)'
      BY <3>1, <3>4 DEF KindsOf, Orderly
    <3> QED  BY <3>1, <3>3, <3>5 DEF OrderInv, scanVars
  <2>6. CASE Close
    <3>1. /\ ppc = "closing" /\ ppc' = "closed"
          /\ UNCHANGED <<ctx, sawError, usageSent, body, batch, out>>
      BY <2>6 DEF Close, scanVars
    <3> QED  BY <3>1 DEF OrderInv, KindsOf, Orderly
  <2> QED  BY <1>4, <2>1, <2>2, <2>3, <2>4, <2>5, <2>6 DEF Stream, Reading, Sending
<1>5. CASE Cancel
  <2>1. ctx = "nil" /\ ctx' \in CtxEnds /\ UNCHANGED <<ppc, sawError, usageSent, body, batch, out>>
    BY <1>5 DEF Cancel, CtxOver, scanVars
  <2>2. ctx' # "nil"  BY <2>1, StreamAssumption
  <2> QED  BY <2>1, <2>2 DEF OrderInv, KindsOf, Orderly
<1> QED  BY <1>1, <1>2, <1>3, <1>4, <1>5 DEF RNext

LEMMA OrderInvHolds == RSpec => [](CtlInv /\ OrderInv)
<1>1. RInit => OrderInv
  BY KindsOfOne DEF RInit, Init, Unopened, OrderInv
<1>2. OrderInv /\ CtlInv /\ [RNext]_rvars => OrderInv'  BY OrderStep
<1> QED  BY <1>1, <1>2, CtlInvHolds, PTL DEF RSpec

-----------------------------------------------------------------------------
(* The stream is one that llm.Client promises.                             *)

Shown == [i \in DOMAIN out |-> out[i].kind]
Following == <<Shown, ppc = "closed", ctx # "nil">>

LEMMA StreamStays ==
  ASSUME out' = out, ctx' = ctx, (ppc' = "closed") = (ppc = "closed")
  PROVE  UNCHANGED Following
BY DEF Following, Shown

LEMMA SentIsKinds ==
  ASSUME NEW k
  PROVE  Promised!Sent(k) <=> k \in KindsOf(out)
BY DEF Promised!Sent, KindsOf

\* An event that may follow those sent is sent.
LEMMA SendingIsPromised ==
  ASSUME out \in Seq(Events), NEW e \in Events, out' = Append(out, e), ctx' = ctx,
         ppc # "closed", ppc' # "closed", "end" \notin KindsOf(out),
         "error" \in KindsOf(out) => e.kind \in {"usage", "end"},
         e.kind = "usage" => "usage" \notin KindsOf(out)
  PROVE  \E k \in Kinds : Promised!Send(k)
<1>1. e.kind \in Kinds  BY DEF Events, Event
<1>2. Shown' = Append(Shown, e.kind)
  <2>1. /\ Len(out) \in Nat /\ DOMAIN out = 1..Len(out) /\ DOMAIN out' = 1..(Len(out) + 1)
        /\ \A i \in 1..Len(out) : out'[i] = out[i]
        /\ out'[Len(out) + 1] = e
    BY AppendProperties, LenProperties
  <2>2. Shown \in Seq(Kinds) /\ Len(Shown) = Len(out) /\ \A i \in 1..Len(out) : Shown[i] = out[i].kind
    <3>1. \A i \in 1..Len(out) : out[i].kind \in Kinds
      <4>1. \A i \in 1..Len(out) : out[i] \in Events  BY <2>1, ElementOfSeq
      <4> QED  BY <4>1 DEF Events, Event
    <3>2. Shown = [i \in 1..Len(out) |-> out[i].kind]  BY <2>1 DEF Shown
    <3> QED  BY <2>1, <3>1, <3>2
  <2>3. /\ Append(Shown, e.kind) \in Seq(Kinds)
        /\ Len(Append(Shown, e.kind)) = Len(out) + 1
        /\ \A i \in 1..Len(out) : Append(Shown, e.kind)[i] = out[i].kind
        /\ Append(Shown, e.kind)[Len(out) + 1] = e.kind
    BY <1>1, <2>1, <2>2, AppendProperties
  <2>4. Shown' = [i \in 1..(Len(out) + 1) |-> out'[i].kind]  BY <2>1 DEF Shown
  <2>5. Append(Shown, e.kind) = [i \in 1..(Len(out) + 1) |-> Append(Shown, e.kind)[i]]
    BY <2>3, LenProperties
  <2>6. \A i \in 1..(Len(out) + 1) : out'[i].kind = Append(Shown, e.kind)[i]
    BY <2>1, <2>3
  <2> QED  BY <2>4, <2>5, <2>6
<1>3. Promised!Send(e.kind)
  BY <1>2, SentIsKinds DEF Promised!Send, Shown
<1> QED  BY <1>1, <1>3

LEMMA StepIsPromised ==
  ASSUME CtlInv, OrderInv, [RNext]_rvars
  PROVE  Promised!StreamNext \/ UNCHANGED Following
<1>i. StreamTyped /\ PlaceInv /\ LastInv  BY DEF CtlInv, StreamInv, RetryInv
<1>o. out \in Seq(Events) /\ batch \in Seq(Events)  BY <1>i DEF StreamTyped
<1>1. CASE CallRetry \/ WaitAgain \/ CollectReturned \/ UNCHANGED rvars
  BY <1>1, StreamStays DEF CallRetry, WaitAgain, CollectReturned, rvars, vars
<1>2. CASE Attempt
  <2>1. out' = <<>> /\ ppc' = "none" /\ ctx' = ctx  BY <1>2 DEF Attempt
  <2>2. Shown' = <<>>  BY <2>1 DEF Shown
  <2> QED  BY <2>1, <2>2 DEF Promised!StreamNext, Promised!Open, Shown
<1>3. CASE Inner
  <2>1. CASE Request \/ RequestFails \/ AskFails \/ Collect
    BY <2>1, StreamStays DEF Request, RequestFails, AskFails, Collect, Receive, SeeClosed, SeeContext
  <2>2. CASE Opens
    <3>1. hAt = "trying" /\ ppc' = "scanning" /\ UNCHANGED <<ctx, out>>
      BY <2>2 DEF Opens, Http!Succeed
    <3>2. ppc = "none"  BY <1>i, <3>1 DEF LastInv, Trying, PlaceInv
    <3> QED  BY <3>1, <3>2, StreamStays
  <2> QED  BY <1>3, <2>1, <2>2 DEF Inner, Opening
<1>4. CASE Stream
  <2>1. CASE Reading
    <3>1. ppc = "scanning" /\ ppc' # "closed" /\ UNCHANGED <<ctx, out>>
      BY <2>1 DEF Reading, Scan, ScanEnds, ScanBreaks
    <3> QED  BY <3>1, StreamStays
  <2>2. CASE EmitNext
    <3>1. ppc = "emitting" /\ Emit(Head(batch)) /\ ppc' # "closed" /\ ctx' = ctx
      BY <2>2 DEF EmitNext
    <3>2. batch # <<>>  BY <1>i, <3>1 DEF PlaceInv
    <3>3. Head(batch) \in Events  BY <1>o, <3>2, HeadTailProperties
    <3>4. Head(batch).kind \in KindsOf(batch)  BY <1>o, <3>2, KindsOfTail DEF OrderInv
    <3>5. CASE out' = Append(out, Head(batch))
      <4>1. /\ "end" \notin KindsOf(out)
            /\ "error" \in KindsOf(out) => Head(batch).kind \in {"usage", "end"}
            /\ Head(batch).kind = "usage" => "usage" \notin KindsOf(out)
        BY <3>1, <3>4 DEF OrderInv
      <4> QED  BY <1>o, <3>1, <3>3, <3>5, <4>1, SendingIsPromised DEF Promised!StreamNext
    <3>6. CASE out' = out  BY <3>1, <3>6, StreamStays
    <3> QED  BY <3>1, <3>5, <3>6 DEF Emit
  <2>3. CASE EmitEnd
    <3>1. ppc = "ending" /\ Emit(Ev("end", 0)) /\ ppc' = "closing" /\ ctx' = ctx
      BY <2>3 DEF EmitEnd
    <3>2. Ev("end", 0) \in Events /\ Ev("end", 0).kind = "end"  BY EventsOfTypes
    <3>3. CASE out' = Append(out, Ev("end", 0))
      <4>1. "end" \notin KindsOf(out)  BY <3>1 DEF OrderInv
      <4> QED  BY <1>o, <3>1, <3>2, <3>3, <4>1, SendingIsPromised DEF Promised!StreamNext
    <3>4. CASE out' = out  BY <3>1, <3>4, StreamStays
    <3> QED  BY <3>1, <3>3, <3>4 DEF Emit
  <2>4. CASE Close
    <3>1. ppc = "closing" /\ ppc' = "closed" /\ UNCHANGED <<ctx, out>>  BY <2>4 DEF Close
    <3>2. ctx # "nil" \/ Promised!Sent("end")  BY <3>1, SentIsKinds DEF OrderInv
    <3> QED  BY <3>1, <3>2 DEF Promised!StreamNext, Promised!Close
  <2> QED  BY <1>4, <2>1, <2>2, <2>3, <2>4 DEF Stream, Sending
<1>5. CASE Cancel
  <2>1. ctx = "nil" /\ ctx' \in CtxEnds /\ UNCHANGED <<ppc, out>>
    BY <1>5 DEF Cancel, CtxOver
  <2>2. ctx' # "nil"  BY <2>1, StreamAssumption
  <2> QED  BY <2>1, <2>2 DEF Promised!StreamNext, Promised!Cut
<1> QED  BY <1>1, <1>2, <1>3, <1>4, <1>5 DEF RNext

\* The channel of a stream, of each that the retries open, is what llm.Client
\* promises: one price, one end and nothing after it, and after an error only
\* those two (sse.go:62-64, 113-119, client.go:109).
THEOREM StreamsAsPromised == RSpec => StreamIsOrderly
<1>1. RInit => Promised!StreamInit
  <2>1. SUFFICES ASSUME RInit PROVE Promised!StreamInit  OBVIOUS
  <2>2. out = <<>> /\ ppc = "none" /\ ctx = "nil"  BY <2>1 DEF RInit, Init, Unopened
  <2> QED  BY <2>2 DEF Promised!StreamInit
<1>2. CtlInv /\ OrderInv /\ [RNext]_rvars => Promised!StreamNext \/ UNCHANGED Following
  BY StepIsPromised
<1>3. UNCHANGED Following =>
        UNCHANGED <<[i \in DOMAIN out |-> out[i].kind], ppc = "closed", ctx # "nil">>
  BY DEF Following, Shown
<1> QED  BY <1>1, <1>2, <1>3, OrderInvHolds, PTL DEF RSpec, StreamIsOrderly, Promised!StreamSpec

-----------------------------------------------------------------------------
(* The text and the fragments that events tell.                            *)

TextsIn(s) == {m \in DOMAIN s : s[m].kind = "text"}
TextPlaces(s) == {s[m].n : m \in TextsIn(s)}
TextAscends(s) == \A l, m \in TextsIn(s) : l < m => s[l].n < s[m].n

CallsIn(s, i) == {m \in DOMAIN s : s[m].kind = "call" /\ s[m].n = i}
PartsIn(s, i) == UNION {Range(s[m].parts) : m \in CallsIn(s, i)}
PartsAscend(s, i) ==
  /\ \A m \in CallsIn(s, i) : Ascending(s[m].parts)
  /\ \A l, m \in CallsIn(s, i) : l < m =>
       \A p \in Range(s[l].parts), q \in Range(s[m].parts) : p < q

LEMMA TextConcat ==
  ASSUME NEW s \in Seq(Events), NEW t \in Seq(Events)
  PROVE  /\ TextPlaces(s \o t) = TextPlaces(s) \cup TextPlaces(t)
         /\ TextAscends(s) /\ TextAscends(t) /\ (\A p \in TextPlaces(s), q \in TextPlaces(t) : p < q)
              => TextAscends(s \o t)
<1> DEFINE u == s \o t
<1>1. /\ DOMAIN u = 1..(Len(s) + Len(t))
      /\ DOMAIN s = 1..Len(s) /\ DOMAIN t = 1..Len(t) /\ Len(s) \in Nat /\ Len(t) \in Nat
      /\ \A j \in 1..Len(s) : u[j] = s[j] /\ j \in DOMAIN u
      /\ \A j \in 1..Len(t) : u[Len(s) + j] = t[j] /\ Len(s) + j \in DOMAIN u
      /\ \A j \in DOMAIN u :
           j \in 1..Len(s) \/ (j > Len(s) /\ j - Len(s) \in 1..Len(t) /\ u[j] = t[j - Len(s)])
  BY ConcatIs
<1> HIDE DEF u
<1>2. \A m \in TextsIn(u) :
        \/ m \in TextsIn(s) /\ m <= Len(s) /\ u[m] = s[m]
        \/ m > Len(s) /\ m - Len(s) \in TextsIn(t) /\ u[m] = t[m - Len(s)]
  BY <1>1 DEF TextsIn
<1>3. \A m \in TextsIn(s) : m \in TextsIn(u) /\ u[m] = s[m]  BY <1>1 DEF TextsIn
<1>4. \A m \in TextsIn(t) : Len(s) + m \in TextsIn(u) /\ u[Len(s) + m] = t[m]
  BY <1>1 DEF TextsIn
<1>5. TextPlaces(u) = TextPlaces(s) \cup TextPlaces(t)
  <2>1. ASSUME NEW p \in TextPlaces(u) PROVE p \in TextPlaces(s) \cup TextPlaces(t)
    <3>1. PICK m \in TextsIn(u) : p = u[m].n  BY DEF TextPlaces
    <3> QED  BY <1>2, <3>1 DEF TextPlaces
  <2>2. ASSUME NEW p \in TextPlaces(s) PROVE p \in TextPlaces(u)
    <3>1. PICK m \in TextsIn(s) : p = s[m].n  BY DEF TextPlaces
    <3> QED  BY <1>3, <3>1 DEF TextPlaces
  <2>3. ASSUME NEW p \in TextPlaces(t) PROVE p \in TextPlaces(u)
    <3>1. PICK m \in TextsIn(t) : p = t[m].n  BY DEF TextPlaces
    <3> QED  BY <1>4, <3>1 DEF TextPlaces
  <2> QED  BY <2>1, <2>2, <2>3
<1>6. ASSUME TextAscends(s), TextAscends(t), \A p \in TextPlaces(s), q \in TextPlaces(t) : p < q,
             NEW l \in TextsIn(u), NEW m \in TextsIn(u), l < m
      PROVE  u[l].n < u[m].n
  <2>1. l \in DOMAIN u /\ m \in DOMAIN u /\ l \in Nat /\ m \in Nat  BY <1>1 DEF TextsIn
  <2>2. CASE m \in TextsIn(s) /\ m <= Len(s) /\ u[m] = s[m]
    <3>1. l \in TextsIn(s) /\ u[l] = s[l]  BY <1>1, <1>2, <1>6, <2>1, <2>2
    <3> QED  BY <1>6, <2>2, <3>1 DEF TextAscends
  <2>3. CASE m > Len(s) /\ m - Len(s) \in TextsIn(t) /\ u[m] = t[m - Len(s)]
    <3>1. u[m].n \in TextPlaces(t)  BY <2>3 DEF TextPlaces
    <3>2. CASE l \in TextsIn(s) /\ u[l] = s[l]
      <4>1. u[l].n \in TextPlaces(s)  BY <3>2 DEF TextPlaces
      <4> QED  BY <1>6, <3>1, <4>1
    <3>3. CASE l > Len(s) /\ l - Len(s) \in TextsIn(t) /\ u[l] = t[l - Len(s)]
      <4>1. l - Len(s) < m - Len(s)  BY <1>1, <1>6, <2>1
      <4> QED  BY <1>6, <2>3, <3>3, <4>1 DEF TextAscends
    <3> QED  BY <1>2, <3>2, <3>3
  <2> QED  BY <1>2, <2>2, <2>3
<1>7. TextAscends(s) /\ TextAscends(t) /\ (\A p \in TextPlaces(s), q \in TextPlaces(t) : p < q)
        => TextAscends(u)
  BY <1>6 DEF TextAscends
<1> QED  BY <1>5, <1>7 DEF u

LEMMA PartsConcat ==
  ASSUME NEW s \in Seq(Events), NEW t \in Seq(Events), NEW i
  PROVE  /\ PartsIn(s \o t, i) = PartsIn(s, i) \cup PartsIn(t, i)
         /\ PartsAscend(s, i) /\ PartsAscend(t, i) /\ (\A p \in PartsIn(s, i), q \in PartsIn(t, i) : p < q)
              => PartsAscend(s \o t, i)
<1> DEFINE u == s \o t
<1>1. /\ DOMAIN u = 1..(Len(s) + Len(t))
      /\ DOMAIN s = 1..Len(s) /\ DOMAIN t = 1..Len(t) /\ Len(s) \in Nat /\ Len(t) \in Nat
      /\ \A j \in 1..Len(s) : u[j] = s[j] /\ j \in DOMAIN u
      /\ \A j \in 1..Len(t) : u[Len(s) + j] = t[j] /\ Len(s) + j \in DOMAIN u
      /\ \A j \in DOMAIN u :
           j \in 1..Len(s) \/ (j > Len(s) /\ j - Len(s) \in 1..Len(t) /\ u[j] = t[j - Len(s)])
  BY ConcatIs
<1> HIDE DEF u
<1>2. \A m \in CallsIn(u, i) :
        \/ m \in CallsIn(s, i) /\ m <= Len(s) /\ u[m] = s[m]
        \/ m > Len(s) /\ m - Len(s) \in CallsIn(t, i) /\ u[m] = t[m - Len(s)]
  BY <1>1 DEF CallsIn
<1>3. \A m \in CallsIn(s, i) : m \in CallsIn(u, i) /\ u[m] = s[m]  BY <1>1 DEF CallsIn
<1>4. \A m \in CallsIn(t, i) : Len(s) + m \in CallsIn(u, i) /\ u[Len(s) + m] = t[m]
  BY <1>1 DEF CallsIn
<1>5. PartsIn(u, i) = PartsIn(s, i) \cup PartsIn(t, i)
  <2>1. ASSUME NEW p \in PartsIn(u, i) PROVE p \in PartsIn(s, i) \cup PartsIn(t, i)
    <3>1. PICK m \in CallsIn(u, i) : p \in Range(u[m].parts)  BY DEF PartsIn
    <3>2. CASE m \in CallsIn(s, i) /\ u[m] = s[m]  BY <3>1, <3>2 DEF PartsIn
    <3>3. CASE m - Len(s) \in CallsIn(t, i) /\ u[m] = t[m - Len(s)]  BY <3>1, <3>3 DEF PartsIn
    <3> QED  BY <1>2, <3>2, <3>3
  <2>2. ASSUME NEW p \in PartsIn(s, i) PROVE p \in PartsIn(u, i)
    <3>1. PICK m \in CallsIn(s, i) : p \in Range(s[m].parts)  BY DEF PartsIn
    <3>2. m \in CallsIn(u, i) /\ p \in Range(u[m].parts)  BY <1>3, <3>1
    <3> QED  BY <3>2 DEF PartsIn
  <2>3. ASSUME NEW p \in PartsIn(t, i) PROVE p \in PartsIn(u, i)
    <3>1. PICK m \in CallsIn(t, i) : p \in Range(t[m].parts)  BY DEF PartsIn
    <3>2. Len(s) + m \in CallsIn(u, i) /\ p \in Range(u[Len(s) + m].parts)  BY <1>4, <3>1
    <3> QED  BY <3>2 DEF PartsIn
  <2> QED  BY <2>1, <2>2, <2>3
<1>6. ASSUME PartsAscend(s, i), PartsAscend(t, i), \A p \in PartsIn(s, i), q \in PartsIn(t, i) : p < q
      PROVE  PartsAscend(u, i)
  <2>1. ASSUME NEW m \in CallsIn(u, i) PROVE Ascending(u[m].parts)
    <3>1. CASE m \in CallsIn(s, i) /\ u[m] = s[m]  BY <1>6, <3>1 DEF PartsAscend
    <3>2. CASE m - Len(s) \in CallsIn(t, i) /\ u[m] = t[m - Len(s)]
      BY <1>6, <3>2 DEF PartsAscend
    <3> QED  BY <1>2, <3>1, <3>2
  <2>2. ASSUME NEW l \in CallsIn(u, i), NEW m \in CallsIn(u, i), l < m,
               NEW p \in Range(u[l].parts), NEW q \in Range(u[m].parts)
        PROVE  p < q
    <3>1. l \in DOMAIN u /\ m \in DOMAIN u /\ l \in Nat /\ m \in Nat  BY <1>1 DEF CallsIn
    <3>2. CASE m \in CallsIn(s, i) /\ m <= Len(s) /\ u[m] = s[m]
      <4>1. l \in CallsIn(s, i) /\ u[l] = s[l]  BY <1>1, <1>2, <2>2, <3>1, <3>2
      <4> QED  BY <1>6, <2>2, <3>2, <4>1 DEF PartsAscend
    <3>3. CASE m > Len(s) /\ m - Len(s) \in CallsIn(t, i) /\ u[m] = t[m - Len(s)]
      <4>1. q \in PartsIn(t, i)  BY <2>2, <3>3 DEF PartsIn
      <4>2. CASE l \in CallsIn(s, i) /\ u[l] = s[l]
        <5>1. p \in PartsIn(s, i)  BY <2>2, <4>2 DEF PartsIn
        <5> QED  BY <1>6, <4>1, <5>1
      <4>3. CASE l > Len(s) /\ l - Len(s) \in CallsIn(t, i) /\ u[l] = t[l - Len(s)]
        <5>1. l - Len(s) < m - Len(s)  BY <1>1, <2>2, <3>1
        <5> QED  BY <1>6, <2>2, <3>3, <4>3, <5>1 DEF PartsAscend
      <4> QED  BY <1>2, <4>2, <4>3
    <3> QED  BY <1>2, <3>2, <3>3
  <2> QED  BY <2>1, <2>2 DEF PartsAscend
<1>7. PartsAscend(s, i) /\ PartsAscend(t, i) /\ (\A p \in PartsIn(s, i), q \in PartsIn(t, i) : p < q)
        => PartsAscend(u, i)
  BY <1>6
<1> QED  BY <1>5, <1>7 DEF u

\* Events of other kinds tell neither.
LEMMA NoText ==
  ASSUME NEW s, "text" \notin KindsOf(s)
  PROVE  TextPlaces(s) = {} /\ TextAscends(s)
<1>1. TextsIn(s) = {}  BY DEF TextsIn, KindsOf
<1> QED  BY <1>1 DEF TextPlaces, TextAscends

LEMMA NoParts ==
  ASSUME NEW s, "call" \notin KindsOf(s), NEW i
  PROVE  PartsIn(s, i) = {} /\ PartsAscend(s, i)
<1>1. CallsIn(s, i) = {}  BY DEF CallsIn, KindsOf
<1> QED  BY <1>1 DEF PartsIn, PartsAscend

\* A flush tells all the fragments that are buffered, those of an index at once.
LEMMA PartsOfCalls ==
  ASSUME NEW a \in [Indexes -> Seq(Nat)], NEW i \in Indexes
  PROVE  PartsIn(Calls(a), i) = Range(a[i]) /\ (Ascending(a[i]) => PartsAscend(Calls(a), i))
<1> DEFINE cs == Calls(a)
<1>1. /\ DOMAIN cs = 1..Len(cs)
      /\ \A j \in 1..Len(cs) : \E x \in Indexes : a[x] # <<>> /\ cs[j] = CallEv(x, a[x])
      /\ \A x \in Indexes : a[x] # <<>> => \E j \in 1..Len(cs) : cs[j] = CallEv(x, a[x])
      /\ \A j, k \in 1..Len(cs) : j # k => cs[j].n # cs[k].n
  BY CallsOfFlush
<1> HIDE DEF cs
<1>2. \A x \in Indexes : CallEv(x, a[x]).kind = "call" /\ CallEv(x, a[x]).n = x /\ CallEv(x, a[x]).parts = a[x]
  BY StreamAssumption, EventsOfTypes
<1>3. \A m \in CallsIn(cs, i) : cs[m].parts = a[i]
  BY <1>1, <1>2 DEF CallsIn
<1>4. a[i] # <<>> => \E m \in CallsIn(cs, i) : TRUE
  <2> SUFFICES ASSUME a[i] # <<>> PROVE \E m \in CallsIn(cs, i) : TRUE  OBVIOUS
  <2>1. PICK j \in 1..Len(cs) : cs[j] = CallEv(i, a[i])  BY <1>1
  <2>2. cs[j].kind = "call" /\ cs[j].n = i  BY <1>2, <2>1
  <2>3. j \in CallsIn(cs, i)  BY <1>1, <2>2 DEF CallsIn
  <2> QED  BY <2>3
<1>5. a[i] = <<>> => Range(a[i]) = {}  BY DEF Range
<1>6. PartsIn(cs, i) = Range(a[i])  BY <1>3, <1>4, <1>5 DEF PartsIn
<1>7. Ascending(a[i]) => PartsAscend(cs, i)
  <2>1. \A l, m \in CallsIn(cs, i) : l = m  BY <1>1 DEF CallsIn
  <2>2. \A l \in CallsIn(cs, i) : l \in Nat  BY <1>1 DEF CallsIn
  <2>3. \A l, m \in CallsIn(cs, i) : ~(l < m)  BY <2>1, <2>2
  <2> QED  BY <1>3, <2>3 DEF PartsAscend
<1> QED  BY <1>6, <1>7 DEF cs

-----------------------------------------------------------------------------
(* Collect returns the whole of what was said.                             *)

FailedIn(h) == {k \in DOMAIN h : h[k].error # "none" \/ h[k].finish \in Failures}
FragsIn(h, i) == {k \in DOMAIN h : h[k].frag = i}
FinishedIn(h, i) == {k \in FragsIn(h, i) : \E j \in k..Len(h) : h[j].finish # "none"}

\* Events tell the text of the chunks read; those of a call tell the fragments
\* that are finished, and the buffer has the others, which come after them.
TellsText(h, s) == TextPlaces(s) = {k \in DOMAIN h : h[k].text} /\ TextAscends(s)
TellsCall(h, b, s, i) ==
  /\ PartsIn(s, i) = FinishedIn(h, i)
  /\ PartsIn(s, i) \cup Range(b[i]) = FragsIn(h, i)
  /\ PartsAscend(s, i) /\ Ascending(b[i])
  /\ \A p \in PartsIn(s, i), q \in Range(b[i]) : p < q
Tells(h, b, s) == TellsText(h, s) /\ \A i \in Indexes : TellsCall(h, b, s, i)

Blames(s, why) == \A m \in DOMAIN s : s[m].kind = "error" => s[m].why = why

\* What has been sent and has still to be sent for the chunks read, unless the
\* end of the context made emit drop some of it.
SaidInv ==
  /\ sawError <=> FailedIn(heard) # {}
  /\ ctx = "nil" =>
       /\ Blames(out \o batch, Verdict)
       /\ sawError \/ body = "broken" => "error" \in KindsOf(out \o batch)
       /\ ~sawError /\ body # "broken" => Tells(heard, asm, out \o batch)

\* Collect has seen no error yet, or has returned on the first, or at the end.
GotInv ==
  ctx = "nil" =>
    /\ cpc = "collecting" => \A m \in 1..got : out[m].kind # "error"
    /\ cpc = "returned" /\ ppc # "none" =>
         res = Verdict /\ (res = "ok" => ppc = "closed" /\ got = Len(out))

LEMMA HeardMore ==
  ASSUME NEW h \in Seq(Chunk), NEW c \in Chunk
  PROVE  /\ Append(h, c) \in Seq(Chunk) /\ Len(Append(h, c)) = Len(h) + 1 /\ Len(h) \in Nat
         /\ DOMAIN h = 1..Len(h)
         /\ DOMAIN Append(h, c) = DOMAIN h \cup {Len(h) + 1}
         /\ \A k \in DOMAIN h : Append(h, c)[k] = h[k] /\ k \in Nat /\ k < Len(h) + 1
         /\ Append(h, c)[Len(h) + 1] = c
<1>1. /\ Append(h, c) \in Seq(Chunk) /\ Len(Append(h, c)) = Len(h) + 1 /\ Len(h) \in Nat
      /\ DOMAIN h = 1..Len(h)
      /\ \A k \in 1..Len(h) : Append(h, c)[k] = h[k]
      /\ Append(h, c)[Len(h) + 1] = c
  BY AppendProperties, LenProperties
<1>2. DOMAIN Append(h, c) = 1..(Len(h) + 1)  BY <1>1, LenProperties
<1>3. 1..(Len(h) + 1) = (1..Len(h)) \cup {Len(h) + 1}  BY <1>1
<1>4. \A k \in 1..Len(h) : k \in Nat /\ k < Len(h) + 1  BY <1>1
<1> QED  BY <1>1, <1>2, <1>3, <1>4

\* A chunk adds itself to the failures and to the fragments of its index, ...
LEMMA ChunkAdds ==
  ASSUME NEW h \in Seq(Chunk), NEW c \in Chunk
  PROVE  LET k == Len(h) + 1
             g == Append(h, c)
         IN  /\ FailedIn(g) = FailedIn(h) \cup
                  (IF c.error # "none" \/ c.finish \in Failures THEN {k} ELSE {})
             /\ {j \in DOMAIN g : g[j].text} = {j \in DOMAIN h : h[j].text} \cup (IF c.text THEN {k} ELSE {})
             /\ \A i : FragsIn(g, i) = FragsIn(h, i) \cup (IF c.frag = i THEN {k} ELSE {})
             /\ \A i : FinishedIn(g, i) = IF c.finish = "none" THEN FinishedIn(h, i) ELSE FragsIn(g, i)
<1> DEFINE k == Len(h) + 1
           g == Append(h, c)
<1>1. /\ g \in Seq(Chunk) /\ Len(g) = k /\ Len(h) \in Nat /\ k \in Nat
      /\ DOMAIN h = 1..Len(h) /\ DOMAIN g = DOMAIN h \cup {k}
      /\ \A j \in DOMAIN h : g[j] = h[j] /\ j \in Nat /\ j < k
      /\ g[k] = c
  BY HeardMore
<1> HIDE DEF g, k
<1>2. FailedIn(g) = FailedIn(h) \cup (IF c.error # "none" \/ c.finish \in Failures THEN {k} ELSE {})
  BY <1>1 DEF FailedIn
<1>3. {j \in DOMAIN g : g[j].text} = {j \in DOMAIN h : h[j].text} \cup (IF c.text THEN {k} ELSE {})
  BY <1>1
<1>4. \A i : FragsIn(g, i) = FragsIn(h, i) \cup (IF c.frag = i THEN {k} ELSE {})
  BY <1>1 DEF FragsIn
<1>5. ASSUME NEW i, c.finish # "none" PROVE FinishedIn(g, i) = FragsIn(g, i)
  <2>1. \A j \in FragsIn(g, i) : k \in j..Len(g)  BY <1>1 DEF FragsIn
  <2> QED  BY <1>1, <1>5, <2>1 DEF FinishedIn
<1>6. ASSUME NEW i, c.finish = "none" PROVE FinishedIn(g, i) = FinishedIn(h, i)
  <2>1. ASSUME NEW j \in FinishedIn(g, i) PROVE j \in FinishedIn(h, i)
    <3>1. j \in FragsIn(g, i) /\ \E l \in j..Len(g) : g[l].finish # "none"
      BY <2>1 DEF FinishedIn
    <3>2. PICK l \in j..Len(g) : g[l].finish # "none"  BY <3>1
    <3>3. j \in DOMAIN g /\ g[j].frag = i /\ j \in Nat  BY <1>1, <3>1 DEF FragsIn
    <3>4. l # k  BY <1>1, <1>6, <3>2
    <3>5. l \in 1..Len(h) /\ l \in j..Len(h) /\ j \in 1..Len(h)
      <4>1. 1 <= j  BY <1>1, <3>3
      <4>2. l \in Nat /\ l < k /\ j <= l  BY <1>1, <3>2, <3>3, <3>4
      <4>3. l <= Len(h)  BY <1>1, <4>2 DEF k
      <4> QED  BY <1>1, <3>3, <4>1, <4>2, <4>3
    <3>6. h[l].finish # "none" /\ h[j].frag = i  BY <1>1, <3>2, <3>3, <3>5
    <3>7. j \in FragsIn(h, i)  BY <1>1, <3>5, <3>6 DEF FragsIn
    <3> QED  BY <3>5, <3>6, <3>7 DEF FinishedIn
  <2>2. ASSUME NEW j \in FinishedIn(h, i) PROVE j \in FinishedIn(g, i)
    <3>1. j \in DOMAIN h /\ h[j].frag = i /\ \E l \in j..Len(h) : h[l].finish # "none"
      BY <2>2 DEF FinishedIn, FragsIn
    <3>2. PICK l \in j..Len(h) : h[l].finish # "none"  BY <3>1
    <3>3. l \in 1..Len(h) /\ l \in j..Len(g)  BY <1>1, <3>1, <3>2 DEF k
    <3>4. g[l].finish # "none"  BY <1>1, <3>2, <3>3
    <3>5. j \in FragsIn(g, i)  BY <1>1, <3>1 DEF FragsIn
    <3> QED  BY <3>3, <3>4, <3>5 DEF FinishedIn
  <2> QED  BY <2>1, <2>2
<1> QED  BY <1>2, <1>3, <1>4, <1>5, <1>6 DEF g, k

\* ... and its fragment to the buffer.
LEMMA FedAdds ==
  ASSUME StreamTyped, NEW c \in Chunks, NEW k \in Nat, NEW i \in Indexes
  PROVE  /\ Range(Fed(c, k)[i]) = Range(asm[i]) \cup (IF c.frag = i THEN {k} ELSE {})
         /\ Ascending(asm[i]) /\ (\A q \in Range(asm[i]) : q < k) => Ascending(Fed(c, k)[i])
<1>1. asm \in [Indexes -> Seq(Nat)] /\ asm[i] \in Seq(Nat) /\ NoIndex \notin Indexes
  BY StreamAssumption DEF StreamTyped
<1>2. CASE c.frag # i
  <2>1. Fed(c, k)[i] = asm[i]  BY <1>1, <1>2, ChunkFields DEF Fed
  <2> QED  BY <1>2, <2>1
<1>3. CASE c.frag = i
  <2> DEFINE s == asm[i]
             t == Append(s, k)
  <2>1. Fed(c, k)[i] = t  BY <1>1, <1>3 DEF Fed
  <2>2. /\ Len(s) \in Nat /\ DOMAIN s = 1..Len(s) /\ DOMAIN t = 1..(Len(s) + 1)
        /\ \A j \in 1..Len(s) : t[j] = s[j]
        /\ t[Len(s) + 1] = k
    BY <1>1, AppendProperties, LenProperties
  <2> HIDE DEF s, t
  <2>3. DOMAIN t = DOMAIN s \cup {Len(s) + 1}  BY <2>2
  <2>4. Range(t) = Range(s) \cup {k}  BY <2>2, <2>3 DEF Range
  <2>5. ASSUME Ascending(s), \A q \in Range(s) : q < k,
               NEW j \in DOMAIN t, NEW l \in DOMAIN t, j < l
        PROVE  t[j] < t[l]
    <3>1. j \in DOMAIN s  BY <2>2, <2>5
    <3>2. CASE l \in DOMAIN s  BY <2>2, <2>5, <3>1, <3>2 DEF Ascending
    <3>3. CASE l = Len(s) + 1
      <4>1. s[j] \in Range(s)  BY <3>1 DEF Range
      <4> QED  BY <2>2, <2>5, <3>1, <3>3, <4>1
    <3> QED  BY <2>3, <3>2, <3>3
  <2>6. Ascending(s) /\ (\A q \in Range(s) : q < k) => Ascending(t)  BY <2>5 DEF Ascending
  <2> QED  BY <1>3, <2>1, <2>4, <2>6 DEF s
<1> QED  BY <1>2, <1>3

\* The verdict is that of the first failure, and if there is none it is good
\* unless the connection breaks.
FirstOf(h) == h[CHOOSE k \in FailedIn(h) : \A j \in FailedIn(h) : k <= j]
VerdictOf(h, b) ==
  IF FailedIn(h) # {}
    THEN Class(IF FirstOf(h).error # "none" THEN FirstOf(h).error ELSE FirstOf(h).finish)
    ELSE IF b = "broken" THEN "server" ELSE "ok"

LEMMA VerdictIs == Verdict = VerdictOf(heard, body) /\ Verdict' = VerdictOf(heard', body')
<1>1. Verdict = VerdictOf(heard, body)
  BY DEF Verdict, Failed, VerdictOf, FirstOf, FailedIn
<1>2. Verdict' = VerdictOf(heard', body')
  BY DEF Verdict, Failed, VerdictOf, FirstOf, FailedIn
<1> QED  BY <1>1, <1>2

LEMMA VerdictOfGood ==
  ASSUME NEW h, NEW b
  PROVE  VerdictOf(h, b) = "ok" <=> FailedIn(h) = {} /\ b # "broken"
<1>1. \A f : Class(f) # "ok"  BY DEF Class
<1> QED  BY <1>1 DEF VerdictOf

LEMMA VerdictStays ==
  ASSUME NEW h \in Seq(Chunk), NEW c \in Chunk, FailedIn(h) # {}, NEW b, NEW d
  PROVE  VerdictOf(Append(h, c), b) = VerdictOf(h, d)
<1> DEFINE g == Append(h, c)
           k == Len(h) + 1
<1>1. /\ DOMAIN h = 1..Len(h) /\ Len(h) \in Nat
      /\ \A j \in DOMAIN h : g[j] = h[j] /\ j \in Nat /\ j < k
  BY HeardMore
<1>2. FailedIn(h) \subseteq FailedIn(g) /\ FailedIn(g) \subseteq FailedIn(h) \cup {k}
  BY ChunkAdds
<1>3. FailedIn(h) \subseteq DOMAIN h /\ FailedIn(h) \subseteq Nat  BY <1>1 DEF FailedIn
<1>4. PICK m \in FailedIn(h) : \A j \in FailedIn(h) : m <= j  BY <1>3, LeastNat
<1>5. m \in Nat /\ k \in Nat /\ m < k /\ g[m] = h[m]  BY <1>1, <1>3, <1>4
<1> HIDE DEF g, k
<1>6. m \in FailedIn(g) /\ \A j \in FailedIn(g) : m <= j  BY <1>2, <1>4, <1>5
<1>7. FailedIn(g) \subseteq Nat  BY <1>2, <1>3, <1>5
<1>8. (CHOOSE x \in FailedIn(h) : \A j \in FailedIn(h) : x <= j) = m
  <2>1. \A x \in FailedIn(h) : (\A j \in FailedIn(h) : x <= j) => x = m  BY <1>3, <1>4, <1>5
  <2> QED  BY <1>4, <2>1
<1>9. (CHOOSE x \in FailedIn(g) : \A j \in FailedIn(g) : x <= j) = m
  <2>1. \A x \in FailedIn(g) : (\A j \in FailedIn(g) : x <= j) => x = m  BY <1>5, <1>6, <1>7
  <2> QED  BY <1>6, <2>1
<1>10. FirstOf(g) = FirstOf(h)  BY <1>5, <1>8, <1>9 DEF FirstOf
<1>11. FailedIn(g) # {}  BY <1>6
<1> QED  BY <1>10, <1>11 DEF VerdictOf, g

LEMMA VerdictFalls ==
  ASSUME NEW h \in Seq(Chunk), NEW c \in Chunk, FailedIn(h) = {}, NEW b,
         c.error # "none" \/ c.finish \in Failures
  PROVE  VerdictOf(Append(h, c), b) = Class(IF c.error # "none" THEN c.error ELSE c.finish)
<1> DEFINE g == Append(h, c)
           k == Len(h) + 1
<1>1. g[k] = c /\ k \in Nat  BY HeardMore
<1>2. FailedIn(g) = {k}  BY ChunkAdds
<1> HIDE DEF g, k
<1>3. (CHOOSE x \in {k} : \A j \in {k} : x <= j) = k
  <2>1. \E x \in {k} : \A j \in {k} : x <= j  BY <1>1
  <2> QED  BY <2>1
<1>4. FirstOf(g) = c  BY <1>1, <1>2, <1>3 DEF FirstOf
<1> QED  BY <1>2, <1>4 DEF VerdictOf, g

LEMMA BlamesConcat ==
  ASSUME NEW s \in Seq(Events), NEW t \in Seq(Events), NEW why, Blames(s, why), Blames(t, why)
  PROVE  Blames(s \o t, why)
<1> DEFINE u == s \o t
<1>1. /\ DOMAIN s = 1..Len(s) /\ DOMAIN t = 1..Len(t)
      /\ \A j \in 1..Len(s) : u[j] = s[j]
      /\ \A j \in DOMAIN u :
           j \in 1..Len(s) \/ (j > Len(s) /\ j - Len(s) \in 1..Len(t) /\ u[j] = t[j - Len(s)])
  BY ConcatIs
<1> HIDE DEF u
<1>2. Blames(u, why)  BY <1>1 DEF Blames
<1> QED  BY <1>2 DEF u

LEMMA BlamesNone ==
  ASSUME NEW s, NEW why, "error" \notin KindsOf(s)
  PROVE  Blames(s, why)
BY DEF Blames, KindsOf

LEMMA BlamesOne ==
  ASSUME NEW e \in Errors
  PROVE  <<ErrorEv(e)>> \in Seq(Events) /\ KindsOf(<<ErrorEv(e)>>) = {"error"} /\ Blames(<<ErrorEv(e)>>, e)
<1> DEFINE x == ErrorEv(e)
           s == <<x>>
<1>1. x \in Events /\ x.kind = "error" /\ x.why = e  BY EventsOfTypes
<1>2. s \in Seq(Events) /\ KindsOf(s) = {"error"}  BY <1>1, KindsOfOne
<1>3. DOMAIN s = {1} /\ s[1] = x  OBVIOUS
<1> HIDE DEF s, x
<1>4. Blames(s, e)  BY <1>1, <1>3 DEF Blames
<1> QED  BY <1>2, <1>4 DEF s, x

\* What is sent of a chunk that fails ends in its failure, ...
LEMMA EnvelopeSays ==
  ASSUME StreamInv, NEW c \in Chunks, NEW k \in Nat, Envelope(c, k)
  PROVE  batch' \in Seq(Events) /\ "error" \in KindsOf(batch') /\ Blames(batch', Class(c.error))
<1> DEFINE err == <<ErrorEv(Class(c.error))>>
           calls == Calls(asm)
           usage == UsageOf(c, k)
<1>1. batch' = calls \o usage \o err /\ c.error \in Failures
  BY ChunkFields DEF Envelope
<1>2. err \in Seq(Events) /\ KindsOf(err) = {"error"} /\ Blames(err, Class(c.error))
  BY <1>1, ClassIsError, BlamesOne
<1>3. calls \in Seq(Events) /\ KindsOf(calls) \subseteq {"call"}
  BY KindsOfCalls DEF StreamInv, StreamTyped
<1>4. usage \in Seq(Events) /\ KindsOf(usage) \subseteq {"usage"}
  <2>1. Ev("usage", k).kind = "usage"  BY EventsOfTypes
  <2> QED  BY <2>1, PartsOfBatch, KindsOfOne DEF UsageOf
<1> HIDE DEF err, calls, usage
<1> DEFINE head == calls \o usage
<1>5. head \in Seq(Events) /\ KindsOf(head) \subseteq {"call", "usage"}
  BY <1>3, <1>4, KindsOfConcat, ConcatProperties
<1>6. Blames(head, Class(c.error))  BY <1>5, BlamesNone
<1> HIDE DEF head
<1>7. /\ head \o err \in Seq(Events) /\ "error" \in KindsOf(head \o err)
      /\ Blames(head \o err, Class(c.error))
  BY <1>2, <1>5, <1>6, BlamesConcat, KindsOfConcat, ConcatProperties
<1> QED  BY <1>1, <1>7 DEF head

LEMMA ChoiceParts ==
  ASSUME StreamInv, NEW c \in Chunks, NEW k \in Nat
  PROVE  /\ TextOf(c, k) \in Seq(Events) /\ KindsOf(TextOf(c, k)) \subseteq {"text"}
         /\ TextPlaces(TextOf(c, k)) = (IF c.text THEN {k} ELSE {}) /\ TextAscends(TextOf(c, k))
         /\ UsageOf(c, k) \in Seq(Events) /\ KindsOf(UsageOf(c, k)) \subseteq {"usage"}
         /\ Calls(Fed(c, k)) \in Seq(Events) /\ KindsOf(Calls(Fed(c, k))) \subseteq {"call"}
         /\ Fed(c, k) \in [Indexes -> Seq(Nat)]
<1>1. UsageOf(c, k) \in Seq(Events) /\ KindsOf(UsageOf(c, k)) \subseteq {"usage"}
  <2>1. Ev("usage", k).kind = "usage"  BY EventsOfTypes
  <2> QED  BY <2>1, PartsOfBatch, KindsOfOne DEF UsageOf
<1>2. Ev("text", k).kind = "text" /\ Ev("text", k).n = k  BY EventsOfTypes
<1>3. TextOf(c, k) \in Seq(Events) /\ KindsOf(TextOf(c, k)) \subseteq {"text"}
  BY <1>2, PartsOfBatch, KindsOfOne DEF TextOf
<1>4. TextPlaces(TextOf(c, k)) = (IF c.text THEN {k} ELSE {}) /\ TextAscends(TextOf(c, k))
  <2>1. CASE ~c.text
    <3>1. "text" \notin KindsOf(TextOf(c, k))  BY <2>1, KindsOfOne DEF TextOf
    <3> QED  BY <2>1, <3>1, NoText
  <2>2. CASE c.text
    <3> DEFINE e == Ev("text", k)
               s == <<e>>
    <3>1. TextOf(c, k) = s  BY <2>2 DEF TextOf
    <3>2. DOMAIN s = {1} /\ s[1] = e  OBVIOUS
    <3>3. e.kind = "text" /\ e.n = k  BY <1>2
    <3> HIDE DEF e, s
    <3>4. TextsIn(s) = {1}  BY <3>2, <3>3 DEF TextsIn
    <3>5. TextPlaces(s) = {k} /\ TextAscends(s)  BY <3>2, <3>3, <3>4 DEF TextPlaces, TextAscends
    <3> QED  BY <2>2, <3>1, <3>5
  <2> QED  BY <2>1, <2>2, ChunkFields
<1>5. Fed(c, k) \in [Indexes -> Seq(Nat)]  BY FedIsTyped DEF StreamInv
<1> QED  BY <1>1, <1>3, <1>4, <1>5, KindsOfCalls

LEMMA ChoiceFails ==
  ASSUME StreamInv, NEW c \in Chunks, NEW k \in Nat, Choice(c, k), c.finish \in Failures
  PROVE  batch' \in Seq(Events) /\ "error" \in KindsOf(batch') /\ Blames(batch', Class(c.finish))
<1> DEFINE text == TextOf(c, k)
           calls == Calls(Fed(c, k))
           err == <<ErrorEv(Class(c.finish))>>
           usage == UsageOf(c, k)
<1>1. batch' = text \o calls \o err \o usage
  <2>1. c.finish # "none"  BY DEF Failures
  <2> QED  BY <2>1 DEF Choice
<1>2. err \in Seq(Events) /\ KindsOf(err) = {"error"} /\ Blames(err, Class(c.finish))
  BY ClassIsError, BlamesOne
<1>3. /\ text \in Seq(Events) /\ KindsOf(text) \subseteq {"text"}
      /\ calls \in Seq(Events) /\ KindsOf(calls) \subseteq {"call"}
      /\ usage \in Seq(Events) /\ KindsOf(usage) \subseteq {"usage"}
  BY ChoiceParts
<1> HIDE DEF text, calls, err, usage
<1> DEFINE head == text \o calls
<1>4. head \in Seq(Events) /\ Blames(head, Class(c.finish))
  <2>1. head \in Seq(Events) /\ KindsOf(head) \subseteq {"text", "call"}
    BY <1>3, KindsOfConcat, ConcatProperties
  <2> HIDE DEF head
  <2> QED  BY <2>1, BlamesNone
<1> HIDE DEF head
<1> DEFINE most == head \o err
<1>5. most \in Seq(Events) /\ "error" \in KindsOf(most) /\ Blames(most, Class(c.finish))
  BY <1>2, <1>4, BlamesConcat, KindsOfConcat, ConcatProperties
<1>6. Blames(usage, Class(c.finish))  BY <1>3, BlamesNone
<1> HIDE DEF most
<1>7. /\ most \o usage \in Seq(Events) /\ "error" \in KindsOf(most \o usage)
      /\ Blames(most \o usage, Class(c.finish))
  BY <1>3, <1>5, <1>6, BlamesConcat, KindsOfConcat, ConcatProperties
<1> QED  BY <1>1, <1>7 DEF head, most

\* ... and of one that does not, its text, and the calls if it finishes them.
LEMMA ChoiceSays ==
  ASSUME StreamInv, NEW c \in Chunks, NEW k \in Nat, Choice(c, k), c.finish \notin Failures
  PROVE  /\ batch' \in Seq(Events) /\ "error" \notin KindsOf(batch')
         /\ TextPlaces(batch') = (IF c.text THEN {k} ELSE {}) /\ TextAscends(batch')
         /\ \A i \in Indexes :
              /\ PartsIn(batch', i) = IF c.finish = "none" THEN {} ELSE Range(Fed(c, k)[i])
              /\ Ascending(Fed(c, k)[i]) => PartsAscend(batch', i)
<1> DEFINE text == TextOf(c, k)
           a == Fed(c, k)
           calls == IF c.finish = "none" THEN <<>> ELSE Calls(a)
           usage == UsageOf(c, k)
<1>1. batch' = text \o calls \o <<>> \o usage  BY DEF Choice
<1>2. /\ text \in Seq(Events) /\ KindsOf(text) \subseteq {"text"}
      /\ TextPlaces(text) = (IF c.text THEN {k} ELSE {}) /\ TextAscends(text)
      /\ usage \in Seq(Events) /\ KindsOf(usage) \subseteq {"usage"}
      /\ a \in [Indexes -> Seq(Nat)]
  BY ChoiceParts
<1>3. calls \in Seq(Events) /\ KindsOf(calls) \subseteq {"call"}
  <2>1. CASE c.finish = "none"  BY <2>1, KindsOfOne, PartsOfBatch
  <2>2. CASE c.finish # "none"  BY <2>2, ChoiceParts
  <2> QED  BY <2>1, <2>2
<1>4. \A i \in Indexes : /\ PartsIn(calls, i) = IF c.finish = "none" THEN {} ELSE Range(a[i])
                         /\ Ascending(a[i]) => PartsAscend(calls, i)
  <2>1. CASE c.finish = "none"
    <3>1. "call" \notin KindsOf(<<>>)  BY KindsOfOne
    <3> QED  BY <2>1, <3>1, NoParts
  <2>2. CASE c.finish # "none"
    <3> HIDE DEF a
    <3> QED  BY <1>2, <2>2, PartsOfCalls
  <2> QED  BY <2>1, <2>2
<1> HIDE DEF text, a, calls, usage
<1> DEFINE head == text \o calls
<1>5. /\ head \in Seq(Events) /\ KindsOf(head) \subseteq {"text", "call"}
      /\ TextPlaces(head) = TextPlaces(text) /\ TextAscends(head)
  <2>1. TextPlaces(calls) = {} /\ TextAscends(calls)  BY <1>3, NoText
  <2>2. head \in Seq(Events) /\ KindsOf(head) = KindsOf(text) \cup KindsOf(calls)
    BY <1>2, <1>3, KindsOfConcat, ConcatProperties
  <2>3. \A p \in TextPlaces(text), q \in TextPlaces(calls) : p < q  BY <2>1
  <2>4. TextPlaces(head) = TextPlaces(text) \cup TextPlaces(calls) /\ TextAscends(head)
    BY <1>2, <1>3, <2>1, <2>3, TextConcat
  <2> HIDE DEF head
  <2> QED  BY <1>2, <1>3, <2>1, <2>2, <2>4
<1>6. \A i \in Indexes : /\ PartsIn(head, i) = PartsIn(calls, i)
                         /\ PartsAscend(calls, i) => PartsAscend(head, i)
  <2> SUFFICES ASSUME NEW i \in Indexes
               PROVE  /\ PartsIn(head, i) = PartsIn(calls, i)
                      /\ PartsAscend(calls, i) => PartsAscend(head, i)
    OBVIOUS
  <2>1. PartsIn(text, i) = {} /\ PartsAscend(text, i)  BY <1>2, NoParts
  <2>2. \A p \in PartsIn(text, i), q \in PartsIn(calls, i) : p < q  BY <2>1
  <2>3. PartsIn(head, i) = PartsIn(text, i) \cup PartsIn(calls, i)
    BY <1>2, <1>3, PartsConcat
  <2>4. PartsAscend(calls, i) => PartsAscend(head, i)
    BY <1>2, <1>3, <2>1, <2>2, PartsConcat
  <2> HIDE DEF head
  <2> QED  BY <2>1, <2>3, <2>4
<1> HIDE DEF head
<1>7. head \o <<>> = head  BY <1>5, ConcatEmptySeq
<1> DEFINE all == head \o usage
<1>8. /\ all \in Seq(Events) /\ KindsOf(all) \subseteq {"text", "call", "usage"}
      /\ TextPlaces(all) = TextPlaces(text) /\ TextAscends(all)
  <2>1. TextPlaces(usage) = {} /\ TextAscends(usage)  BY <1>2, NoText
  <2>2. all \in Seq(Events) /\ KindsOf(all) = KindsOf(head) \cup KindsOf(usage)
    BY <1>2, <1>5, KindsOfConcat, ConcatProperties
  <2>3. \A p \in TextPlaces(head), q \in TextPlaces(usage) : p < q  BY <2>1
  <2>4. TextPlaces(all) = TextPlaces(head) \cup TextPlaces(usage) /\ TextAscends(all)
    BY <1>2, <1>5, <2>1, <2>3, TextConcat
  <2> HIDE DEF all
  <2> QED  BY <1>2, <1>5, <2>1, <2>2, <2>4
<1>9. \A i \in Indexes : /\ PartsIn(all, i) = PartsIn(calls, i)
                         /\ PartsAscend(calls, i) => PartsAscend(all, i)
  <2> SUFFICES ASSUME NEW i \in Indexes
               PROVE  /\ PartsIn(all, i) = PartsIn(calls, i)
                      /\ PartsAscend(calls, i) => PartsAscend(all, i)
    OBVIOUS
  <2>1. PartsIn(usage, i) = {} /\ PartsAscend(usage, i)  BY <1>2, NoParts
  <2>2. \A p \in PartsIn(head, i), q \in PartsIn(usage, i) : p < q  BY <2>1
  <2>3. PartsIn(all, i) = PartsIn(head, i) \cup PartsIn(usage, i)
    BY <1>2, <1>5, PartsConcat
  <2>4. PartsAscend(head, i) => PartsAscend(all, i)
    BY <1>2, <1>5, <2>1, <2>2, PartsConcat
  <2> HIDE DEF all
  <2> QED  BY <1>6, <2>1, <2>3, <2>4
<1>10. batch' = all  BY <1>1, <1>7 DEF head
<1> HIDE DEF all
<1> QED  BY <1>2, <1>4, <1>8, <1>9, <1>10 DEF a

\* What is sent for a chunk, after all that was sent before it, tells all again.
LEMMA ChoiceTells ==
  ASSUME StreamInv, NEW c \in Chunks, Scan(c), Choice(c, Len(heard')), c.finish \notin Failures,
         Tells(heard, asm, out)
  PROVE  Tells(heard', asm', out \o batch')
<1> DEFINE k == Len(heard) + 1
           b == batch'
           a == Fed(c, k)
<1>1. /\ heard \in Seq(Chunk) /\ out \in Seq(Events) /\ c \in Chunk /\ heard' = Append(heard, c)
      /\ asm \in [Indexes -> Seq(Nat)]
  BY ChunkFields DEF Scan, StreamInv, StreamTyped
<1>2. Len(heard') = k /\ k \in Nat /\ \A j \in DOMAIN heard : j < k /\ j \in Nat
  BY <1>1, HeardMore
<1>3. Choice(c, k)  BY <1>2
<1>4. asm' = IF c.finish = "none" THEN a ELSE NoFragments  BY <1>3 DEF Choice
<1>5. /\ b \in Seq(Events)
      /\ TextPlaces(b) = (IF c.text THEN {k} ELSE {}) /\ TextAscends(b)
      /\ \A i \in Indexes : /\ PartsIn(b, i) = IF c.finish = "none" THEN {} ELSE Range(a[i])
                            /\ Ascending(a[i]) => PartsAscend(b, i)
  BY <1>2, <1>3, ChoiceSays
<1> HIDE DEF k, b, a
<1>6. TellsText(heard', out \o b)
  <2>1. TextPlaces(out) = {j \in DOMAIN heard : heard[j].text} /\ TextAscends(out)
    BY DEF Tells, TellsText
  <2>2. {j \in DOMAIN heard' : heard'[j].text}
          = {j \in DOMAIN heard : heard[j].text} \cup (IF c.text THEN {k} ELSE {})
    BY <1>1, ChunkAdds DEF k
  <2>3. \A p \in TextPlaces(out), q \in TextPlaces(b) : p < q  BY <1>2, <1>5, <2>1
  <2>4. TextPlaces(out \o b) = TextPlaces(out) \cup TextPlaces(b) /\ TextAscends(out \o b)
    BY <1>1, <1>5, <2>1, <2>3, TextConcat
  <2> QED  BY <1>5, <2>1, <2>2, <2>4 DEF TellsText
<1>7. ASSUME NEW i \in Indexes PROVE TellsCall(heard', asm', out \o b, i)
  <2>1. /\ PartsIn(out, i) = FinishedIn(heard, i)
        /\ PartsIn(out, i) \cup Range(asm[i]) = FragsIn(heard, i)
        /\ PartsAscend(out, i) /\ Ascending(asm[i])
        /\ \A p \in PartsIn(out, i), q \in Range(asm[i]) : p < q
    BY DEF Tells, TellsCall
  <2>2. \A p \in FragsIn(heard, i) : p < k /\ p \in Nat  BY <1>2 DEF FragsIn
  <2>3. /\ FragsIn(heard', i) = FragsIn(heard, i) \cup (IF c.frag = i THEN {k} ELSE {})
        /\ FinishedIn(heard', i) = IF c.finish = "none" THEN FinishedIn(heard, i) ELSE FragsIn(heard', i)
    BY <1>1, ChunkAdds DEF k
  <2>4. Range(a[i]) = Range(asm[i]) \cup (IF c.frag = i THEN {k} ELSE {}) /\ Ascending(a[i])
    BY <1>2, <2>1, <2>2, FedAdds DEF StreamInv, a
  <2>5. \A p \in PartsIn(out, i), q \in Range(a[i]) : p < q  BY <2>1, <2>2, <2>4
  <2>6. \A p \in PartsIn(out, i), q \in PartsIn(b, i) : p < q  BY <1>5, <2>5
  <2>7. PartsIn(out \o b, i) = PartsIn(out, i) \cup PartsIn(b, i) /\ PartsAscend(out \o b, i)
    BY <1>1, <1>5, <2>1, <2>4, <2>6, PartsConcat
  <2>8. PartsIn(out, i) \cup Range(a[i]) = FragsIn(heard', i)  BY <2>1, <2>3, <2>4
  <2>9. CASE c.finish = "none"
    <3>1. asm'[i] = a[i] /\ PartsIn(out \o b, i) = PartsIn(out, i)  BY <1>4, <1>5, <2>7, <2>9
    <3> QED  BY <2>1, <2>3, <2>4, <2>5, <2>7, <2>8, <2>9, <3>1 DEF TellsCall
  <2>10. CASE c.finish # "none"
    <3>1. asm'[i] = <<>>  BY <1>4, <2>10 DEF NoFragments
    <3>2. Range(<<>>) = {} /\ Ascending(<<>>)  BY DEF Range, Ascending
    <3>3. PartsIn(out \o b, i) = FragsIn(heard', i)  BY <1>5, <2>7, <2>8, <2>10
    <3> QED  BY <2>3, <2>7, <2>10, <3>1, <3>2, <3>3 DEF TellsCall
  <2> QED  BY <2>9, <2>10
<1> QED  BY <1>6, <1>7 DEF Tells, b

\* The first of the events to send moves to those sent.
LEMMA Moved ==
  ASSUME NEW s \in Seq(Events), NEW t \in Seq(Events), t # <<>>
  PROVE  Append(s, Head(t)) \o Tail(t) = s \o t
<1> DEFINE l == Append(s, Head(t)) \o Tail(t)
           r == s \o t
<1>1. /\ Head(t) \in Events /\ Tail(t) \in Seq(Events) /\ Head(t) = t[1]
      /\ Len(t) \in Nat \ {0} /\ Len(s) \in Nat /\ Len(Tail(t)) = Len(t) - 1
      /\ \A j \in 1..(Len(t) - 1) : Tail(t)[j] = t[j + 1]
  BY HeadTailProperties, LenProperties, EmptySeq
<1>2. /\ Append(s, Head(t)) \in Seq(Events) /\ Len(Append(s, Head(t))) = Len(s) + 1
      /\ \A j \in 1..Len(s) : Append(s, Head(t))[j] = s[j]
      /\ Append(s, Head(t))[Len(s) + 1] = t[1]
  BY <1>1, AppendProperties
<1> DEFINE a == Append(s, Head(t))
           b == Tail(t)
<1> HIDE DEF a, b
<1>3. /\ a \o b \in Seq(Events) /\ Len(a \o b) = Len(a) + Len(b)
      /\ \A j \in 1..(Len(a) + Len(b)) : (a \o b)[j] = IF j <= Len(a) THEN a[j] ELSE b[j - Len(a)]
  BY <1>1, <1>2, ConcatProperties DEF a, b
<1>4. /\ r \in Seq(Events) /\ Len(r) = Len(s) + Len(t)
      /\ \A j \in 1..(Len(s) + Len(t)) : r[j] = IF j <= Len(s) THEN s[j] ELSE t[j - Len(s)]
  BY ConcatProperties
<1>5. Len(a) + Len(b) = Len(s) + Len(t) /\ Len(s) + Len(t) \in Nat  BY <1>1, <1>2 DEF a, b
<1>6. ASSUME NEW j \in 1..(Len(s) + Len(t)) PROVE (a \o b)[j] = r[j]
  <2>1. CASE j <= Len(s)
    <3>1. j \in 1..Len(s) /\ j <= Len(a)  BY <1>1, <1>2, <2>1 DEF a
    <3> QED  BY <1>2, <1>3, <1>4, <1>5, <2>1, <3>1 DEF a
  <2>2. CASE j = Len(s) + 1
    <3>1. j <= Len(a) /\ ~(j <= Len(s)) /\ j - Len(s) = 1  BY <1>1, <1>2, <2>2 DEF a
    <3> QED  BY <1>2, <1>3, <1>4, <1>5, <2>2, <3>1 DEF a
  <2>3. CASE j > Len(s) + 1
    <3>1. ~(j <= Len(a)) /\ ~(j <= Len(s)) /\ j - Len(a) \in 1..(Len(t) - 1) /\ (j - Len(a)) + 1 = j - Len(s)
      BY <1>1, <1>2, <2>3 DEF a
    <3>2. (a \o b)[j] = b[j - Len(a)] /\ r[j] = t[j - Len(s)]  BY <1>3, <1>4, <1>5, <3>1
    <3>3. b[j - Len(a)] = t[(j - Len(a)) + 1]  BY <1>1, <3>1 DEF b
    <3> QED  BY <3>1, <3>2, <3>3
  <2>4. j \in Int /\ Len(s) \in Int  BY <1>1
  <2>5. j <= Len(s) \/ j = Len(s) + 1 \/ j > Len(s) + 1  BY <1>1, <2>4
  <2> QED  BY <2>1, <2>2, <2>3, <2>5
<1> HIDE DEF r
<1>7. a \o b = r
  <2> DEFINE ab == a \o b
  <2>1. ab \in Seq(Events) /\ r \in Seq(Events) /\ Len(ab) = Len(r) /\ \A j \in 1..Len(ab) : ab[j] = r[j]
    BY <1>3, <1>4, <1>5, <1>6
  <2> HIDE DEF ab
  <2>2. ab = r  BY <2>1, SeqEqual
  <2> QED  BY <2>2 DEF ab
<1> QED  BY <1>7 DEF a, b, r

\* The end of a stream tells nothing.
LEMMA EndSays ==
  ASSUME NEW s \in Seq(Events), NEW h, NEW b, NEW why
  PROVE  LET t == Append(s, Ev("end", 0))
         IN  /\ KindsOf(s) \subseteq KindsOf(t)
             /\ Blames(s, why) => Blames(t, why)
             /\ Tells(h, b, s) => Tells(h, b, t)
<1> DEFINE e == <<Ev("end", 0)>>
           t == Append(s, Ev("end", 0))
<1>1. t = s \o e /\ e \in Seq(Events) /\ KindsOf(e) = {"end"}
  BY EventsOfTypes, AppendIsConcat, KindsOfOne
<1> HIDE DEF e, t
<1>2. KindsOf(s) \subseteq KindsOf(t)  BY <1>1, KindsOfConcat
<1>3. Blames(s, why) => Blames(t, why)  BY <1>1, BlamesNone, BlamesConcat
<1>4. TellsText(h, s) => TellsText(h, t)
  <2>1. TextPlaces(e) = {} /\ TextAscends(e)  BY <1>1, NoText
  <2>2. \A p \in TextPlaces(s), q \in TextPlaces(e) : p < q  BY <2>1
  <2>3. TextPlaces(t) = TextPlaces(s) \cup TextPlaces(e) /\ (TextAscends(s) => TextAscends(t))
    BY <1>1, <2>1, <2>2, TextConcat
  <2> QED  BY <2>1, <2>3 DEF TellsText
<1>5. ASSUME NEW i \in Indexes, TellsCall(h, b, s, i) PROVE TellsCall(h, b, t, i)
  <2>1. PartsIn(e, i) = {} /\ PartsAscend(e, i)  BY <1>1, NoParts
  <2>2. \A p \in PartsIn(s, i), q \in PartsIn(e, i) : p < q  BY <2>1
  <2>3. PartsIn(t, i) = PartsIn(s, i) \cup PartsIn(e, i) /\ (PartsAscend(s, i) => PartsAscend(t, i))
    BY <1>1, <2>1, <2>2, PartsConcat
  <2>4. PartsIn(t, i) = PartsIn(s, i)  BY <2>1, <2>3
  <2> QED  BY <1>5, <2>3, <2>4 DEF TellsCall
<1> QED  BY <1>2, <1>3, <1>4, <1>5 DEF Tells, t

LEMMA NothingSaid ==
  /\ FailedIn(<<>>) = {} /\ Tells(<<>>, NoFragments, <<>>)
  /\ <<>> \o <<>> = <<>> /\ \A why : Blames(<<>>, why)
<1>1. FailedIn(<<>>) = {}  BY DEF FailedIn
<1>2. KindsOf(<<>>) = {}  BY KindsOfOne
<1>3. TellsText(<<>>, <<>>)
  <2>1. {k \in DOMAIN <<>> : <<>>[k].text} = {}  OBVIOUS
  <2> QED  BY <1>2, <2>1, NoText DEF TellsText
<1>4. ASSUME NEW i \in Indexes PROVE TellsCall(<<>>, NoFragments, <<>>, i)
  <2>1. NoFragments[i] = <<>> /\ Range(<<>>) = {} /\ Ascending(<<>>)
    BY DEF NoFragments, Range, Ascending
  <2>2. PartsIn(<<>>, i) = {} /\ PartsAscend(<<>>, i)  BY <1>2, NoParts
  <2>3. FragsIn(<<>>, i) = {} /\ FinishedIn(<<>>, i) = {}  BY DEF FragsIn, FinishedIn
  <2> QED  BY <2>1, <2>2, <2>3 DEF TellsCall
<1>5. \A why : Blames(<<>>, why)  BY <1>2, BlamesNone
<1>6. <<>> \o <<>> = <<>>  OBVIOUS
<1> QED  BY <1>1, <1>3, <1>4, <1>5, <1>6 DEF Tells

\* The steps of processStream, ...
LEMMA ScanSays ==
  ASSUME StreamInv, OrderInv, SaidInv, NEW c \in Chunks, Scan(c)
  PROVE  SaidInv'
<1> DEFINE k == Len(heard')
<1>1. /\ heard \in Seq(Chunk) /\ out \in Seq(Events) /\ c \in Chunk /\ sawError \in BOOLEAN
      /\ heard' = Append(heard, c)
      /\ ctx = "nil" /\ UNCHANGED <<ctx, body, out>> /\ ppc = "scanning"
  BY ChunkFields DEF Scan, StreamInv, StreamTyped
<1>2. batch = <<>> /\ body = "open"  BY <1>1 DEF StreamInv, PlaceInv
<1>3. out \o batch = out  BY <1>1, <1>2, ConcatEmptySeq
<1>4. k = Len(heard) + 1 /\ k \in Nat  BY <1>1, HeardMore
<1>5. FailedIn(heard') = FailedIn(heard) \cup (IF c.error # "none" \/ c.finish \in Failures THEN {k} ELSE {})
  BY <1>1, <1>4, ChunkAdds
<1>6. AfterError(c, k) \/ Envelope(c, k) \/ Choice(c, k)  BY DEF Scan
<1> HIDE DEF k
<1>7. CASE AfterError(c, k)
  <2>1. sawError /\ sawError' = sawError /\ batch' = UsageOf(c, k)  BY <1>7 DEF AfterError
  <2>2. FailedIn(heard) # {}  BY <2>1 DEF SaidInv
  <2>3. Verdict' = Verdict  BY <1>1, <2>2, VerdictIs, VerdictStays
  <2>4. batch' \in Seq(Events) /\ KindsOf(batch') \subseteq {"usage"}  BY <1>4, <2>1, ChoiceParts
  <2>5. Blames(out, Verdict) /\ "error" \in KindsOf(out)  BY <1>1, <1>3, <2>1 DEF SaidInv
  <2>6. Blames(batch', Verdict)  BY <2>4, BlamesNone
  <2>7. Blames(out \o batch', Verdict') /\ "error" \in KindsOf(out \o batch')
    BY <1>1, <2>3, <2>4, <2>5, <2>6, BlamesConcat, KindsOfConcat
  <2> QED  BY <1>1, <1>5, <2>1, <2>2, <2>7 DEF SaidInv
<1>e. ASSUME ~sawError PROVE FailedIn(heard) = {} /\ "error" \notin KindsOf(out) /\ Tells(heard, asm, out)
  <2>1. FailedIn(heard) = {}  BY <1>e DEF SaidInv
  <2>2. "error" \notin KindsOf(out)  BY <1>2, <1>e DEF OrderInv
  <2>3. Tells(heard, asm, out)  BY <1>1, <1>2, <1>3, <1>e DEF SaidInv
  <2> QED  BY <2>1, <2>2, <2>3
<1>f. ASSUME ~sawError, sawError', NEW why, batch' \in Seq(Events), "error" \in KindsOf(batch'),
             Blames(batch', why), why = Verdict', FailedIn(heard') # {}
      PROVE  SaidInv'
  <2>1. Blames(out, why)  BY <1>e, <1>f, BlamesNone
  <2>2. Blames(out \o batch', why) /\ "error" \in KindsOf(out \o batch')
    BY <1>1, <1>f, <2>1, BlamesConcat, KindsOfConcat
  <2> QED  BY <1>1, <1>f, <2>2 DEF SaidInv
<1>8. CASE Envelope(c, k)
  <2>1. ~sawError /\ sawError' = TRUE /\ c.error # "none"  BY <1>8 DEF Envelope
  <2>2. batch' \in Seq(Events) /\ "error" \in KindsOf(batch') /\ Blames(batch', Class(c.error))
    BY <1>4, <1>8, EnvelopeSays
  <2>3. Verdict' = Class(c.error)  BY <1>1, <1>e, <2>1, VerdictIs, VerdictFalls
  <2> QED  BY <1>5, <1>f, <2>1, <2>2, <2>3
<1>9. CASE Choice(c, k) /\ c.finish \in Failures
  <2>1. ~sawError /\ sawError' = TRUE /\ c.error = "none"  BY <1>9 DEF Choice
  <2>2. batch' \in Seq(Events) /\ "error" \in KindsOf(batch') /\ Blames(batch', Class(c.finish))
    BY <1>4, <1>9, ChoiceFails
  <2>3. Verdict' = Class(c.finish)  BY <1>1, <1>9, <1>e, <2>1, VerdictIs, VerdictFalls
  <2> QED  BY <1>5, <1>9, <1>f, <2>1, <2>2, <2>3
<1>10. CASE Choice(c, k) /\ c.finish \notin Failures
  <2>1. ~sawError /\ ~sawError' /\ c.error = "none"  BY <1>10 DEF Choice
  <2>2. batch' \in Seq(Events) /\ "error" \notin KindsOf(batch')  BY <1>4, <1>10, ChoiceSays
  <2>3. Tells(heard', asm', out \o batch')  BY <1>10, <1>e, <2>1, ChoiceTells DEF k
  <2>4. Blames(out \o batch', Verdict')
    BY <1>1, <1>e, <2>1, <2>2, KindsOfConcat, BlamesNone
  <2>5. FailedIn(heard') = {}  BY <1>5, <1>10, <1>e, <2>1
  <2> QED  BY <1>1, <1>2, <2>1, <2>3, <2>4, <2>5 DEF SaidInv
<1> QED  BY <1>6, <1>7, <1>8, <1>9, <1>10

LEMMA SendingSays ==
  ASSUME StreamInv, OrderInv, SaidInv, Stream
  PROVE  SaidInv'
<1>i. out \in Seq(Events) /\ batch \in Seq(Events) /\ sawError \in BOOLEAN
  BY DEF StreamInv, StreamTyped
<1>1. ASSUME NEW c \in Chunks, Scan(c) PROVE SaidInv'  BY <1>1, ScanSays
<1>2. CASE ScanEnds
  <2>1. /\ body = "open" /\ body' # "broken" /\ UNCHANGED <<ctx, heard, asm, sawError, batch, out>>
    BY <1>2 DEF ScanEnds, StreamInv, PlaceInv
  <2>2. Verdict' = Verdict  BY <2>1, VerdictIs DEF VerdictOf
  <2> QED  BY <2>1, <2>2 DEF SaidInv
<1>3. CASE ScanBreaks
  <2>1. /\ body' = "broken" /\ body = "open" /\ UNCHANGED <<ctx, heard, sawError, out>> /\ batch = <<>>
    BY <1>3 DEF ScanBreaks, StreamInv, PlaceInv
  <2>2. CASE sawError
    <3>1. batch' = batch /\ asm' = asm  BY <1>3, <2>2 DEF ScanBreaks
    <3>2. FailedIn(heard) # {}  BY <2>2 DEF SaidInv
    <3>3. Verdict' = Verdict  BY <2>1, <3>2, VerdictIs DEF VerdictOf, FirstOf
    <3> QED  BY <2>1, <2>2, <3>1, <3>3 DEF SaidInv
  <2>3. CASE ~sawError
    <3> DEFINE calls == Calls(asm)
               err == <<ErrorEv("server")>>
    <3>1. batch' = calls \o err  BY <1>3, <2>3 DEF ScanBreaks
    <3>2. FailedIn(heard) = {}  BY <2>3 DEF SaidInv
    <3>3. Verdict' = "server"  BY <2>1, <3>2, VerdictIs DEF VerdictOf
    <3>4. calls \in Seq(Events) /\ Blames(calls, "server")
      <4>1. calls \in Seq(Events) /\ KindsOf(calls) \subseteq {"call"}
        BY KindsOfCalls DEF StreamInv, StreamTyped
      <4> HIDE DEF calls
      <4> QED  BY <4>1, BlamesNone
    <3>5. err \in Seq(Events) /\ KindsOf(err) = {"error"} /\ Blames(err, "server")
      BY BlamesOne DEF Errors
    <3> HIDE DEF calls, err
    <3>6. /\ batch' \in Seq(Events) /\ "error" \in KindsOf(batch') /\ Blames(batch', "server")
      BY <3>1, <3>4, <3>5, BlamesConcat, KindsOfConcat, ConcatProperties
    <3>7. "error" \notin KindsOf(out)  BY <2>1, <2>3 DEF OrderInv
    <3>8. Blames(out \o batch', "server") /\ "error" \in KindsOf(out \o batch')
      BY <1>i, <3>6, <3>7, BlamesNone, BlamesConcat, KindsOfConcat
    <3> QED  BY <2>1, <2>3, <3>2, <3>3, <3>8 DEF SaidInv
  <2> QED  BY <2>2, <2>3
<1>4. CASE EmitNext
  <2>1. /\ Emit(Head(batch)) /\ batch' = Tail(batch) /\ UNCHANGED <<ctx, heard, asm, sawError, body>>
        /\ batch # <<>>
    BY <1>4 DEF EmitNext, scanVars, StreamInv, PlaceInv
  <2>2. Verdict' = Verdict  BY <2>1, VerdictIs
  <2>3. CASE ctx # "nil"  BY <2>1, <2>3 DEF SaidInv
  <2>4. CASE ctx = "nil"
    <3>1. out' = Append(out, Head(batch))  BY <2>1, <2>4 DEF Emit
    <3>2. out' \o batch' = out \o batch  BY <1>i, <2>1, <3>1, Moved
    <3> QED  BY <2>1, <2>2, <3>2 DEF SaidInv
  <2> QED  BY <2>3, <2>4
<1>5. CASE EmitEnd
  <2>1. /\ Emit(Ev("end", 0)) /\ UNCHANGED <<ctx, heard, asm, sawError, body, batch>>
        /\ batch = <<>>
    BY <1>5 DEF EmitEnd, scanVars, StreamInv, PlaceInv
  <2>2. Verdict' = Verdict  BY <2>1, VerdictIs
  <2>3. CASE ctx # "nil"  BY <2>1, <2>3 DEF SaidInv
  <2>4. CASE ctx = "nil"
    <3> DEFINE t == Append(out, Ev("end", 0))
    <3>1. out' = t  BY <2>1, <2>4 DEF Emit
    <3>2. t \in Seq(Events)  BY <1>i, EventsOfTypes, AppendProperties
    <3>3. out \o batch = out /\ out' \o batch' = t  BY <1>i, <2>1, <3>1, <3>2, ConcatEmptySeq
    <3>4. /\ KindsOf(out) \subseteq KindsOf(t) /\ (Blames(out, Verdict) => Blames(t, Verdict))
          /\ Tells(heard, asm, out) => Tells(heard, asm, t)
      BY <1>i, EndSays
    <3> HIDE DEF t
    <3> QED  BY <2>1, <2>2, <2>4, <3>3, <3>4 DEF SaidInv
  <2> QED  BY <2>3, <2>4
<1>6. CASE Close
  <2>1. UNCHANGED <<ctx, heard, asm, sawError, body, batch, out>>  BY <1>6 DEF Close, scanVars
  <2>2. Verdict' = Verdict  BY <2>1, VerdictIs
  <2> QED  BY <2>1, <2>2 DEF SaidInv
<1> QED  BY <1>1, <1>2, <1>3, <1>4, <1>5, <1>6 DEF Stream, Reading, Sending

\* ... and those of the others.
LEMMA SaidStep ==
  ASSUME CtlInv, OrderInv, SaidInv, [RNext]_rvars
  PROVE  SaidInv'
<1>i. StreamTyped /\ PlaceInv /\ LastInv /\ StreamInv  BY DEF CtlInv, StreamInv, RetryInv
<1>u. ASSUME UNCHANGED <<heard, asm, sawError, body, batch, out>>, ctx' = "nil" => ctx = "nil"
      PROVE  SaidInv'
  <2>1. Verdict' = Verdict  BY <1>u, VerdictIs
  <2> QED  BY <1>u, <2>1 DEF SaidInv
<1>1. CASE CallRetry \/ WaitAgain \/ CollectReturned \/ UNCHANGED rvars
  BY <1>1, <1>u DEF CallRetry, WaitAgain, CollectReturned, rvars, vars, scanVars
<1>2. CASE Attempt
  <2>1. /\ heard' = <<>> /\ asm' = NoFragments /\ sawError' = FALSE /\ body' = "open"
        /\ out' = <<>> /\ batch' = <<>>
    BY <1>2 DEF Attempt
  <2> QED  BY <2>1, NothingSaid DEF SaidInv
<1>3. CASE Inner
  BY <1>3, <1>u DEF Inner, Opening, Request, RequestFails, Opens, AskFails,
                    Collect, Receive, SeeClosed, SeeContext, scanVars
<1>4. CASE Stream  BY <1>4, <1>i, SendingSays
<1>5. CASE Cancel
  <2>1. ctx = "nil" /\ UNCHANGED <<heard, asm, sawError, body, batch, out>>
    BY <1>5 DEF Cancel, CtxOver, scanVars
  <2> QED  BY <1>u, <2>1
<1> QED  BY <1>1, <1>2, <1>3, <1>4, <1>5 DEF RNext

LEMMA GotStep ==
  ASSUME CtlInv, OrderInv, SaidInv, GotInv, [RNext]_rvars
  PROVE  GotInv'
<1>i. StreamTyped /\ PlaceInv /\ LastInv /\ StreamInv  BY DEF CtlInv, StreamInv, RetryInv
<1>g. /\ got \in 0..Len(out) /\ Len(out) \in Nat /\ DOMAIN out = 1..Len(out)
      /\ out \in Seq(Events) /\ batch \in Seq(Events) /\ heard \in Seq(Chunk) /\ sawError \in BOOLEAN
  BY <1>i, LenProperties DEF StreamTyped
<1>v. Verdict = VerdictOf(heard, body) /\ Verdict' = VerdictOf(heard', body')  BY VerdictIs
<1>u. ASSUME UNCHANGED <<heard, body, out, got, cpc, res, ppc>>, ctx' = "nil" => ctx = "nil"
      PROVE  GotInv'
  BY <1>u, <1>v DEF GotInv
<1>1. CASE CallRetry \/ WaitAgain \/ CollectReturned \/ UNCHANGED rvars
  BY <1>1, <1>u DEF CallRetry, WaitAgain, CollectReturned, rvars, vars, scanVars
<1>2. CASE Attempt
  <2>1. cpc' = "opening"  BY <1>2 DEF Attempt
  <2> QED  BY <2>1 DEF GotInv
<1>3. CASE Inner
  <2>1. CASE Request \/ RequestFails
    BY <2>1, <1>u DEF Request, RequestFails, scanVars
  <2>2. CASE Opens
    <3>1. cpc' = "collecting" /\ got' = got /\ out' = out /\ hAt = "trying"
      BY <2>2 DEF Opens, Http!Succeed
    <3>2. got = 0  BY <1>i, <3>1 DEF LastInv, Trying, PlaceInv, Unopened
    <3> QED  BY <3>1, <3>2 DEF GotInv
  <2>3. CASE AskFails
    <3>1. cpc = "opening" /\ ppc' = ppc /\ cpc' = "returned"  BY <2>3 DEF AskFails
    <3>2. ppc' = "none"  BY <1>i, <3>1 DEF PlaceInv
    <3> QED  BY <3>1, <3>2 DEF GotInv
  <2>4. CASE Receive
    <3>1. /\ cpc = "collecting" /\ got < Len(out) /\ got' = got + 1
          /\ UNCHANGED <<ctx, ppc, heard, body, out>>
      BY <2>4 DEF Receive, scanVars
    <3>2. got' \in 1..Len(out) /\ \A m \in 1..got' : m \in 1..got \/ m = got'  BY <1>g, <3>1
    <3>3. Verdict' = Verdict  BY <1>v, <3>1
    <3>4. CASE out[got'].kind # "error"
      <4>1. cpc' = cpc  BY <2>4, <3>4 DEF Receive
      <4> QED  BY <3>1, <3>2, <3>4, <4>1 DEF GotInv
    <3>5. CASE out[got'].kind = "error"
      <4>1. cpc' = "returned" /\ res' = out[got'].why  BY <2>4, <3>5 DEF Receive
      <4>2. out[got'].why \in Errors
        <5>1. out[got'] \in Events  BY <1>g, <3>2, ElementOfSeq
        <5> QED  BY <3>5, <5>1 DEF Events
      <4>3. res' # "ok"  BY <4>1, <4>2 DEF Errors
      <4>4. ctx = "nil" => out[got'].why = Verdict
        <5> DEFINE all == out \o batch
        <5>1. DOMAIN all = 1..(Len(out) + Len(batch)) /\ Len(batch) \in Nat /\ \A j \in 1..Len(out) : all[j] = out[j]
          BY <1>g, ConcatIs
        <5>2. got' \in DOMAIN all /\ all[got'] = out[got']  BY <1>g, <3>2, <5>1
        <5> HIDE DEF all
        <5>3. ctx = "nil" => Blames(all, Verdict)  BY DEF SaidInv, all
        <5> QED  BY <3>5, <5>2, <5>3 DEF Blames
      <4> QED  BY <3>1, <3>3, <4>1, <4>3, <4>4 DEF GotInv
    <3> QED  BY <3>4, <3>5
  <2>5. CASE SeeClosed
    <3>1. /\ cpc = "collecting" /\ got = Len(out) /\ ppc = "closed" /\ res' = "ok" /\ cpc' = "returned"
          /\ UNCHANGED <<ctx, ppc, heard, body, out, got>>
      BY <2>5 DEF SeeClosed, scanVars
    <3>2. batch = <<>>  BY <1>i, <3>1 DEF PlaceInv
    <3>3. out \o batch = out  BY <1>g, <3>2, ConcatEmptySeq
    <3>4. ctx = "nil" => "error" \notin KindsOf(out)  BY <1>g, <3>1 DEF GotInv, KindsOf
    <3>5. ctx = "nil" => ~sawError /\ body # "broken"  BY <3>3, <3>4 DEF SaidInv
    <3>6. ctx = "nil" => Verdict = "ok"  BY <1>v, <3>5, VerdictOfGood DEF SaidInv
    <3> QED  BY <1>v, <3>1, <3>6 DEF GotInv
  <2>6. CASE SeeContext
    BY <2>6 DEF SeeContext, GotInv
  <2> QED  BY <1>3, <2>1, <2>2, <2>3, <2>4, <2>5, <2>6 DEF Inner, Opening, Collect
<1>4. CASE Stream
  <2>1. /\ UNCHANGED <<ctx, got, cpc, res>> /\ ppc # "closed" /\ ppc # "none"
        /\ \A m \in 1..got : out'[m] = out[m]
    <3>1. UNCHANGED <<ctx, got, cpc, res>> /\ ppc # "closed" /\ ppc # "none"
      BY <1>4 DEF Stream, Reading, Sending, Scan, ScanEnds, ScanBreaks, EmitNext, EmitEnd, Close
    <3>2. out' = out \/ \E e : out' = Append(out, e) /\ e \in Events
      <4>1. batch # <<>> => Head(batch) \in Events  BY <1>g, HeadTailProperties
      <4>2. ppc = "emitting" => batch # <<>>  BY <1>i DEF PlaceInv
      <4>3. Ev("end", 0) \in Events  BY EventsOfTypes
      <4> QED
        BY <1>4, <4>1, <4>2, <4>3
        DEF Stream, Reading, Sending, Scan, ScanEnds, ScanBreaks, EmitNext, EmitEnd, Close, Emit
    <3>3. \A m \in 1..got : m \in 1..Len(out)  BY <1>g
    <3>4. ASSUME NEW e \in Events, out' = Append(out, e) PROVE \A m \in 1..Len(out) : out'[m] = out[m]
      BY <1>g, <3>4, AppendProperties
    <3>5. \A m \in 1..Len(out) : out'[m] = out[m]  BY <3>2, <3>4
    <3> QED  BY <3>1, <3>3, <3>5
  <2>2. ASSUME ctx = "nil", cpc = "returned" PROVE res # "ok" /\ res = Verdict
    BY <2>1, <2>2 DEF GotInv
  <2>3. ASSUME ctx = "nil", cpc = "returned" PROVE Verdict' = Verdict
    <3>1. CASE ppc = "scanning"
      <4>1. body = "open" /\ FailedIn(heard) # {}
        BY <1>i, <1>v, <2>2, <2>3, <3>1, VerdictOfGood DEF PlaceInv
      <4>2. heard' = heard \/ \E c \in Chunk : heard' = Append(heard, c)
        <5>1. ASSUME NEW c \in Chunks, Scan(c) PROVE c \in Chunk /\ heard' = Append(heard, c)
          BY <5>1, ChunkFields DEF Scan
        <5> QED
          BY <1>4, <5>1 DEF Stream, Reading, Sending, ScanEnds, ScanBreaks, EmitNext, EmitEnd, Close, scanVars
      <4>3. CASE heard' = heard  BY <1>v, <4>1, <4>3 DEF VerdictOf
      <4>4. CASE \E c \in Chunk : heard' = Append(heard, c)
        BY <1>g, <1>v, <4>1, <4>4, VerdictStays
      <4> QED  BY <4>2, <4>3, <4>4
    <3>2. CASE ppc # "scanning"
      <4>1. UNCHANGED <<heard, body>>
        BY <1>4, <3>2
        DEF Stream, Reading, Sending, Scan, ScanEnds, ScanBreaks, EmitNext, EmitEnd, Close, scanVars
      <4> QED  BY <1>v, <4>1
    <3> QED  BY <3>1, <3>2
  <2> QED  BY <2>1, <2>2, <2>3 DEF GotInv
<1>5. CASE Cancel
  <2>1. ctx = "nil" /\ ctx' \in CtxEnds
    BY <1>5 DEF Cancel, CtxOver
  <2>2. ctx' # "nil"  BY <2>1, StreamAssumption
  <2> QED  BY <2>2 DEF GotInv
<1> QED  BY <1>1, <1>2, <1>3, <1>4, <1>5 DEF RNext

\* Collect returns the first failure of the stream or, of one that ends well, all
\* of its text and all of its calls (sse.go:23-45, 256-288, helpers.go:72-74,
\* 122-127), unless the context has ended.
THEOREM CollectReturnsTheWhole == RSpec => []CollectIsWhole
<1>1. RInit => SaidInv /\ GotInv
  <2>1. SUFFICES ASSUME RInit PROVE SaidInv /\ GotInv  OBVIOUS
  <2>2. /\ heard = <<>> /\ asm = NoFragments /\ sawError = FALSE /\ body = "open"
        /\ out = <<>> /\ batch = <<>> /\ cpc = "idle"
    BY <2>1 DEF RInit, Init, Unopened
  <2>3. SaidInv  BY <2>2, NothingSaid DEF SaidInv
  <2> QED  BY <2>2, <2>3 DEF GotInv
<1>2. (SaidInv /\ GotInv) /\ (CtlInv /\ OrderInv) /\ [RNext]_rvars => (SaidInv /\ GotInv)'
  BY SaidStep, GotStep
<1>3. (SaidInv /\ GotInv) /\ (CtlInv /\ OrderInv) => CollectIsWhole
  <2> SUFFICES ASSUME SaidInv, GotInv, CtlInv, OrderInv, cpc = "returned", ppc # "none", ctx = "nil"
               PROVE  res = Verdict /\ (res = "ok" => Whole)
    BY DEF CollectIsWhole
  <2>1. res = Verdict  BY DEF GotInv
  <2>2. ASSUME res = "ok" PROVE Whole
    <3>1. ppc = "closed" /\ got = Len(out)  BY <2>2 DEF GotInv
    <3>2. FailedIn(heard) = {} /\ body # "broken"  BY <2>1, <2>2, VerdictIs, VerdictOfGood
    <3>3. /\ batch = <<>> /\ out \in Seq(Events) /\ DOMAIN out = 1..got
      BY <3>1, LenProperties DEF CtlInv, StreamInv, StreamTyped, PlaceInv
    <3>4. out \o batch = out  BY <3>3, ConcatEmptySeq
    <3>5. Tells(heard, asm, out)  BY <3>2, <3>4 DEF SaidInv
    <3>6. Texts = TextsIn(out) /\ \A i \in Indexes : CallsOf(i) = CallsIn(out, i)
      BY <3>3 DEF Texts, TextsIn, CallsOf, CallsIn
    <3>7. /\ {out[m].n : m \in Texts} = {k \in DOMAIN heard : heard[k].text}
          /\ \A l, m \in Texts : l < m => out[l].n < out[m].n
      BY <3>5, <3>6 DEF Tells, TellsText, TextPlaces, TextAscends
    <3>8. ASSUME NEW i \in Indexes
          PROVE  /\ UNION {Range(out[m].parts) : m \in CallsOf(i)} = Finished(i)
                 /\ \A m \in CallsOf(i) : Ascending(out[m].parts)
                 /\ \A l, m \in CallsOf(i) : l < m =>
                      \A p \in Range(out[l].parts), q \in Range(out[m].parts) : p < q
      <4>1. PartsIn(out, i) = FinishedIn(heard, i) /\ PartsAscend(out, i)
        BY <3>5 DEF Tells, TellsCall
      <4>2. Finished(i) = FinishedIn(heard, i)  BY DEF Finished, FinishedIn, FragsIn
      <4> QED  BY <3>6, <4>1, <4>2 DEF PartsIn, PartsAscend
    <3> QED  BY <3>7, <3>8 DEF Whole
  <2> QED  BY <2>1, <2>2
<1> QED  BY <1>1, <1>2, <1>3, OrderInvHolds, PTL DEF RSpec
=============================================================================
