-------------------------- MODULE CodexTokenProofs --------------------------
(***************************************************************************)
(* A login shared by any number of calls of Token survives them.           *)
(***************************************************************************)
EXTENDS CodexToken, TLAPS

-----------------------------------------------------------------------------
(* Types. *)

LEMMA InitTypeOK == Init => TypeOK
<1> SUFFICES ASSUME Init PROVE TypeOK
  OBVIOUS
<1> USE TokenAssumption DEF NoToken
<1>1. 1 \in 1..MaxLogins /\ 0 \in 0..MaxCrashes /\ NoToken \in NoToken..MaxLogins
  OBVIOUS
<1>2. pc \in [Calls -> {"idle", "waiting", "refreshing", "answered", "persisting", "returned",
                       "failed"}]
  BY DEF Init
<1>3. /\ asked \in [Calls -> NoToken..MaxLogins]
      /\ answer \in [Calls -> NoToken..MaxLogins]
      /\ given \in [Calls -> NoToken..MaxLogins]
  BY <1>1 DEF Init
<1>4. holder \in Calls \cup {NoCall}
  BY DEF Init
<1>5. QED BY <1>1, <1>2, <1>3, <1>4 DEF Init, TypeOK

LEMMA NextTypeOK == TypeOK /\ [Next]_vars => TypeOK'
<1> SUFFICES ASSUME TypeOK, [Next]_vars PROVE TypeOK'
  OBVIOUS
<1> USE TokenAssumption DEF TypeOK, NoToken
<1>1. ASSUME NEW c \in Calls, Call(c) PROVE TypeOK'
  BY <1>1 DEF Call, Goto, issuer, fate
<1>2. ASSUME NEW c \in Calls, Enter(c) PROVE TypeOK'
  <2>1. CASE Reuse(c)
    BY <1>2, <2>1 DEF Enter, Reuse, Goto, issuer, fate
  <2>2. CASE SendRefresh(c) /\ holder' = c
    BY <1>2, <2>2 DEF Enter, SendRefresh, Goto, issuer, fate
  <2>3. QED BY <1>2, <2>1, <2>2 DEF Enter
<1>3. ASSUME NEW c \in Calls, Rotate(c) PROVE TypeOK'
  BY <1>3 DEF Rotate, Goto, fate
<1>4. ASSUME NEW c \in Calls, Revoke(c) \/ RefreshFails(c) \/ LoseAnswer(c) PROVE TypeOK'
  BY <1>4 DEF Revoke, RefreshFails, LoseAnswer, Leave, Goto, issuer, fate
<1>5. ASSUME NEW c \in Calls, TakeAnswer(c) PROVE TypeOK'
  <2>1. RefreshToken(c) \in 1..MaxLogins
    BY DEF RefreshToken
  <2>2. tok' \in 1..MaxLogins /\ tok' \in NoToken..MaxLogins
    BY <1>5, <2>1 DEF TakeAnswer
  <2>3. given' \in [Calls -> NoToken..MaxLogins]
    BY <1>5, <2>2 DEF TakeAnswer
  <2>5. pc' \in [Calls -> {"idle", "waiting", "refreshing", "answered", "persisting", "returned",
                          "failed"}]
    BY <1>5 DEF TakeAnswer, Goto
  <2>6. QED BY <1>5, <2>2, <2>3, <2>5 DEF TakeAnswer, issuer, fate
<1>6. ASSUME NEW c \in Calls, Persist(c) \/ PersistFails(c) PROVE TypeOK'
  BY <1>6 DEF Persist, PersistFails, Leave, Goto, issuer, fate
<1>7. CASE Expire
  BY <1>7 DEF Expire, issuer, fate
<1>8. CASE Crash
  BY <1>8 DEF Crash
<1>9. CASE UNCHANGED vars
  BY <1>9 DEF vars, process, issuer, fate
<1>10. QED
  BY <1>1, <1>2, <1>3, <1>4, <1>5, <1>6, <1>7, <1>8, <1>9 DEF Next, Refresh

\* The variables of the token source and its issuer keep their types.
THEOREM TypeCorrect == Spec => []TypeOK
  BY InitTypeOK, NextTypeOK, PTL DEF Spec

-----------------------------------------------------------------------------
(***************************************************************************)
(* A refresh is made under the mutex, so what it sent is still what is in  *)
(* memory when it is answered; the answer, when there is one, is all that  *)
(* keeps the memory from being what the issuer expects.                    *)
(***************************************************************************)
MutexInv == \A c \in Calls : InRefresh(c) => holder = c

\* Nothing has separated the process from its issuer.
Together == ~doomed

RefreshInv ==
  Together =>
    /\ ~revoked
    /\ \A c \in Calls : pc[c] = "refreshing" => asked[c] = tok
    /\ \A c \in Calls : pc[c] = "answered" => RefreshToken(c) = current
    /\ (\A c \in Calls : pc[c] # "answered") => tok = current

\* A call that is about to refresh has no answer of an earlier one.
AnswerInv == \A c \in Calls : pc[c] \in {"idle", "waiting", "refreshing"} => answer[c] = NoToken

IInv == TypeOK /\ MutexInv /\ AnswerInv /\ RefreshInv

LEMMA InitIInv == Init => IInv
<1> SUFFICES ASSUME Init PROVE IInv
  OBVIOUS
<1>1. \A c \in Calls : pc[c] = "idle" /\ answer[c] = NoToken
  BY DEF Init
<1>2. QED
  BY <1>1, InitTypeOK DEF Init, IInv, MutexInv, AnswerInv, InRefresh, RefreshInv

LEMMA NextMutexInv == TypeOK /\ MutexInv /\ [Next]_vars => MutexInv'
<1> SUFFICES ASSUME TypeOK, MutexInv, [Next]_vars PROVE MutexInv'
  OBVIOUS
<1> USE TokenAssumption DEF TypeOK, MutexInv, InRefresh
<1>1. ASSUME NEW c \in Calls, Call(c) \/ Enter(c) PROVE MutexInv'
  BY <1>1 DEF Call, Enter, Reuse, SendRefresh, Goto
<1>2. ASSUME NEW c \in Calls, Rotate(c) \/ TakeAnswer(c) PROVE MutexInv'
  BY <1>2 DEF Rotate, TakeAnswer, Goto
<1>3. ASSUME NEW c \in Calls,
             \/ Revoke(c) \/ RefreshFails(c) \/ LoseAnswer(c)
             \/ Persist(c) \/ PersistFails(c)
      PROVE MutexInv'
  BY <1>3 DEF Revoke, RefreshFails, LoseAnswer, Persist, PersistFails, Leave, Goto
<1>4. CASE Expire \/ UNCHANGED vars
  BY <1>4 DEF Expire, vars, process
<1>5. CASE Crash
  BY <1>5 DEF Crash
<1>6. QED BY <1>1, <1>2, <1>3, <1>4, <1>5 DEF Next, Refresh

LEMMA NextAnswerInv == TypeOK /\ AnswerInv /\ [Next]_vars => AnswerInv'
<1> SUFFICES ASSUME TypeOK, AnswerInv, [Next]_vars PROVE AnswerInv'
  OBVIOUS
<1> USE DEF TypeOK, AnswerInv
<1>1. ASSUME NEW c \in Calls, Call(c) \/ Enter(c) PROVE AnswerInv'
  BY <1>1 DEF Call, Enter, Reuse, SendRefresh, Goto
<1>2. ASSUME NEW c \in Calls, Refresh(c) PROVE AnswerInv'
  BY <1>2 DEF Refresh, Rotate, TakeAnswer, Revoke, RefreshFails, LoseAnswer, Persist,
              PersistFails, Leave, Goto
<1>3. CASE Expire \/ Crash \/ UNCHANGED vars
  BY <1>3 DEF Expire, Crash, vars, process
<1>4. QED BY <1>1, <1>2, <1>3 DEF Next

LEMMA NextRefreshInv ==
  TypeOK /\ MutexInv /\ AnswerInv /\ RefreshInv /\ [Next]_vars => RefreshInv'
<1> SUFFICES ASSUME TypeOK, MutexInv, AnswerInv, RefreshInv, [Next]_vars PROVE RefreshInv'
  OBVIOUS
<1> USE DEF TypeOK, Together, RefreshInv, RefreshToken
<1>1. ASSUME NEW c \in Calls, Call(c) PROVE RefreshInv'
  BY <1>1 DEF Call, Goto, issuer, fate
<1>2. ASSUME NEW c \in Calls, Enter(c) PROVE RefreshInv'
  BY <1>2 DEF Enter, Reuse, SendRefresh, Goto, issuer, fate
<1>3. ASSUME NEW c \in Calls, pc[c] \in {"refreshing", "answered", "persisting"}
      PROVE  \A d \in Calls \ {c} : ~InRefresh(d)
  BY <1>3 DEF MutexInv, InRefresh
<1>4. ASSUME NEW c \in Calls, Rotate(c) PROVE RefreshInv'
  BY <1>3, <1>4 DEF Rotate, Goto, fate, AnswerInv, InRefresh, NoToken
<1>5. ASSUME NEW c \in Calls, Revoke(c) \/ RefreshFails(c) PROVE RefreshInv'
  BY <1>3, <1>5 DEF Revoke, RefreshFails, Leave, Goto, issuer, fate, InRefresh
<1>6. ASSUME NEW c \in Calls, LoseAnswer(c) PROVE RefreshInv'
  BY <1>3, <1>6 DEF LoseAnswer, Leave, Goto, issuer, InRefresh, NoToken
<1>7. ASSUME NEW c \in Calls, TakeAnswer(c) PROVE RefreshInv'
  BY <1>3, <1>7 DEF TakeAnswer, Goto, issuer, fate, InRefresh
<1>8. ASSUME NEW c \in Calls, Persist(c) \/ PersistFails(c) PROVE RefreshInv'
  BY <1>8 DEF Persist, PersistFails, Leave, Goto, issuer, fate
<1>9. CASE Expire \/ UNCHANGED vars
  BY <1>9 DEF Expire, vars, process, issuer, fate
<1>10. CASE Crash
  BY <1>10 DEF Crash
<1>11. QED
  BY <1>1, <1>2, <1>4, <1>5, <1>6, <1>7, <1>8, <1>9, <1>10 DEF Next, Refresh

LEMMA Invariance == Spec => []IInv
<1>1. IInv /\ [Next]_vars => IInv'
  BY NextTypeOK, NextMutexInv, NextAnswerInv, NextRefreshInv DEF IInv
<1>2. QED BY InitIInv, <1>1, PTL DEF Spec

\* However many calls share a login, they do not revoke it, as long as no
\* new refresh token is lost, in an answer or in a crash.
THEOREM SharedLoginSurvives == Spec => []LoginSurvives
<1>1. IInv => LoginSurvives
  BY DEF IInv, RefreshInv, Together, LoginSurvives
<1>2. QED BY Invariance, <1>1, PTL

\* Between refreshes the token in memory is the one the issuer expects, whether
\* or not it could be persisted.
THEOREM MemoryKeepsUp == Spec => []MemoryIsCurrent
<1>1. IInv => MemoryIsCurrent
  BY DEF IInv, RefreshInv, Together, MemoryIsCurrent
<1>2. QED BY Invariance, <1>1, PTL

-----------------------------------------------------------------------------
(***************************************************************************)
(* Logins only get newer, from the store over the memory to the issuer; so *)
(* a login that is newer than the store was given to a caller, who failed, *)
(* or is still being persisted by the one that holds the mutex.            *)
(***************************************************************************)
OrderInv ==
  /\ stored <= tok /\ tok <= current
  /\ \A c \in Calls : pc[c] = "answered" /\ answer[c] # NoToken =>
       tok <= answer[c] /\ answer[c] <= current

Persisting == \E c \in Calls : pc[c] = "persisting"
Told(login) == \E d \in Calls : pc[d] = "failed" /\ given[d] = login

UnsavedInv ==
  /\ \A c \in Calls : pc[c] = "persisting" => given[c] = tok
  /\ tok > stored => Persisting \/ Told(tok)

SavedInv == OrderInv /\ UnsavedInv /\ UnsavedIsReported

LEMMA InitSavedInv == Init => SavedInv
<1> SUFFICES ASSUME Init PROVE SavedInv
  OBVIOUS
<1>1. stored = 1 /\ tok = 1 /\ current = 1 /\ \A c \in Calls : pc[c] = "idle"
  BY DEF Init
<1> QED
  BY <1>1 DEF SavedInv, OrderInv, UnsavedInv, UnsavedIsReported

LEMMA NextOrderInv == TypeOK /\ MutexInv /\ AnswerInv /\ OrderInv /\ [Next]_vars => OrderInv'
<1> SUFFICES ASSUME TypeOK, MutexInv, AnswerInv, OrderInv, [Next]_vars PROVE OrderInv'
  OBVIOUS
<1> USE DEF TypeOK, OrderInv, NoToken
<1>1. ASSUME NEW c \in Calls, Call(c) \/ Enter(c) PROVE OrderInv'
  BY <1>1 DEF Call, Enter, Reuse, SendRefresh, Goto, issuer, fate
<1>2. ASSUME NEW c \in Calls, pc[c] \in {"refreshing", "answered", "persisting"}
      PROVE  \A d \in Calls \ {c} : ~InRefresh(d)
  BY <1>2 DEF MutexInv, InRefresh
<1>3. ASSUME NEW c \in Calls, Rotate(c) PROVE OrderInv'
  BY <1>2, <1>3 DEF Rotate, Goto, fate, AnswerInv, InRefresh
<1>4. ASSUME NEW c \in Calls, Revoke(c) \/ RefreshFails(c) \/ LoseAnswer(c) PROVE OrderInv'
  BY <1>4 DEF Revoke, RefreshFails, LoseAnswer, Leave, Goto, issuer, fate
<1>5. ASSUME NEW c \in Calls, TakeAnswer(c) PROVE OrderInv'
  <2>1. tok <= RefreshToken(c) /\ RefreshToken(c) <= current /\ RefreshToken(c) \in Nat
    BY <1>5, TokenAssumption DEF TakeAnswer, RefreshToken
  <2>2. /\ tok' = RefreshToken(c) /\ stored' = stored /\ current' = current /\ answer' = answer
        /\ \A d \in Calls : pc'[d] # "answered"
    BY <1>2, <1>5 DEF TakeAnswer, Goto, issuer, InRefresh
  <2> QED
    BY <2>1, <2>2
<1>6. ASSUME NEW c \in Calls, Persist(c) \/ PersistFails(c) PROVE OrderInv'
  BY <1>6 DEF Persist, PersistFails, Leave, Goto, issuer, fate
<1>7. CASE Expire \/ UNCHANGED vars
  BY <1>7 DEF Expire, vars, process, issuer, fate
<1>8. CASE Crash
  <2>1. /\ current <= current' /\ current' \in Nat /\ stored' = stored /\ tok' = stored
        /\ \A c \in Calls : pc'[c] # "answered"
    BY <1>8 DEF Crash
  <2> QED
    BY <2>1
<1> QED
  BY <1>1, <1>3, <1>4, <1>5, <1>6, <1>7, <1>8 DEF Next, Refresh

\* A step that keeps both logins, and what those who failed were given.
LEMMA UnsavedKept ==
  ASSUME UnsavedInv, UnsavedIsReported, tok' = tok, stored' = stored,
         \A c \in Calls : pc'[c] = "persisting" => pc[c] = "persisting" /\ given'[c] = given[c],
         \A c \in Calls : pc[c] = "persisting" => pc'[c] \in {"persisting", "failed"} /\ given'[c] = given[c],
         \A c \in Calls : pc[c] = "failed" => pc'[c] = "failed" /\ given'[c] = given[c],
         \A c \in Calls : pc'[c] = "returned" =>
           \/ pc[c] = "returned" /\ given'[c] = given[c]
           \/ given'[c] = tok /\ ~Persisting
  PROVE  UnsavedInv' /\ UnsavedIsReported'
<1>1. \A login : Told(login) => Told(login)'
  BY DEF Told
<1>2. tok > stored => Persisting' \/ Told(tok)'
  <2>1. CASE Told(tok)
    BY <1>1, <2>1
  <2>2. ASSUME NEW c \in Calls, pc[c] = "persisting"
        PROVE  Persisting' \/ Told(tok)'
    <3>1. given'[c] = tok /\ pc'[c] \in {"persisting", "failed"}
      BY <2>2 DEF UnsavedInv
    <3> QED
      BY <3>1 DEF Persisting, Told
  <2> QED
    BY <2>1, <2>2 DEF UnsavedInv, Persisting
<1>3. UnsavedInv'
  BY <1>2 DEF UnsavedInv, Told
<1>4. ASSUME NEW c \in Calls, pc'[c] = "returned", given'[c] > stored'
      PROVE  \E d \in Calls : pc'[d] = "failed" /\ given'[d] = given'[c]
  <2>1. \E d \in Calls : pc[d] = "failed" /\ given[d] = given'[c]
    BY <1>4 DEF UnsavedIsReported, Told, UnsavedInv
  <2> QED
    BY <2>1
<1> QED
  BY <1>3, <1>4 DEF UnsavedIsReported

LEMMA NextUnsavedInv ==
  TypeOK /\ MutexInv /\ OrderInv /\ UnsavedInv /\ UnsavedIsReported /\ [Next]_vars
    => UnsavedInv' /\ UnsavedIsReported'
<1> SUFFICES ASSUME TypeOK, MutexInv, OrderInv, UnsavedInv, UnsavedIsReported, [Next]_vars
             PROVE  UnsavedInv' /\ UnsavedIsReported'
  OBVIOUS
<1> USE DEF TypeOK
<1>1. ASSUME NEW c \in Calls, Call(c) PROVE UnsavedInv' /\ UnsavedIsReported'
  BY <1>1, UnsavedKept DEF Call, Goto
<1>2. ASSUME NEW c \in Calls, Enter(c) PROVE UnsavedInv' /\ UnsavedIsReported'
  <2>1. ~Persisting
    BY <1>2, TokenAssumption DEF Enter, MutexInv, InRefresh, Persisting
  <2>2. CASE Reuse(c)
    BY <1>2, <2>1, <2>2, UnsavedKept DEF Enter, Reuse, Goto
  <2>3. CASE SendRefresh(c)
    BY <1>2, <2>3, UnsavedKept DEF Enter, SendRefresh, Goto
  <2> QED
    BY <1>2, <2>2, <2>3 DEF Enter
<1>3. ASSUME NEW c \in Calls, Rotate(c) PROVE UnsavedInv' /\ UnsavedIsReported'
  BY <1>3, UnsavedKept DEF Rotate, Goto
<1>4. ASSUME NEW c \in Calls, Revoke(c) \/ RefreshFails(c) \/ LoseAnswer(c) \/ PersistFails(c)
      PROVE  UnsavedInv' /\ UnsavedIsReported'
  BY <1>4, UnsavedKept DEF Revoke, RefreshFails, LoseAnswer, PersistFails, Leave, Goto
<1>5. ASSUME NEW c \in Calls, TakeAnswer(c) PROVE UnsavedInv' /\ UnsavedIsReported'
  <2>1. /\ stored' = stored /\ given'[c] = tok' /\ pc'[c] = "persisting" /\ pc[c] = "answered"
        /\ \A d \in Calls \ {c} : pc'[d] = pc[d] /\ given'[d] = given[d]
    BY <1>5 DEF TakeAnswer, Goto
  <2>2. \A d \in Calls \ {c} : pc[d] # "persisting"
    BY <2>1 DEF MutexInv, InRefresh
  <2>3. UnsavedInv'
    BY <2>1, <2>2 DEF UnsavedInv, Persisting
  <2>4. UnsavedIsReported'
    BY <2>1 DEF UnsavedIsReported
  <2> QED
    BY <2>3, <2>4
<1>6. ASSUME NEW c \in Calls, Persist(c) PROVE UnsavedInv' /\ UnsavedIsReported'
  <2>1. /\ stored' = tok /\ tok' = tok /\ given' = given /\ pc'[c] = "returned"
        /\ pc[c] = "persisting" /\ \A d \in Calls \ {c} : pc'[d] = pc[d]
    BY <1>6 DEF Persist, Leave, Goto
  <2>2. given[c] = tok /\ stored <= tok /\ tok \in Nat /\ stored \in Nat
    BY <2>1 DEF UnsavedInv, OrderInv
  <2>3. \A d \in Calls : given[d] \in Nat
    BY TokenAssumption DEF NoToken
  <2>4. UnsavedInv'
    BY <2>1, <2>2 DEF UnsavedInv
  <2>5. UnsavedIsReported'
    BY <2>1, <2>2, <2>3 DEF UnsavedIsReported
  <2> QED
    BY <2>4, <2>5
<1>7. CASE Expire \/ UNCHANGED vars
  BY <1>7, UnsavedKept DEF Expire, vars, process
<1>8. CASE Crash
  <2>1. tok' = stored' /\ stored' \in Nat /\ \A c \in Calls : pc'[c] \notin {"persisting", "returned"}
    BY <1>8 DEF Crash
  <2> QED
    BY <2>1 DEF UnsavedInv, UnsavedIsReported
<1> QED
  BY <1>1, <1>2, <1>3, <1>4, <1>5, <1>6, <1>7, <1>8 DEF Next, Refresh

\* No call returns a login that could not be persisted unless another call has
\* failed with it before.
THEOREM UnsavedIsTold == Spec => []UnsavedIsReported
<1>1. IInv /\ SavedInv /\ [Next]_vars => SavedInv'
  BY NextOrderInv, NextUnsavedInv DEF IInv, SavedInv
<1>2. SavedInv => UnsavedIsReported
  BY DEF SavedInv
<1> QED
  BY InitSavedInv, Invariance, <1>1, <1>2, PTL DEF Spec
=============================================================================
