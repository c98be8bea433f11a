----------------------------- MODULE CodexToken -----------------------------
(***************************************************************************)
(* codex.TokenSource (llm/codex/auth.go): the calls of one process share a *)
(* ChatGPT login.  Its refresh token rotates with every refresh and a      *)
(* replayed one revokes the login, so a mutex keeps one refresh in flight, *)
(* which no caller's context can cut short, and every rotated login is     *)
(* handed to onRefresh to be persisted.                                    *)
(*                                                                         *)
(* A login is the number of its refresh token.  The issuer is modelled as  *)
(* the comments describe it (auth.go:41-43, 229-232).  A process may crash *)
(* and be restarted with the login that was persisted.  A retry            *)
(* (codex/client.go:90) is one more call.                                  *)
(***************************************************************************)
EXTENDS Naturals

CONSTANTS Calls,        \* the calls of Token
          NoCall,       \* "the mutex is free"
          MaxLogins,    \* bound: the logins the issuer hands out
          MaxCrashes    \* bound: crashes of the process

ASSUME TokenAssumption ==
  /\ NoCall \notin Calls
  /\ MaxLogins \in Nat \ {0}
  /\ MaxCrashes \in Nat

VARIABLES
  pc,       \* pc[c]: where call c is
  holder,   \* the call that holds s.mu, or NoCall
  tok,      \* s.tok
  stale,    \* whether s.tok expires within refreshSkew
  asked,    \* asked[c]: the refresh token call c sent
  answer,   \* answer[c]: the refresh token in the issuer's answer, or NoToken
  given,    \* given[c]: the login Token returned, or failed to persist
  current,  \* the issuer's side: the refresh token not used yet
  revoked,  \*                    whether the login is revoked
  stored,   \* the login that was persisted last
  crashes,  \* crashes so far
  doomed    \* whether a new refresh token got lost: in an answer, or in a
            \* crash (history variable)

issuer == <<current, revoked>>
process == <<pc, holder, tok, stale, asked, answer, given>>
fate == <<crashes, doomed>>
vars == <<process, issuer, stored, fate>>

NoToken == 0

TypeOK ==
  /\ pc \in [Calls -> {"idle", "waiting", "refreshing", "answered", "persisting", "returned",
                       "failed"}]
  /\ holder \in Calls \cup {NoCall}
  /\ tok \in 1..MaxLogins
  /\ stale \in BOOLEAN
  /\ asked \in [Calls -> NoToken..MaxLogins]
  /\ answer \in [Calls -> NoToken..MaxLogins]
  /\ given \in [Calls -> NoToken..MaxLogins]
  /\ current \in 1..MaxLogins
  /\ revoked \in BOOLEAN
  /\ stored \in 1..MaxLogins
  /\ crashes \in 0..MaxCrashes
  /\ doomed \in BOOLEAN

\* NewTokenSource with a login that is stored, and may be about to expire.
Init ==
  /\ pc = [c \in Calls |-> "idle"]
  /\ holder = NoCall
  /\ tok = 1
  /\ stale \in BOOLEAN
  /\ asked = [c \in Calls |-> NoToken]
  /\ answer = [c \in Calls |-> NoToken]
  /\ given = [c \in Calls |-> NoToken]
  /\ current = 1
  /\ revoked = FALSE
  /\ stored = 1
  /\ crashes = 0
  /\ doomed = FALSE

-----------------------------------------------------------------------------
Goto(c, l) == pc' = [pc EXCEPT ![c] = l]

\* Token returns, and its deferred Unlock runs.
Leave(c, l) == Goto(c, l) /\ holder' = NoCall

\* Token is called.
Call(c) ==
  /\ pc[c] = "idle"
  /\ Goto(c, "waiting")
  /\ UNCHANGED <<holder, tok, stale, asked, answer, given, issuer, stored, fate>>

\* The login in memory, if it is good for a while.
Reuse(c) == /\ ~stale
            /\ given' = [given EXCEPT ![c] = tok]
            /\ Goto(c, "returned")
            /\ UNCHANGED <<holder, asked>>

SendRefresh(c) == /\ stale
                  /\ asked' = [asked EXCEPT ![c] = tok]
                  /\ Goto(c, "refreshing")
                  /\ UNCHANGED given

\* As if the mutex were not held over the refresh.
EnterAnyway(c) ==
  /\ pc[c] = "waiting"
  /\ Reuse(c) \/ (SendRefresh(c) /\ UNCHANGED holder)
  /\ UNCHANGED <<tok, stale, answer, issuer, stored, fate>>

\* s.mu is obtained, and given back at once or after the refresh.
Enter(c) ==
  /\ pc[c] = "waiting"
  /\ holder = NoCall
  /\ Reuse(c) \/ (SendRefresh(c) /\ holder' = c)
  /\ UNCHANGED <<tok, stale, answer, issuer, stored, fate>>

\* The issuer rotates the refresh token it knows, or answers without a new one.
Rotate(c) ==
  /\ pc[c] = "refreshing"
  /\ ~revoked /\ asked[c] = current
  /\ \/ /\ current < MaxLogins
        /\ current' = current + 1
        /\ answer' = [answer EXCEPT ![c] = current']
     \/ UNCHANGED <<current, answer>>
  /\ Goto(c, "answered")
  /\ UNCHANGED <<holder, tok, stale, asked, given, revoked, stored, fate>>

\* A used refresh token revokes the login: ErrReauthRequired.
Revoke(c) ==
  /\ pc[c] = "refreshing"
  /\ revoked \/ asked[c] # current
  /\ revoked' = TRUE
  /\ Leave(c, "failed")
  /\ UNCHANGED <<tok, stale, asked, answer, given, current, stored, fate>>

\* As if a failed refresh did not unlock s.mu.
RefreshFailsLocked(c) ==
  /\ pc[c] = "refreshing"
  /\ Goto(c, "failed")
  /\ UNCHANGED <<holder, tok, stale, asked, answer, given, issuer, stored, fate>>

\* The request fails before the issuer rotates anything: no connection, 429, 5xx.
RefreshFails(c) ==
  /\ pc[c] = "refreshing"
  /\ Leave(c, "failed")
  /\ UNCHANGED <<tok, stale, asked, answer, given, issuer, stored, fate>>

\* The answer does not arrive, or cannot be read.  The caller's context is no
\* reason for that: the refresh does not depend on it.
LoseAnswer(c) ==
  /\ pc[c] = "answered"
  /\ doomed' = (doomed \/ answer[c] # NoToken)
  /\ Leave(c, "failed")
  /\ UNCHANGED <<tok, stale, asked, answer, given, issuer, stored, crashes>>

\* As if the answer always held a refresh token.
RefreshTokenAsSent(c) == answer[c]

\* An answer without a refresh token leaves the one in use.
RefreshToken(c) == IF answer[c] = NoToken THEN tok ELSE answer[c]

\* The new login is in memory, and onRefresh is called.
TakeAnswer(c) ==
  /\ pc[c] = "answered"
  /\ tok' = RefreshToken(c)
  /\ stale' = FALSE
  /\ given' = [given EXCEPT ![c] = tok']
  /\ Goto(c, "persisting")
  /\ UNCHANGED <<holder, asked, answer, issuer, stored, fate>>

\* onRefresh stores the login.
Persist(c) ==
  /\ pc[c] = "persisting"
  /\ stored' = tok
  /\ Leave(c, "returned")
  /\ UNCHANGED <<tok, stale, asked, answer, given, issuer, fate>>

\* As if a login that could not be persisted were dropped.
PersistFailsRollsBack(c) ==
  /\ pc[c] = "persisting"
  /\ tok' = asked[c]
  /\ stale' = TRUE
  /\ Leave(c, "failed")
  /\ UNCHANGED <<asked, answer, given, issuer, stored, fate>>

\* The caller is told; the login is kept in memory.
PersistFails(c) ==
  /\ pc[c] = "persisting"
  /\ Leave(c, "failed")
  /\ UNCHANGED <<tok, stale, asked, answer, given, issuer, stored, fate>>

\* Time passes.
Expire ==
  /\ ~stale
  /\ stale' = TRUE
  /\ UNCHANGED <<pc, holder, tok, asked, answer, given, issuer, stored, fate>>

\* The process dies, and a refresh that was sent may still reach the issuer;
\* it is started again with what was stored.
Crash ==
  /\ crashes < MaxCrashes
  /\ crashes' = crashes + 1
  /\ \/ UNCHANGED current
     \/ /\ \E c \in Calls : pc[c] = "refreshing" /\ asked[c] = current
        /\ ~revoked /\ current < MaxLogins
        /\ current' = current + 1
  /\ doomed' = (doomed \/ stored # current')
  /\ pc' = [c \in Calls |-> IF pc[c] = "idle" THEN "idle" ELSE "failed"]
  /\ holder' = NoCall
  /\ tok' = stored
  /\ stale' \in BOOLEAN
  /\ UNCHANGED <<asked, answer, given, revoked, stored>>

Refresh(c) == \/ Rotate(c) \/ Revoke(c) \/ RefreshFails(c)
              \/ LoseAnswer(c) \/ TakeAnswer(c) \/ Persist(c) \/ PersistFails(c)

Next == (\E c \in Calls : Call(c) \/ Enter(c) \/ Refresh(c)) \/ Expire \/ Crash

Spec == Init /\ [][Next]_vars

\* Requests end within their timeouts, and onRefresh comes back.
FairSpec == Spec /\ \A c \in Calls : WF_vars(Enter(c)) /\ WF_vars(Refresh(c))

-----------------------------------------------------------------------------
InRefresh(c) == pc[c] \in {"refreshing", "answered", "persisting"}

\* The login is never revoked by the process itself, however its calls overlap,
\* expire and fail, unless a new refresh token got lost: the answer that held it
\* never came, or a crash left the used one in the store (auth.go:229-232,
\* 255-258).
LoginSurvives == revoked => doomed

\* Whatever onRefresh does, the refresh token in memory is the one the issuer
\* expects next, except while its answer is under way (auth.go:246-248, 273).
MemoryIsCurrent ==
  /\ TypeOK
  /\ ~doomed /\ (\A c \in Calls : pc[c] # "answered") => tok = current

\* A login that is not persisted is used only after a caller has been told so:
\* no call returns it while onRefresh is still at it, and if onRefresh failed,
\* the call that made it did, too (auth.go:246-248, 274-279).
UnsavedIsReported ==
  \A c \in Calls : pc[c] = "returned" /\ given[c] > stored =>
    \E d \in Calls : pc[d] = "failed" /\ given[d] = given[c]

\* Every call comes back.
TokenReturns == \A c \in Calls : pc[c] = "waiting" ~> pc[c] \in {"returned", "failed"}

=============================================================================
