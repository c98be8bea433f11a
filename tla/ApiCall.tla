------------------------------ MODULE ApiCall ------------------------------
(***************************************************************************)
(* One request at a time of a provider's client, under retry.Do            *)
(* (openrouter.Client.do, codex.Client.do).  What an answer with the       *)
(* wanted status holds is up to the module that asks.                      *)
(***************************************************************************)
EXTENDS Naturals, Sequences

CONSTANTS HttpAttempts,  \* attempts of retry.Do, 3 by default
          Statuses,      \* bound: the HTTP statuses a provider answers with
          CtxEnds        \* bound: how the context may end

ASSUME CallAssumption ==
  /\ HttpAttempts \in Nat \ {0}
  /\ Statuses \subseteq 100..599
  /\ CtxEnds \subseteq {"canceled", "deadline"}

VARIABLES ctx,                    \* Err() of the context
          hAt, hTry, hErr, hRes   \* retry.Do around the request

\* Errors by the sentinel they wrap: ErrServerError, ErrRateLimited, ErrAuth
\* or ErrReauthRequired, ErrInvalidRequest, ErrContentFiltered; "plain" is one
\* that wraps none.
Errors == {"server", "rate", "auth", "invalid", "filtered", "plain"}

Http == INSTANCE Retry WITH
  MaxAttempts <- HttpAttempts, Retryable <- {"server", "rate"},
  at <- hAt, attempt <- hTry, lastErr <- hErr, result <- hRes

callVars == <<ctx, hAt, hTry, hErr, hRes>>
httpVars == <<hAt, hTry, hErr, hRes>>

CallInit == ctx = "nil" /\ Http!RetryInit

CallTypeOK == ctx \in CtxEnds \cup {"nil"} /\ Http!RetryTypeOK

-----------------------------------------------------------------------------
\* classifySentinel of openrouter/retry.go.
ClassifySentinel == [status \in Statuses |->
  CASE status \in {401, 402, 403}                 -> "auth"
    [] status = 429                               -> "rate"
    [] status = 408 \/ status \in 500..599        -> "server"
    [] status \in 400..499 \ {401, 402, 403, 408, 429} -> "invalid"
    [] OTHER                                      -> "server"]

\* statusSentinel of codex/client.go: what it does not know is not retried.
StatusSentinel == [status \in Statuses |->
  CASE status \in {401, 402, 403}    -> "auth"
    [] status = 429                  -> "rate"
    [] status = 408 \/ status >= 500 -> "server"
    [] OTHER                         -> "invalid"]

\* The steps of retry.Do by itself, and a request that fails: there is no
\* answer, its body breaks off, or its status is not the wanted one.
Attempting == (Http!Try \/ Http!Wait) /\ UNCHANGED ctx

Refused(want, class) ==
  /\ \/ Http!Fail("server")
     \/ \E s \in Statuses \ {want} : Http!Fail(class[s])
  /\ UNCHANGED ctx

\* do has returned.
Answered == hAt = "done" /\ hRes = "ok"
GaveUp == hAt = "done" /\ hRes # "ok"

CtxOver == /\ ctx = "nil"
           /\ ctx' \in CtxEnds
           /\ UNCHANGED httpVars
=============================================================================
