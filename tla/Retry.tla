------------------------------- MODULE Retry --------------------------------
(***************************************************************************)
(* One call of retry.Do (retry/retry.go): fn is tried up to MaxAttempts    *)
(* times, with a sleep between two attempts that the context cuts short.   *)
(* How long a sleep takes (computeBackoff, RetryAfterError) is left out.   *)
(* Modules that retry instantiate this one and take their own steps with   *)
(* its steps; it has no next-state relation of its own.                    *)
(***************************************************************************)
EXTENDS Naturals

CONSTANTS MaxAttempts,  \* Policy.MaxAttempts
          Errors,       \* what fn may return besides nil
          Retryable     \* Policy.ShouldRetry

Attempts == IF MaxAttempts < 1 THEN 1 ELSE MaxAttempts

VARIABLES
  at,       \* where Do is
  attempt,  \* the number of the attempt
  lastErr,  \* what the last attempt returned, or "none"
  result,   \* what Do returned: "ok", an error, "ctx" for ctx.Err(); or "none"
  ctx       \* Err() of the context

RetryTypeOK ==
  /\ at \in {"idle", "ready", "trying", "sleeping", "done"}
  /\ attempt \in 0..Attempts
  /\ lastErr \in Errors \cup {"none"}
  /\ result \in Errors \cup {"none", "ok", "ctx"}

RetryInit == at = "idle" /\ attempt = 0 /\ lastErr = "none" /\ result = "none"

-----------------------------------------------------------------------------
\* Do returns, and its variables are gone.
Return(e) == at' = "done" /\ result' = e /\ attempt' = 0 /\ lastErr' = "none"

\* Do is called.
Do == /\ at' = "ready"
      /\ attempt' = 1
      /\ lastErr' = "none"
      /\ result' = "none"

\* fn is called.
Try == /\ at = "ready" /\ ctx = "nil"
       /\ at' = "trying"
       /\ UNCHANGED <<attempt, lastErr, result>>

\* The context is over before an attempt.
Bail == /\ at = "ready" /\ ctx # "nil"
        /\ Return(IF lastErr = "none" THEN "ctx" ELSE lastErr)

Succeed == at = "trying" /\ Return("ok")

\* As if ShouldRetry were not asked.
FailUnasked(e) == /\ at = "trying"
                  /\ IF attempt = Attempts
                       THEN Return(e)
                       ELSE at' = "sleeping" /\ lastErr' = e /\ UNCHANGED <<attempt, result>>

\* fn returns an error.
Fail(e) == /\ at = "trying"
           /\ IF e \notin Retryable \/ attempt = Attempts
                THEN Return(e)
                ELSE at' = "sleeping" /\ lastErr' = e /\ UNCHANGED <<attempt, result>>

\* The timer fires.
Wake == /\ at = "sleeping"
        /\ at' = "ready"
        /\ attempt' = attempt + 1
        /\ UNCHANGED <<lastErr, result>>

\* The context is over: the select takes this branch or, if the timer has
\* fired, the other one.
Cancelled == /\ at = "sleeping" /\ ctx # "nil"
             /\ Return("ctx")

\* The steps that Do takes by itself.
Wait == Bail \/ Wake \/ Cancelled
=============================================================================
