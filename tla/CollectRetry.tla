---------------------------- MODULE CollectRetry ----------------------------
(***************************************************************************)
(* llm.CollectWithRetry (llm/helpers.go): Collect under retry.Do, each     *)
(* attempt with a stream of its own and, inside Stream, retries of its     *)
(* own.  The goroutine of a stream goes on when Collect has left it; once    *)
(* there is a new one, with which it shares only the context, it is        *)
(* forgotten: it is like any other by then.                                *)
(***************************************************************************)
EXTENDS ChatStream, Integers

CONSTANTS MaxAttempts  \* Policy.MaxAttempts

ASSUME RetriesAssumption == MaxAttempts \in Int

VARIABLES
  aAt, aTry, aErr, aRes,  \* retry.Do around Collect
  last                    \* how the last one went (history variable)

\* ShouldRetry is IsTransientServerError.
Again == INSTANCE Retry WITH
  Errors <- Errors \cup {"ctx"}, Retryable <- {"server"},
  at <- aAt, attempt <- aTry, lastErr <- aErr, result <- aRes

againVars == <<aAt, aTry, aErr, aRes>>
rvars == <<vars, againVars, last>>

RTypeOK ==
  /\ TypeOK
  /\ Again!RetryTypeOK
  /\ last \in Errors \cup {"none", "ok", "ctx"}

RInit == Init /\ Again!RetryInit /\ last = "none"

-----------------------------------------------------------------------------
CallRetry ==
  /\ aAt = "idle"
  /\ Again!Do
  /\ UNCHANGED <<vars, last>>

\* Collect is called, and calls Stream.
Attempt ==
  /\ Again!Try
  /\ Http!Do
  /\ ppc' = "none" /\ heard' = <<>> /\ asm' = NoFragments
  /\ sawError' = FALSE /\ usageSent' = FALSE /\ finish' = "none" /\ body' = "open"
  /\ batch' = <<>> /\ out' = <<>> /\ got' = 0
  /\ cpc' = "opening" /\ res' = "none"
  /\ UNCHANGED <<ctx, last>>

WaitAgain == Again!Wait /\ UNCHANGED <<vars, last>>

\* A step of Collect or Stream, and of processStream.
Told == /\ last' = IF res' # res THEN res'
                   ELSE IF hErr' # hErr /\ hErr' # "none" THEN hErr' ELSE last
        /\ UNCHANGED againVars
Inner == aAt = "trying" /\ (Opening \/ Collect) /\ Told
Stream == aAt # "idle" /\ (Reading \/ Sending) /\ Told

CollectReturned ==
  /\ aAt = "trying" /\ cpc = "returned"
  /\ IF res = "ok" THEN Again!Succeed ELSE Again!Fail(res)
  /\ UNCHANGED <<vars, last>>

Cancel == aAt # "done" /\ CtxOver /\ UNCHANGED <<againVars, last>>

RNext == CallRetry \/ Attempt \/ WaitAgain \/ Inner \/ Stream \/ CollectReturned \/ Cancel

RSpec == RInit /\ [][RNext]_rvars

(***************************************************************************)
(* Requests are answered, timers fire, and the provider ends every body in *)
(* the end.  Nothing makes a caller end its context.                       *)
(***************************************************************************)
RFairSpec ==
  /\ RSpec
  /\ WF_rvars(Attempt) /\ WF_rvars(WaitAgain) /\ WF_rvars(CollectReturned)
  /\ WF_rvars(aAt = "trying" /\ Opening /\ Told) /\ WF_rvars(aAt = "trying" /\ Collect /\ Told)
  /\ WF_rvars(aAt # "idle" /\ Reading /\ Told) /\ WF_rvars(aAt # "idle" /\ Sending /\ Told)

-----------------------------------------------------------------------------
\* A request is repeated only if the one before may have failed by chance: not
\* after an authentication error, a bad request or a filtered prompt, whichever
\* of the two retries is asked, and not beyond the product of their bounds
\* (helpers.go:20-25, 41-46, openrouter/retry.go:16-17).
NothingIsRetriedInVain ==
  /\ []RTypeOK
  /\ [][hAt # "trying" /\ hAt' = "trying" =>
          /\ last \in {"none", "server", "rate"}
          /\ hTry <= HttpAttempts /\ aTry <= Again!Attempts]_rvars

\* Every call comes back, however its attempts end; and the goroutine of a stream
\* ends, too, although Collect has left it behind at the first error or at the
\* end of the context (helpers.go:129-130, 158-159).
RetryReturns ==
  /\ aAt = "ready" ~> aAt = "done"
  /\ ppc # "none" ~> ppc \in {"closed", "none"}
=============================================================================
