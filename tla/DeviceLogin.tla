---------------------------- MODULE DeviceLogin ----------------------------
(***************************************************************************)
(* StartDeviceLogin and PollDeviceLogin of llm/codex/auth.go.  The issuer  *)
(* hands out a code, the user confirms it elsewhere at some time or never, *)
(* and Poll asks for it every Interval until there is no time for another  *)
(* try before the code expires.  A request takes up to MaxDelay; what the  *)
(* issuer says is settled when it is asked.                                *)
(***************************************************************************)
EXTENDS ApiCall

CONSTANTS Interval,   \* DeviceCode.Interval, in units of the clock
          ExpiresAt,  \* DeviceCode.ExpiresAt, the clock being 0 at the start
          MaxDelay    \* bound: how long a request takes

ASSUME DeviceAssumption ==
  Interval \in Nat \ {0} /\ ExpiresAt \in Nat \ {0} /\ MaxDelay \in Nat

VARIABLES
  lpc,        \* where the login is
  now,        \* the clock
  wake,       \* when the timer of the pause fires; or when a request must be answered
  confirmed,  \* the time at which the user confirmed the code, or Never
  askedAt,    \* when the issuer was last asked for the code (history variable)
  heard,      \* whether the issuer was asked when it was confirmed
  code,       \* the authorization code: not handed out, handed out, used
  lres        \* what was returned

deviceVars == <<lpc, now, wake, confirmed, askedAt, heard, code, lres>>

Never == ExpiresAt + MaxDelay + Interval + 1

DeviceTypeOK ==
  /\ lpc \in {"idle", "starting", "polling", "answered", "pausing", "exchanging", "returned"}
  /\ now \in 0..Never /\ wake \in Nat /\ confirmed \in 0..Never /\ askedAt \in 0..Never
  /\ heard \in BOOLEAN /\ code \in {"none", "granted", "used"}
  /\ lres \in Errors \cup {"none", "ctx", "tokens", "expired", "disabled"}

DeviceInit ==
  /\ lpc = "idle" /\ now = 0 /\ wake = 0 /\ confirmed = Never
  /\ askedAt = Never /\ heard = FALSE /\ code = "none" /\ lres = "none"

LoginReturn(r) == lpc' = "returned" /\ lres' = r

-----------------------------------------------------------------------------
\* The user opens the page and enters the code, in time.
Confirm ==
  /\ lpc \in {"polling", "answered", "pausing"}
  /\ confirmed = Never /\ now < ExpiresAt
  /\ confirmed' = now
  /\ UNCHANGED <<callVars, lpc, now, wake, askedAt, heard, code, lres>>

\* Time passes, but not beyond a timer that is due.
Clock ==
  /\ lpc \in {"polling", "answered", "pausing"} /\ now < Never
  /\ now < wake
  /\ now' = now + 1
  /\ UNCHANGED <<callVars, lpc, wake, confirmed, askedAt, heard, code, lres>>

StartLogin ==
  /\ lpc = "idle"
  /\ lpc' = "starting"
  /\ UNCHANGED <<callVars, now, wake, confirmed, askedAt, heard, code, lres>>

\* A 404 says that the issuer has no such login; a 200 may be incomplete.
Started ==
  /\ lpc = "starting"
  /\ UNCHANGED <<callVars, now, confirmed, askedAt, heard, code>>
  /\ \/ lpc' = "polling" /\ wake' = now + MaxDelay /\ UNCHANGED lres
     \/ /\ \/ LoginReturn("server") \/ LoginReturn("plain") \/ LoginReturn("disabled")
           \/ \E s \in Statuses \ {200, 404} : LoginReturn(StatusSentinel[s])
        /\ UNCHANGED wake

\* The issuer looks at the code.
Asked ==
  /\ lpc = "polling"
  /\ askedAt' = now
  /\ heard' = (confirmed # Never)
  /\ code' = IF heard' THEN "granted" ELSE code
  /\ lpc' = "answered"
  /\ UNCHANGED <<callVars, now, wake, confirmed, lres>>

\* The answer is a grant, which is exchanged, or incomplete; or "not confirmed
\* yet", 403 or 404; ...
Granted ==
  /\ lpc = "answered" /\ heard
  /\ UNCHANGED <<callVars, now, wake, confirmed, askedAt, heard, code>>
  /\ \/ lpc' = "exchanging" /\ UNCHANGED lres
     \/ LoginReturn("plain")

\* As if Poll did not look at the time: it asks on when the clock is at its bound.
PendingUnexpired ==
  /\ lpc = "answered" /\ ~heard
  /\ UNCHANGED <<callVars, now, confirmed, askedAt, heard, code>>
  /\ lpc' = "pausing" /\ UNCHANGED lres
  /\ wake' = IF now + Interval < Never THEN now + Interval ELSE Never

\* As if Poll gave up one pause early.
PendingTooShort ==
  /\ lpc = "answered" /\ ~heard
  /\ UNCHANGED <<callVars, now, confirmed, askedAt, heard, code>>
  /\ IF now + 2 * Interval > ExpiresAt
       THEN LoginReturn("expired") /\ UNCHANGED wake
       ELSE lpc' = "pausing" /\ wake' = now + Interval /\ UNCHANGED lres

Pending ==
  /\ lpc = "answered" /\ ~heard
  /\ UNCHANGED <<callVars, now, confirmed, askedAt, heard, code>>
  /\ IF now + Interval > ExpiresAt
       THEN LoginReturn("expired") /\ UNCHANGED wake
       ELSE lpc' = "pausing" /\ wake' = now + Interval /\ UNCHANGED lres

\* ... or it is an error: there is none, or another status.
PollFails ==
  /\ lpc = "answered"
  /\ UNCHANGED <<callVars, now, wake, confirmed, askedAt, heard, code>>
  /\ \/ LoginReturn("server")
     \/ \E s \in Statuses \ {200, 403, 404} : LoginReturn(StatusSentinel[s])

\* The select between the context and the timer.
Pause ==
  /\ lpc = "pausing"
  /\ UNCHANGED <<callVars, now, confirmed, askedAt, heard, code>>
  /\ \/ now >= wake /\ lpc' = "polling" /\ wake' = now + MaxDelay /\ UNCHANGED lres
     \/ ctx # "nil" /\ LoginReturn("ctx") /\ UNCHANGED wake

\* exchange of an authorization code: asked once, whatever the answer.
Exchange ==
  /\ lpc = "exchanging"
  /\ code = "granted" /\ code' = "used"
  /\ \/ LoginReturn("tokens") \/ LoginReturn("server") \/ LoginReturn("plain")
     \/ \E s \in Statuses \ {200} : LoginReturn(StatusSentinel[s])
  /\ UNCHANGED <<callVars, now, wake, confirmed, askedAt, heard>>

LoginStep == StartLogin \/ Started \/ Asked \/ Granted \/ Pending \/ PollFails \/ Pause \/ Exchange

DeviceNext == LoginStep \/ Confirm \/ Clock

-----------------------------------------------------------------------------
\* Poll "waits until the user confirmed the code (or it expired ...)"
\* (auth.go:188-189): it says so only of a code that was not confirmed while
\* there was time for another try, it has tried for as long as there was, it
\* does not ask for a code that has expired, nor again within the interval it was
\* told, and tokens are those of a code that the user has confirmed.
LoginIsTimely ==
  /\ lres = "expired" => /\ confirmed + Interval + MaxDelay > ExpiresAt
                         /\ now + Interval > ExpiresAt
  /\ lpc = "polling" => /\ now <= ExpiresAt + MaxDelay
                        /\ askedAt # Never => now >= askedAt + Interval
  /\ lres = "tokens" => confirmed # Never /\ code = "used"
=============================================================================
