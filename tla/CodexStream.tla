---------------------------- MODULE CodexStream ----------------------------
(***************************************************************************)
(* codex.Client (llm/codex/client.go): Stream sends one request, with a    *)
(* token of the login and under retry.Do, and starts the goroutine         *)
(* processStream; Complete receives its events until the channel is        *)
(* closed.  What the backend says is a sequence of events; the text of one *)
(* is known by its place.                                                  *)
(***************************************************************************)
EXTENDS ApiCall

CONSTANTS OutCap,  \* capacity of the event channel, 16 in the code
          MaxSaid  \* bound: events of one answer

ASSUME CodexAssumption == OutCap \in Nat /\ MaxSaid \in Nat

VARIABLES
  cpc,       \* where Complete is
  ppc,       \* where the goroutine of the stream is
  said,      \* the events read from the backend (history variable)
  sawDelta, finish,
  batch,     \* the event the last one read has still to emit
  out,       \* every event sent on the channel
  got,       \* how many of them were received
  resp       \* the Response being put together, and the error

codexVars == <<cpc, ppc, said, sawDelta, finish, batch, out, got, resp>>

\* The types of events that processStream knows; an answer is completed or
\* incomplete, with usage or without, a failure one of moderation or another.
Priced == {"priced", "incompletePriced"}
Incomplete == {"incomplete", "incompletePriced"}
SaidKinds == {"delta", "done", "completed", "failed", "unsafe"} \cup Priced \cup Incomplete

\* "reason" is the one that came with an incomplete answer, whatever it was.
Finishes == {"", "stop", "reason", "error", "content_filter"}
Ev(k, n, why) == [kind |-> k, n |-> n, why |-> why]
NoResponse == [text |-> <<>>, usage |-> FALSE, finish |-> "", err |-> "none"]

CodexTypeOK ==
  /\ cpc \in {"idle", "opening", "draining", "returned"}
  /\ ppc \in {"none", "scanning", "emitting", "ending", "closing", "closed"}
  /\ said \in Seq(SaidKinds)
  /\ sawDelta \in BOOLEAN /\ finish \in Finishes
  /\ batch \in Seq([kind : {"text", "usage", "error"}, n : Nat, why : Errors \cup {""}])
  /\ Len(out) - got \in 0..OutCap
  /\ resp \in [text : Seq(Nat), usage : BOOLEAN, finish : Finishes,
               err : Errors \cup {"none", "ctx"}]

CodexInit ==
  /\ cpc = "idle" /\ ppc = "none"
  /\ said = <<>> /\ sawDelta = FALSE /\ finish = ""
  /\ batch = <<>> /\ out = <<>> /\ got = 0
  /\ resp = NoResponse

-----------------------------------------------------------------------------
\* What buildBody looks at: tools or thinking, and the messages.
CodexRequest == [tools : BOOLEAN, role : {"system", "user", "assistant", "tool"},
                 calls : BOOLEAN, audio : BOOLEAN]
BodyFails(r) == \/ r.tools
                \/ r.role \notin {"system", "user", "assistant"}
                \/ r.role # "system" /\ (r.calls \/ r.audio)

\* Complete calls Stream, which refuses the request or sends it.
CodexAsk ==
  /\ cpc = "idle"
  /\ \E r \in CodexRequest :
       IF BodyFails(r)
         THEN cpc' = "returned" /\ resp' = [resp EXCEPT !.err = "invalid"] /\ UNCHANGED callVars
         ELSE cpc' = "opening" /\ Http!Do /\ UNCHANGED <<ctx, resp>>
  /\ UNCHANGED <<ppc, said, sawDelta, finish, batch, out, got>>

\* do: there is no token, or the request fails.
CodexRequestFails ==
  /\ cpc = "opening"
  /\ \/ \E e \in Errors \ {"filtered"} : Http!Fail(e) /\ UNCHANGED ctx
     \/ Refused(200, StatusSentinel)
  /\ UNCHANGED codexVars

CodexTrying == cpc = "opening" /\ Attempting /\ UNCHANGED codexVars

CodexOpens ==
  /\ cpc = "opening"
  /\ Http!Succeed
  /\ cpc' = "draining" /\ ppc' = "scanning"
  /\ UNCHANGED <<ctx, said, sawDelta, finish, batch, out, got, resp>>

CodexAskFails ==
  /\ cpc = "opening" /\ GaveUp
  /\ cpc' = "returned" /\ resp' = [resp EXCEPT !.err = hRes]
  /\ UNCHANGED <<callVars, ppc, said, sawDelta, finish, batch, out, got>>

-----------------------------------------------------------------------------
\* processStream.
Settles(k) == k \notin {"delta", "done"}

FinishOf(k) == CASE k \in {"completed", "priced"} -> "stop"
                 [] k \in Incomplete             -> "reason"
                 [] k = "failed"                 -> "error"
                 [] k = "unsafe"                 -> "content_filter"
                 [] OTHER                        -> finish

\* What event n of kind k makes it emit: the text of a done event only if no
\* delta came.
EventsOf(k, n) ==
  CASE k = "delta" \/ (k = "done" /\ ~sawDelta) -> <<Ev("text", n, "")>>
    [] k \in Priced -> <<Ev("usage", 0, "")>>
    [] k = "failed" -> <<Ev("error", 0, "server")>>
    [] k = "unsafe" -> <<Ev("error", 0, "filtered")>>
    [] OTHER        -> <<>>

CodexScan ==
  /\ ppc = "scanning" /\ Len(said) < MaxSaid
  /\ \E k \in SaidKinds :
       /\ said' = Append(said, k)
       /\ batch' = EventsOf(k, Len(said'))
       /\ sawDelta' = (sawDelta \/ k = "delta")
       /\ finish' = FinishOf(k)
       /\ ppc' = IF batch' # <<>> THEN "emitting" ELSE IF Settles(k) THEN "ending" ELSE "scanning"
  /\ UNCHANGED <<callVars, cpc, out, got, resp>>

\* The body ends before the answer does: an error, unless it is the context
\* that ended it.
CodexCut ==
  /\ ppc = "scanning"
  /\ IF ctx = "nil"
       THEN ppc' = "emitting" /\ finish' = "error" /\ batch' = <<Ev("error", 0, "server")>>
       ELSE ppc' = "ending" /\ UNCHANGED <<batch, finish>>
  /\ UNCHANGED <<callVars, cpc, said, sawDelta, out, got, resp>>

\* emit.
Deliver(e) == Len(out) - got < OutCap /\ out' = Append(out, e)
Drop == ctx # "nil" /\ UNCHANGED out

\* The scan goes on, but not after a delta that was dropped or behind the end
\* of the answer.
CodexEmit ==
  /\ ppc = "emitting"
  /\ LET goesOn == batch[1].kind = "text" IN
       \/ Deliver(batch[1]) /\ ppc' = IF goesOn THEN "scanning" ELSE "ending"
       \/ Drop /\ ppc' = IF goesOn /\ said[Len(said)] = "done" THEN "scanning" ELSE "ending"
  /\ batch' = <<>>
  /\ UNCHANGED <<callVars, cpc, said, sawDelta, finish, got, resp>>

\* As if the channel were closed before the deferred end is sent.
CodexEndUnsent ==
  /\ ppc = "ending"
  /\ ppc' = "closing"
  /\ UNCHANGED <<callVars, cpc, said, sawDelta, finish, batch, out, got, resp>>

\* The deferred end, and the closing of the channel.
CodexEnd ==
  /\ ppc = "ending"
  /\ Deliver(Ev("end", 0, finish)) \/ Drop
  /\ ppc' = "closing"
  /\ UNCHANGED <<callVars, cpc, said, sawDelta, finish, batch, got, resp>>

CodexClose ==
  /\ ppc = "closing"
  /\ ppc' = "closed"
  /\ UNCHANGED <<callVars, cpc, said, sawDelta, finish, batch, out, got, resp>>

-----------------------------------------------------------------------------
\* Complete.
CodexReceive ==
  /\ cpc = "draining" /\ got < Len(out)
  /\ got' = got + 1
  /\ LET e == out[got'] IN
       resp' = CASE e.kind = "text"  -> [resp EXCEPT !.text = Append(@, e.n)]
                 [] e.kind = "usage" -> [resp EXCEPT !.usage = TRUE]
                 [] e.kind = "error" -> [resp EXCEPT !.err = e.why]
                 [] e.kind = "end"   -> [resp EXCEPT !.finish = e.why]
  /\ UNCHANGED <<callVars, cpc, ppc, said, sawDelta, finish, batch, out>>

\* As if the context were not looked at when the channel is closed.
CodexReturnUnlooked ==
  /\ cpc = "draining" /\ ppc = "closed" /\ got = Len(out)
  /\ cpc' = "returned"
  /\ UNCHANGED <<callVars, ppc, said, sawDelta, finish, batch, out, got, resp>>

CodexReturn ==
  /\ cpc = "draining" /\ ppc = "closed" /\ got = Len(out)
  /\ cpc' = "returned"
  /\ resp' = IF resp.err = "none" /\ ctx # "nil" THEN [resp EXCEPT !.err = "ctx"] ELSE resp
  /\ UNCHANGED <<callVars, ppc, said, sawDelta, finish, batch, out, got>>

CodexOpening == CodexRequestFails \/ CodexTrying \/ CodexOpens \/ CodexAskFails
CodexReading == CodexScan \/ CodexCut
CodexSending == CodexEmit \/ CodexEnd \/ CodexClose
CodexDraining == CodexReceive \/ CodexReturn

CodexNext == CodexAsk \/ CodexOpening \/ CodexReading \/ CodexSending \/ CodexDraining

-----------------------------------------------------------------------------
\* The text of an answer, read as a whole and in order: its deltas, and the done
\* events before the first of them.
TextSaid == {i \in 1..Len(said) : \/ said[i] = "delta"
                                  \/ said[i] = "done" /\ \A j \in 1..i : said[j] # "delta"}
IsTextSaid(t) == /\ {t[i] : i \in DOMAIN t} = TextSaid
                 /\ \A i, j \in DOMAIN t : i < j => t[i] < t[j]

\* Complete returns, without an error, only an answer that the backend has
\* completed, all of its text, its price if it was told, and the reason it
\* stopped (client.go:110-137, 329-331); a failure comes back as what it is.
CompleteIsWhole ==
  cpc = "returned" =>
    /\ resp.err = "none" => /\ said # <<>> /\ Settles(said[Len(said)])
                            /\ IsTextSaid(resp.text)
                            /\ resp.usage = (said[Len(said)] \in Priced)
                            /\ resp.finish = IF said[Len(said)] \in Incomplete THEN "reason" ELSE "stop"
    /\ ppc # "none" /\ ctx = "nil" =>
         resp.err = IF said = <<>> \/ ~Settles(said[Len(said)]) \/ said[Len(said)] = "failed"
                      THEN "server" ELSE IF said[Len(said)] = "unsafe" THEN "filtered" ELSE "none"
=============================================================================
