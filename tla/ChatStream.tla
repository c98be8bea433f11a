----------------------------- MODULE ChatStream -----------------------------
(***************************************************************************)
(* llm.Collect (llm/helpers.go) over openrouter.Client.Stream              *)
(* (llm/openrouter/client.go, sse.go).  Stream sends the request, again    *)
(* if it fails in a way that may pass, and starts a goroutine that reads   *)
(* the SSE lines, processStream, puts the fragments of tool calls together *)
(* and sends events on a channel.  Collect receives until the first error, *)
(* the end or the end of the context, and leaves the goroutine behind.     *)
(*                                                                         *)
(* A line is a data line with one chunk of one choice; comments, empty and *)
(* malformed lines change nothing and are left out.  Text stands for       *)
(* images and thinking, too.  What a chunk holds is known by its place in  *)
(* the stream.                                                             *)
(***************************************************************************)
EXTENDS Naturals, Sequences, FiniteSets, Functions

CONSTANTS OutCap,        \* capacity of the event channel, 16 in the code
          HttpAttempts,  \* Options.MaxAttempts, or the default of 3
          Indexes,       \* the indexes of tool calls
          Chunks,        \* bound: what a chunk may hold
          MaxChunks,     \* bound: chunks of one stream
          CtxEnds        \* bound: how the context may end

NoIndex == 0
Failures == {"error", "content_filter"}
Chunk == [text : BOOLEAN, frag : Indexes \cup {NoIndex}, finish : Failures \cup {"none", "stop"},
          error : Failures \cup {"none"}, usage : BOOLEAN]

ASSUME StreamAssumption ==
  /\ OutCap \in Nat \ {0}
  /\ HttpAttempts \in Nat \ {0}
  /\ Indexes \subseteq Nat \ {NoIndex} /\ IsFiniteSet(Indexes)
  /\ Chunks \subseteq Chunk
  /\ MaxChunks \in Nat
  /\ CtxEnds \subseteq {"canceled", "deadline"}

VARIABLES
  ctx,       \* Err() of the context
  hAt, hTry, hErr, hRes,  \* retry.Do around the request
  ppc,       \* where processStream is
  heard,     \* the chunks read (history variable)
  asm,       \* asm[i]: the places of the fragments buffered for index i
  sawError,
  usageSent,
  finish,    \* endFinishReason
  batch,     \* the events the current chunk has still to emit
  body,      \* whether the body is open, or how it ended
  out,       \* every event sent on the channel
  got,       \* how many of them were received
  cpc,       \* where Collect is
  res        \* what it returned: "ok", an error or "ctx"; or "none"

\* Errors by the sentinel they wrap: ErrServerError, ErrRateLimited,
\* ErrContentFiltered, and ErrAuth or ErrInvalidRequest.
Errors == {"server", "rate", "filtered", "fatal"}
Http == INSTANCE Retry WITH
  MaxAttempts <- HttpAttempts, Retryable <- {"server", "rate"},
  at <- hAt, attempt <- hTry, lastErr <- hErr, result <- hRes

httpVars == <<hAt, hTry, hErr, hRes>>
scanVars == <<heard, asm, sawError, usageSent, finish, body>>
vars == <<ctx, httpVars, ppc, scanVars, batch, out, got, cpc, res>>

Kinds == {"text", "call", "usage", "error", "end"}
Event == [kind : Kinds, n : Nat, parts : Seq(Nat), why : Errors \cup {""}]
Ev(k, n) == [kind |-> k, n |-> n, parts |-> <<>>, why |-> ""]
CallEv(i, p) == [Ev("call", i) EXCEPT !.parts = p]
ErrorEv(e) == [Ev("error", 0) EXCEPT !.why = e]

TypeOK ==
  /\ ctx \in CtxEnds \cup {"nil"}
  /\ Http!RetryTypeOK
  /\ ppc \in {"none", "scanning", "emitting", "ending", "closing", "closed"}
  /\ heard \in Seq(Chunk)
  /\ asm \in [Indexes -> Seq(Nat)]
  /\ sawError \in BOOLEAN
  /\ usageSent \in BOOLEAN
  /\ finish \in Failures \cup {"none", "stop"}
  /\ batch \in Seq(Event)
  /\ body \in {"open", "done", "eof", "left", "broken"}
  /\ out \in Seq(Event) /\ Len(out) - got <= OutCap
  /\ got \in Nat
  /\ cpc \in {"idle", "opening", "collecting", "returned"}
  /\ res \in Errors \cup {"none", "ok", "ctx"}

NoFragments == [i \in Indexes |-> <<>>]

\* A stream that was not asked for.
Unopened ==
  /\ ppc = "none"
  /\ heard = <<>> /\ asm = NoFragments
  /\ sawError = FALSE /\ usageSent = FALSE
  /\ finish = "none" /\ body = "open"
  /\ batch = <<>> /\ out = <<>> /\ got = 0

Init ==
  /\ ctx = "nil"
  /\ Http!RetryInit
  /\ Unopened
  /\ cpc = "idle" /\ res = "none"

-----------------------------------------------------------------------------
\* Stream.

\* Collect calls Stream, which calls retry.Do.
Ask ==
  /\ cpc = "idle"
  /\ cpc' = "opening"
  /\ Http!Do
  /\ UNCHANGED <<ctx, ppc, scanVars, batch, out, got, res>>

Request == /\ Http!Try \/ Http!Wait
           /\ UNCHANGED <<ctx, ppc, scanVars, batch, out, got, cpc, res>>

\* No connection, or an answer that is not 200, classified by its status.
RequestFails ==
  /\ \E e \in {"server", "rate", "fatal"} : Http!Fail(e)
  /\ UNCHANGED <<ctx, ppc, scanVars, batch, out, got, cpc, res>>

\* 200: the goroutine is started.
Opens ==
  /\ Http!Succeed
  /\ ppc' = "scanning"
  /\ cpc' = "collecting"
  /\ UNCHANGED <<ctx, scanVars, batch, out, got, res>>

\* Collect returns the error of Stream.
AskFails ==
  /\ cpc = "opening" /\ hAt = "done"
  /\ cpc' = "returned" /\ res' = hRes
  /\ UNCHANGED <<ctx, httpVars, ppc, scanVars, batch, out, got>>

-----------------------------------------------------------------------------
\* processStream.

\* emit: the event is sent or, once ctx is over, it may be dropped.
Emit(e) == \/ Len(out) - got < OutCap /\ out' = Append(out, e)
           \/ ctx # "nil" /\ UNCHANGED out

\* feed: fragment number k, if it is one, joins those of its index.
Fed(c, k) == IF c.frag = NoIndex THEN asm ELSE [asm EXCEPT ![c.frag] = Append(@, k)]

Ascending(s) == \A j, k \in DOMAIN s : j < k => s[j] < s[k]

\* flush: the buffered calls by ascending index.
Sorted(S) == CHOOSE s \in [1..Cardinality(S) -> S] : Ascending(s)
Calls(a) == LET used == Sorted({i \in Indexes : a[i] # <<>>})
            IN  [j \in DOMAIN used |-> CallEv(used[j], a[used[j]])]

Class(failure) == IF failure = "content_filter" THEN "filtered" ELSE "server"

\* emitUsage: the first usage block, once.
UsageOf(c, k) == IF c.usage /\ ~usageSent THEN <<Ev("usage", k)>> ELSE <<>>

TextOf(c, k) == IF c.text THEN <<Ev("text", k)>> ELSE <<>>

\* The events of chunk k: only its usage after an error; ...
AfterError(c, k) ==
  /\ sawError
  /\ batch' = UsageOf(c, k)
  /\ UNCHANGED <<asm, sawError, finish>>

\* ... an error envelope; ...
Envelope(c, k) ==
  /\ ~sawError /\ c.error # "none"
  /\ batch' = Calls(asm) \o UsageOf(c, k) \o <<ErrorEv(Class(c.error))>>
  /\ asm' = NoFragments
  /\ sawError' = TRUE
  /\ finish' = c.error

\* As if flush did not reset the buffer.
ChoiceNoReset(c, k) ==
  /\ ~sawError /\ c.error = "none"
  /\ LET a == Fed(c, k) IN
       /\ batch' = TextOf(c, k) \o (IF c.finish = "none" THEN <<>> ELSE Calls(a))
                   \o (IF c.finish \in Failures THEN <<ErrorEv(Class(c.finish))>> ELSE <<>>)
                   \o UsageOf(c, k)
       /\ asm' = a
  /\ sawError' = (c.finish \in Failures)
  /\ finish' = IF c.finish = "none" THEN finish ELSE c.finish

\* ... or a choice: its text and fragment, what its finish_reason asks for,
\* and the usage.
Choice(c, k) ==
  /\ ~sawError /\ c.error = "none"
  /\ LET a == Fed(c, k) IN
       /\ batch' = TextOf(c, k) \o (IF c.finish = "none" THEN <<>> ELSE Calls(a))
                   \o (IF c.finish \in Failures THEN <<ErrorEv(Class(c.finish))>> ELSE <<>>)
                   \o UsageOf(c, k)
       /\ asm' = IF c.finish = "none" THEN a ELSE NoFragments
  /\ sawError' = (c.finish \in Failures)
  /\ finish' = IF c.finish = "none" THEN finish ELSE c.finish

\* As if every usage block were reported.
ScanUncounted(c) ==
  /\ ppc = "scanning" /\ ctx = "nil"
  /\ Len(heard) < MaxChunks
  /\ heard' = Append(heard, c)
  /\ AfterError(c, Len(heard')) \/ Envelope(c, Len(heard')) \/ Choice(c, Len(heard'))
  /\ ppc' = IF batch' = <<>> THEN "scanning" ELSE "emitting"
  /\ UNCHANGED <<ctx, httpVars, usageSent, body, out, got, cpc, res>>

\* A chunk is read; ctx is looked at before it is processed.
Scan(c) ==
  /\ ppc = "scanning" /\ ctx = "nil"
  /\ Len(heard) < MaxChunks
  /\ heard' = Append(heard, c)
  /\ AfterError(c, Len(heard')) \/ Envelope(c, Len(heard')) \/ Choice(c, Len(heard'))
  /\ usageSent' = (usageSent \/ c.usage)
  /\ ppc' = IF batch' = <<>> THEN "scanning" ELSE "emitting"
  /\ UNCHANGED <<ctx, httpVars, body, out, got, cpc, res>>

\* [DONE], the end of the body, or any line after the end of ctx.
ScanEnds ==
  /\ ppc = "scanning"
  /\ \/ body' = "done" /\ ctx = "nil"
     \/ body' = "eof"
     \/ body' = "left" /\ ctx # "nil"
  /\ ppc' = "ending"
  /\ UNCHANGED <<ctx, httpVars, heard, asm, sawError, usageSent, finish, batch, out, got, cpc, res>>

\* scanner.Err(): the connection breaks, by itself or since ctx is over, or a
\* line is too long.
ScanBreaks ==
  /\ ppc = "scanning"
  /\ body' = "broken"
  /\ IF sawError
       THEN ppc' = "ending" /\ UNCHANGED <<batch, asm>>
       ELSE /\ ppc' = "emitting"
            /\ batch' = Calls(asm) \o <<ErrorEv("server")>>
            /\ asm' = NoFragments
  /\ UNCHANGED <<ctx, httpVars, heard, sawError, usageSent, finish, out, got, cpc, res>>

EmitNext ==
  /\ ppc = "emitting"
  /\ Emit(Head(batch))
  /\ batch' = Tail(batch)
  /\ ppc' = IF batch' # <<>> THEN "emitting" ELSE IF body = "open" THEN "scanning" ELSE "ending"
  /\ UNCHANGED <<ctx, httpVars, scanVars, got, cpc, res>>

\* The deferred emit of EventEnd, ...
EmitEnd ==
  /\ ppc = "ending"
  /\ Emit(Ev("end", 0))
  /\ ppc' = "closing"
  /\ UNCHANGED <<ctx, httpVars, scanVars, batch, got, cpc, res>>

\* As if the channel were not closed.
CloseNot ==
  /\ ppc = "closing"
  /\ ppc' = "left"
  /\ UNCHANGED <<ctx, httpVars, scanVars, batch, out, got, cpc, res>>

\* ... and close(out).
Close ==
  /\ ppc = "closing"
  /\ ppc' = "closed"
  /\ UNCHANGED <<ctx, httpVars, scanVars, batch, out, got, cpc, res>>

-----------------------------------------------------------------------------
\* Collect.

Receive ==
  /\ cpc = "collecting" /\ got < Len(out)
  /\ got' = got + 1
  /\ IF out[got'].kind = "error"
       THEN cpc' = "returned" /\ res' = out[got'].why
       ELSE UNCHANGED <<cpc, res>>
  /\ UNCHANGED <<ctx, httpVars, ppc, scanVars, batch, out>>

SeeClosed ==
  /\ cpc = "collecting" /\ got = Len(out) /\ ppc = "closed"
  /\ cpc' = "returned" /\ res' = "ok"
  /\ UNCHANGED <<ctx, httpVars, ppc, scanVars, batch, out, got>>

SeeContext ==
  /\ cpc = "collecting" /\ ctx # "nil"
  /\ cpc' = "returned" /\ res' = "ctx"
  /\ UNCHANGED <<ctx, httpVars, ppc, scanVars, batch, out, got>>

\* The context of the caller ends.
CtxOver ==
  /\ ctx = "nil"
  /\ ctx' \in CtxEnds
  /\ UNCHANGED <<httpVars, ppc, scanVars, batch, out, got, cpc, res>>

Opening == Request \/ RequestFails \/ Opens \/ AskFails
Reading == (\E c \in Chunks : Scan(c)) \/ ScanEnds \/ ScanBreaks
Sending == EmitNext \/ EmitEnd \/ Close
Collect == Receive \/ SeeClosed \/ SeeContext

Next == Ask \/ Opening \/ Reading \/ Sending \/ Collect \/ CtxOver

Spec == Init /\ [][Next]_vars

-----------------------------------------------------------------------------
\* The places of the chunks with which the provider fails the stream, and what
\* it says as a whole: the first of them, if any.
Failed == {k \in DOMAIN heard : heard[k].error # "none" \/ heard[k].finish \in Failures}
Verdict ==
  IF Failed # {}
    THEN LET c == heard[CHOOSE k \in Failed : \A j \in Failed : k <= j]
         IN  Class(IF c.error # "none" THEN c.error ELSE c.finish)
    ELSE IF body = "broken" THEN "server" ELSE "ok"

\* The fragments of call i that a later chunk, or the same, finished.
Finished(i) ==
  {k \in DOMAIN heard : heard[k].frag = i /\ \E j \in k..Len(heard) : heard[j].finish # "none"}

\* Of what was received, the text and the calls with index i.
Texts == {m \in 1..got : out[m].kind = "text"}
CallsOf(i) == {m \in 1..got : out[m].kind = "call" /\ out[m].n = i}

\* All of the text in order, and every tool call from all of its fragments in
\* their order.
Whole ==
  /\ {out[m].n : m \in Texts} = {k \in DOMAIN heard : heard[k].text}
  /\ \A l, m \in Texts : l < m => out[l].n < out[m].n
  /\ \A i \in Indexes :
       /\ UNION {Range(out[m].parts) : m \in CallsOf(i)} = Finished(i)
       /\ \A m \in CallsOf(i) : Ascending(out[m].parts)
       /\ \A l, m \in CallsOf(i) : l < m =>
            \A p \in Range(out[l].parts), q \in Range(out[m].parts) : p < q

\* Collect without a context in its way returns what the provider said on the
\* stream it opened, the last of several: its first failure, or all it had to
\* say (sse.go:23-45, 256-288, helpers.go:72-74, 122-127).
CollectIsWhole ==
  (cpc = "returned" /\ ppc # "none" /\ ctx = "nil") => res = Verdict /\ (res = "ok" => Whole)

\* A stream is what llm.Client promises: priced once and ended once, at its end,
\* and after an error there is only the price (sse.go:62-64, 113-119,
\* client.go:109).
Promised == INSTANCE EventStream WITH
  EventKinds <- Kinds, sent <- [i \in DOMAIN out |-> out[i].kind],
  closed <- ppc = "closed", over <- ctx # "nil"
StreamIsOrderly == Promised!StreamSpec

-----------------------------------------------------------------------------
(* What the documentation says and the code does not do. *)

\* "if ctx is cancelled before the stream closes, Collect returns ctx.Err()"
\* (helpers.go:129-130): no answer cut short by it comes without an error.
OnlyWholeAnswers == cpc = "returned" /\ res = "ok" => Whole /\ body \in {"done", "eof"}
=============================================================================
