----------------------------- MODULE StubClient -----------------------------
(***************************************************************************)
(* llmtest.StubClient (llm/llmtest/stub_client.go): a client that plays    *)
(* scripts, one per call and kind of call, to callers that may be          *)
(* concurrent.  What is done under the mutex is one step.  A script is     *)
(* known by its place.                                                     *)
(***************************************************************************)
EXTENDS Naturals, Sequences, FiniteSets

CONSTANTS Callers,
          Scripts,     \* the kinds of the events of each turn script; a BOOLEAN "blocks"
          MaxScripts,  \* bound: scripts of another kind added
          Endpoints,   \* bound: which optional capabilities are called
          StubCtxEnds  \* bound: how the context of the calls may end

\* The optional capabilities have scripts of their own, kept alike.
ASSUME StubAssumption ==
  /\ Endpoints \subseteq {"images", "speech", "videos", "decisions"}
  /\ Scripts \in Seq([events : Seq({"text", "usage", "error", "end"}), blocks : BOOLEAN])
  /\ MaxScripts \in Nat

Kinds == Endpoints \cup {"turns"}

VARIABLES
  sctx,      \* Err() of the context, the same for all
  released,  \* whether the Block channels of the scripts are closed
  scripts,   \* scripts[k]: how many there are
  cursor,    \* cursor[k]: how many were consumed
  requests,  \* requests[k]: the callers whose requests were recorded
  spc,       \* spc[c]: where the call, or the goroutine of its stream, is
  mine,      \* mine[c]: <<kind, the number of the script it consumed>>
  schan,     \* schan[c]: the events sent on the channel of the stream
  sres       \* sres[c]: what the call returned: "none", "stream", "ok", an error

stubVars == <<sctx, released, scripts, cursor, requests, spc, mine, schan, sres>>

Nothing == <<"none", 0>>

StubTypeOK ==
  /\ sctx \in StubCtxEnds \cup {"nil"} /\ released \in BOOLEAN
  /\ scripts \in [Kinds -> Nat] /\ cursor \in [Kinds -> Nat]
  /\ requests \in [Kinds -> Seq(Callers)]
  /\ spc \in [Callers -> {"idle", "streaming", "sending", "completing", "closed", "returned"}]
  /\ mine \in [Callers -> (Kinds \cup {"none"}) \X Nat]
  /\ schan \in [Callers -> Seq({"text", "usage", "error", "end"})]
  /\ sres \in [Callers -> {"none", "stream", "ok", "error", "exhausted", "ctx"}]

StubInit ==
  /\ sctx = "nil" /\ released = FALSE
  /\ scripts = [k \in Kinds |-> IF k = "turns" THEN Len(Scripts) ELSE 0]
  /\ cursor = [k \in Kinds |-> 0]
  /\ requests = [k \in Kinds |-> <<>>]
  /\ spc = [c \in Callers |-> "idle"]
  /\ mine = [c \in Callers |-> Nothing]
  /\ schan = [c \in Callers |-> <<>>]
  /\ sres = [c \in Callers |-> "none"]

-----------------------------------------------------------------------------

\* The part of every call under the mutex: the next script is consumed and the
\* request recorded, ...
Consume(c, k) ==
  /\ cursor[k] < scripts[k]
  /\ cursor' = [cursor EXCEPT ![k] = @ + 1]
  /\ requests' = [requests EXCEPT ![k] = Append(@, c)]
  /\ mine' = [mine EXCEPT ![c] = <<k, cursor[k] + 1>>]

\* ... or there is none left.
Exhausted(c, k) ==
  /\ spc[c] = "idle" /\ cursor[k] = scripts[k]
  /\ spc' = [spc EXCEPT ![c] = "returned"]
  /\ sres' = [sres EXCEPT ![c] = "exhausted"]
  /\ UNCHANGED <<sctx, released, scripts, cursor, requests, mine, schan>>

\* ScriptImages, ScriptSpeech, ScriptVideos, ScriptDecisions.
AddScript(k) ==
  /\ scripts[k] < MaxScripts
  /\ scripts' = [scripts EXCEPT ![k] = @ + 1]
  /\ UNCHANGED <<sctx, released, cursor, requests, spc, mine, schan, sres>>

\* GenerateImage, Speak, GenerateVideo, Decide.
StubCall(c, k) ==
  /\ spc[c] = "idle"
  /\ Consume(c, k)
  /\ spc' = [spc EXCEPT ![c] = "returned"]
  /\ \E r \in {"ok", "error"} : sres' = [sres EXCEPT ![c] = r]
  /\ UNCHANGED <<sctx, released, scripts, schan>>

\* Stream, which starts a goroutine, and Complete.
StubStream(c) ==
  /\ spc[c] = "idle"
  /\ Consume(c, "turns")
  /\ spc' = [spc EXCEPT ![c] = "streaming"]
  /\ sres' = [sres EXCEPT ![c] = "stream"]
  /\ UNCHANGED <<sctx, released, scripts, schan>>

StubComplete(c) ==
  /\ spc[c] = "idle"
  /\ Consume(c, "turns")
  /\ spc' = [spc EXCEPT ![c] = "completing"]
  /\ UNCHANGED <<sctx, released, scripts, schan, sres>>

Turn(c) == Scripts[mine[c][2]]
Passes(c) == ~Turn(c).blocks \/ released

\* The goroutine gets past Block, sends the next event on a channel that has
\* room for all of them, or leaves since the context is over; it closes the
\* channel in any case.
StubUnblocked(c) ==
  /\ spc[c] = "streaming" /\ Passes(c)
  /\ spc' = [spc EXCEPT ![c] = "sending"]
  /\ UNCHANGED <<sctx, released, scripts, cursor, requests, mine, schan, sres>>

StubSend(c) ==
  /\ spc[c] = "sending" /\ Len(schan[c]) < Len(Turn(c).events)
  /\ schan' = [schan EXCEPT ![c] = Append(@, Turn(c).events[Len(@) + 1])]
  /\ UNCHANGED <<sctx, released, scripts, cursor, requests, spc, mine, sres>>

StubClose(c) ==
  /\ \/ spc[c] \in {"streaming", "sending"} /\ sctx # "nil"
     \/ spc[c] = "sending" /\ Len(schan[c]) = Len(Turn(c).events)
  /\ spc' = [spc EXCEPT ![c] = "closed"]
  /\ UNCHANGED <<sctx, released, scripts, cursor, requests, mine, schan, sres>>

\* Complete folds the events of the script at once, up to an error.
StubFold(c) ==
  /\ spc[c] = "completing"
  /\ \/ Passes(c) /\ \E e \in {IF \E i \in DOMAIN Turn(c).events : Turn(c).events[i] = "error"
                                 THEN "error" ELSE "ok"} : sres' = [sres EXCEPT ![c] = e]
     \/ Turn(c).blocks /\ sctx # "nil" /\ sres' = [sres EXCEPT ![c] = "ctx"]
  /\ spc' = [spc EXCEPT ![c] = "returned"]
  /\ UNCHANGED <<sctx, released, scripts, cursor, requests, mine, schan>>

\* The test closes Block; its context ends.
Release == /\ ~released /\ released' = TRUE
           /\ UNCHANGED <<sctx, scripts, cursor, requests, spc, mine, schan, sres>>
StubCtxOver == /\ sctx = "nil" /\ sctx' \in StubCtxEnds
               /\ UNCHANGED <<released, scripts, cursor, requests, spc, mine, schan, sres>>

StubWork(c) == StubUnblocked(c) \/ StubSend(c) \/ StubClose(c) \/ StubFold(c)

StubNext == \/ \E c \in Callers : \/ StubStream(c) \/ StubComplete(c) \/ StubWork(c)
                                  \/ \E k \in Endpoints : StubCall(c, k)
                                  \/ \E k \in Kinds : Exhausted(c, k)
            \/ \E k \in Endpoints : AddScript(k)
            \/ Release \/ StubCtxOver

-----------------------------------------------------------------------------
\* Whoever calls at the same time, every script is played once and in order: the
\* n-th request recorded of a kind is the one that script n answers, and a call
\* that finds none left leaves none unplayed (stub_client.go:35-37, 87-99).
ScriptsPlayInOrder ==
  /\ \A k \in Kinds :
       /\ Len(requests[k]) = cursor[k] /\ cursor[k] <= scripts[k]
       /\ \A n \in DOMAIN requests[k] : mine[requests[k][n]] = <<k, n>>
  /\ \A c \in Callers : sres[c] = "exhausted" => mine[c] = Nothing
=============================================================================
