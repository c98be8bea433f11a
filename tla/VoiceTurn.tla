----------------------------- MODULE VoiceTurn ------------------------------
(***************************************************************************)
(* One call of Pipeline.Run (voice/voice.go).  The goroutine of the turn   *)
(* transcribes the audio, runs the agent, forwards its events and hands    *)
(* the sentences of the reply to a speaker.  Each sentence is synthesized  *)
(* by a goroutine of its own, Concurrency of them at a time; an emitter    *)
(* goroutine reports the results in the order of the sentences.  The turn  *)
(* and the emitter send on one channel, under one context, that may end at *)
(* any moment.                                                             *)
(*                                                                         *)
(* The agent is any Runner, and agent.Session is one (RunnerContract of    *)
(* AgentRun); its events are told and received in one step.  Its text is   *)
(* abstracted to how many sentences a delta completes, and whether what it *)
(* leaves behind would be spoken when flushed (Speakable may leave nothing *)
(* of it).  A sentence is one character long, for SpeechChars.             *)
(* The capacities of the channels are 32, 256 and SpeechConcurrency.       *)
(***************************************************************************)
EXTENDS Naturals, Sequences, FiniteSets

CONSTANTS OutCap,       \* capacity of the event channel
          QueueCap,     \* capacity of speaker.queue
          Concurrency,  \* Options.SpeechConcurrency, the capacity of speaker.sem
          MaxDeltas,    \* bound: text deltas of the agent
          MaxCalls,     \* bound: its tool calls
          MaxChunks,    \* bound: sentences to speak
          MaxParts,     \* bound: deltas, calls and sentences together
          CtxEnds       \* bound: how the context may end

ASSUME VoiceAssumption ==
  /\ OutCap \in Nat \ {0}
  /\ QueueCap \in Nat \ {0}
  /\ Concurrency \in Nat \ {0}     \* New turns 0 and less into 2
  /\ MaxDeltas \in Nat
  /\ MaxCalls \in Nat
  /\ MaxChunks \in Nat
  /\ MaxParts \in Nat
  /\ CtxEnds \subseteq {"canceled", "deadline"}

VARIABLES
  pc,      \* where the goroutine of the turn is
  speech,  \* whether the output is speech: there is a speaker
  ctx,     \* Err() of the context given to Run
  agent,   \* what the agent has reported, as Runner says it
  deltas,  \* the text deltas of the agent so far
  calls,   \* its tool calls
  rest,    \* whether speaker.buf holds something to speak
  toSpeak, \* the sentences the turn has still to hand to speak
  queue,   \* speaker.queue
  emits,   \* the chunk the emitter waits for and reports, or none
  chunk,   \* chunk[i]: the synthesis of sentence i, from the first to speaker.seq
  booked,  \* usage.SpeechChars
  reason,  \* the end reason so far
  out,     \* every event sent on the channel
  got      \* how many of them were received

speakerVars == <<rest, toSpeak, queue, emits, chunk>>
agentVars == <<agent, deltas, calls>>
vars == <<pc, speech, ctx, agentVars, speakerVars, booked, reason, out, got>>

Locations == {"idle", "transcribing", "starting", "running", "call", "close",
              "finish", "done", "grace", "closed"}
ChunkStates == {"ready", "speaking", "spoken", "failed"}
Reasons == {"stop", "max_turns", "error", "timeout", "cancelled", "no_speech"}
None == 0

Teller == INSTANCE Runner WITH said <- agent

\* Events are their kind and, for a chunk, its number (1 is Seq 0).
Kinds == {"transcript", "text", "call", "result", "speech", "chunkError", "error", "done"}
Event == [kind : Kinds, n : Nat]
Ev(k) == [kind |-> k, n |-> 0]

Seq0 == Len(chunk)  \* speaker.seq
InState(s) == {i \in DOMAIN chunk : chunk[i] = s}

TypeOK ==
  /\ pc \in Locations
  /\ speech \in BOOLEAN
  /\ ctx \in {"nil", "canceled", "deadline"}
  /\ agent \in {"live", "called", "failed", "ended", "closed"}
  /\ deltas \in Nat /\ calls \in Nat
  /\ rest \in BOOLEAN
  /\ toSpeak \in Nat
  /\ queue \in Seq(Nat) /\ Len(queue) <= QueueCap
  /\ emits \in Nat
  /\ chunk \in Seq(ChunkStates) /\ Cardinality(InState("speaking")) <= Concurrency
  /\ booked \in Nat
  /\ reason \in Reasons
  /\ out \in Seq(Event)
  /\ got \in Nat

Init ==
  /\ pc = "idle" /\ speech = FALSE
  /\ ctx = "nil"
  /\ Teller!RunnerInit /\ deltas = 0 /\ calls = 0
  /\ rest = FALSE /\ toSpeak = 0
  /\ queue = <<>> /\ emits = None /\ chunk = <<>>
  /\ booked = 0
  /\ reason = "error"
  /\ out = <<>> /\ got = 0

\* Run has accepted its input, and starts the turn: with the transcription if
\* there is audio, and a speaker if the output is speech.
Run(audio, spoken) ==
  /\ pc = "idle"
  /\ pc' = IF audio THEN "transcribing" ELSE "starting"
  /\ speech' = spoken
  /\ UNCHANGED <<ctx, agentVars, speakerVars, booked, reason, out, got>>

-----------------------------------------------------------------------------
HasRoom == Len(out) - got < OutCap
Send(e) == HasRoom /\ out' = Append(out, e) /\ UNCHANGED got

\* emit: the event is sent or, once ctx is over, it may be dropped.
Emit(e) == Send(e) \/ (ctx # "nil" /\ UNCHANGED <<out, got>>)

Transcribed ==
  /\ pc = "transcribing"
  /\ Emit(Ev("transcript"))
  /\ \/ pc' = "starting" /\ UNCHANGED reason
     \/ pc' = "finish" /\ reason' = "no_speech"
  /\ UNCHANGED <<speech, ctx, agentVars, speakerVars, booked>>

TranscribeFails ==
  /\ pc = "transcribing"
  /\ Emit(Ev("error"))
  /\ pc' = "finish"
  /\ UNCHANGED <<speech, ctx, agentVars, speakerVars, booked, reason>>

\* Runner.RunWithOptions.
AgentStarts ==
  /\ pc = "starting"
  /\ pc' = "running"
  /\ UNCHANGED <<speech, ctx, agentVars, speakerVars, booked, reason, out, got>>

\* The speaker has nothing to close yet.
AgentRefuses ==
  /\ pc = "starting"
  /\ Emit(Ev("error"))
  /\ pc' = "finish"
  /\ UNCHANGED <<speech, ctx, agentVars, speakerVars, booked, reason>>

-----------------------------------------------------------------------------
\* The events of the agent, one branch of the switch after another.

\* The turn goes to l once the sentences it cut off are handed to speak.
SpeakThen(k, l) == toSpeak' = k /\ pc' = l
At(l) == pc = l /\ toSpeak = 0

\* The sentences that will be spoken if k more are cut off; the bound on a reply.
SentencesWith(k, more) == Seq0 + k + IF more THEN 1 ELSE 0
InBounds(n) == n <= MaxChunks /\ deltas' + calls' + n <= MaxParts

\* feed, when there is a speaker, cuts sentences off and keeps the rest.
AgentText ==
  /\ At("running") /\ Teller!Tells("delta", "")
  /\ deltas < MaxDeltas
  /\ deltas' = deltas + 1
  /\ Emit(Ev("text"))
  /\ UNCHANGED calls
  /\ \E k \in 0..MaxChunks, more \in BOOLEAN :
       /\ ~speech => k = 0 /\ ~more
       /\ InBounds(SentencesWith(k, more))
       /\ rest' = more
       /\ SpeakThen(k, "running")
  /\ UNCHANGED <<speech, ctx, queue, emits, chunk, booked, reason>>

\* flush comes before the event of the call.
AgentCalls ==
  /\ At("running") /\ Teller!Tells("call", "")
  /\ calls < MaxCalls
  /\ calls' = calls + 1 /\ UNCHANGED deltas
  /\ InBounds(SentencesWith(0, rest))
  /\ rest' = FALSE
  /\ SpeakThen(IF rest THEN 1 ELSE 0, "call")
  /\ UNCHANGED <<speech, ctx, queue, emits, chunk, booked, reason, out, got>>

ForwardCall ==
  /\ At("call")
  /\ Emit(Ev("call"))
  /\ pc' = "running"
  /\ UNCHANGED <<speech, ctx, agentVars, speakerVars, booked, reason>>

AgentResult ==
  /\ At("running") /\ Teller!Tells("result", "")
  /\ Emit(Ev("result"))
  /\ UNCHANGED <<pc, speech, ctx, deltas, calls, speakerVars, booked, reason>>

AgentFails ==
  /\ At("running") /\ Teller!Tells("error", "")
  /\ Emit(Ev("error"))
  /\ UNCHANGED <<pc, speech, ctx, deltas, calls, speakerVars, booked, reason>>

AgentEnds ==
  /\ At("running")
  /\ \E why \in Teller!Good \cup Teller!Bad : Teller!Tells("end", why) /\ reason' = why
  /\ UNCHANGED <<pc, speech, ctx, deltas, calls, speakerVars, booked, out, got>>

\* The channel of the agent is closed; speaker.close flushes first.
AgentCloses ==
  /\ At("running") /\ Teller!Closes
  /\ rest' = FALSE
  /\ SpeakThen(IF rest THEN 1 ELSE 0, "close")
  /\ UNCHANGED <<speech, ctx, deltas, calls, queue, emits, chunk, booked, reason, out, got>>

-----------------------------------------------------------------------------
\* The speaker.

\* speak: the next number, a place in the queue and a goroutine.
Speak ==
  /\ toSpeak > 0
  /\ Len(queue) < QueueCap
  /\ chunk' = Append(chunk, "ready")
  /\ queue' = Append(queue, Seq0 + 1)
  /\ toSpeak' = toSpeak - 1
  /\ UNCHANGED <<pc, speech, ctx, agentVars, rest, emits, booked, reason, out, got>>

\* As if ch had no buffer: a place stays taken until the emitter has the result.
SynthesizeUnbuffered(i) ==
  /\ chunk[i] = "ready"
  /\ Cardinality({j \in DOMAIN chunk : \/ chunk[j] = "speaking"
                                       \/ /\ chunk[j] \in {"spoken", "failed"}
                                          /\ \E k \in DOMAIN queue : queue[k] = j}) < Concurrency
  /\ chunk' = [chunk EXCEPT ![i] = "speaking"]
  /\ UNCHANGED <<pc, speech, ctx, agentVars, rest, toSpeak, queue, emits, booked, reason,
                 out, got>>

\* The goroutine of chunk i gets one of the places of sem.
Synthesize(i) ==
  /\ chunk[i] = "ready"
  /\ Cardinality(InState("speaking")) < Concurrency
  /\ chunk' = [chunk EXCEPT ![i] = "speaking"]
  /\ UNCHANGED <<pc, speech, ctx, agentVars, rest, toSpeak, queue, emits, booked, reason,
                 out, got>>

\* Speak returns: the result goes into the buffer of ch and the place is free.
Synthesized(i) ==
  /\ chunk[i] = "speaking"
  /\ chunk' \in {[chunk EXCEPT ![i] = "spoken"], [chunk EXCEPT ![i] = "failed"]}
  /\ UNCHANGED <<pc, speech, ctx, agentVars, rest, toSpeak, queue, emits, booked, reason,
                 out, got>>

\* The emitter: the next chunk of the queue, ...
TakeChunk ==
  /\ emits = None
  /\ queue # <<>>
  /\ emits' = Head(queue)
  /\ queue' = Tail(queue)
  /\ UNCHANGED <<pc, speech, ctx, agentVars, rest, toSpeak, chunk, booked, reason, out, got>>

\* As if the goroutines shared one channel: what is ready first comes first.
EmitAnyChunk ==
  /\ emits # None
  /\ \E i \in {emits} \cup {queue[j] : j \in DOMAIN queue} :
       /\ chunk[i] \in {"spoken", "failed"}
       /\ Emit([kind |-> IF chunk[i] = "spoken" THEN "speech" ELSE "chunkError", n |-> i])
       /\ emits' = IF i = emits THEN None ELSE emits
       /\ queue' = SelectSeq(queue, LAMBDA j : j # i)
  /\ UNCHANGED <<pc, speech, ctx, agentVars, rest, toSpeak, chunk, booked, reason>>

\* ... and, once it is there, its result.
EmitChunk ==
  /\ emits # None
  /\ chunk[emits] \in {"spoken", "failed"}
  /\ Emit([kind |-> IF chunk[emits] = "spoken" THEN "speech" ELSE "chunkError", n |-> emits])
  /\ emits' = None
  /\ UNCHANGED <<pc, speech, ctx, agentVars, rest, toSpeak, queue, chunk, booked, reason>>

\* As if close did not wait for the emitter.
AwaitNothing ==
  /\ At("close")
  /\ booked' = Cardinality(InState("spoken"))
  /\ pc' = "finish"
  /\ UNCHANGED <<speech, ctx, agentVars, speakerVars, reason, out, got>>

\* The queue is closed and the emitter is through with it; the characters are booked.
AwaitEmitter ==
  /\ At("close")
  /\ queue = <<>> /\ emits = None
  /\ booked' = Cardinality(InState("spoken"))
  /\ pc' = "finish"
  /\ UNCHANGED <<speech, ctx, agentVars, speakerVars, reason, out, got>>

-----------------------------------------------------------------------------
\* done(reason), and the deferred close(out).

Resolve(r) ==
  IF r \in {"error", "stop"} /\ ctx # "nil"
    THEN IF ctx = "canceled" THEN "cancelled" ELSE "timeout"
    ELSE r

Finish ==
  /\ pc = "finish"
  /\ reason' = Resolve(reason)
  /\ pc' = "done"
  /\ UNCHANGED <<speech, ctx, agentVars, speakerVars, booked, out, got>>

SendDone ==
  /\ pc \in {"done", "grace"}
  /\ Send(Ev("done"))
  /\ pc' = "closed"
  /\ UNCHANGED <<speech, ctx, agentVars, speakerVars, booked, reason>>

\* As if the last event were emitted like any other.
DropDone ==
  /\ pc = "done"
  /\ ctx # "nil"
  /\ pc' = "closed"
  /\ UNCHANGED <<speech, ctx, agentVars, speakerVars, booked, reason, out, got>>

\* ctx is over: the timer starts.
AwaitGrace ==
  /\ pc = "done"
  /\ ctx # "nil"
  /\ pc' = "grace"
  /\ UNCHANGED <<speech, ctx, agentVars, speakerVars, booked, reason, out, got>>

\* The timer fires and there is still no room.
GiveUp ==
  /\ pc = "grace"
  /\ ~HasRoom
  /\ pc' = "closed"
  /\ UNCHANGED <<speech, ctx, agentVars, speakerVars, booked, reason, out, got>>

-----------------------------------------------------------------------------
\* The consumer receives an event.  Nothing of the turn depends on a receive
\* from a channel that has room, so those are left out.
Receive ==
  /\ ~HasRoom
  /\ got' = got + 1
  /\ UNCHANGED <<pc, speech, ctx, agentVars, speakerVars, booked, reason, out>>

\* The context given to Run is cancelled or expires.
CtxOver ==
  /\ pc \notin {"idle", "closed"}
  /\ ctx = "nil"
  /\ ctx' \in CtxEnds
  /\ UNCHANGED <<pc, speech, agentVars, speakerVars, booked, reason, out, got>>

Transcribe == Transcribed \/ TranscribeFails
Agent == \/ AgentStarts \/ AgentRefuses \/ AgentText \/ AgentCalls \/ ForwardCall
         \/ AgentResult \/ AgentFails \/ AgentEnds \/ AgentCloses
Synthesis == \E i \in DOMAIN chunk : Synthesize(i) \/ Synthesized(i)
Emitter == TakeChunk \/ EmitChunk
Closing == AwaitEmitter \/ Finish \/ SendDone \/ AwaitGrace \/ GiveUp
Turn == Transcribe \/ Agent \/ Speak \/ Synthesis \/ Emitter \/ Closing

Next == (\E audio, spoken \in BOOLEAN : Run(audio, spoken)) \/ Turn \/ Receive \/ CtxOver

Spec == Init /\ [][Next]_vars

(***************************************************************************)
(* Goroutines run, transcription and synthesis come back, and the agent    *)
(* ends, if its events are received, within its RunTimeout (RunEnds of     *)
(* LockedRuns).  Watched is a consumer that keeps receiving, as Run        *)
(* demands and Handler does; it is a premise, where it is needed.          *)
(***************************************************************************)
Running ==
  /\ WF_vars(Transcribe)
  /\ WF_vars(AgentStarts \/ AgentRefuses \/ ForwardCall \/ AgentResult)
  /\ WF_vars(AgentEnds) /\ WF_vars(AgentCloses)
  /\ WF_vars(Speak)
  /\ \A i \in 1..MaxChunks : WF_vars(i \in DOMAIN chunk /\ (Synthesize(i) \/ Synthesized(i)))
  /\ WF_vars(Emitter)
  /\ WF_vars(Closing)
Watched == WF_vars(Receive)

-----------------------------------------------------------------------------
\* The events sent of kind k; those of chunks, and the chunks they tell of.
Told(k) == {i \in DOMAIN out : out[i].kind = k}
Chunks == Told("speech") \cup Told("chunkError")
Reported == {out[i].n : i \in Chunks}
Ended == pc = "closed"

\* Chunks are reported in the order of the sentences however their syntheses
\* overlap, and none is left out unless the context is over (voice.go:150-153,
\* 349-380); EventDone comes once and last, whatever failed before and although
\* two goroutines send on the channel, and only when the context is over may it
\* be missing (voice.go:154-155, 199-204).
EventsInOrder ==
  /\ \A i, j \in Chunks : i < j => out[i].n < out[j].n
  /\ ctx = "nil" => \A n \in Reported : 1..n \subseteq Reported
  /\ \A i \in Told("done") : i = Len(out) /\ Ended
  /\ Ended => ctx # "nil" \/ Len(out) \in Told("done")

\* A turn that says "stop" has told its consumer everything: each delta, call,
\* result and chunk, although any event may be dropped once ctx is over
\* (voice.go:253-262); and when the usage goes out, however the turn ends, every
\* synthesis has come to its end, and what was synthesized, delivered or not, is
\* what is billed (voice.go:402-412, 438-440).
DoneTellsAll == pc \in {"done", "grace", "closed"} =>
  /\ reason = "stop" =>
       /\ Cardinality(Told("text")) = deltas
       /\ Cardinality(Told("call")) = calls /\ Cardinality(Told("result")) = calls
       /\ Reported = DOMAIN chunk
  /\ InState("ready") \cup InState("speaking") = {}
  /\ booked = Cardinality(InState("spoken"))

\* A turn with a consumer that keeps receiving comes to its end: the places
\* and channels of the speaker never end up waiting for each other.  And "a
\* consumer that stopped reading does not block Run forever" (voice.go:202-204):
\* once ctx is over the turn ends without it.
TurnEnds ==
  /\ Watched => (pc # "idle" ~> Ended)
  /\ ctx # "nil" ~> Ended
=============================================================================
