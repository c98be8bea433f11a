----------------------------- MODULE VoiceProofs ----------------------------
(***************************************************************************)
(* A spoken turn and the handler that serves it, for channels of any       *)
(* capacity and any number of sentences, deltas and calls.                 *)
(*                                                                         *)
(* The numbers of the sentences are the thread of the argument.  The queue *)
(* holds the last of them in order, the emitter holds the one before       *)
(* these, and all before that one are Emitted: their syntheses are over    *)
(* and, unless the context was over first, they are on the channel.  The   *)
(* turn leaves "close" when no sentence is left in either place.           *)
(***************************************************************************)
EXTENDS VoiceHandler, SequenceTheorems, FiniteSetTheorems, TLAPS

-----------------------------------------------------------------------------
\* The inductive invariant.

Early == pc \in {"idle", "transcribing", "starting"}
Over == pc \in {"finish", "done", "grace", "closed"}
Final == {"spoken", "failed"}

\* The sentences the emitter has reported, or would have.
Emitted == (Seq0 - Len(queue)) - (IF emits = None THEN 0 ELSE 1)

\* There is nothing to synthesize before the agent starts, or after the close.
PlaceInv ==
  /\ Early => chunk = <<>> /\ booked = 0
  /\ Early \/ Over => toSpeak = 0 /\ queue = <<>> /\ emits = None
  /\ pc = "idle" => out = <<>>
  /\ pc = "grace" => ctx # "nil"

QueueInv ==
  /\ Len(queue) <= Seq0
  /\ \A i \in DOMAIN queue : queue[i] = Seq0 - Len(queue) + i
  /\ emits # None => emits = Seq0 - Len(queue)
  /\ \A i \in 1..Emitted : chunk[i] \in Final

\* The chunks on the channel are numbers up to Emitted, rising.
ChunksInv ==
  /\ \A i \in Chunks : out[i].n \in 1..Emitted
  /\ \A i, j \in Chunks : i < j => out[i].n < out[j].n
  /\ ctx = "nil" => 1..Emitted \subseteq Reported

DoneInv ==
  /\ \A i \in Told("done") : i = Len(out) /\ Ended
  /\ Ended => ctx # "nil" \/ Len(out) \in Told("done")

\* The turn follows what the agent says; a call it has not forwarded yet has no
\* result.
AgentInv ==
  /\ pc = "call" => agent = "called"
  /\ pc \notin {"running", "call"} => agent \in {"live", "closed"}

\* The three counts, and the calls whose call or result is still to come.
Texts == Cardinality(Told("text"))
Calls == Cardinality(Told("call"))
Results == Cardinality(Told("result"))
Uncalled == IF pc = "call" THEN 1 ELSE 0
Unanswered == IF agent = "called" THEN 1 ELSE 0

\* What the agent says is forwarded at once, a call after the flush.
CountInv == ctx = "nil" =>
  Texts = deltas /\ Calls + Uncalled = calls /\ Results + Unanswered = calls

StopInv == pc \in {"done", "grace", "closed"} /\ reason = "stop" =>
  /\ Texts = deltas /\ Calls = calls /\ Results = calls
  /\ 1..Emitted \subseteq Reported

BookInv == Over => booked = Cardinality(InState("spoken"))

TurnInv == /\ TypeOK /\ PlaceInv /\ QueueInv /\ ChunksInv /\ DoneInv /\ AgentInv /\ CountInv
           /\ StopInv /\ BookInv

-----------------------------------------------------------------------------
\* The channel.

\* What a send of e does, and what emit may do instead.
Grew(e) ==
  /\ out' \in Seq(Event)
  /\ Len(out') = Len(out) + 1
  /\ out'[Len(out) + 1] = e
  /\ \A i \in 1..Len(out) : out'[i] = out[i]
Said(e) == Grew(e) \/ (ctx # "nil" /\ out' = out)

LEMMA SendGrows ==
  ASSUME out \in Seq(Event), NEW e \in Event, Send(e)
  PROVE  Grew(e) /\ got' = got
BY DEF Send, Grew

LEMMA EmitSays ==
  ASSUME out \in Seq(Event), NEW e \in Event, Emit(e)
  PROVE  Said(e) /\ got' = got
BY SendGrows DEF Emit, Said

LEMMA ToldIsFinite ==
  ASSUME out \in Seq(Event), NEW k
  PROVE  Told(k) \subseteq 1..Len(out) /\ IsFiniteSet(Told(k)) /\ Cardinality(Told(k)) \in Nat
<1>1. Len(out) \in Nat
  BY LenProperties
<1>2. Told(k) \subseteq 1..Len(out)
  BY LenProperties DEF Told
<1>3. IsFiniteSet(1..Len(out))
  BY <1>1, FS_Interval
<1> QED
  BY <1>2, <1>3, FS_Subset, FS_CardinalityType

LEMMA ToldGrows ==
  ASSUME out \in Seq(Event), NEW e \in Event, Grew(e), NEW k
  PROVE  /\ e.kind = k => Told(k)' = Told(k) \cup {Len(out) + 1}
         /\ e.kind # k => Told(k)' = Told(k)
BY DEF Told, Grew

LEMMA CountGrows ==
  ASSUME out \in Seq(Event), NEW e \in Event, Grew(e), NEW k
  PROVE  Cardinality(Told(k))' = Cardinality(Told(k)) + (IF e.kind = k THEN 1 ELSE 0)
<1> DEFINE T == Told(k)
<1>1. T \subseteq 1..Len(out) /\ IsFiniteSet(T) /\ Cardinality(T) \in Nat
  BY ToldIsFinite
<1>2. Len(out) + 1 \notin T
  BY <1>1, LenProperties
<1>3. CASE e.kind = k
  <2>1. T' = T \cup {Len(out) + 1}
    BY <1>3, ToldGrows
  <2>2. Cardinality(T \cup {Len(out) + 1}) = Cardinality(T) + 1
    BY <1>1, <1>2, FS_AddElement
  <2> QED
    BY <1>3, <2>1, <2>2
<1>4. CASE e.kind # k
  BY <1>1, <1>4, ToldGrows
<1> QED
  BY <1>3, <1>4

-----------------------------------------------------------------------------
\* Types.

LEMMA ChunksFinite ==
  ASSUME chunk \in Seq(ChunkStates), NEW s
  PROVE  InState(s) \subseteq 1..Seq0 /\ IsFiniteSet(InState(s))
         /\ Cardinality(InState(s)) \in Nat
<1>1. Seq0 \in Nat
  BY LenProperties DEF Seq0
<1>2. InState(s) \subseteq 1..Seq0
  BY LenProperties DEF InState, Seq0
<1>3. IsFiniteSet(1..Seq0)
  BY <1>1, FS_Interval
<1> QED
  BY <1>2, <1>3, FS_Subset, FS_CardinalityType

\* Steps that leave the sentences and the channel alone, or say something else.
Plain == {"transcript", "text", "call", "result", "error"}

LEMMA PlainEvents ==
  ASSUME NEW k \in Plain \cup {"done"}
  PROVE  Ev(k) \in Event /\ Ev(k).kind = k
BY DEF Plain, Ev, Event, Kinds

LEMMA ChunkEvents ==
  ASSUME NEW k \in {"speech", "chunkError"}, NEW n \in Nat
  PROVE  [kind |-> k, n |-> n] \in Event
BY DEF Event, Kinds

LEMMA TypeInit == Init => TypeOK
<1> SUFFICES ASSUME Init PROVE TypeOK
  OBVIOUS
<1>1. queue \in Seq(Nat) /\ Len(queue) = 0 /\ chunk \in Seq(ChunkStates) /\ out \in Seq(Event)
  BY DEF Init
<1>2. InState("speaking") = {}
  BY DEF InState, Init
<1>3. Cardinality(InState("speaking")) = 0
  BY <1>2, FS_EmptySet
<1>4. Len(queue) <= QueueCap /\ Cardinality(InState("speaking")) <= Concurrency
  BY <1>1, <1>3, VoiceAssumption
<1> QED
  BY <1>1, <1>4 DEF Init, Teller!RunnerInit, TypeOK, Locations, Reasons, None

\* TypeOK without its count of places, which only the syntheses change.
Shape ==
  /\ pc \in Locations /\ speech \in BOOLEAN /\ ctx \in {"nil", "canceled", "deadline"}
  /\ agent \in {"live", "called", "failed", "ended", "closed"} /\ deltas \in Nat /\ calls \in Nat
  /\ rest \in BOOLEAN /\ toSpeak \in Nat /\ emits \in Nat
  /\ queue \in Seq(Nat) /\ Len(queue) <= QueueCap
  /\ chunk \in Seq(ChunkStates)
  /\ booked \in Nat /\ reason \in Reasons /\ out \in Seq(Event) /\ got \in Nat
Places == Cardinality(InState("speaking")) <= Concurrency

LEMMA TypeParts == TypeOK <=> Shape /\ Places
BY DEF TypeOK, Shape, Places

LEMMA SaysPlain ==
  ASSUME out \in Seq(Event), NEW k \in Plain \cup {"done"}, Emit(Ev(k))
  PROVE  Said(Ev(k)) /\ out' \in Seq(Event) /\ got' = got
BY PlainEvents, EmitSays DEF Said, Grew

\* What the agent says, as it says it.
LEMMA AgentSays ==
  /\ AgentText => agent = "live" /\ agent' = "live"
  /\ AgentCalls => agent = "live" /\ agent' = "called"
  /\ AgentResult => agent = "called" /\ agent' = "live"
  /\ AgentFails => agent = "live" /\ agent' = "failed"
  /\ AgentEnds => /\ agent \in {"live", "failed"} /\ agent' = "ended"
                  /\ reason' \in {"stop", "max_turns", "error", "timeout", "cancelled"}
  /\ AgentCloses => agent = "ended" /\ agent' = "closed"
BY DEF AgentText, AgentCalls, AgentResult, AgentFails, AgentEnds, AgentCloses,
       Teller!Tells, Teller!Closes, Teller!Good, Teller!Bad

LEMMA TypeOfTurn ==
  ASSUME Shape, (\E audio, spoken \in BOOLEAN : Run(audio, spoken)) \/ Transcribe \/ Agent
  PROVE  Shape'
<1> USE DEF Shape, agentVars, speakerVars, Locations, Reasons
<1>1. ASSUME NEW audio \in BOOLEAN, NEW spoken \in BOOLEAN, Run(audio, spoken)
      PROVE  Shape'
  BY <1>1 DEF Run
<1>2. CASE Transcribed
  BY <1>2, SaysPlain DEF Transcribed, Plain
<1>3. CASE TranscribeFails
  BY <1>3, SaysPlain DEF TranscribeFails, Plain
<1>4. CASE AgentStarts
  BY <1>4 DEF AgentStarts
<1>5. CASE AgentRefuses
  BY <1>5, SaysPlain DEF AgentRefuses, Plain
<1>6. CASE AgentText
  <2>1. out' \in Seq(Event) /\ got' = got
    BY <1>6, SaysPlain DEF AgentText, Plain
  <2>2. PICK k \in 0..MaxChunks, more \in BOOLEAN :
          rest' = more /\ SpeakThen(k, "running")
    BY <1>6 DEF AgentText
  <2>3. k \in Nat
    OBVIOUS
  <2>4. agent' = "live"
    BY <1>6, AgentSays
  <2>5. UNCHANGED <<speech, ctx, calls, queue, emits, chunk, booked, reason>> /\ deltas' = deltas + 1
    BY <1>6 DEF AgentText
  <2> QED
    BY <2>1, <2>2, <2>3, <2>4, <2>5 DEF SpeakThen
<1>7. CASE AgentCalls
  <2>1. toSpeak' \in Nat /\ pc' = "call"
    BY <1>7 DEF AgentCalls, SpeakThen
  <2>2. calls' = calls + 1
    BY <1>7 DEF AgentCalls
  <2>3. calls' \in Nat
    BY <2>2
  <2>4. rest' \in BOOLEAN
    BY <1>7 DEF AgentCalls
  <2>5. UNCHANGED <<speech, ctx, deltas, queue, emits, chunk, booked, reason, out, got>>
        /\ agent' = "called"
    BY <1>7, AgentSays DEF AgentCalls
  <2> QED
    BY <2>1, <2>3, <2>4, <2>5
<1>8. CASE ForwardCall
  BY <1>8, SaysPlain DEF ForwardCall, Plain
<1>9. CASE AgentResult
  BY <1>9, SaysPlain, AgentSays DEF AgentResult, Plain
<1>10. CASE AgentFails
  BY <1>10, SaysPlain, AgentSays DEF AgentFails, Plain
<1>11. CASE AgentEnds
  BY <1>11, AgentSays DEF AgentEnds
<1>12. CASE AgentCloses
  BY <1>12, AgentSays DEF AgentCloses, SpeakThen
<1> QED
  BY <1>1, <1>2, <1>3, <1>4, <1>5, <1>6, <1>7, <1>8, <1>9, <1>10, <1>11, <1>12
  DEF Transcribe, Agent

LEMMA TypeOfRest ==
  ASSUME Shape, Speak \/ Synthesis \/ Emitter \/ Closing \/ Receive \/ CtxOver
  PROVE  Shape'
<1> USE DEF Shape, agentVars, speakerVars, Locations, Reasons
<1>1. CASE Speak
  <2>1. Seq0 + 1 \in Nat /\ toSpeak - 1 \in Nat
    BY <1>1, LenProperties DEF Speak, Seq0
  <2>2. chunk' \in Seq(ChunkStates)
    BY <1>1 DEF Speak, ChunkStates
  <2>3. queue' \in Seq(Nat) /\ Len(queue') <= QueueCap
    BY <1>1, <2>1, VoiceAssumption DEF Speak
  <2> QED
    BY <1>1, <2>1, <2>2, <2>3 DEF Speak
<1>2. CASE Synthesis
  <2>1. PICK i \in DOMAIN chunk : Synthesize(i) \/ Synthesized(i)
    BY <1>2 DEF Synthesis
  <2>2. PICK c \in {"speaking", "spoken", "failed"} : chunk' = [chunk EXCEPT ![i] = c]
    BY <2>1 DEF Synthesize, Synthesized
  <2>3. chunk' \in Seq(ChunkStates)
    BY <2>2, ExceptSeq DEF ChunkStates
  <2> QED
    BY <2>1, <2>3 DEF Synthesize, Synthesized
<1>3. CASE TakeChunk
  <2>1. emits' \in Nat /\ queue' \in Seq(Nat) /\ Len(queue') = Len(queue) - 1
    BY <1>3, HeadTailProperties DEF TakeChunk
  <2>2. Len(queue') <= QueueCap
    BY <2>1, LenProperties, VoiceAssumption
  <2> QED
    BY <1>3, <2>1, <2>2 DEF TakeChunk
<1>4. CASE EmitChunk
  <2>1. out' \in Seq(Event) /\ got' = got
    BY <1>4, ChunkEvents, EmitSays DEF EmitChunk, Said, Grew
  <2> QED
    BY <1>4, <2>1 DEF EmitChunk, None
<1>5. CASE AwaitEmitter
  BY <1>5, ChunksFinite DEF AwaitEmitter
<1>6. CASE Finish
  BY <1>6 DEF Finish, Resolve
<1>7. CASE SendDone
  <2>1. out' \in Seq(Event) /\ got' = got
    BY <1>7, PlainEvents, SendGrows DEF SendDone, Grew
  <2> QED
    BY <1>7, <2>1 DEF SendDone
<1>8. CASE AwaitGrace \/ GiveUp \/ Receive
  BY <1>8 DEF AwaitGrace, GiveUp, Receive
<1>9. CASE CtxOver
  BY <1>9, VoiceAssumption DEF CtxOver
<1> QED
  BY <1>1, <1>2, <1>3, <1>4, <1>5, <1>6, <1>7, <1>8, <1>9 DEF Emitter, Closing

-----------------------------------------------------------------------------
\* The places of synthesis.

LEMMA OneMore ==
  ASSUME NEW S, IsFiniteSet(S), NEW x
  PROVE  Cardinality(S \cup {x}) \in Nat /\ Cardinality(S \cup {x}) <= Cardinality(S) + 1
<1> DEFINE T == S \cup {x}
<1>1. Cardinality(S) \in Nat /\ IsFiniteSet(T)
      /\ Cardinality(T) = IF x \in S THEN Cardinality(S) ELSE Cardinality(S) + 1
  BY FS_AddElement, FS_CardinalityType
<1> HIDE DEF T
<1>2. Cardinality(T) \in Nat /\ Cardinality(T) <= Cardinality(S) + 1
  BY <1>1
<1> QED
  BY <1>2 DEF T

LEMMA PlacesInUse ==
  ASSUME Shape, Places, Synthesis \/ Speak \/ chunk' = chunk
  PROVE  Places'
<1> DEFINE B == InState("speaking")
<1>1. chunk \in Seq(ChunkStates) /\ B \subseteq 1..Len(chunk) /\ IsFiniteSet(B)
      /\ Cardinality(B) \in Nat
  BY ChunksFinite DEF Shape, Seq0
<1>2. CASE chunk' = chunk
  BY <1>2 DEF Places, InState
<1>3. CASE Speak
  <2>1. chunk' = Append(chunk, "ready")
    BY <1>3 DEF Speak
  <2>2. B' = B
    BY <1>1, <2>1 DEF InState
  <2> QED
    BY <2>2 DEF Places
<1>4. ASSUME NEW i \in DOMAIN chunk, Synthesize(i)
      PROVE  Places'
  <2>1. chunk' = [chunk EXCEPT ![i] = "speaking"]
    BY <1>4 DEF Synthesize
  <2>2. B' = B \cup {i}
    BY <1>1, <2>1 DEF InState
  <2>3. Cardinality(B') \in Nat /\ Cardinality(B') <= Cardinality(B) + 1
    BY <1>1, <2>2, OneMore
  <2>4. Cardinality(B) < Concurrency
    BY <1>4 DEF Synthesize
  <2>5. Cardinality(B') <= Concurrency
    BY <1>1, <2>3, <2>4, VoiceAssumption
  <2> QED
    BY <2>5 DEF Places
<1>5. ASSUME NEW i \in DOMAIN chunk, Synthesized(i)
      PROVE  Places'
  <2>1. PICK c \in {"spoken", "failed"} : chunk' = [chunk EXCEPT ![i] = c]
    BY <1>5 DEF Synthesized
  <2>2. B' \subseteq B
    BY <1>1, <2>1 DEF InState
  <2>3. Cardinality(B') <= Cardinality(B) /\ Cardinality(B') \in Nat
    BY <1>1, <2>2, FS_Subset, FS_CardinalityType
  <2> QED
    BY <1>1, <2>3, VoiceAssumption DEF Places
<1> QED
  BY <1>2, <1>3, <1>4, <1>5 DEF Synthesis

-----------------------------------------------------------------------------
\* Where the turn is.

\* The steps of the turn by what they do to the sentences and the channel.
Moves == \/ \E audio, spoken \in BOOLEAN : Run(audio, spoken)
         \/ AgentStarts \/ AgentCalls \/ AgentEnds \/ AgentCloses
         \/ AwaitEmitter \/ Finish \/ AwaitGrace \/ GiveUp \/ Receive \/ CtxOver
Speaks == \/ Transcribed \/ TranscribeFails \/ AgentRefuses \/ AgentText \/ ForwardCall
          \/ AgentResult \/ AgentFails

LEMMA StepsOfTheTurn ==
  ASSUME Next
  PROVE  Moves \/ Speaks \/ SendDone \/ Speak \/ Synthesis \/ TakeChunk \/ EmitChunk
BY DEF Next, Turn, Transcribe, Agent, Emitter, Closing, Moves, Speaks

\* Both leave queue, emits and chunk alone.
Still == UNCHANGED <<queue, emits, chunk>>

LEMMA MovesAreStill ==
  ASSUME Moves
  PROVE  Still /\ out' = out /\ ctx' \in {ctx} \cup CtxEnds
BY DEF Moves, Still, Run, AgentStarts, AgentCalls, AgentEnds, AgentCloses, AwaitEmitter,
       Finish, AwaitGrace, GiveUp, Receive, CtxOver, agentVars, speakerVars

LEMMA SpeaksAreStill ==
  ASSUME Shape, Speaks
  PROVE  Still /\ ctx' = ctx /\ \E k \in Plain : Said(Ev(k))
<1>1. CASE Transcribed
  BY <1>1, SaysPlain DEF Transcribed, Still, Shape, Plain, speakerVars
<1>2. CASE TranscribeFails
  BY <1>2, SaysPlain DEF TranscribeFails, Still, Shape, Plain, speakerVars
<1>3. CASE AgentRefuses
  BY <1>3, SaysPlain DEF AgentRefuses, Still, Shape, Plain, speakerVars
<1>4. CASE AgentText
  BY <1>4, SaysPlain DEF AgentText, Still, Shape, Plain
<1>5. CASE ForwardCall
  BY <1>5, SaysPlain DEF ForwardCall, Still, Shape, Plain, speakerVars
<1>6. CASE AgentResult
  BY <1>6, SaysPlain DEF AgentResult, Still, Shape, Plain, speakerVars
<1>7. CASE AgentFails
  BY <1>7, SaysPlain DEF AgentFails, Still, Shape, Plain, speakerVars
<1> QED
  BY <1>1, <1>2, <1>3, <1>4, <1>5, <1>6, <1>7 DEF Speaks

LEMMA AgentStep ==
  ASSUME Shape, PlaceInv, AgentInv, Next
  PROVE  AgentInv'
<1> USE DEF AgentInv
<1>1. ASSUME agent' = agent, pc' = pc \/ pc' # "call", pc \in {"running", "call"} => pc' = "running"
      PROVE  AgentInv'
  BY <1>1
<1>2. CASE AgentText \/ AgentCalls \/ AgentCloses
  BY <1>2, AgentSays DEF AgentText, AgentCalls, AgentCloses, SpeakThen
<1>3. CASE AgentResult \/ AgentFails \/ AgentEnds
  BY <1>3, AgentSays DEF AgentResult, AgentFails, AgentEnds, At
<1>4. CASE ForwardCall \/ AgentStarts \/ AgentRefuses
  BY <1>1, <1>4 DEF ForwardCall, AgentStarts, AgentRefuses, At, agentVars
<1>5. CASE Transcribe
  BY <1>1, <1>5 DEF Transcribe, Transcribed, TranscribeFails, agentVars
<1>6. CASE Closing
  BY <1>1, <1>6 DEF Closing, AwaitEmitter, Finish, SendDone, AwaitGrace, GiveUp, At, agentVars
<1>7. CASE Speak \/ Synthesis \/ Emitter
  BY <1>7 DEF Speak, Synthesis, Synthesize, Synthesized, Emitter, TakeChunk, EmitChunk, agentVars
<1>8. CASE Receive \/ CtxOver
  BY <1>8 DEF Receive, CtxOver, agentVars
<1>9. ASSUME NEW audio \in BOOLEAN, NEW spoken \in BOOLEAN, Run(audio, spoken)
      PROVE  AgentInv'
  BY <1>9 DEF Run, agentVars
<1> QED
  BY <1>2, <1>3, <1>4, <1>5, <1>6, <1>7, <1>8, <1>9 DEF Next, Turn, Agent

LEMMA PlaceStep ==
  ASSUME Shape, PlaceInv, Next
  PROVE  PlaceInv'
<1> USE DEF PlaceInv, Early, Over, agentVars, speakerVars
<1>1. ASSUME NEW audio \in BOOLEAN, NEW spoken \in BOOLEAN, Run(audio, spoken)
      PROVE  PlaceInv'
  BY <1>1 DEF Run
<1>2. CASE Transcribe
  BY <1>2 DEF Transcribe, Transcribed, TranscribeFails
<1>3. CASE AgentStarts \/ AgentRefuses
  BY <1>3 DEF AgentStarts, AgentRefuses
<1>4. CASE AgentText
  <2>1. pc' = "running" /\ UNCHANGED <<ctx, chunk, booked, queue, emits>>
    BY <1>4 DEF AgentText, SpeakThen
  <2> QED
    BY <2>1
<1>5. CASE AgentCalls \/ AgentCloses
  <2>1. pc' \in {"call", "close"}
    BY <1>5 DEF AgentCalls, AgentCloses, SpeakThen
  <2> QED
    BY <2>1
<1>6. CASE ForwardCall \/ AgentResult \/ AgentFails \/ AgentEnds
  BY <1>6 DEF ForwardCall, AgentResult, AgentFails, AgentEnds, At
<1>7. CASE Speak
  BY <1>7 DEF Speak, Shape
<1>8. CASE Synthesis
  BY <1>8 DEF Synthesis, Synthesize, Synthesized
<1>9. CASE Emitter
  BY <1>9 DEF Emitter, TakeChunk, EmitChunk
<1>10. CASE AwaitEmitter
  BY <1>10 DEF AwaitEmitter, At
<1>11. CASE Finish \/ SendDone \/ AwaitGrace \/ GiveUp
  BY <1>11 DEF Finish, SendDone, AwaitGrace, GiveUp
<1>12. CASE Receive
  BY <1>12 DEF Receive
<1>13. CASE CtxOver
  BY <1>13, VoiceAssumption DEF CtxOver
<1> QED
  BY <1>1, <1>2, <1>3, <1>4, <1>5, <1>6, <1>7, <1>8, <1>9, <1>10, <1>11, <1>12, <1>13
  DEF Next, Turn, Agent, Closing

-----------------------------------------------------------------------------
\* The numbers of the sentences.

LEMMA EmittedIsNat ==
  ASSUME Shape, QueueInv
  PROVE  /\ Seq0 \in Nat /\ Len(queue) \in Nat /\ Emitted \in Nat /\ Emitted <= Seq0
         /\ DOMAIN chunk = 1..Seq0 /\ DOMAIN queue = 1..Len(queue)
         /\ emits # None => emits = Emitted + 1 /\ emits \in 1..Seq0
<1>1. /\ Seq0 \in Nat /\ Len(queue) \in Nat
      /\ DOMAIN chunk = 1..Seq0 /\ DOMAIN queue = 1..Len(queue)
  BY LenProperties DEF Shape, Seq0
<1>2. emits \in Nat /\ Len(queue) <= Seq0 /\ (emits # None => emits = Seq0 - Len(queue))
  BY DEF Shape, QueueInv
<1>3. Emitted = (Seq0 - Len(queue)) - (IF emits = None THEN 0 ELSE 1)
  BY DEF Emitted
<1> QED
  BY <1>1, <1>2, <1>3 DEF None

LEMMA StillIsQueue ==
  ASSUME QueueInv, Still
  PROVE  QueueInv' /\ Emitted' = Emitted
BY DEF QueueInv, Still, Emitted, Seq0

LEMMA QueueOfSpeak ==
  ASSUME Shape, QueueInv, Speak
  PROVE  QueueInv' /\ Emitted' = Emitted
<1>1. /\ chunk \in Seq(ChunkStates) /\ queue \in Seq(Nat)
      /\ chunk' = Append(chunk, "ready") /\ queue' = Append(queue, Seq0 + 1) /\ emits' = emits
  BY DEF Shape, Speak
<1>2. /\ Seq0 \in Nat /\ Len(queue) \in Nat /\ Emitted \in Nat /\ Emitted <= Seq0
      /\ DOMAIN chunk = 1..Seq0 /\ DOMAIN queue = 1..Len(queue)
  BY EmittedIsNat
<1>3. /\ Seq0' = Seq0 + 1 /\ Len(queue') = Len(queue) + 1 /\ DOMAIN queue' = 1..(Len(queue) + 1)
      /\ \A i \in 1..Seq0 : chunk'[i] = chunk[i]
      /\ \A i \in 1..Len(queue) : queue'[i] = queue[i]
      /\ queue'[Len(queue) + 1] = Seq0 + 1
  BY <1>1, <1>2 DEF Seq0
<1>4. Emitted' = Emitted
  BY <1>1, <1>2, <1>3 DEF Emitted
<1>5. Len(queue') <= Seq0' /\ (emits' # None => emits' = Seq0' - Len(queue'))
  BY <1>1, <1>2, <1>3 DEF QueueInv
<1>6. \A i \in DOMAIN queue' : queue'[i] = Seq0' - Len(queue') + i
  BY <1>2, <1>3 DEF QueueInv
<1>7. \A i \in 1..Emitted' : chunk'[i] \in Final
  BY <1>2, <1>3, <1>4 DEF QueueInv
<1> QED
  BY <1>4, <1>5, <1>6, <1>7 DEF QueueInv

LEMMA QueueOfSynthesis ==
  ASSUME Shape, QueueInv, Synthesis
  PROVE  QueueInv' /\ Emitted' = Emitted /\ Seq0' = Seq0
<1>1. PICK i \in DOMAIN chunk : Synthesize(i) \/ Synthesized(i)
  BY DEF Synthesis
<1>2. PICK c \in {"speaking", "spoken", "failed"} :
        chunk' = [chunk EXCEPT ![i] = c] /\ chunk[i] \notin Final
  BY <1>1 DEF Synthesize, Synthesized, Final
<1>3. UNCHANGED <<queue, emits>>
  BY <1>1 DEF Synthesize, Synthesized
<1>4. chunk \in Seq(ChunkStates) /\ i \in 1..Len(chunk) /\ c \in ChunkStates
  BY EmittedIsNat DEF Shape, Seq0, ChunkStates
<1>5. Len(chunk') = Len(chunk) /\ \A j \in 1..Len(chunk) : j # i => chunk'[j] = chunk[j]
  BY <1>2, <1>4, ExceptSeq
<1>6. Seq0' = Seq0 /\ Emitted' = Emitted
  BY <1>3, <1>5 DEF Emitted, Seq0
<1>7. \A j \in 1..Emitted : chunk'[j] \in Final
  BY <1>2, <1>5, EmittedIsNat DEF QueueInv, Seq0
<1> QED
  BY <1>3, <1>6, <1>7 DEF QueueInv

LEMMA QueueOfTake ==
  ASSUME Shape, QueueInv, TakeChunk
  PROVE  QueueInv' /\ Emitted' = Emitted
<1>1. /\ queue \in Seq(Nat) /\ queue # <<>> /\ emits = None
      /\ emits' = Head(queue) /\ queue' = Tail(queue) /\ chunk' = chunk
  BY DEF Shape, TakeChunk
<1>2. /\ Seq0 \in Nat /\ Len(queue) \in Nat /\ Len(queue) <= Seq0
      /\ DOMAIN queue = 1..Len(queue) /\ Seq0' = Seq0
  BY <1>1, EmittedIsNat DEF QueueInv, Seq0
<1>3. Len(queue) # 0 /\ Head(queue) = queue[1]
  BY <1>1, EmptySeq
<1>4. /\ Len(queue') = Len(queue) - 1 /\ DOMAIN queue' = 1..(Len(queue) - 1)
      /\ \A i \in 1..(Len(queue) - 1) : queue'[i] = queue[i + 1]
  BY <1>1, <1>2, HeadTailProperties, LenProperties
<1>5. emits' = Seq0 - Len(queue) + 1 /\ emits' # None
  BY <1>1, <1>2, <1>3 DEF QueueInv, None
<1>6. Emitted' = Emitted
  BY <1>1, <1>2, <1>4, <1>5 DEF Emitted
<1>7. ASSUME NEW i \in DOMAIN queue'
      PROVE  queue'[i] = Seq0' - Len(queue') + i
  <2>1. i \in 1..(Len(queue) - 1) /\ i + 1 \in 1..Len(queue) /\ queue'[i] = queue[i + 1]
    BY <1>2, <1>4
  <2>2. queue[i + 1] = Seq0 - Len(queue) + (i + 1)
    BY <1>2, <2>1 DEF QueueInv
  <2> QED
    BY <1>2, <1>4, <2>1, <2>2
<1> QED
  BY <1>1, <1>2, <1>4, <1>5, <1>6, <1>7 DEF QueueInv

LEMMA QueueOfEmit ==
  ASSUME Shape, QueueInv, EmitChunk
  PROVE  QueueInv' /\ Emitted' = Emitted + 1 /\ emits = Emitted + 1
<1>1. /\ emits # None /\ emits' = None /\ chunk[emits] \in Final
      /\ UNCHANGED <<queue, chunk>>
  BY DEF EmitChunk, Final
<1>2. /\ Seq0 \in Nat /\ Len(queue) \in Nat /\ Emitted \in Nat /\ emits = Emitted + 1
      /\ emits = Seq0 - Len(queue) /\ Seq0' = Seq0
  BY <1>1, EmittedIsNat DEF QueueInv, Seq0
<1>3. Emitted' = Emitted + 1
  BY <1>1, <1>2 DEF Emitted
<1>4. \A i \in 1..Emitted' : chunk'[i] \in Final
  BY <1>1, <1>2, <1>3 DEF QueueInv
<1> QED
  BY <1>1, <1>2, <1>3, <1>4 DEF QueueInv

-----------------------------------------------------------------------------
\* The chunks on the channel.

LEMMA PlainGrows ==
  ASSUME out \in Seq(Event), NEW k \in Plain \cup {"done"}, Grew(Ev(k))
  PROVE  Chunks' = Chunks /\ Reported' = Reported /\ \A i \in Chunks : out'[i] = out[i]
<1>1. Ev(k) \in Event /\ Ev(k).kind = k /\ k \notin {"speech", "chunkError"}
  BY PlainEvents DEF Plain
<1>2. Told("speech")' = Told("speech") /\ Told("chunkError")' = Told("chunkError")
  BY <1>1, ToldGrows
<1>3. Chunks' = Chunks
  BY <1>2 DEF Chunks
<1>4. \A i \in Chunks : out'[i] = out[i]
  BY ToldIsFinite DEF Chunks, Grew
<1> QED
  BY <1>3, <1>4 DEF Reported

LEMMA ChunksQuiet ==
  ASSUME ChunksInv, out' = out, Emitted' = Emitted, ctx' = ctx \/ ctx' # "nil"
  PROVE  ChunksInv'
BY DEF ChunksInv, Chunks, Told, Reported

LEMMA ChunksSay ==
  ASSUME Shape, ChunksInv, NEW k \in Plain \cup {"done"}, Said(Ev(k)), Emitted' = Emitted, ctx' = ctx
  PROVE  ChunksInv'
<1>1. CASE out' = out
  BY <1>1, ChunksQuiet
<1>2. CASE Grew(Ev(k))
  <2>1. Chunks' = Chunks /\ Reported' = Reported /\ \A i \in Chunks : out'[i] = out[i]
    BY <1>2, PlainGrows DEF Shape
  <2> QED
    BY <2>1 DEF ChunksInv
<1> QED
  BY <1>1, <1>2 DEF Said

LEMMA ChunksEmit ==
  ASSUME Shape, QueueInv, ChunksInv, EmitChunk
  PROVE  ChunksInv'
<1>1. Emitted \in Nat /\ emits = Emitted + 1 /\ Emitted' = Emitted + 1 /\ ctx' = ctx
  BY EmittedIsNat, QueueOfEmit DEF EmitChunk
<1>2. PICK k \in {"speech", "chunkError"} : Emit([kind |-> k, n |-> emits])
  BY DEF EmitChunk
<1> DEFINE e == [kind |-> k, n |-> emits]
<1>3. e \in Event /\ e.kind = k /\ e.n = emits /\ Said(e)
  BY <1>2, EmitSays, ChunkEvents DEF Shape
<1> HIDE DEF e
<1>4. CASE ctx # "nil" /\ out' = out
  <2>1. Chunks' = Chunks /\ Reported' = Reported
    BY <1>4 DEF Chunks, Told, Reported
  <2> QED
    BY <1>1, <1>4, <2>1 DEF ChunksInv
<1>5. CASE Grew(e)
  <2> DEFINE m == Len(out) + 1
  <2>1. out \in Seq(Event) /\ Len(out) \in Nat /\ Chunks \subseteq 1..Len(out)
    BY ToldIsFinite, LenProperties DEF Shape, Chunks
  <2>2. Chunks' = Chunks \cup {m}
    BY <1>3, <1>5, <2>1, ToldGrows DEF Chunks
  <2>3. /\ \A i \in Chunks : out'[i] = out[i] /\ out'[i].n \in 1..Emitted /\ i < m
        /\ out'[m].n = Emitted + 1
    BY <1>1, <1>3, <1>5, <2>1 DEF Grew, ChunksInv
  <2>4. Reported' = Reported \cup {Emitted + 1}
    BY <2>2, <2>3 DEF Reported
  <2> HIDE DEF m
  <2>5. \A i \in Chunks' : out'[i].n \in 1..Emitted'
    BY <1>1, <2>2, <2>3
  <2>6. ASSUME NEW i \in Chunks', NEW j \in Chunks', i < j
        PROVE  out'[i].n < out'[j].n
    <3>1. i \in Chunks
      BY <2>1, <2>2, <2>3, <2>6 DEF m
    <3>2. CASE j \in Chunks
      BY <2>3, <2>6, <3>1, <3>2 DEF ChunksInv
    <3>3. CASE j = m
      BY <1>1, <2>3, <3>1, <3>3
    <3> QED
      BY <2>2, <3>2, <3>3
  <2>7. ctx' = "nil" => 1..Emitted' \subseteq Reported'
    BY <1>1, <2>4 DEF ChunksInv
  <2> QED
    BY <2>5, <2>6, <2>7 DEF ChunksInv
<1> QED
  BY <1>3, <1>4, <1>5 DEF Said

-----------------------------------------------------------------------------
\* What is told.

\* The steps left when the speaker is closed.
LEMMA OverIsStill ==
  ASSUME Shape, PlaceInv, QueueInv, Over
  PROVE  /\ Emitted = Seq0 /\ \A i \in DOMAIN chunk : chunk[i] \in Final
         /\ ~Speak /\ ~Synthesis /\ ~TakeChunk /\ ~EmitChunk
<1>1. toSpeak = 0 /\ queue = <<>> /\ emits = None
  BY DEF PlaceInv
<1>2. Len(queue) = 0
  BY <1>1
<1>3. Emitted = Seq0
  BY <1>1, <1>2, EmittedIsNat DEF Emitted
<1>4. \A i \in DOMAIN chunk : chunk[i] \in Final
  BY <1>3, EmittedIsNat DEF QueueInv
<1>5. ~Synthesis
  BY <1>4 DEF Synthesis, Synthesize, Synthesized, Final
<1>6. ~Speak /\ ~TakeChunk /\ ~EmitChunk
  BY <1>1 DEF Speak, TakeChunk, EmitChunk
<1> QED
  BY <1>3, <1>4, <1>5, <1>6

LEMMA SpeaksBeforeTheEnd ==
  ASSUME Speaks
  PROVE  ~Over /\ pc' \notin {"done", "grace", "closed"}
<1>1. CASE Transcribed \/ TranscribeFails \/ AgentRefuses
  BY <1>1 DEF Transcribed, TranscribeFails, AgentRefuses, Over
<1>2. CASE AgentText
  BY <1>2 DEF AgentText, SpeakThen, At, Over
<1>3. CASE ForwardCall \/ AgentResult \/ AgentFails
  BY <1>3 DEF ForwardCall, AgentResult, AgentFails, At, Over
<1> QED
  BY <1>1, <1>2, <1>3 DEF Speaks

LEMMA SentencesKeepPlace ==
  ASSUME Speak \/ Synthesis \/ TakeChunk \/ EmitChunk
  PROVE  UNCHANGED <<pc, ctx, agent, deltas, calls, booked, reason>>
BY DEF Speak, Synthesis, Synthesize, Synthesized, TakeChunk, EmitChunk, agentVars

LEMMA DoneStep ==
  ASSUME Shape, PlaceInv, QueueInv, DoneInv, Next
  PROVE  DoneInv'
<1>1. CASE out' = out /\ (pc' = "closed" <=> pc = "closed") /\ (ctx' = ctx \/ ctx' # "nil")
  BY <1>1 DEF DoneInv, Told, Ended
<1>2. CASE Moves
  <2>1. out' = out /\ (ctx' = ctx \/ ctx' # "nil")
    BY <1>2, MovesAreStill, VoiceAssumption
  <2>2. CASE GiveUp
    BY <2>1, <2>2 DEF GiveUp, PlaceInv, DoneInv, Told, Ended
  <2>3. CASE ~GiveUp
    <3>1. pc' = "closed" <=> pc = "closed"
      BY <1>2, <2>3 DEF Moves, Run, AgentStarts, AgentCalls, AgentEnds, AgentCloses, SpeakThen, At,
                        AwaitEmitter, Finish, AwaitGrace, Receive, CtxOver
    <3> QED
      BY <1>1, <2>1, <3>1
  <2> QED
    BY <2>2, <2>3
<1>3. ASSUME NEW e \in Event, pc # "closed", Grew(e), e.kind # "done", pc' # "closed"
      PROVE  DoneInv'
  <2>1. Told("done") = {} /\ Told("done")' = Told("done")
    BY <1>3, ToldGrows DEF DoneInv, Ended, Shape
  <2> QED
    BY <1>3, <2>1 DEF DoneInv, Ended
<1>4. CASE Speaks
  <2>1. PICK k \in Plain : Said(Ev(k)) /\ ctx' = ctx
    BY <1>4, SpeaksAreStill
  <2>2. pc # "closed" /\ pc' # "closed"
    BY <1>4, SpeaksBeforeTheEnd DEF Over
  <2>3. Ev(k) \in Event /\ Ev(k).kind # "done"
    BY PlainEvents DEF Plain
  <2> QED
    BY <1>1, <1>3, <2>1, <2>2, <2>3 DEF Said
<1>5. CASE SendDone
  <2>1. pc # "closed" /\ pc' = "closed"
    BY <1>5 DEF SendDone
  <2>2. Ev("done") \in Event /\ Ev("done").kind = "done" /\ Grew(Ev("done"))
    BY <1>5, PlainEvents, SendGrows DEF SendDone, Shape
  <2>3. Told("done") = {} /\ Told("done")' = Told("done") \cup {Len(out) + 1}
    BY <2>1, <2>2, ToldGrows DEF DoneInv, Ended, Shape
  <2> QED
    BY <2>1, <2>2, <2>3 DEF DoneInv, Ended, Grew
<1>6. CASE Speak \/ Synthesis \/ TakeChunk
  <2>1. out' = out
    BY <1>6 DEF Speak, Synthesis, Synthesize, Synthesized, TakeChunk
  <2> QED
    BY <1>1, <1>6, <2>1, SentencesKeepPlace
<1>7. CASE EmitChunk
  <2>1. pc # "closed" /\ pc' = pc /\ ctx' = ctx
    BY <1>7, OverIsStill, SentencesKeepPlace DEF Over
  <2>2. PICK k \in {"speech", "chunkError"} : Emit([kind |-> k, n |-> emits])
    BY <1>7 DEF EmitChunk
  <2>3. [kind |-> k, n |-> emits] \in Event /\ Said([kind |-> k, n |-> emits])
    BY <2>2, ChunkEvents, EmitSays DEF Shape
  <2>4. CASE out' = out
    BY <1>1, <2>1, <2>4
  <2>5. CASE Grew([kind |-> k, n |-> emits])
    BY <1>3, <2>1, <2>3, <2>5
  <2> QED
    BY <2>3, <2>4, <2>5 DEF Said
<1> QED
  BY <1>2, <1>4, <1>5, <1>6, <1>7, StepsOfTheTurn

LEMMA CountsKept ==
  ASSUME Shape, NEW k \in Plain \cup {"done"}, Grew(Ev(k)), NEW l
  PROVE  Cardinality(Told(l))' = Cardinality(Told(l)) + (IF k = l THEN 1 ELSE 0)
BY PlainEvents, CountGrows DEF Shape

LEMMA CountsOfText ==
  ASSUME Shape
  PROVE  /\ Texts \in Nat /\ Calls \in Nat /\ Results \in Nat
         /\ out' = out => UNCHANGED <<Texts, Calls, Results>>
         /\ \A k \in Plain \cup {"done"} : Grew(Ev(k)) =>
              /\ Texts' = Texts + (IF k = "text" THEN 1 ELSE 0)
              /\ Calls' = Calls + (IF k = "call" THEN 1 ELSE 0)
              /\ Results' = Results + (IF k = "result" THEN 1 ELSE 0)
<1>1. Texts \in Nat /\ Calls \in Nat /\ Results \in Nat
  BY ToldIsFinite DEF Shape, Texts, Calls, Results
<1>2. out' = out => UNCHANGED <<Texts, Calls, Results>>
  BY DEF Texts, Calls, Results, Told
<1>3. ASSUME NEW k \in Plain \cup {"done"}, Grew(Ev(k))
      PROVE  /\ Texts' = Texts + (IF k = "text" THEN 1 ELSE 0)
             /\ Calls' = Calls + (IF k = "call" THEN 1 ELSE 0)
             /\ Results' = Results + (IF k = "result" THEN 1 ELSE 0)
  BY <1>3, CountsKept DEF Texts, Calls, Results
<1> QED
  BY <1>1, <1>2, <1>3

LEMMA CountStep ==
  ASSUME Shape, CountInv, Next
  PROVE  CountInv'
<1>1. SUFFICES ASSUME ctx' = "nil"
               PROVE  CountInv'
  BY DEF CountInv
<1> USE CountsOfText DEF CountInv
<1>2. ASSUME ctx = "nil", UNCHANGED <<deltas, calls, Texts, Calls, Results, Uncalled, Unanswered>>
      PROVE  CountInv'
  BY <1>2
<1>3. CASE Moves
  <2>1. out' = out /\ ctx = "nil"
    BY <1>1, <1>3, MovesAreStill, VoiceAssumption
  <2>2. CASE AgentCalls
    <3>1. calls' = calls + 1 /\ deltas' = deltas /\ pc = "running" /\ pc' = "call"
            /\ agent = "live" /\ agent' = "called"
      BY <2>2, AgentSays DEF AgentCalls, At, SpeakThen
    <3>2. Uncalled = 0 /\ Unanswered = 0 /\ Uncalled' = 1 /\ Unanswered' = 1
      BY <3>1 DEF Uncalled, Unanswered
    <3> QED
      BY <2>1, <3>1, <3>2
  <2>3. CASE ~AgentCalls
    <3>1. /\ UNCHANGED <<deltas, calls>>
          /\ pc' = pc \/ "call" \notin {pc, pc'}
          /\ agent' = agent \/ "called" \notin {agent, agent'}
      BY <1>3, <2>3, AgentSays DEF Moves, Run, AgentStarts, AgentEnds, AgentCloses, SpeakThen, At, AwaitEmitter,
                        Finish, AwaitGrace, GiveUp, Receive, CtxOver, agentVars
    <3>2. UNCHANGED <<Uncalled, Unanswered>>
      BY <3>1 DEF Uncalled, Unanswered
    <3> QED
      BY <1>2, <2>1, <3>1, <3>2
  <2> QED
    BY <2>2, <2>3
<1>4. CASE Transcribed \/ TranscribeFails \/ AgentRefuses \/ AgentFails
  <2>1. PICK k \in {"transcript", "error"} : Emit(Ev(k))
    BY <1>4 DEF Transcribed, TranscribeFails, AgentRefuses, AgentFails
  <2>2. /\ UNCHANGED <<deltas, calls, ctx>>
        /\ pc' = pc \/ "call" \notin {pc, pc'}
        /\ agent' = agent \/ "called" \notin {agent, agent'}
    BY <1>4, AgentSays DEF Transcribed, TranscribeFails, AgentRefuses, AgentFails, At, agentVars
  <2>3. k \in Plain /\ k \notin {"text", "call", "result"}
    BY DEF Plain
  <2>4. Grew(Ev(k))
    BY <1>1, <2>1, <2>2, <2>3, SaysPlain DEF Said, Shape
  <2>5. UNCHANGED <<Texts, Calls, Results>>
    BY <2>3, <2>4
  <2>6. UNCHANGED <<Uncalled, Unanswered>>
    BY <2>2 DEF Uncalled, Unanswered
  <2> QED
    BY <1>1, <1>2, <2>2, <2>5, <2>6
<1>5. CASE AgentText
  <2>1. /\ deltas' = deltas + 1 /\ calls' = calls /\ ctx' = ctx
        /\ pc = "running" /\ pc' = "running" /\ agent' = agent /\ Emit(Ev("text"))
    BY <1>5, AgentSays DEF AgentText, At, SpeakThen
  <2>2. Grew(Ev("text"))
    BY <1>1, <2>1, SaysPlain DEF Said, Shape, Plain
  <2>3. Texts' = Texts + 1 /\ Calls' = Calls /\ Results' = Results
    BY <2>2 DEF Plain
  <2>4. UNCHANGED <<Uncalled, Unanswered>>
    BY <2>1 DEF Uncalled, Unanswered
  <2> QED
    BY <1>1, <2>1, <2>3, <2>4
<1>6. CASE ForwardCall
  <2>1. UNCHANGED <<agent, deltas, calls, ctx>> /\ pc = "call" /\ pc' = "running" /\ Emit(Ev("call"))
    BY <1>6 DEF ForwardCall, At, agentVars
  <2>2. Grew(Ev("call"))
    BY <1>1, <2>1, SaysPlain DEF Said, Shape, Plain
  <2>3. Calls' = Calls + 1 /\ Texts' = Texts /\ Results' = Results
    BY <2>2 DEF Plain
  <2>4. Uncalled = 1 /\ Uncalled' = 0 /\ Unanswered' = Unanswered
    BY <2>1 DEF Uncalled, Unanswered
  <2> QED
    BY <1>1, <2>1, <2>3, <2>4
<1>7. CASE AgentResult
  <2>1. /\ UNCHANGED <<deltas, calls, ctx>> /\ pc = "running" /\ pc' = "running"
        /\ agent = "called" /\ agent' = "live" /\ Emit(Ev("result"))
    BY <1>7, AgentSays DEF AgentResult, At
  <2>2. Grew(Ev("result"))
    BY <1>1, <2>1, SaysPlain DEF Said, Shape, Plain
  <2>3. Results' = Results + 1 /\ Texts' = Texts /\ Calls' = Calls
    BY <2>2 DEF Plain
  <2>4. Uncalled = 0 /\ Uncalled' = 0 /\ Unanswered = 1 /\ Unanswered' = 0
    BY <2>1 DEF Uncalled, Unanswered
  <2> QED
    BY <1>1, <2>1, <2>3, <2>4
<1>8. CASE SendDone
  <2>1. UNCHANGED <<agent, deltas, calls, ctx>> /\ pc \in {"done", "grace"} /\ pc' = "closed"
    BY <1>8 DEF SendDone, agentVars
  <2>2. Grew(Ev("done"))
    BY <1>8, PlainEvents, SendGrows DEF SendDone, Shape
  <2>3. UNCHANGED <<Texts, Calls, Results>>
    BY <2>2
  <2>4. UNCHANGED <<Uncalled, Unanswered>>
    BY <2>1 DEF Uncalled, Unanswered
  <2> QED
    BY <1>1, <1>2, <2>1, <2>3, <2>4
<1>9. CASE Speak \/ Synthesis \/ TakeChunk \/ EmitChunk
  <2>1. UNCHANGED <<deltas, calls, ctx, Uncalled, Unanswered>>
    BY <1>9, SentencesKeepPlace DEF Uncalled, Unanswered
  <2>2. CASE ~EmitChunk
    BY <1>1, <1>2, <1>9, <2>1, <2>2 DEF Speak, Synthesis, Synthesize, Synthesized, TakeChunk
  <2>3. CASE EmitChunk
    <3>1. PICK k \in {"speech", "chunkError"} : Emit([kind |-> k, n |-> emits])
      BY <2>3 DEF EmitChunk
    <3> DEFINE e == [kind |-> k, n |-> emits]
    <3>2. e \in Event /\ e.kind = k
      BY ChunkEvents DEF Shape
    <3>3. Grew(e)
      BY <1>1, <2>1, <3>1, <3>2, EmitSays DEF Said, Shape
    <3> HIDE DEF e
    <3>4. UNCHANGED <<Texts, Calls, Results>>
      BY <3>2, <3>3, CountGrows DEF Texts, Calls, Results, Shape
    <3> QED
      BY <1>1, <1>2, <2>1, <3>4
  <2> QED
    BY <2>2, <2>3
<1> QED
  BY <1>3, <1>4, <1>5, <1>6, <1>7, <1>8, <1>9, StepsOfTheTurn DEF Speaks

LEMMA StopStep ==
  ASSUME Shape, PlaceInv, QueueInv, ChunksInv, AgentInv, CountInv, StopInv, Next
  PROVE  StopInv'
<1> DEFINE In == {"done", "grace", "closed"}
<1>1. SUFFICES ASSUME pc' \in In, reason' = "stop"
               PROVE  StopInv'
  BY DEF StopInv
<1>2. ASSUME pc \in In, reason = "stop", UNCHANGED <<deltas, calls, Texts, Calls, Results, Reported, Emitted>>
      PROVE  StopInv'
  BY <1>2 DEF StopInv
<1>3. CASE Finish
  <2>1. pc = "finish" /\ UNCHANGED <<deltas, calls, queue, emits, chunk, out>>
        /\ reason' = Resolve(reason)
    BY <1>3 DEF Finish, agentVars, speakerVars
  <2>2. ctx = "nil"
    BY <1>1, <2>1 DEF Resolve
  <2>3. UNCHANGED <<Texts, Calls, Results, Reported, Emitted>>
    BY <2>1, CountsOfText DEF Reported, Chunks, Told, Emitted, Seq0
  <2>4. Texts = deltas /\ Calls = calls /\ Results = calls
    <3>1. Uncalled = 0 /\ Unanswered = 0
      BY <2>1 DEF AgentInv, Uncalled, Unanswered
    <3> QED
      BY <2>2, <3>1, CountsOfText DEF CountInv
  <2>5. 1..Emitted \subseteq Reported
    BY <2>2 DEF ChunksInv
  <2> QED
    BY <2>1, <2>3, <2>4, <2>5 DEF StopInv
<1>4. CASE Moves /\ ~Finish
  <2>1. pc \in In /\ UNCHANGED <<deltas, calls, reason>>
    <3>1. CASE \E audio, spoken \in BOOLEAN : Run(audio, spoken)
      BY <1>1, <3>1 DEF Run
    <3>2. CASE AgentStarts \/ AgentCalls \/ AgentEnds \/ AgentCloses \/ AwaitEmitter
      BY <1>1, <3>2 DEF AgentStarts, AgentCalls, AgentEnds, AgentCloses, AwaitEmitter, SpeakThen, At
    <3>3. CASE AwaitGrace \/ GiveUp \/ Receive \/ CtxOver
      BY <1>1, <3>3 DEF AwaitGrace, GiveUp, Receive, CtxOver, agentVars
    <3> QED
      BY <1>4, <3>1, <3>2, <3>3 DEF Moves
  <2>2. UNCHANGED <<queue, emits, chunk, out>>
    BY <1>4, MovesAreStill DEF Still
  <2>3. UNCHANGED <<Texts, Calls, Results, Reported, Emitted>>
    BY <2>2, CountsOfText DEF Reported, Chunks, Told, Emitted, Seq0
  <2> QED
    BY <1>1, <1>2, <2>1, <2>3
<1>5. CASE Speaks
  BY <1>1, <1>5, SpeaksBeforeTheEnd
<1>6. CASE SendDone
  <2>1. pc \in In /\ UNCHANGED <<deltas, calls, reason, queue, emits, chunk>>
    BY <1>6 DEF SendDone, agentVars, speakerVars
  <2>2. Grew(Ev("done"))
    BY <1>6, PlainEvents, SendGrows DEF SendDone, Shape
  <2>3. UNCHANGED <<Texts, Calls, Results>>
    BY <2>2, CountsOfText
  <2>4. Reported' = Reported
    BY <2>2, PlainGrows DEF Shape
  <2>5. Emitted' = Emitted
    BY <2>1 DEF Emitted, Seq0
  <2> QED
    BY <1>1, <1>2, <2>1, <2>3, <2>4, <2>5
<1>7. CASE Speak \/ Synthesis \/ TakeChunk \/ EmitChunk
  BY <1>1, <1>7, SentencesKeepPlace, OverIsStill DEF Over
<1> QED
  BY <1>3, <1>4, <1>5, <1>6, <1>7, StepsOfTheTurn

LEMMA BookStep ==
  ASSUME Shape, PlaceInv, QueueInv, BookInv, Next
  PROVE  BookInv'
<1>1. ASSUME Over, UNCHANGED <<booked, chunk>>
      PROVE  BookInv'
  BY <1>1 DEF BookInv, InState
<1>2. CASE Transcribe \/ AgentRefuses
  <2>1. chunk = <<>> /\ booked = 0 /\ UNCHANGED <<booked, chunk>>
    BY <1>2 DEF Transcribe, Transcribed, TranscribeFails, AgentRefuses, PlaceInv, Early, speakerVars
  <2>2. InState("spoken")' = {}
    BY <2>1 DEF InState
  <2> QED
    BY <2>1, <2>2, FS_EmptySet DEF BookInv
<1>3. CASE AwaitEmitter
  BY <1>3 DEF AwaitEmitter, BookInv, speakerVars, InState
<1>4. CASE Finish \/ SendDone \/ AwaitGrace \/ GiveUp
  BY <1>1, <1>4 DEF Finish, SendDone, AwaitGrace, GiveUp, Over, speakerVars
<1>5. CASE Receive \/ CtxOver
  BY <1>1, <1>5 DEF Receive, CtxOver, Over, BookInv, speakerVars
<1>6. CASE Speak \/ Synthesis \/ Emitter
  BY <1>6, SentencesKeepPlace, OverIsStill DEF Emitter, Over, BookInv
<1>7. CASE AgentText
  BY <1>7 DEF AgentText, SpeakThen, BookInv, Over
<1>8. CASE AgentCalls \/ AgentCloses
  BY <1>8 DEF AgentCalls, AgentCloses, SpeakThen, BookInv, Over
<1>9. CASE AgentStarts \/ ForwardCall \/ AgentResult \/ AgentFails \/ AgentEnds
  BY <1>9 DEF AgentStarts, ForwardCall, AgentResult, AgentFails, AgentEnds, At, BookInv, Over
<1>10. ASSUME NEW audio \in BOOLEAN, NEW spoken \in BOOLEAN, Run(audio, spoken)
       PROVE  BookInv'
  BY <1>10 DEF Run, BookInv, Over
<1> QED
  BY <1>2, <1>3, <1>4, <1>5, <1>6, <1>7, <1>8, <1>9, <1>10 DEF Next, Turn, Agent, Closing

-----------------------------------------------------------------------------
\* The turn.

LEMMA TurnInit == Init => TurnInv
<1> SUFFICES ASSUME Init PROVE TurnInv
  OBVIOUS
<1>1. TypeOK
  BY TypeInit
<1>2. /\ pc = "idle" /\ ctx = "nil" /\ chunk = <<>> /\ queue = <<>> /\ emits = None /\ out = <<>>
      /\ toSpeak = 0 /\ booked = 0 /\ deltas = 0 /\ calls = 0 /\ Seq0 = 0 /\ Len(queue) = 0
      /\ agent = "live"
  BY DEF Init, Teller!RunnerInit, Seq0
<1>3. PlaceInv /\ AgentInv /\ BookInv /\ StopInv
  BY <1>2 DEF PlaceInv, AgentInv, Early, Over, BookInv, StopInv
<1>4. Emitted = 0
  <2>1. Seq0 = 0 /\ Len(queue) = 0 /\ emits = None
    BY <1>2
  <2> QED
    BY <2>1 DEF Emitted
<1>5. QueueInv
  BY <1>2, <1>4 DEF QueueInv
<1>6. \A k : Told(k) = {}
  BY <1>2 DEF Told
<1>7. ChunksInv /\ DoneInv
  BY <1>2, <1>4, <1>6 DEF ChunksInv, Chunks, DoneInv, Ended
<1>8. Texts = 0 /\ Calls = 0 /\ Results = 0
  BY <1>6, FS_EmptySet DEF Texts, Calls, Results
<1>9. CountInv
  BY <1>2, <1>8 DEF CountInv, Uncalled, Unanswered
<1> QED
  BY <1>1, <1>3, <1>5, <1>7, <1>9 DEF TurnInv

LEMMA ChunksStep ==
  ASSUME Shape, QueueInv, ChunksInv, Next
  PROVE  QueueInv' /\ ChunksInv'
<1>1. CASE Moves
  BY <1>1, MovesAreStill, StillIsQueue, ChunksQuiet, VoiceAssumption
<1>2. CASE Speaks
  BY <1>2, SpeaksAreStill, StillIsQueue, ChunksSay
<1>3. CASE SendDone
  <2>1. Still /\ ctx' = ctx /\ Said(Ev("done"))
    BY <1>3, PlainEvents, SendGrows DEF SendDone, Still, Said, Shape, speakerVars
  <2> QED
    BY <2>1, StillIsQueue, ChunksSay
<1>4. CASE Speak \/ Synthesis \/ TakeChunk
  <2>1. out' = out
    BY <1>4 DEF Speak, Synthesis, Synthesize, Synthesized, TakeChunk
  <2> QED
    BY <1>4, <2>1, QueueOfSpeak, QueueOfSynthesis, QueueOfTake, ChunksQuiet, SentencesKeepPlace
<1>5. CASE EmitChunk
  BY <1>5, QueueOfEmit, ChunksEmit
<1> QED
  BY <1>1, <1>2, <1>3, <1>4, <1>5, StepsOfTheTurn

LEMMA TypeStep ==
  ASSUME TypeOK, Next
  PROVE  TypeOK'
<1>1. Shape /\ Places
  BY TypeParts
<1>2. Shape'
  BY <1>1, TypeOfTurn, TypeOfRest DEF Next, Turn
<1>3. Synthesis \/ Speak \/ chunk' = chunk
  BY <1>1, StepsOfTheTurn, MovesAreStill, SpeaksAreStill DEF Still, SendDone, TakeChunk, EmitChunk, speakerVars
<1>4. Places'
  BY <1>1, <1>3, PlacesInUse
<1> QED
  BY <1>2, <1>4 DEF TypeOK, Shape, Places

LEMMA TurnStep ==
  ASSUME TurnInv, Next
  PROVE  TurnInv'
<1>1. /\ Shape /\ TypeOK /\ PlaceInv /\ QueueInv /\ ChunksInv /\ DoneInv /\ AgentInv /\ CountInv
      /\ StopInv /\ BookInv
  BY TypeParts DEF TurnInv
<1> QED
  BY <1>1, TypeStep, PlaceStep, ChunksStep, DoneStep, AgentStep, CountStep, StopStep, BookStep
  DEF TurnInv

LEMMA TurnStutter ==
  ASSUME TurnInv, UNCHANGED vars
  PROVE  TurnInv'
<1> QED
  BY DEF TurnInv, vars, agentVars, speakerVars, TypeOK, PlaceInv, Early, Over, QueueInv, Emitted, Seq0,
         ChunksInv, Chunks, Told, Reported, DoneInv, Ended, AgentInv, CountInv, Texts, Calls, Results, Uncalled,
         Unanswered, StopInv, BookInv, InState

LEMMA TurnSafety ==
  ASSUME TurnInv
  PROVE  EventsInOrder /\ DoneTellsAll
<1>1. Shape /\ PlaceInv /\ QueueInv /\ ChunksInv /\ DoneInv /\ StopInv /\ BookInv
  BY TypeParts DEF TurnInv
<1>2. Emitted \in Nat /\ Seq0 \in Nat /\ DOMAIN chunk = 1..Seq0
  BY <1>1, EmittedIsNat
<1>3. Reported \subseteq 1..Emitted
  BY <1>1 DEF ChunksInv, Reported
<1>4. EventsInOrder
  <2>1. ASSUME ctx = "nil", NEW n \in Reported
        PROVE  1..n \subseteq Reported
    <3>1. n \in 1..Emitted
      BY <1>3, <2>1
    <3>2. 1..n \subseteq 1..Emitted
      BY <1>2, <3>1
    <3> QED
      BY <1>1, <2>1, <3>2 DEF ChunksInv
  <2> QED
    BY <1>1, <2>1 DEF EventsInOrder, ChunksInv, DoneInv
<1>5. ASSUME pc \in {"done", "grace", "closed"}
      PROVE  /\ reason = "stop" => Reported = DOMAIN chunk
             /\ InState("ready") \cup InState("speaking") = {}
             /\ booked = Cardinality(InState("spoken"))
  <2>1. Over
    BY <1>5 DEF Over
  <2>2. Emitted = Seq0 /\ \A i \in DOMAIN chunk : chunk[i] \in Final
    BY <1>1, <2>1, OverIsStill
  <2>3. reason = "stop" => 1..Seq0 \subseteq Reported
    BY <1>1, <1>5, <2>2 DEF StopInv
  <2>4. InState("ready") \cup InState("speaking") = {}
    BY <2>2 DEF InState, Final
  <2> QED
    BY <1>1, <1>2, <1>3, <2>1, <2>2, <2>3, <2>4 DEF BookInv
<1>6. DoneTellsAll
  BY <1>1, <1>5 DEF DoneTellsAll, StopInv, Texts, Calls, Results
<1> QED
  BY <1>4, <1>6

-----------------------------------------------------------------------------
\* The handler.

\* It returns when the channel is closed and read to its end.
ServeInv ==
  /\ HTypeOK
  /\ status # 200 => pc = "idle" /\ out = <<>>
  /\ returned /\ status = 200 => pc = "closed" /\ got = Len(out)

HInv == TurnInv /\ ServeInv

\* A receive, as Serve and Receive do it, is nothing to the turn.
LEMMA ReceiveKeepsTurn ==
  ASSUME TurnInv, got' = got + 1,
         UNCHANGED <<pc, speech, ctx, agentVars, speakerVars, booked, reason, out>>
  PROVE  TurnInv'
<1>1. got' \in Nat
  BY DEF TurnInv, TypeOK
<1> QED
  BY <1>1 DEF TurnInv, agentVars, speakerVars, TypeOK, PlaceInv, Early, Over, QueueInv, Emitted, Seq0,
         ChunksInv, Chunks, Told, Reported, DoneInv, Ended, AgentInv, CountInv, Texts, Calls, Results, Uncalled,
         Unanswered, StopInv, BookInv, InState

LEMMA Answers ==
  ASSUME NEW r \in Inputs, NEW p \in Pipeline
  PROVE  Answer(r, p) \in {200, 400, 405, 413, 415}
BY DEF Answer, ReadInput

\* A turn that has not begun, or is at its end, takes no step.
LEMMA TurnAtItsEnds ==
  ASSUME TurnInv, Turn \/ CtxOver
  PROVE  pc \notin {"idle", "closed"}
<1>1. Shape /\ PlaceInv /\ QueueInv
  BY TypeParts DEF TurnInv
<1>2. ASSUME pc \in {"idle", "closed"}
      PROVE  ~Speak /\ ~Synthesis /\ ~Emitter
  <2>1. CASE pc = "idle"
    BY <1>1, <2>1 DEF PlaceInv, Early, Speak, Synthesis, Emitter, TakeChunk, EmitChunk
  <2>2. CASE pc = "closed"
    BY <1>1, <2>2, OverIsStill DEF Over, Emitter
  <2> QED
    BY <1>2, <2>1, <2>2
<1>3. CASE Transcribe \/ Closing \/ CtxOver
  BY <1>3 DEF Transcribe, Transcribed, TranscribeFails, Closing, AwaitEmitter, At, Finish,
              SendDone, AwaitGrace, GiveUp, CtxOver
<1>4. CASE Agent
  BY <1>4 DEF Agent, AgentStarts, AgentRefuses, AgentText, AgentCalls, ForwardCall, AgentResult,
              AgentFails, AgentEnds, AgentCloses, At
<1> QED
  BY <1>2, <1>3, <1>4 DEF Turn

LEMMA HandlerInit == HInit => HInv
BY TurnInit DEF HInit, Init, HInv, ServeInv, HTypeOK, TurnInv

LEMMA HandlerStep ==
  ASSUME HInv, [HNext]_hvars
  PROVE  HInv'
<1>1. TurnInv /\ ServeInv /\ TypeOK
  BY DEF HInv, TurnInv
<1>2. CASE Begin
  <2>1. PICK r \in Inputs, p \in Pipeline :
          /\ status' = Answer(r, p)
          /\ IF status' = 200 THEN Run(r.audio # "none", r.output = "speech") ELSE UNCHANGED vars
    BY <1>2 DEF Begin
  <2>2. TurnInv'
    <3>1. CASE status' = 200
      BY <1>1, <2>1, <3>1, TurnStep DEF Next
    <3>2. CASE status' # 200
      BY <1>1, <2>1, <3>2, TurnStutter
    <3> QED
      BY <3>1, <3>2
  <2>3. HTypeOK'
    BY <1>1, <1>2, <2>1, <2>2, Answers DEF HTypeOK, TurnInv, ServeInv, Begin
  <2>4. status' # 200 => pc' = "idle" /\ out' = <<>>
    BY <1>1, <1>2, <2>1 DEF ServeInv, Begin, vars
  <2> QED
    BY <1>2, <2>2, <2>3, <2>4 DEF HInv, ServeInv, Begin
<1>3. CASE Serve
  <2>1. TurnInv'
    BY <1>1, <1>3, ReceiveKeepsTurn DEF Serve
  <2>2. HTypeOK'
    <3>1. TypeOK' /\ gone \in BOOLEAN /\ returned \in BOOLEAN /\ status \in {0, 200, 400, 405, 413, 415}
      BY <1>1, <2>1 DEF TurnInv, ServeInv, HTypeOK
    <3>2. gone' \in {gone, TRUE} /\ UNCHANGED <<status, returned>>
      BY <1>3 DEF Serve
    <3>3. gone' \in BOOLEAN
      BY Zenon, <3>1, <3>2
    <3>4. returned' \in BOOLEAN /\ status' \in {0, 200, 400, 405, 413, 415}
      BY <3>1, <3>2
    <3> QED
      BY Zenon, <3>1, <3>3, <3>4 DEF HTypeOK
  <2>3. ~(returned /\ status = 200)
    BY <1>1, <1>3, VoiceAssumption, LenProperties DEF ServeInv, Serve, HasRoom, TypeOK
  <2> QED
    BY <1>1, <1>3, <2>1, <2>2, <2>3 DEF HInv, ServeInv, Serve
<1>4. CASE Return
  <2>1. TurnInv'
    BY <1>1, <1>4, TurnStutter DEF Return
  <2> QED
    BY <1>1, <1>4, <2>1 DEF HInv, ServeInv, HTypeOK, TurnInv, Return, vars
<1>5. CASE (Turn \/ CtxOver) /\ UNCHANGED httpVars
  <2>1. TurnInv'
    BY <1>1, <1>5, TurnStep DEF Next
  <2>2. pc \notin {"idle", "closed"}
    BY <1>1, <1>5, TurnAtItsEnds
  <2> QED
    BY <1>1, <1>5, <2>1, <2>2 DEF HInv, ServeInv, HTypeOK, TurnInv, httpVars
<1>6. CASE UNCHANGED hvars
  <2>1. UNCHANGED vars /\ UNCHANGED httpVars
    BY <1>6 DEF hvars
  <2>2. TurnInv'
    BY <1>1, <2>1, TurnStutter
  <2> QED
    BY <1>1, <2>1, <2>2 DEF HInv, ServeInv, HTypeOK, TurnInv, vars, httpVars
<1> QED
  BY <1>2, <1>3, <1>4, <1>5, <1>6 DEF HNext

LEMMA HandlerInv == HSpec => []HInv
BY HandlerInit, HandlerStep, PTL DEF HSpec

\* The end of the turn has room on the channel, or is on it.
EndHasRoom ==
  \/ pc \in {"done", "grace"} /\ HasRoom
  \/ Ended /\ Len(out) \in Told("done")

\* Nobody else takes that room: after the close the emitter has nothing to send.
LEMMA RoomIsKept ==
  ASSUME HInv, EndHasRoom, [HNext]_hvars
  PROVE  EndHasRoom'
<1>1. Shape /\ PlaceInv /\ ServeInv /\ TurnInv
  BY TypeParts DEF HInv, TurnInv
<1>2. pc \in {"done", "grace", "closed"}
  BY DEF EndHasRoom, Ended
<1>3. toSpeak = 0 /\ queue = <<>> /\ emits = None
  BY <1>1, <1>2 DEF PlaceInv, Over
<1>4. CASE Begin
  BY <1>1, <1>2, <1>4 DEF Begin, ServeInv
<1>5. CASE Serve
  <2>1. HasRoom => HasRoom'
    BY <1>1, <1>5, VoiceAssumption, LenProperties DEF Serve, HasRoom, Shape
  <2> QED
    BY <1>5, <2>1 DEF Serve, EndHasRoom, Ended, Told
<1>6. CASE UNCHANGED vars
  BY <1>6 DEF vars, EndHasRoom, HasRoom, Ended, Told
<1>7. CASE Turn \/ CtxOver
  <2>1. pc \in {"done", "grace"} /\ HasRoom
    BY <1>1, <1>7, TurnAtItsEnds DEF EndHasRoom, Ended
  <2>2. CASE SendDone
    <3>1. out' = Append(out, Ev("done")) /\ pc' = "closed"
      BY <2>2 DEF SendDone, Send
    <3>2. Len(out') \in DOMAIN out' /\ out'[Len(out')].kind = "done"
      BY <1>1, <3>1 DEF Shape, Ev
    <3> QED
      BY <3>1, <3>2 DEF EndHasRoom, Ended, Told
  <2>3. CASE Synthesis \/ AwaitGrace \/ CtxOver
    BY <2>1, <2>3 DEF Synthesis, Synthesize, Synthesized, AwaitGrace, CtxOver, EndHasRoom, HasRoom
  <2>4. ~Speak /\ ~Emitter
    BY <1>3 DEF Speak, Emitter, TakeChunk, EmitChunk
  <2>5. ~Transcribe /\ ~AwaitEmitter /\ ~Finish /\ ~GiveUp
    BY <2>1 DEF Transcribe, Transcribed, TranscribeFails, AwaitEmitter, At, Finish, GiveUp
  <2>6. ~Agent
    BY <2>1 DEF Agent, AgentStarts, AgentRefuses, AgentText, AgentCalls, ForwardCall, AgentResult,
                AgentFails, AgentEnds, AgentCloses, At
  <2> QED
    BY <1>7, <2>2, <2>3, <2>4, <2>5, <2>6 DEF Turn, Closing
<1> QED
  BY <1>4, <1>5, <1>6, <1>7 DEF HNext, hvars, Return

LEMMA RoomIsUsed ==
  ASSUME HInv, EndHasRoom
  PROVE  returned /\ ~gone => got \in Told("done")
BY DEF HInv, ServeInv, EndHasRoom, Ended

\* The chunks of a turn come in the order of its sentences, whole while the
\* context lasts, and EventDone once and last, for any number of sentences and
\* whatever the capacities of the channels and places (voice.go:150-155,
\* 349-380).
THEOREM ChunksComeInOrder == HSpec => []EventsInOrder
BY HandlerInv, TurnSafety, PTL DEF HInv

\* A turn that says "stop" has told everything, and however a turn ends no
\* synthesis is under way and all that was synthesized is billed
\* (voice.go:253-262, 402-412, 438-440).
THEOREM StopHasToldAll == HSpec => []DoneTellsAll
BY HandlerInv, TurnSafety, PTL DEF HInv

\* A turn that finds room for its end, at once or within the grace, is one whose
\* client, if it stays, has got the done event last when the handler returns,
\* the context over or not (voice.go:200, 263-274, http.go:65-66).
THEOREM EndIsNotDropped == HSpec => DoneIsNotDropped
<1>1. ASSUME HInv
      PROVE  HTypeOK /\ (pc \in {"done", "grace"} /\ HasRoom => EndHasRoom)
  BY <1>1 DEF HInv, ServeInv, EndHasRoom
<1> QED
  BY <1>1, HandlerInv, RoomIsKept, RoomIsUsed, PTL DEF HSpec, DoneIsNotDropped

\* Outside the handler, too: a turn whose consumer receives as it likes.
THEOREM TurnIsSafe == Spec => [](EventsInOrder /\ DoneTellsAll)
<1>1. ASSUME TurnInv, [Next]_vars
      PROVE  TurnInv'
  BY <1>1, TurnStep, TurnStutter
<1> QED
  BY TurnInit, <1>1, TurnSafety, PTL DEF Spec
=============================================================================
