------------------------------ MODULE AgentRun ------------------------------
(***************************************************************************)
(* Session.Run (agent/run.go): several runs on one session id, each a      *)
(* goroutine that takes the session lock, reads the transcript, alternates *)
(* model calls and tool calls, appends the whole turn to the transcript    *)
(* and reports all of it on a channel of its own.  The runs may belong to  *)
(* different Session values with the same id; they share the Locker and    *)
(* the History.  Runs of other ids share nothing with them.                *)
(*                                                                         *)
(* The Locker is what SessionMutex promises, so the lock is the run that   *)
(* holds it; LocalLocker implements it.  The History is the in-memory one  *)
(* (agent/history/memory): it refuses when the context is done, else does  *)
(* its work under its own mutex; with HistoryFails it may also refuse for  *)
(* no reason, as a remote backend would.  The provider's stream and the    *)
(* tools are the environment.  A send on the event channel blocks while    *)
(* OutCap events are unread; it is one step with what the run does next    *)
(* up to its following send, or with the receipt of what it forwards.      *)
(***************************************************************************)
EXTENDS Naturals, Sequences

CONSTANTS Runs,         \* the calls of Run and RunWithMessages
          NoRun,        \* "nobody holds the lock"
          MaxTurns,     \* SessionOptions.MaxTurns
          OutCap,       \* the capacity of the event channel, 16 in the code
          MaxDeltas,    \* bound: text, thinking and image events per stream
          MaxCalls,     \* bound: tool calls per stream
          UserEnds,     \* bound: how the caller's context may end
          HistoryFails  \* whether the History may fail with a live context

ASSUME RunAssumption == NoRun \notin Runs
ASSUME SizesAssumption ==
  /\ MaxTurns \in Nat \ {0}     \* NewSession turns 0 and less into 20
  /\ OutCap \in Nat \ {0}
  /\ MaxDeltas \in Nat
  /\ MaxCalls \in Nat
  /\ UserEnds \subseteq {"canceled", "deadline"}
  /\ HistoryFails \in BOOLEAN

VARIABLES
  pc,        \* pc[r]: where the goroutine of run r is
  stored,    \* stored[r]: useHistoryStore; FALSE for RunWithMessages
  userErr,   \* userErr[r]: Err() of the caller's context
  runErr,    \* runErr[r]: Err() of runCtx, with the RunTimeout
  callErr,   \* callErr[r]: Err() of callCtx, with the LLMCallTimeout; "nil"
             \* after cancelCall
  savedErr,  \* savedErr[r]: the callErr given to emitErrEnd
  why,       \* why[r]: what its resolveEndReason returned, "error" before
  holder,    \* the run that holds the session lock, or NoRun
  hist,      \* the session's transcript
  base,      \* base[r]: the length of the transcript run r read
  turn,      \* turn[r]: the model calls run r has started
  deltas,    \* deltas[r]: text, thinking and image events of the current stream
  calls,     \* calls[r]: its tool calls
  usage,     \* usage[r]: whether it reported usage
  sErr,      \* sErr[r]: whether it reported an error
  cut,       \* cut[r]: whether it was closed before the provider had said
             \* everything (history variable)
  tool,      \* tool[r]: the call being dispatched
  pending,   \* pending[r]: the local variable appended
  out,       \* out[r]: every event sent on the channel of run r
  got        \* got[r]: how many of them the consumer has received

ctxVars == <<userErr, runErr, callErr>>
respVars == <<deltas, calls, usage, sErr, cut>>
turnVars == <<turn, respVars, tool, pending>>
vars == <<pc, stored, ctxVars, savedErr, why, holder, hist, base, turnVars, out, got>>

Locations == {"idle", "locking", "reading", "calling", "opening", "streaming",
              "turn", "tools", "results", "append", "end", "error", "resolving",
              "errend", "unlocking", "closing", "closed"}
CtxErrs == {"nil", "canceled", "deadline"}
FailureReasons == {"error", "timeout", "cancelled"}
Reasons == {"stop", "max_turns"} \cup FailureReasons

\* Events are their kind, the model call they belong to, which tool call of it,
\* and the reason of an end.  "delta" is a text, thinking or image event.
Kinds == {"delta", "usage", "call", "result", "error", "end"}
Event == [kind : Kinds, turn : Nat, n : Nat, reason : Reasons \cup {""}]
Ev(k, t, n) == [kind |-> k, turn |-> t, n |-> n, reason |-> ""]
EndEv(reason) == [kind |-> "end", turn |-> 0, n |-> 0, reason |-> reason]

UserMsg(r) == [role |-> "user", run |-> r, turn |-> 0, n |-> 0, whole |-> TRUE]
AssistantMsg(r) == [role |-> "assistant", run |-> r, turn |-> turn[r],
                    n |-> calls[r], whole |-> ~cut[r]]
ToolMsg(r) == [role |-> "tool", run |-> r, turn |-> turn[r], n |-> tool[r], whole |-> TRUE]

\* The transcript as runs read, commit and abort turns on it.
Read == {"calling", "opening", "streaming", "turn", "tools", "results", "append"}
Phase(r) == IF ~stored[r] \/ pc[r] \in {"idle", "locking", "reading"} THEN "unread"
            ELSE IF pc[r] \in Read THEN "read" ELSE "over"
Log == INSTANCE TurnLog WITH phase <- [r \in Runs |-> Phase(r)], seen <- base

TypeOK ==
  /\ pc \in [Runs -> Locations]
  /\ stored \in [Runs -> BOOLEAN]
  /\ userErr \in [Runs -> CtxErrs]
  /\ runErr \in [Runs -> CtxErrs]
  /\ callErr \in [Runs -> CtxErrs]
  /\ savedErr \in [Runs -> CtxErrs]
  /\ why \in [Runs -> FailureReasons]
  /\ holder \in Runs \cup {NoRun}
  /\ hist \in Seq(Log!Message)
  /\ base \in [Runs -> Nat]
  /\ turn \in [Runs -> 0..MaxTurns]
  /\ deltas \in [Runs -> Nat]
  /\ calls \in [Runs -> Nat]
  /\ usage \in [Runs -> BOOLEAN]
  /\ sErr \in [Runs -> BOOLEAN]
  /\ cut \in [Runs -> BOOLEAN]
  /\ tool \in [Runs -> Nat]
  /\ pending \in [Runs -> Seq(Log!Message)]
  /\ out \in [Runs -> Seq(Event)]
  /\ got \in [Runs -> Nat]

Init ==
  /\ pc = [r \in Runs |-> "idle"]
  /\ stored \in [Runs -> BOOLEAN]
  /\ userErr = [r \in Runs |-> "nil"]
  /\ runErr = [r \in Runs |-> "nil"]
  /\ callErr = [r \in Runs |-> "nil"]
  /\ savedErr = [r \in Runs |-> "nil"]
  /\ why = [r \in Runs |-> "error"]
  /\ holder = NoRun
  /\ hist = <<>>
  /\ base = [r \in Runs |-> 0]
  /\ turn = [r \in Runs |-> 0]
  /\ deltas = [r \in Runs |-> 0]
  /\ calls = [r \in Runs |-> 0]
  /\ usage = [r \in Runs |-> FALSE]
  /\ sErr = [r \in Runs |-> FALSE]
  /\ cut = [r \in Runs |-> FALSE]
  /\ tool = [r \in Runs |-> 0]
  /\ pending = [r \in Runs |-> <<>>]
  /\ out = [r \in Runs |-> <<>>]
  /\ got = [r \in Runs |-> 0]

-----------------------------------------------------------------------------
Goto(r, l) == pc' = [pc EXCEPT ![r] = l]

\* A send on the event channel, which must have room.
Emit(r, e) == /\ Len(out[r]) - got[r] < OutCap
              /\ out' = [out EXCEPT ![r] = Append(@, e)]
              /\ UNCHANGED got

\* No stream, or one that has not yet said anything.
DropResponse(r) == /\ deltas' = [deltas EXCEPT ![r] = 0]
                   /\ calls' = [calls EXCEPT ![r] = 0]
                   /\ usage' = [usage EXCEPT ![r] = FALSE]
                   /\ sErr' = [sErr EXCEPT ![r] = FALSE]
                   /\ cut' = [cut EXCEPT ![r] = FALSE]

\* The exits through emitErrEnd; e is the callErr they pass.  What the stream
\* gave and what was to be appended is dropped.
Fail(r, e) == /\ Goto(r, "error")
              /\ savedErr' = [savedErr EXCEPT ![r] = e]
              /\ DropResponse(r)
              /\ pending' = [pending EXCEPT ![r] = <<>>]
              /\ UNCHANGED <<turn, tool>>

\* Run: the goroutine starts, under the caller's context as it then is.
Start(r) ==
  /\ pc[r] = "idle"
  /\ Goto(r, "locking")
  /\ UNCHANGED <<stored, ctxVars, savedErr, why, holder, hist, base, turnVars, out, got>>

\* Locker.Lock returns the unlock function.
TakeLock(r) ==
  /\ pc[r] = "locking"
  /\ holder = NoRun
  /\ holder' = r
  /\ Goto(r, IF stored[r] THEN "reading" ELSE "calling")
  /\ UNCHANGED <<stored, ctxVars, savedErr, why, hist, base, turnVars, out, got>>

\* Locker.Lock returns ctx.Err(), even if the lock happens to be free.
LockFails(r) ==
  /\ pc[r] = "locking"
  /\ runErr[r] # "nil"
  /\ Fail(r, "nil")
  /\ UNCHANGED <<stored, ctxVars, why, holder, hist, base, out, got>>

\* History.Read: the transcript, followed by the user's message.
ReadHistory(r) ==
  /\ pc[r] = "reading"
  /\ runErr[r] = "nil"
  /\ base' = [base EXCEPT ![r] = Len(hist)]
  /\ pending' = [pending EXCEPT ![r] = <<UserMsg(r)>>]
  /\ Goto(r, "calling")
  /\ UNCHANGED <<stored, ctxVars, savedErr, why, holder, hist, turn, respVars, tool, out, got>>

\* History.Read or History.Append refuses.
HistoryRefuses(r) ==
  /\ pc[r] \in {"reading", "append"}
  /\ runErr[r] # "nil" \/ HistoryFails
  /\ Fail(r, "nil")
  /\ UNCHANGED <<stored, ctxVars, why, holder, hist, base, out, got>>

\* The loop's condition.
TurnsLeft(r) == turn[r] < MaxTurns

\* callCtx exists in a call only.
InCall(r) == pc[r] \in {"opening", "streaming"}
CancelCall(r) == callErr' = [callErr EXCEPT ![r] = "nil"]

\* The head of the loop: a context for this call, and Client.Stream.
BeginCall(r) ==
  /\ pc[r] = "calling"
  /\ TurnsLeft(r)
  /\ turn' = [turn EXCEPT ![r] = @ + 1]
  /\ DropResponse(r)
  /\ callErr' = [callErr EXCEPT ![r] = runErr[r]]
  /\ Goto(r, "opening")
  /\ UNCHANGED <<stored, userErr, runErr, savedErr, why, holder, hist, base, tool, pending,
                 out, got>>

StreamOpens(r) ==
  /\ pc[r] = "opening"
  /\ Goto(r, "streaming")
  /\ UNCHANGED <<stored, ctxVars, savedErr, why, holder, hist, base, turnVars, out, got>>

StreamRefused(r) ==
  /\ pc[r] = "opening"
  /\ Fail(r, callErr[r])
  /\ CancelCall(r)
  /\ UNCHANGED <<stored, userErr, runErr, why, holder, hist, base, out, got>>

-----------------------------------------------------------------------------
\* drainProviderStream, one branch of its select after another.

\* A text, thinking or image event is forwarded.
StreamDelta(r) ==
  /\ pc[r] = "streaming"
  /\ deltas[r] < MaxDeltas
  /\ deltas' = [deltas EXCEPT ![r] = @ + 1]
  /\ Emit(r, Ev("delta", turn[r], 0))
  /\ UNCHANGED <<pc, stored, ctxVars, savedErr, why, holder, hist, base, turn, calls, usage,
                 sErr, cut, tool, pending>>

\* A tool call, usage or an error is kept for the end of the stream.
StreamAccumulates(r) ==
  /\ pc[r] = "streaming"
  /\ \/ /\ calls[r] < MaxCalls
        /\ calls' = [calls EXCEPT ![r] = @ + 1]
        /\ UNCHANGED <<usage, sErr>>
     \/ usage' = [usage EXCEPT ![r] = TRUE] /\ UNCHANGED <<calls, sErr>>
     \/ sErr' = [sErr EXCEPT ![r] = TRUE] /\ UNCHANGED <<calls, usage>>
  /\ UNCHANGED <<pc, stored, ctxVars, savedErr, why, holder, hist, base, turn, deltas, cut,
                 tool, pending, out, got>>

\* The channel is closed: the provider is done or, when the context of the
\* call is, it just stops.  A received EventError fails the run.
StreamCloses(r) ==
  /\ pc[r] = "streaming"
  /\ IF sErr[r]
       THEN Fail(r, callErr[r])
       ELSE /\ \E early \in {FALSE, callErr[r] # "nil"} : cut' = [cut EXCEPT ![r] = early]
            /\ Goto(r, "turn")
            /\ UNCHANGED <<savedErr, turn, deltas, calls, usage, sErr, tool, pending>>
  /\ CancelCall(r)
  /\ UNCHANGED <<stored, userErr, runErr, why, holder, hist, base, out, got>>

\* As if the stream were drained with a range loop, without the select.
StreamNeverGivenUp(r) == FALSE /\ UNCHANGED vars

\* ctx.Done(): the stream is given up.
StreamGivenUp(r) ==
  /\ pc[r] = "streaming"
  /\ callErr[r] # "nil"
  /\ Fail(r, callErr[r])
  /\ CancelCall(r)
  /\ UNCHANGED <<stored, userErr, runErr, why, holder, hist, base, out, got>>

-----------------------------------------------------------------------------
\* Where the loop goes when it is left in good order.
AfterLoop(r) == IF stored[r] THEN "append" ELSE "end"

\* Where a tool result leads: the next call, the next model call, or out.
AfterTool(r) == IF tool[r] < calls[r] THEN "tools"
                ELSE IF TurnsLeft(r) THEN "calling" ELSE AfterLoop(r)

\* The stream has been drained without error: report the usage, add the
\* assistant's message, then run its tools or leave the loop.
AssistantTurn(r) ==
  /\ pc[r] = "turn"
  /\ IF usage[r] THEN Emit(r, Ev("usage", turn[r], 0)) ELSE UNCHANGED <<out, got>>
  /\ pending' = [pending EXCEPT ![r] = Append(@, AssistantMsg(r))]
  /\ tool' = [tool EXCEPT ![r] = 1]
  /\ Goto(r, IF calls[r] = 0 THEN AfterLoop(r) ELSE "tools")
  /\ UNCHANGED <<stored, ctxVars, savedErr, why, holder, hist, base, turn, respVars>>

\* The tool has been dispatched and came back with a result or an error; the
\* loop does the same with both.
ToolCall(r) ==
  /\ pc[r] = "tools"
  /\ Emit(r, Ev("call", turn[r], tool[r]))
  /\ Goto(r, "results")
  /\ UNCHANGED <<stored, ctxVars, savedErr, why, holder, hist, base, turnVars>>

\* As if the result of the last call of a reply did not join the turn.
ToolResultForgotten(r) ==
  /\ pc[r] = "results"
  /\ Emit(r, Ev("result", turn[r], tool[r]))
  /\ pending' = [pending EXCEPT ![r] = IF tool[r] < calls[r] THEN Append(@, ToolMsg(r)) ELSE @]
  /\ tool' = [tool EXCEPT ![r] = @ + 1]
  /\ Goto(r, AfterTool(r))
  /\ UNCHANGED <<stored, ctxVars, savedErr, why, holder, hist, base, turn, respVars>>

\* As if an error of the tool failed the run.
ToolErrorFails(r) ==
  /\ pc[r] = "results"
  /\ Fail(r, "nil")
  /\ UNCHANGED <<stored, ctxVars, why, holder, hist, base, out, got>>

\* The result is reported and joins the turn; the next call or the next model
\* call follows, or the loop ends with its turns exhausted.
ToolResult(r) ==
  /\ pc[r] = "results"
  /\ Emit(r, Ev("result", turn[r], tool[r]))
  /\ pending' = [pending EXCEPT ![r] = Append(@, ToolMsg(r))]
  /\ tool' = [tool EXCEPT ![r] = @ + 1]
  /\ Goto(r, AfterTool(r))
  /\ UNCHANGED <<stored, ctxVars, savedErr, why, holder, hist, base, turn, respVars>>

\* As if the error of History.Append were not looked at.
AppendHistoryUnchecked(r) ==
  /\ pc[r] = "append"
  /\ hist' = IF runErr[r] = "nil" THEN hist \o pending[r] ELSE hist
  /\ Goto(r, "end")
  /\ UNCHANGED <<stored, ctxVars, savedErr, why, holder, base, turnVars, out, got>>

\* History.Append of the whole turn.
AppendHistory(r) ==
  /\ pc[r] = "append"
  /\ runErr[r] = "nil"
  /\ hist' = hist \o pending[r]
  /\ Goto(r, "end")
  /\ UNCHANGED <<stored, ctxVars, savedErr, why, holder, base, turnVars, out, got>>

\* The last event of a run that ended in good order.
EmitEnd(r) ==
  /\ pc[r] = "end"
  /\ Emit(r, EndEv(IF calls[r] = 0 THEN "stop" ELSE "max_turns"))
  /\ Goto(r, "unlocking")
  /\ UNCHANGED <<stored, ctxVars, savedErr, why, holder, hist, base, turnVars>>

-----------------------------------------------------------------------------
\* As if the RunTimeout had been forgotten.
ResolveWithoutRun(r) ==
  IF userErr[r] = "canceled" THEN "cancelled"
  ELSE IF "deadline" \in {userErr[r], savedErr[r]} THEN "timeout"
  ELSE "error"

\* resolveEndReason: the caller's context first, then the RunTimeout, then
\* that of the call.
ResolveEndReason(r) ==
  IF userErr[r] = "canceled" THEN "cancelled"
  ELSE IF "deadline" \in {userErr[r], runErr[r], savedErr[r]} THEN "timeout"
  ELSE IF savedErr[r] = "canceled" THEN "cancelled"
  ELSE "error"

\* emitErrEnd: the error; then its reason, from what the contexts say at that
\* time; then, whatever becomes of them while the send waits for room, the end.
EmitError(r) ==
  /\ pc[r] = "error"
  /\ Emit(r, Ev("error", turn[r], 0))
  /\ Goto(r, "resolving")
  /\ UNCHANGED <<stored, ctxVars, savedErr, why, holder, hist, base, turnVars>>

ResolveReason(r) ==
  /\ pc[r] = "resolving"
  /\ why' = [why EXCEPT ![r] = ResolveEndReason(r)]
  /\ Goto(r, "errend")
  /\ UNCHANGED <<stored, ctxVars, savedErr, holder, hist, base, turnVars, out, got>>

\* As if the caller of emitErrEnd did not return after it.
EmitErrEndNoReturn(r) ==
  /\ pc[r] = "errend"
  /\ Emit(r, EndEv(why[r]))
  /\ Goto(r, IF holder = r THEN "end" ELSE "closing")
  /\ UNCHANGED <<stored, ctxVars, savedErr, why, holder, hist, base, turnVars>>

EmitErrEnd(r) ==
  /\ pc[r] = "errend"
  /\ Emit(r, EndEv(why[r]))
  /\ Goto(r, IF holder = r THEN "unlocking" ELSE "closing")
  /\ UNCHANGED <<stored, ctxVars, savedErr, why, holder, hist, base, turnVars>>

\* The deferred calls, last first: unlock, cancelRun, close(out).
Unlock(r) ==
  /\ pc[r] = "unlocking"
  /\ holder' = NoRun
  /\ Goto(r, "closing")
  /\ UNCHANGED <<stored, ctxVars, savedErr, why, hist, base, turnVars, out, got>>

CloseOut(r) ==
  /\ pc[r] = "closing"
  /\ Goto(r, "closed")
  /\ UNCHANGED <<stored, ctxVars, savedErr, why, holder, hist, base, turnVars, out, got>>

-----------------------------------------------------------------------------
\* The caller's side and the clock.

\* The consumer receives an event, if it cares to.  Nothing of the run depends
\* on a receive from a channel that has room, so those are left out.
Receive(r) ==
  /\ Len(out[r]) - got[r] = OutCap
  /\ got' = [got EXCEPT ![r] = @ + 1]
  /\ UNCHANGED <<pc, stored, ctxVars, savedErr, why, holder, hist, base, turnVars, out>>

\* Where a context that ends can still make a difference to run r.
Contextual == Locations \ {"end", "unlocking", "closing", "closed"}

\* A context that is done passes its error on to those derived from it, once.
Inherit(f, r, e) == [f EXCEPT ![r] = IF @ = "nil" THEN e ELSE @]
CallInherits(r, e) ==
  IF InCall(r) THEN callErr' = Inherit(callErr, r, e) ELSE UNCHANGED callErr

\* The caller cancels, or the deadline of the context it passed expires.
UserDone(r) ==
  /\ pc[r] \in Contextual
  /\ userErr[r] = "nil"
  /\ \E e \in UserEnds :
       /\ userErr' = [userErr EXCEPT ![r] = e]
       /\ runErr' = Inherit(runErr, r, e)
       /\ CallInherits(r, e)
  /\ UNCHANGED <<pc, stored, savedErr, why, holder, hist, base, turnVars, out, got>>

RunTimeout(r) ==
  /\ pc[r] \in Contextual \ {"idle"}
  /\ runErr[r] = "nil"
  /\ runErr' = [runErr EXCEPT ![r] = "deadline"]
  /\ CallInherits(r, "deadline")
  /\ UNCHANGED <<pc, stored, userErr, savedErr, why, holder, hist, base, turnVars, out, got>>

LLMCallTimeout(r) ==
  /\ InCall(r)
  /\ callErr[r] = "nil"
  /\ callErr' = [callErr EXCEPT ![r] = "deadline"]
  /\ UNCHANGED <<pc, stored, userErr, runErr, savedErr, why, holder, hist, base, turnVars,
                 out, got>>

-----------------------------------------------------------------------------
Locking(r) == Start(r) \/ TakeLock(r) \/ LockFails(r) \/ Unlock(r) \/ CloseOut(r)
Storing(r) == ReadHistory(r) \/ AppendHistory(r) \/ HistoryRefuses(r)
Calling(r) == BeginCall(r) \/ StreamOpens(r) \/ StreamRefused(r)
Streaming(r) == StreamDelta(r) \/ StreamAccumulates(r) \/ StreamCloses(r) \/ StreamGivenUp(r)
Looping(r) == AssistantTurn(r) \/ ToolCall(r) \/ ToolResult(r)
Ending(r) == EmitEnd(r) \/ EmitError(r) \/ ResolveReason(r) \/ EmitErrEnd(r)
Clock(r) == UserDone(r) \/ RunTimeout(r) \/ LLMCallTimeout(r)

Next == \E r \in Runs : \/ Locking(r) \/ Storing(r) \/ Calling(r) \/ Streaming(r)
                        \/ Looping(r) \/ Ending(r) \/ Receive(r) \/ Clock(r)

Spec == Init /\ [][Next]_vars

-----------------------------------------------------------------------------
\* Run r has sent its last event.
Ended(r) == pc[r] \in {"unlocking", "closing", "closed"}
EndReason(r) == out[r][Len(out[r])].reason
Recorded(r) == \E i \in DOMAIN hist : hist[i].run = r

\* From the read of the transcript to the append, nobody else touches it: the
\* turn goes right behind the messages its model was shown (run.go:74-211,
\* ADR-024), whatever other runs of the session do.
NoStaleAppend == \A r \in Runs : Phase(r) = "read" => base[r] = Len(hist)

\* A finished run has its turn in the transcript exactly if it ended in good
\* order; on an error, a timeout or a cancellation the transcript is left as
\* it was (run.go:21-22).
RecordedIffGood ==
  \A r \in Runs : Ended(r) /\ stored[r] =>
    (Recorded(r) <=> EndReason(r) \in {"stop", "max_turns"})

\* Every run reports exactly one end, as its last event, and an error only
\* right before it (run.go:19, 264-270).
EndsOnceAndLast ==
  /\ TypeOK
  /\ \A r \in Runs :
       /\ Ended(r) => out[r] # <<>> /\ out[r][Len(out[r])].kind = "end"
       /\ \A i \in DOMAIN out[r] :
            /\ out[r][i].kind = "end" => Ended(r) /\ i = Len(out[r])
            /\ out[r][i].kind = "error" => i >= Len(out[r]) - 1

\* What the consumer was told of tools is what the transcript says: the results
\* sent are the tool messages recorded, both in the order of the model calls and
\* of the calls in each, and every result comes right behind the event of its
\* call (run.go:184-200).  And the reason of the end fits it: "stop" means the
\* model's last reply called no tool, "max_turns" that it had all its turns and
\* still called one, whose answers are in the turn (run.go:124, 172, 203).
Before(a, b) == a.turn < b.turn \/ (a.turn = b.turn /\ a.n < b.n)
Results(r) == {i \in DOMAIN out[r] : out[r][i].kind = "result"}
ToolMessages(r) == {i \in DOMAIN hist : hist[i].run = r /\ hist[i].role = "tool"}
ToolsTold(r) ==
  /\ {<<out[r][i].turn, out[r][i].n>> : i \in Results(r)}
       = {<<hist[i].turn, hist[i].n>> : i \in ToolMessages(r)}
  /\ \A i, j \in Results(r) : i < j => Before(out[r][i], out[r][j])
  /\ \A i, j \in ToolMessages(r) : i < j => Before(hist[i], hist[j])
  /\ \A i \in Results(r) : i > 1 /\ out[r][i - 1] = Ev("call", out[r][i].turn, out[r][i].n)
LastMsg(r) == pending[r][Len(pending[r])]
ReasonFits(r) ==
  /\ EndReason(r) = "stop" => LastMsg(r).role = "assistant" /\ LastMsg(r).n = 0
  /\ EndReason(r) = "max_turns" =>
       /\ LastMsg(r).role = "tool"
       /\ \A t \in 1..MaxTurns : \E i \in DOMAIN pending[r] :
            LET m == pending[r][i] IN m.role = "assistant" /\ m.turn = t /\ m.n > 0
EventsTellTranscript ==
  \A r \in Runs : Ended(r) => (Recorded(r) => ToolsTold(r)) /\ ReasonFits(r)

\* A run whose context is over before emitErrEnd asks for the reason, with the
\* error long sent or still to come, never ends as a plain error, and one the
\* caller cancelled, whatever expired as well, never as a timeout; a context
\* that ends later changes nothing.  And no reason is made up: a run that ends
\* as a timeout had a deadline expire, and only a caller that cancelled is told
\* "cancelled" (run.go:264-295).
Unresolved(r) == ~Ended(r) /\ pc[r] # "errend"
NotPlain(r) == Ended(r) => EndReason(r) # "error"
NotTimeout(r) == Ended(r) => EndReason(r) \notin {"error", "timeout"}
NotMadeUp(r) ==
  Ended(r) =>
    /\ EndReason(r) = "timeout" => "deadline" \in {userErr[r], runErr[r], savedErr[r]}
    /\ EndReason(r) = "cancelled" => userErr[r] = "canceled"
FailureIsBlamedOnContext ==
  \A r \in Runs :
    /\ [](Unresolved(r) /\ runErr[r] # "nil" => []NotPlain(r))
    /\ [](Unresolved(r) /\ userErr[r] = "canceled" => []NotTimeout(r))
    /\ []NotMadeUp(r)

\* The runs of a session behave as if each read the transcript and appended a
\* whole turn to it in one go: TurnLog, with the lock left out.
RunsAreSerial == Log!Spec

\* A run reports what a Runner promises to its consumers (voice.go:51-55,
\* 318-346), one event after the other: nothing comes between a tool call and its
\* result, the reason of the end is that of a failure exactly if an error came
\* before it, and a channel is closed right behind the end and at no other place.
Said(r) ==
  IF pc[r] = "closed" THEN "closed"
  ELSE IF out[r] = <<>> THEN "live"
  ELSE LET k == out[r][Len(out[r])].kind IN
         CASE k = "call" -> "called" [] k = "error" -> "failed" [] k = "end" -> "ended"
           [] OTHER -> "live"
Teller(r) == INSTANCE Runner WITH said <- Said(r)
Telling(r) ==
  IF out'[r] = out[r]
    THEN Said(r)' = Said(r) \/ Teller(r)!Closes
    ELSE LET e == out'[r][Len(out'[r])] IN
           out'[r] = Append(out[r], e) /\ Teller(r)!Tells(e.kind, e.reason)
RunnerContract ==
  /\ \A r \in Runs : Teller(r)!RunnerInit
  /\ [][\A r \in Runs : Telling(r)]_vars

-----------------------------------------------------------------------------
(* What the documentation says and the code does not do. *)

\* "no half-recorded turns" (docs/ARCHITECTURE.md:143), "Both exhaust to
\* EndReasonTimeout" (145): only complete replies enter the transcript.
OnlyWholeReplies == \A i \in DOMAIN hist : hist[i].whole
=============================================================================
