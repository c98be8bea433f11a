--------------------------- MODULE AgentRunProofs ---------------------------
(***************************************************************************)
(* The safety of the runs on one session, for any number of runs, turns,   *)
(* tool calls and events and any capacity of the event channel: the lock   *)
(* and the transcript it guards, then what a run reports and records, the  *)
(* refinement of TurnLog, and what Drain makes of the events of a run.     *)
(***************************************************************************)
EXTENDS Drain, SequenceTheorems, NaturalsInduction, WellFoundedInduction, TLAPS

Messages == Seq(Log!Message)

-----------------------------------------------------------------------------
(* Types. *)

TurnTypes ==
  /\ turn \in [Runs -> 0..MaxTurns]
  /\ deltas \in [Runs -> Nat]
  /\ calls \in [Runs -> Nat]
  /\ usage \in [Runs -> BOOLEAN]
  /\ sErr \in [Runs -> BOOLEAN]
  /\ cut \in [Runs -> BOOLEAN]
  /\ tool \in [Runs -> Nat]
  /\ pending \in [Runs -> Messages]

CtxTypes == /\ userErr \in [Runs -> CtxErrs]
            /\ runErr \in [Runs -> CtxErrs]
            /\ callErr \in [Runs -> CtxErrs]

OutTypes == /\ out \in [Runs -> Seq(Event)]
            /\ got \in [Runs -> Nat]

SharedTypes == /\ holder \in Runs \cup {NoRun}
               /\ hist \in Messages
               /\ base \in [Runs -> Nat]

ControlTypes == /\ pc \in [Runs -> Locations]
                /\ stored \in [Runs -> BOOLEAN]
                /\ savedErr \in [Runs -> CtxErrs]
                /\ why \in [Runs -> FailureReasons]

LEMMA TypeParts ==
  TypeOK <=> TurnTypes /\ CtxTypes /\ OutTypes /\ SharedTypes /\ ControlTypes
  BY DEF TypeOK, TurnTypes, CtxTypes, OutTypes, SharedTypes, ControlTypes, Messages

LEMMA TypePartsNext ==
  TypeOK' <=> TurnTypes' /\ CtxTypes' /\ OutTypes' /\ SharedTypes' /\ ControlTypes'
  BY DEF TypeOK, TurnTypes, CtxTypes, OutTypes, SharedTypes, ControlTypes, Messages

LEMMA InitTypeOK == Init => TypeOK
<1>1. <<>> \in Seq(Log!Message) /\ <<>> \in Seq(Event)
  OBVIOUS
<1>2. QED
  BY <1>1, SizesAssumption DEF Init, TypeOK, Locations, CtxErrs, FailureReasons

LEMMA UnchangedTypes ==
  /\ TurnTypes /\ UNCHANGED turnVars => TurnTypes'
  /\ CtxTypes /\ UNCHANGED ctxVars => CtxTypes'
  /\ OutTypes /\ UNCHANGED <<out, got>> => OutTypes'
  /\ SharedTypes /\ UNCHANGED <<holder, hist, base>> => SharedTypes'
  /\ ControlTypes /\ UNCHANGED <<pc, stored, savedErr, why>> => ControlTypes'
  BY DEF TurnTypes, CtxTypes, OutTypes, SharedTypes, ControlTypes, turnVars,
         respVars, ctxVars

LEMMA GotoType ==
  ASSUME ControlTypes, NEW r \in Runs, NEW l \in Locations, Goto(r, l),
         UNCHANGED <<stored, savedErr, why>>
  PROVE  ControlTypes'
  BY DEF ControlTypes, Goto

LEMMA EventTypes ==
  ASSUME NEW k \in Kinds, NEW t \in Nat, NEW n \in Nat, NEW w \in Reasons
  PROVE  Ev(k, t, n) \in Event /\ EndEv(w) \in Event
  BY DEF Ev, EndEv, Event, Kinds, Reasons

LEMMA EmitType ==
  ASSUME OutTypes, NEW r \in Runs, NEW e \in Event, Emit(r, e)
  PROVE  OutTypes'
  BY DEF OutTypes, Emit

LEMMA MessageTypes ==
  ASSUME TurnTypes, NEW r \in Runs
  PROVE  /\ UserMsg(r) \in Log!Message
         /\ AssistantMsg(r) \in Log!Message
         /\ ToolMsg(r) \in Log!Message
         /\ turn[r] \in Nat
<1>1. turn[r] \in Nat /\ calls[r] \in Nat /\ tool[r] \in Nat /\ cut[r] \in BOOLEAN
  BY SizesAssumption DEF TurnTypes
<1>2. QED
  BY <1>1 DEF UserMsg, AssistantMsg, ToolMsg, Log!Message, Log!Roles

LEMMA FailTypes ==
  ASSUME TurnTypes, ControlTypes, NEW r \in Runs, NEW e \in CtxErrs, Fail(r, e),
         UNCHANGED <<stored, why>>
  PROVE  TurnTypes' /\ ControlTypes'
<1>1. pending' \in [Runs -> Messages]
  <2>1. <<>> \in Messages
    BY DEF Messages
  <2>2. QED BY <2>1 DEF TurnTypes, Fail
<1>2. QED
  BY <1>1 DEF TurnTypes, ControlTypes, Fail, DropResponse, Goto, Locations

LEMMA CancelCallTypes ==
  ASSUME CtxTypes, NEW r \in Runs, CancelCall(r), UNCHANGED <<userErr, runErr>>
  PROVE  CtxTypes'
  BY DEF CtxTypes, CancelCall, CtxErrs

LEMMA NextTypeOK == TypeOK /\ [Next]_vars => TypeOK'
<1> SUFFICES ASSUME TypeOK, [Next]_vars PROVE TypeOK'
  OBVIOUS
<1>0. TurnTypes /\ CtxTypes /\ OutTypes /\ SharedTypes /\ ControlTypes
  BY TypeParts
<1> SUFFICES TurnTypes' /\ CtxTypes' /\ OutTypes' /\ SharedTypes' /\ ControlTypes'
  BY TypePartsNext
<1>nil. "nil" \in CtxErrs
  BY DEF CtxErrs
<1>1. ASSUME NEW r \in Runs, Start(r) \/ CloseOut(r)
      PROVE TurnTypes' /\ CtxTypes' /\ OutTypes' /\ SharedTypes' /\ ControlTypes'
  <2>1. ControlTypes'
    BY <1>0, <1>1, GotoType DEF Start, CloseOut, Locations
  <2>2. QED BY <1>0, <1>1, <2>1, UnchangedTypes DEF Start, CloseOut
<1>2. ASSUME NEW r \in Runs, TakeLock(r) \/ Unlock(r)
      PROVE TurnTypes' /\ CtxTypes' /\ OutTypes' /\ SharedTypes' /\ ControlTypes'
  <2>1. ControlTypes'
    BY <1>0, <1>2, GotoType DEF TakeLock, Unlock, Locations
  <2>2. SharedTypes'
    BY <1>0, <1>2 DEF TakeLock, Unlock, SharedTypes
  <2>3. QED BY <1>0, <1>2, <2>1, <2>2, UnchangedTypes DEF TakeLock, Unlock
<1>3. ASSUME NEW r \in Runs, LockFails(r) \/ HistoryRefuses(r)
      PROVE TurnTypes' /\ CtxTypes' /\ OutTypes' /\ SharedTypes' /\ ControlTypes'
  <2>1. TurnTypes' /\ ControlTypes'
    BY <1>0, <1>3, <1>nil, FailTypes DEF LockFails, HistoryRefuses
  <2>2. QED BY <1>0, <1>3, <2>1, UnchangedTypes DEF LockFails, HistoryRefuses
<1>4. ASSUME NEW r \in Runs, ReadHistory(r)
      PROVE TurnTypes' /\ CtxTypes' /\ OutTypes' /\ SharedTypes' /\ ControlTypes'
  <2>1. ControlTypes'
    BY <1>0, <1>4, GotoType DEF ReadHistory, Locations
  <2>2. TurnTypes'
    <3>1. <<UserMsg(r)>> \in Messages
      BY <1>0, MessageTypes DEF Messages
    <3>2. pending' \in [Runs -> Messages]
      BY <1>0, <1>4, <3>1 DEF ReadHistory, TurnTypes
    <3>3. QED BY <1>0, <1>4, <3>2 DEF ReadHistory, TurnTypes, respVars
  <2>3. SharedTypes'
    <3>1. Len(hist) \in Nat
      BY <1>0 DEF SharedTypes, Messages
    <3>2. QED BY <1>0, <1>4, <3>1 DEF ReadHistory, SharedTypes
  <2>4. QED BY <1>0, <1>4, <2>1, <2>2, <2>3, UnchangedTypes DEF ReadHistory
<1>5. ASSUME NEW r \in Runs, AppendHistory(r)
      PROVE TurnTypes' /\ CtxTypes' /\ OutTypes' /\ SharedTypes' /\ ControlTypes'
  <2>1. ControlTypes'
    BY <1>0, <1>5, GotoType DEF AppendHistory, Locations
  <2>2. SharedTypes'
    <3>1. hist \o pending[r] \in Messages
      BY <1>0 DEF SharedTypes, TurnTypes, Messages
    <3>2. QED BY <1>0, <1>5, <3>1 DEF AppendHistory, SharedTypes
  <2>3. QED BY <1>0, <1>5, <2>1, <2>2, UnchangedTypes DEF AppendHistory
<1>6. ASSUME NEW r \in Runs, BeginCall(r)
      PROVE TurnTypes' /\ CtxTypes' /\ OutTypes' /\ SharedTypes' /\ ControlTypes'
  <2>1. ControlTypes'
    BY <1>0, <1>6, GotoType DEF BeginCall, Locations
  <2>2. TurnTypes'
    BY <1>0, <1>6, SizesAssumption DEF BeginCall, TurnsLeft, DropResponse, TurnTypes
  <2>3. CtxTypes'
    BY <1>0, <1>6 DEF BeginCall, CtxTypes
  <2>4. QED BY <1>0, <1>6, <2>1, <2>2, <2>3, UnchangedTypes DEF BeginCall
<1>7. ASSUME NEW r \in Runs, StreamOpens(r)
      PROVE TurnTypes' /\ CtxTypes' /\ OutTypes' /\ SharedTypes' /\ ControlTypes'
  <2>1. ControlTypes'
    BY <1>0, <1>7, GotoType DEF StreamOpens, Locations
  <2>2. QED BY <1>0, <1>7, <2>1, UnchangedTypes DEF StreamOpens
<1>8. ASSUME NEW r \in Runs, StreamRefused(r) \/ StreamGivenUp(r)
      PROVE TurnTypes' /\ CtxTypes' /\ OutTypes' /\ SharedTypes' /\ ControlTypes'
  <2>1. callErr[r] \in CtxErrs
    BY <1>0 DEF CtxTypes
  <2>2. TurnTypes' /\ ControlTypes'
    BY <1>0, <1>8, <2>1, FailTypes DEF StreamRefused, StreamGivenUp
  <2>3. CtxTypes'
    BY <1>0, <1>8, CancelCallTypes DEF StreamRefused, StreamGivenUp
  <2>4. QED BY <1>0, <1>8, <2>2, <2>3, UnchangedTypes DEF StreamRefused, StreamGivenUp
<1>9. ASSUME NEW r \in Runs, StreamDelta(r)
      PROVE TurnTypes' /\ CtxTypes' /\ OutTypes' /\ SharedTypes' /\ ControlTypes'
  <2>1. Ev("delta", turn[r], 0) \in Event
    BY <1>0, MessageTypes, EventTypes DEF Kinds, Reasons
  <2>2. OutTypes'
    BY <1>0, <1>9, <2>1, EmitType DEF StreamDelta
  <2>3. TurnTypes'
    BY <1>0, <1>9 DEF StreamDelta, TurnTypes
  <2>4. QED BY <1>0, <1>9, <2>2, <2>3, UnchangedTypes DEF StreamDelta
<1>10. ASSUME NEW r \in Runs, StreamAccumulates(r)
       PROVE TurnTypes' /\ CtxTypes' /\ OutTypes' /\ SharedTypes' /\ ControlTypes'
  <2>1. TurnTypes'
    <3>1. /\ calls' \in [Runs -> Nat]
          /\ usage' \in [Runs -> BOOLEAN]
          /\ sErr' \in [Runs -> BOOLEAN]
      <4>1. CASE calls' = [calls EXCEPT ![r] = @ + 1] /\ UNCHANGED <<usage, sErr>>
        BY <1>0, <4>1 DEF TurnTypes
      <4>2. CASE usage' = [usage EXCEPT ![r] = TRUE] /\ UNCHANGED <<calls, sErr>>
        BY <1>0, <4>2 DEF TurnTypes
      <4>3. CASE sErr' = [sErr EXCEPT ![r] = TRUE] /\ UNCHANGED <<calls, usage>>
        BY <1>0, <4>3 DEF TurnTypes
      <4>4. QED BY <1>10, <4>1, <4>2, <4>3 DEF StreamAccumulates
    <3>2. QED BY <1>0, <1>10, <3>1 DEF StreamAccumulates, TurnTypes
  <2>2. QED BY <1>0, <1>10, <2>1, UnchangedTypes DEF StreamAccumulates
<1>11. ASSUME NEW r \in Runs, StreamCloses(r)
       PROVE TurnTypes' /\ CtxTypes' /\ OutTypes' /\ SharedTypes' /\ ControlTypes'
  <2>1. CtxTypes'
    BY <1>0, <1>11, CancelCallTypes DEF StreamCloses
  <2>2. TurnTypes' /\ ControlTypes'
    <3>1. CASE sErr[r]
      <4>1. callErr[r] \in CtxErrs
        BY <1>0 DEF CtxTypes
      <4>2. QED BY <1>0, <1>11, <3>1, <4>1, FailTypes DEF StreamCloses
    <3>2. CASE ~sErr[r]
      <4>1. TurnTypes'
        BY <1>0, <1>11, <3>2 DEF StreamCloses, TurnTypes
      <4>2. ControlTypes'
        BY <1>0, <1>11, <3>2, GotoType DEF StreamCloses, Locations
      <4>3. QED BY <4>1, <4>2
    <3>3. QED BY <3>1, <3>2
  <2>3. QED BY <1>0, <1>11, <2>1, <2>2, UnchangedTypes DEF StreamCloses
<1>12. ASSUME NEW r \in Runs, AssistantTurn(r)
       PROVE TurnTypes' /\ CtxTypes' /\ OutTypes' /\ SharedTypes' /\ ControlTypes'
  <2>1. OutTypes'
    <3>1. Ev("usage", turn[r], 0) \in Event
      BY <1>0, MessageTypes, EventTypes DEF Kinds, Reasons
    <3>2. QED BY <1>0, <1>12, <3>1, EmitType, UnchangedTypes DEF AssistantTurn
  <2>2. ControlTypes'
    BY <1>0, <1>12, GotoType DEF AssistantTurn, AfterLoop, Locations
  <2>3. TurnTypes'
    <3>1. pending[r] \in Messages /\ AssistantMsg(r) \in Log!Message
      BY <1>0, MessageTypes DEF TurnTypes
    <3>2. Append(pending[r], AssistantMsg(r)) \in Messages
      BY <3>1 DEF Messages
    <3>3. pending' \in [Runs -> Messages]
      BY <1>0, <1>12, <3>2 DEF AssistantTurn, TurnTypes
    <3>4. QED BY <1>0, <1>12, <3>3 DEF AssistantTurn, TurnTypes, respVars
  <2>4. QED BY <1>0, <1>12, <2>1, <2>2, <2>3, UnchangedTypes DEF AssistantTurn
<1>13. ASSUME NEW r \in Runs, ToolCall(r)
       PROVE TurnTypes' /\ CtxTypes' /\ OutTypes' /\ SharedTypes' /\ ControlTypes'
  <2>1. OutTypes'
    <3>1. Ev("call", turn[r], tool[r]) \in Event
      BY <1>0, MessageTypes, EventTypes DEF Kinds, Reasons, TurnTypes
    <3>2. QED BY <1>0, <1>13, <3>1, EmitType DEF ToolCall
  <2>2. ControlTypes'
    BY <1>0, <1>13, GotoType DEF ToolCall, Locations
  <2>3. QED BY <1>0, <1>13, <2>1, <2>2, UnchangedTypes DEF ToolCall
<1>14. ASSUME NEW r \in Runs, ToolResult(r)
       PROVE TurnTypes' /\ CtxTypes' /\ OutTypes' /\ SharedTypes' /\ ControlTypes'
  <2>1. OutTypes'
    <3>1. Ev("result", turn[r], tool[r]) \in Event
      BY <1>0, MessageTypes, EventTypes DEF Kinds, Reasons, TurnTypes
    <3>2. QED BY <1>0, <1>14, <3>1, EmitType DEF ToolResult
  <2>2. ControlTypes'
    <3>1. AfterTool(r) \in Locations
      BY DEF AfterTool, AfterLoop, Locations
    <3>2. QED BY <1>0, <1>14, <3>1, GotoType DEF ToolResult
  <2>3. TurnTypes'
    <3>1. pending[r] \in Messages /\ ToolMsg(r) \in Log!Message
      BY <1>0, MessageTypes DEF TurnTypes
    <3>2. Append(pending[r], ToolMsg(r)) \in Messages
      BY <3>1 DEF Messages
    <3>3. pending' \in [Runs -> Messages]
      BY <1>0, <1>14, <3>2 DEF ToolResult, TurnTypes
    <3>4. QED BY <1>0, <1>14, <3>3 DEF ToolResult, TurnTypes, respVars
  <2>4. QED BY <1>0, <1>14, <2>1, <2>2, <2>3, UnchangedTypes DEF ToolResult
<1>15. ASSUME NEW r \in Runs, Ending(r)
       PROVE TurnTypes' /\ CtxTypes' /\ OutTypes' /\ SharedTypes' /\ ControlTypes'
  <2>1. OutTypes'
    <3>1. why[r] \in Reasons
      BY <1>0 DEF ControlTypes, Reasons
    <3>2. Ev("error", turn[r], 0) \in Event
      BY <1>0, MessageTypes, EventTypes DEF Kinds, Reasons
    <3>3. \A w \in Reasons : EndEv(w) \in Event
      BY EventTypes DEF Kinds
    <3>4. (\E e \in Event : Emit(r, e)) \/ UNCHANGED <<out, got>>
      BY <1>15, <3>1, <3>2, <3>3
      DEF Ending, EmitEnd, EmitError, ResolveReason, EmitErrEnd, Reasons
    <3>5. QED BY <1>0, <3>4, EmitType, UnchangedTypes
  <2>2. ControlTypes'
    <3>1. CASE ResolveReason(r)
      <4>1. ResolveEndReason(r) \in FailureReasons
        BY DEF ResolveEndReason, FailureReasons
      <4>2. QED BY <1>0, <3>1, <4>1 DEF ResolveReason, Goto, ControlTypes, Locations
    <3>2. CASE EmitEnd(r) \/ EmitError(r) \/ EmitErrEnd(r)
      BY <1>0, <3>2, GotoType DEF EmitEnd, EmitError, EmitErrEnd, Locations
    <3>3. QED BY <1>15, <3>1, <3>2 DEF Ending
  <2>3. QED BY <1>0, <1>15, <2>1, <2>2, UnchangedTypes
            DEF Ending, EmitEnd, EmitError, ResolveReason, EmitErrEnd
<1>16. ASSUME NEW r \in Runs, Receive(r)
       PROVE TurnTypes' /\ CtxTypes' /\ OutTypes' /\ SharedTypes' /\ ControlTypes'
  <2>1. OutTypes'
    BY <1>0, <1>16 DEF Receive, OutTypes
  <2>2. QED BY <1>0, <1>16, <2>1, UnchangedTypes DEF Receive
<1>17. ASSUME NEW r \in Runs, Clock(r)
       PROVE TurnTypes' /\ CtxTypes' /\ OutTypes' /\ SharedTypes' /\ ControlTypes'
  <2>1. CtxTypes'
    BY <1>0, <1>17, SizesAssumption
    DEF Clock, UserDone, RunTimeout, LLMCallTimeout, Inherit, CallInherits, CtxTypes, CtxErrs
  <2>2. QED BY <1>0, <1>17, <2>1, UnchangedTypes
            DEF Clock, UserDone, RunTimeout, LLMCallTimeout
<1>18. CASE UNCHANGED vars
  BY <1>0, <1>18, UnchangedTypes DEF vars
<1>19. QED
  BY <1>1, <1>2, <1>3, <1>4, <1>5, <1>6, <1>7, <1>8, <1>9, <1>10, <1>11, <1>12, <1>13,
     <1>14, <1>15, <1>16, <1>17, <1>18
  DEF Next, Locking, Storing, Calling, Streaming, Looping

\* The variables of the runs keep their types.
THEOREM TypeCorrect == Spec => []TypeOK
  BY InitTypeOK, NextTypeOK, PTL DEF Spec

-----------------------------------------------------------------------------
(***************************************************************************)
(* The transcript under the session lock.  The lock is held from TakeLock  *)
(* to Unlock, over the whole of the window between read and append, so one *)
(* run at a time is in that window and nobody else appends.  An append     *)
(* comes from the run in the window, which leaves it with the append.      *)
(***************************************************************************)
Holding == {"reading", "calling", "opening", "streaming", "turn", "tools", "results",
            "append", "end", "unlocking"}
Outside == {"idle", "locking", "closing", "closed"}

LockInv ==
  \A r \in Runs : /\ pc[r] \in Holding => holder = r
                  /\ holder = r => pc[r] \notin Outside

\* At most one run of the session is between lock and unlock at a time.
OneRunInside == \A r, s \in Runs : pc[r] \in Holding /\ pc[s] \in Holding => r = s

LEMMA LockInvOneRun == LockInv => OneRunInside
  BY DEF LockInv, OneRunInside

LEMMA InitLockInv == Init => LockInv
<1> SUFFICES ASSUME Init, NEW r \in Runs
             PROVE  pc[r] \notin Holding /\ holder # r
  BY DEF LockInv
<1>1. pc[r] = "idle" /\ holder # r
  BY RunAssumption DEF Init
<1>2. QED BY <1>1 DEF Holding

LEMMA NextLockInv == TypeOK /\ LockInv /\ [Next]_vars => LockInv'
<1> SUFFICES ASSUME TypeOK, LockInv, [Next]_vars PROVE LockInv'
  OBVIOUS
<1> USE DEF LockInv, Holding, Outside
<1>1. ASSUME NEW r \in Runs, Locking(r) PROVE LockInv'
  <2>1. CASE TakeLock(r)
    BY <2>1, RunAssumption DEF TakeLock, Goto, TypeOK
  <2>2. CASE Unlock(r)
    BY <2>2, RunAssumption DEF Unlock, Goto, TypeOK
  <2>3. CASE Start(r) \/ LockFails(r) \/ CloseOut(r)
    BY <2>3 DEF Start, LockFails, CloseOut, Fail, Goto, TypeOK
  <2>4. QED BY <1>1, <2>1, <2>2, <2>3 DEF Locking
<1>2. ASSUME NEW r \in Runs, Storing(r) PROVE LockInv'
  BY <1>2 DEF Storing, ReadHistory, AppendHistory, HistoryRefuses, Fail, Goto, TypeOK
<1>3. ASSUME NEW r \in Runs, Calling(r) PROVE LockInv'
  BY <1>3 DEF Calling, BeginCall, StreamOpens, StreamRefused, Fail, Goto, TypeOK
<1>4. ASSUME NEW r \in Runs, Streaming(r) PROVE LockInv'
  BY <1>4 DEF Streaming, StreamDelta, StreamAccumulates, StreamCloses, StreamGivenUp,
              Fail, Goto, TypeOK
<1>5. ASSUME NEW r \in Runs, Looping(r) PROVE LockInv'
  BY <1>5 DEF Looping, AssistantTurn, ToolCall, ToolResult, AfterTool, AfterLoop, Goto,
              TypeOK
<1>6. ASSUME NEW r \in Runs, Ending(r) PROVE LockInv'
  BY <1>6 DEF Ending, EmitEnd, EmitError, ResolveReason, EmitErrEnd, Goto, TypeOK
<1>7. ASSUME NEW r \in Runs, Receive(r) \/ Clock(r) PROVE LockInv'
  BY <1>7 DEF Receive, Clock, UserDone, RunTimeout, LLMCallTimeout
<1>8. CASE UNCHANGED vars
  BY <1>8 DEF vars
<1>9. QED
  BY <1>1, <1>2, <1>3, <1>4, <1>5, <1>6, <1>7, <1>8 DEF Next

\* A step that neither reads nor appends, and does not enter the window.
LEMMA WindowKept ==
  ASSUME TypeOK, NoStaleAppend, NEW r \in Runs, NEW l \in Locations, Goto(r, l),
         stored[r] /\ l \in Read => pc[r] \in Read,
         UNCHANGED <<stored, hist, base>>
  PROVE  NoStaleAppend'
<1> SUFFICES ASSUME NEW s \in Runs, stored[s], pc'[s] \in Read
             PROVE  base[s] = Len(hist)
  BY DEF NoStaleAppend, Phase, Read
<1>1. pc[s] \in Read
  BY DEF Goto, TypeOK
<1>2. QED BY <1>1 DEF NoStaleAppend, Phase, Read

LEMMA NextNoStaleAppend ==
  TypeOK /\ LockInv /\ NoStaleAppend /\ [Next]_vars => NoStaleAppend'
<1> SUFFICES ASSUME TypeOK, LockInv, NoStaleAppend, [Next]_vars PROVE NoStaleAppend'
  OBVIOUS
<1> USE DEF NoStaleAppend, Phase, Read
<1>1. ASSUME NEW r \in Runs, ReadHistory(r) PROVE NoStaleAppend'
  BY <1>1 DEF ReadHistory, Goto, TypeOK
<1>2. ASSUME NEW r \in Runs, AppendHistory(r) PROVE NoStaleAppend'
  <2>1. \A s \in Runs \ {r} : pc[s] \notin Read \/ ~stored[s]
    BY <1>2 DEF LockInv, Holding, AppendHistory
  <2>2. QED BY <1>2, <2>1 DEF AppendHistory, Goto, TypeOK
<1>3. ASSUME NEW r \in Runs, Locking(r) \/ HistoryRefuses(r) PROVE NoStaleAppend'
  <2>1. CASE TakeLock(r)
    BY <2>1, WindowKept DEF TakeLock, Locations
  <2>2. CASE Start(r) \/ LockFails(r) \/ Unlock(r) \/ CloseOut(r) \/ HistoryRefuses(r)
    BY <2>2, WindowKept
    DEF Start, LockFails, Unlock, CloseOut, HistoryRefuses, Fail, Locations
  <2>3. QED BY <1>3, <2>1, <2>2 DEF Locking
<1>4. ASSUME NEW r \in Runs, Calling(r) PROVE NoStaleAppend'
  BY <1>4, WindowKept DEF Calling, BeginCall, StreamOpens, StreamRefused, Fail, Locations
<1>5. ASSUME NEW r \in Runs, Streaming(r) PROVE NoStaleAppend'
  <2>1. CASE StreamDelta(r) \/ StreamAccumulates(r)
    BY <2>1 DEF StreamDelta, StreamAccumulates
  <2>2. CASE StreamCloses(r) \/ StreamGivenUp(r)
    BY <2>2, WindowKept DEF StreamCloses, StreamGivenUp, Fail, Locations
  <2>3. QED BY <1>5, <2>1, <2>2 DEF Streaming
<1>6. ASSUME NEW r \in Runs, Looping(r) PROVE NoStaleAppend'
  <2>1. AfterTool(r) \in Locations /\ AfterLoop(r) \in Locations
    BY DEF AfterTool, AfterLoop, Locations
  <2>2. QED BY <1>6, <2>1, WindowKept
            DEF Looping, AssistantTurn, ToolCall, ToolResult, Locations
<1>7. ASSUME NEW r \in Runs, Ending(r) PROVE NoStaleAppend'
  BY <1>7, WindowKept DEF Ending, EmitEnd, EmitError, ResolveReason, EmitErrEnd, Locations
<1>8. ASSUME NEW r \in Runs, Receive(r) \/ Clock(r) PROVE NoStaleAppend'
  BY <1>8 DEF Receive, Clock, UserDone, RunTimeout, LLMCallTimeout
<1>9. CASE UNCHANGED vars
  BY <1>9 DEF vars
<1>10. QED
  BY <1>1, <1>2, <1>3, <1>4, <1>5, <1>6, <1>7, <1>8, <1>9 DEF Next, Storing

LEMMA InitNoStaleAppend == Init => NoStaleAppend
  BY DEF Init, NoStaleAppend, Phase

\* One Run at a time per session id (docs/ARCHITECTURE.md:159).
THEOREM RunsAreExclusive == Spec => []OneRunInside
  BY InitTypeOK, NextTypeOK, InitLockInv, NextLockInv, LockInvOneRun, PTL DEF Spec

\* A turn is appended right behind the transcript its model was shown
\* (run.go:74-211): whatever the number of runs, no update is lost between.
THEOREM NoLostUpdate == Spec => []NoStaleAppend
  BY InitTypeOK, NextTypeOK, InitLockInv, NextLockInv, InitNoStaleAppend,
     NextNoStaleAppend, PTL DEF Spec

-----------------------------------------------------------------------------
(* The invariants, each of one run by itself. *)

Good == {"stop", "max_turns"}

\* The run has left its loop in good order.
WellLeft(r) == \/ pc[r] \in {"append", "end"}
               \/ Ended(r) /\ EndReason(r) \in Good

\* It is failing or has failed.
Failed(r) == \/ pc[r] \in {"error", "resolving", "errend"}
             \/ Ended(r) /\ EndReason(r) \notin Good

\* Its turn is in the transcript.
Committed(r) == stored[r] /\ WellLeft(r) /\ pc[r] # "append"

\* The end is sent last, and an error just before it.
OutInv(r) ==
  /\ Ended(r) => out[r] # <<>> /\ out[r][Len(out[r])].kind = "end"
  /\ \A i \in 1..Len(out[r]) :
       /\ out[r][i].kind = "end" => Ended(r) /\ i = Len(out[r])
       /\ out[r][i].kind = "error" => \/ pc[r] \in {"resolving", "errend"} /\ i = Len(out[r])
                                      \/ Ended(r) /\ i = Len(out[r]) - 1

\* The contexts of a run are cancelled by its caller only, and the reason it is
\* about to give is one they give.
BlameInv(r) ==
  /\ "canceled" \in {runErr[r], callErr[r], savedErr[r]} => userErr[r] = "canceled"
  /\ pc[r] = "errend" =>
       /\ why[r] = "timeout" => "deadline" \in {userErr[r], runErr[r], savedErr[r]}
       /\ why[r] = "cancelled" => userErr[r] = "canceled"
  /\ NotMadeUp(r)

\* What is to be appended begins with the user's message, if the run is stored,
\* and is of this run; calls are answered, but for those of the last reply that
\* are still to be made.
Asking(r) == pc[r] \in {"tools", "results"}
Reply(r) == Len(pending[r]) - tool[r] + 1   \* where the reply is whose tools run

PendingInv(r) ==
  /\ pc[r] \in {"reading", "append"} => stored[r]
  /\ pc[r] \in {"idle", "locking", "reading"} \/ Failed(r) => pending[r] = <<>>
  /\ stored[r] /\ (pc[r] \in Read \/ WellLeft(r)) =>
       pending[r] # <<>> /\ pending[r][1].role = "user"
  /\ \A i \in 1..Len(pending[r]) : /\ pending[r][i].run = r
                                   /\ pending[r][i].role = "user" => i = 1 /\ stored[r]

AnswersInv(r) ==
  /\ Log!AnswersCalled(pending[r])
  /\ \A i \in 1..Len(pending[r]) : pending[r][i].role = "assistant" =>
       \A k \in 1..pending[r][i].n :
         IF i + k <= Len(pending[r])
           THEN /\ pending[r][i + k].role = "tool"
                /\ pending[r][i + k].turn = pending[r][i].turn
                /\ pending[r][i + k].n = k
           ELSE Asking(r) /\ i = Reply(r)
  /\ Asking(r) => /\ tool[r] \in 1..calls[r] /\ Reply(r) >= 1
                  /\ pending[r][Reply(r)].role = "assistant"
                  /\ pending[r][Reply(r)].turn = turn[r]
                  /\ pending[r][Reply(r)].n = calls[r]

\* How the loop was left: without a call, or with its turns used up and a call in
\* each; replies without a call end it.
NoReply(r) == pc[r] \in {"opening", "streaming", "turn"}   \* none yet to the last model call

\* The reply to model call t called a tool.
Called(r, t) == \E i \in 1..Len(pending[r]) :
  pending[r][i].role = "assistant" /\ pending[r][i].turn = t /\ pending[r][i].n > 0

LoopInv(r) ==
  /\ WellLeft(r) =>
       /\ pending[r] # <<>>
       /\ calls[r] = 0 => LastMsg(r).role = "assistant" /\ LastMsg(r).n = 0
       /\ calls[r] # 0 => LastMsg(r).role = "tool" /\ turn[r] = MaxTurns
  /\ Ended(r) /\ EndReason(r) = "stop" => calls[r] = 0
  /\ Ended(r) /\ EndReason(r) = "max_turns" => calls[r] # 0
  /\ pc[r] \in {"idle", "locking", "reading"} => turn[r] = 0
  /\ pc[r] = "calling" /\ turn[r] > 0 => calls[r] # 0
  /\ ~Failed(r) => \A t \in 1..turn[r] :
       (t = turn[r] => ~NoReply(r) /\ calls[r] # 0) => Called(r, t)

\* Results are sent behind their calls and in order; those sent are those to be
\* appended.
Sooner(r, m) == m.turn < turn[r] \/ (m.turn = turn[r] /\ ~NoReply(r) /\ m.n < tool[r])

ResultsInv(r) ==
  /\ pc[r] = "results" => out[r] # <<>> /\ out[r][Len(out[r])] = Ev("call", turn[r], tool[r])
  /\ \A i \in 1..Len(out[r]) : out[r][i].kind = "result" =>
       /\ i > 1 /\ out[r][i - 1] = Ev("call", out[r][i].turn, out[r][i].n)
       /\ Sooner(r, out[r][i])
       /\ \A j \in 1..(i - 1) : out[r][j].kind = "result" => Before(out[r][j], out[r][i])

ToolsInv(r) ==
  \A i \in 1..Len(pending[r]) : pending[r][i].role = "tool" =>
    /\ Sooner(r, pending[r][i])
    /\ \A j \in 1..(i - 1) : pending[r][j].role = "tool" => Before(pending[r][j], pending[r][i])

ToldInv(r) ==
  ~Failed(r) =>
    /\ \A i \in 1..Len(out[r]) : out[r][i].kind = "result" =>
         \E j \in 1..Len(pending[r]) : /\ pending[r][j].role = "tool"
                                       /\ pending[r][j].turn = out[r][i].turn
                                       /\ pending[r][j].n = out[r][i].n
    /\ \A j \in 1..Len(pending[r]) : pending[r][j].role = "tool" =>
         \E i \in 1..Len(out[r]) : /\ out[r][i].kind = "result"
                                   /\ out[r][i].turn = pending[r][j].turn
                                   /\ out[r][i].n = pending[r][j].n

\* The transcript holds the turn of a run that has committed it, behind what the
\* run had read, and of no other.
HistInv(r) ==
  /\ base[r] <= Len(hist)
  /\ Committed(r) =>
       /\ base[r] + Len(pending[r]) <= Len(hist)
       /\ \A i \in 1..Len(pending[r]) : hist[base[r] + i] = pending[r][i]
  /\ \A j \in 1..Len(hist) : hist[j].run = r =>
       Committed(r) /\ j > base[r] /\ j <= base[r] + Len(pending[r])

TurnInv == \A r \in Runs :
  /\ OutInv(r) /\ BlameInv(r) /\ PendingInv(r) /\ AnswersInv(r) /\ LoopInv(r)
  /\ ResultsInv(r) /\ ToolsInv(r) /\ ToldInv(r) /\ HistInv(r)

-----------------------------------------------------------------------------
(* The other runs keep what is theirs, and so their invariants. *)

Step(r) == \/ Locking(r) \/ Storing(r) \/ Calling(r) \/ Streaming(r)
           \/ Looping(r) \/ Ending(r) \/ Receive(r) \/ Clock(r)

Keeps(s) ==
  /\ pc'[s] = pc[s] /\ stored'[s] = stored[s] /\ userErr'[s] = userErr[s]
  /\ runErr'[s] = runErr[s] /\ callErr'[s] = callErr[s] /\ savedErr'[s] = savedErr[s]
  /\ why'[s] = why[s] /\ base'[s] = base[s]
  /\ turn'[s] = turn[s] /\ calls'[s] = calls[s] /\ tool'[s] = tool[s]
  /\ pending'[s] = pending[s] /\ out'[s] = out[s]

LEMMA StepTypeOK ==
  ASSUME TypeOK, NEW r \in Runs, Step(r)
  PROVE  TypeOK'
  BY NextTypeOK DEF Step, Next

LEMMA OthersKeep ==
  ASSUME TypeOK, NEW r \in Runs, Step(r), NEW s \in Runs \ {r}
  PROVE  Keeps(s)
<1> USE DEF Keeps, TypeOK, Goto
<1>1. CASE Locking(r)
  BY <1>1 DEF Locking, Start, TakeLock, LockFails, Unlock, CloseOut, Fail, DropResponse,
              ctxVars, turnVars, respVars
<1>2. CASE Storing(r)
  BY <1>2 DEF Storing, ReadHistory, AppendHistory, HistoryRefuses, Fail, DropResponse,
              ctxVars, turnVars, respVars
<1>3. CASE Calling(r)
  BY <1>3 DEF Calling, BeginCall, StreamOpens, StreamRefused, CancelCall, Fail, DropResponse,
              ctxVars, turnVars, respVars
<1>4. CASE Streaming(r)
  BY <1>4 DEF Streaming, StreamDelta, StreamAccumulates, StreamCloses, StreamGivenUp,
              CancelCall, Fail, DropResponse, Emit, ctxVars, turnVars, respVars
<1>5. CASE Looping(r)
  <2>1. CASE AssistantTurn(r)
    BY <2>1 DEF AssistantTurn, Emit, ctxVars, turnVars, respVars
  <2>2. CASE ToolCall(r)
    BY <2>2 DEF ToolCall, Emit, ctxVars, turnVars, respVars
  <2>3. CASE ToolResult(r)
    BY <2>3 DEF ToolResult, Emit, ctxVars, turnVars, respVars
  <2>4. QED BY <1>5, <2>1, <2>2, <2>3 DEF Looping
<1>6. CASE Ending(r)
  BY <1>6 DEF Ending, EmitEnd, EmitError, ResolveReason, EmitErrEnd, Emit, ctxVars,
              turnVars, respVars
<1>7. CASE Receive(r) \/ Clock(r)
  BY <1>7 DEF Receive, Clock, UserDone, RunTimeout, LLMCallTimeout, Inherit, CallInherits,
              ctxVars, turnVars, respVars
<1>8. QED BY <1>1, <1>2, <1>3, <1>4, <1>5, <1>6, <1>7 DEF Step

OwnInv(r) == /\ OutInv(r) /\ BlameInv(r) /\ PendingInv(r) /\ AnswersInv(r) /\ LoopInv(r)
             /\ ResultsInv(r) /\ ToolsInv(r) /\ ToldInv(r)

LEMMA OwnInvKept ==
  ASSUME NEW s \in Runs, Keeps(s), OwnInv(s)
  PROVE  OwnInv(s)'
<1>1. /\ Ended(s)' = Ended(s) /\ EndReason(s)' = EndReason(s)
      /\ Asking(s)' = Asking(s) /\ Reply(s)' = Reply(s)
      /\ NoReply(s)' = NoReply(s) /\ LastMsg(s)' = LastMsg(s)
  BY DEF Keeps, Ended, EndReason, Asking, Reply, NoReply, LastMsg
<1>2. WellLeft(s)' = WellLeft(s) /\ Failed(s)' = Failed(s)
  BY <1>1 DEF Keeps, WellLeft, Failed
<1>3. OutInv(s)'
  BY <1>1 DEF OwnInv, OutInv, Keeps
<1>4. BlameInv(s)'
  BY <1>1 DEF OwnInv, BlameInv, NotMadeUp, Keeps
<1>5. PendingInv(s)'
  BY <1>2 DEF OwnInv, PendingInv, Keeps
<1>6. AnswersInv(s)'
  <2>1. Log!AnswersCalled(pending[s])'
    BY DEF OwnInv, AnswersInv, Log!AnswersCalled, Keeps
  <2>2. QED BY <1>1, <2>1 DEF OwnInv, AnswersInv, Keeps
<1>7. LoopInv(s)'
  <2>1. \A t : Called(s, t)' = Called(s, t)
    BY DEF Called, Keeps
  <2>2. QED BY <1>1, <1>2, <2>1 DEF OwnInv, LoopInv, Keeps
<1>8. ResultsInv(s)'
  <2>1. \A m : Sooner(s, m)' = Sooner(s, m)
    BY <1>1 DEF Sooner, Keeps
  <2>2. QED BY <2>1 DEF OwnInv, ResultsInv, Keeps, Ev
<1>9. ToolsInv(s)'
  BY <1>1 DEF OwnInv, ToolsInv, Sooner, Before, Keeps
<1>10. ToldInv(s)'
  <2>1. ToldInv(s) /\ out'[s] = out[s] /\ pending'[s] = pending[s]
    BY DEF OwnInv, Keeps
  <2>2. QED BY <1>2, <2>1 DEF ToldInv
<1>11. QED BY <1>3, <1>4, <1>5, <1>6, <1>7, <1>8, <1>9, <1>10 DEF OwnInv

-----------------------------------------------------------------------------
(* What a step of run r does to the events it has sent. *)

\* Where a run may still send what it likes.
Open(r) == pc[r] \notin {"resolving", "errend", "unlocking", "closing", "closed"}

OutGrows(r, e) == out'[r] = Append(out[r], e)

SendsNothing(r) == /\ out'[r] = out[r]
                   /\ \/ pc'[r] = pc[r] \/ (Open(r) /\ Open(r)') \/ (Ended(r) /\ Ended(r)')
                      \/ pc[r] = "resolving" /\ pc'[r] = "errend"
Reports(r) == /\ Open(r) /\ Open(r)'
              /\ \E k \in {"delta", "usage", "call", "result"}, n \in Nat :
                   OutGrows(r, Ev(k, turn[r], n))
Errs(r) == pc[r] = "error" /\ pc'[r] = "resolving" /\ OutGrows(r, Ev("error", turn[r], 0))
EndsBadly(r) == pc[r] = "errend" /\ Ended(r)' /\ OutGrows(r, EndEv(why[r]))
EndsWell(r) == /\ pc[r] = "end" /\ Ended(r)'
               /\ OutGrows(r, EndEv(IF calls[r] = 0 THEN "stop" ELSE "max_turns"))

LEMMA SendStep ==
  ASSUME TypeOK, NEW r \in Runs, Step(r)
  PROVE  SendsNothing(r) \/ Reports(r) \/ Errs(r) \/ EndsBadly(r) \/ EndsWell(r)
<1> USE DEF TypeOK, Goto, Open, Ended, OutGrows, Emit, SendsNothing, Reports, Errs, EndsBadly,
            EndsWell
<1>1. CASE Locking(r)
  BY <1>1 DEF Locking, Start, TakeLock, LockFails, Unlock, CloseOut, Fail
<1>2. CASE Storing(r)
  BY <1>2 DEF Storing, ReadHistory, AppendHistory, HistoryRefuses, Fail
<1>3. CASE Calling(r)
  BY <1>3 DEF Calling, BeginCall, StreamOpens, StreamRefused, Fail
<1>4. CASE Streaming(r)
  <2>1. CASE StreamDelta(r)
    BY <2>1 DEF StreamDelta
  <2>2. CASE StreamAccumulates(r) \/ StreamCloses(r) \/ StreamGivenUp(r)
    BY <2>2 DEF StreamAccumulates, StreamCloses, StreamGivenUp, Fail
  <2>3. QED BY <1>4, <2>1, <2>2 DEF Streaming
<1>5. CASE Looping(r)
  <2>1. CASE AssistantTurn(r)
    BY <2>1 DEF AssistantTurn, AfterLoop
  <2>2. CASE ToolCall(r)
    BY <2>2 DEF ToolCall
  <2>3. CASE ToolResult(r)
    BY <2>3 DEF ToolResult, AfterTool, AfterLoop
  <2>4. QED BY <1>5, <2>1, <2>2, <2>3 DEF Looping
<1>6. CASE Ending(r)
  BY <1>6 DEF Ending, EmitEnd, EmitError, ResolveReason, EmitErrEnd
<1>7. CASE Receive(r) \/ Clock(r)
  BY <1>7 DEF Receive, Clock, UserDone, RunTimeout, LLMCallTimeout
<1>8. QED BY <1>1, <1>2, <1>3, <1>4, <1>5, <1>6, <1>7 DEF Step

\* What a sequence is with one more element.
LEMMA Grown ==
  ASSUME NEW S, NEW s \in Seq(S), NEW e \in S
  PROVE  /\ Append(s, e) # <<>> /\ Len(Append(s, e)) = Len(s) + 1 /\ Len(s) \in Nat
         /\ \A i \in 1..Len(s) : Append(s, e)[i] = s[i]
         /\ Append(s, e)[Len(s) + 1] = e
  OBVIOUS

LEMMA NextOutInv ==
  ASSUME TypeOK, NEW r \in Runs, Step(r), OutInv(r)
  PROVE  OutInv(r)'
<1>1. out[r] \in Seq(Event) /\ turn[r] \in Nat
  BY SizesAssumption DEF TypeOK
<1>2. ASSUME NEW e \in Event, OutGrows(r, e)
      PROVE  /\ out'[r] # <<>> /\ Len(out'[r]) = Len(out[r]) + 1 /\ Len(out[r]) \in Nat
             /\ \A i \in 1..Len(out[r]) : out'[r][i] = out[r][i]
             /\ out'[r][Len(out[r]) + 1] = e
  BY <1>1, <1>2, Grown DEF OutGrows
<1>3. CASE SendsNothing(r)
  BY <1>3 DEF SendsNothing, OutInv, Ended, Open
<1>4. CASE Reports(r)
  <2>1. PICK k \in {"delta", "usage", "call", "result"}, n \in Nat : OutGrows(r, Ev(k, turn[r], n))
    BY <1>4 DEF Reports
  <2>2. Ev(k, turn[r], n) \in Event /\ Ev(k, turn[r], n).kind = k
    BY <1>1, EventTypes DEF Ev, Kinds, Event, Reasons
  <2>3. ~Ended(r) /\ ~Ended(r)' /\ pc[r] \notin {"resolving", "errend"}
    BY <1>4 DEF Reports, Open, Ended
  <2>4. ASSUME NEW i \in 1..Len(out'[r])
        PROVE  out'[r][i].kind \notin {"end", "error"}
    <3>1. out'[r][Len(out[r]) + 1].kind = k
      BY <1>2, <2>1, <2>2
    <3>2. CASE i \in 1..Len(out[r])
      BY <1>2, <2>1, <2>2, <2>3, <3>2 DEF OutInv
    <3>3. QED BY <1>2, <2>1, <2>2, <3>1, <3>2
  <2>5. QED BY <2>3, <2>4 DEF OutInv
<1>5. CASE Errs(r)
  <2>1. Ev("error", turn[r], 0) \in Event /\ Ev("error", turn[r], 0).kind = "error"
    BY <1>1, EventTypes DEF Ev, Kinds, Event, Reasons
  <2>2. ~Ended(r) /\ ~Ended(r)' /\ pc[r] = "error" /\ pc'[r] = "resolving"
    BY <1>5 DEF Errs, Ended
  <2>3. QED BY <1>2, <1>5, <2>1, <2>2 DEF OutInv, Errs
<1>6. CASE EndsBadly(r) \/ EndsWell(r)
  <2>1. ~Ended(r) /\ Ended(r)'
    BY <1>6 DEF EndsBadly, EndsWell, Ended
  <2>2. PICK w \in Reasons : OutGrows(r, EndEv(w))
    BY <1>6 DEF EndsBadly, EndsWell, Reasons, TypeOK
  <2>3. EndEv(w) \in Event /\ EndEv(w).kind = "end"
    BY EventTypes DEF EndEv, Kinds
  <2>4. ASSUME NEW i \in 1..Len(out[r])
        PROVE  out'[r][i].kind # "end" /\ (out'[r][i].kind = "error" => i = Len(out'[r]) - 1)
    BY <1>2, <2>1, <2>2, <2>3 DEF OutInv
  <2>5. /\ Len(out'[r]) = Len(out[r]) + 1 /\ out'[r] # <<>>
        /\ out'[r][Len(out'[r])].kind = "end"
    BY <1>2, <2>2, <2>3
  <2>6. ASSUME NEW i \in 1..Len(out'[r])
        PROVE  /\ out'[r][i].kind = "end" => i = Len(out'[r])
               /\ out'[r][i].kind = "error" => i = Len(out'[r]) - 1
    <3>1. i \in 1..Len(out[r]) \/ i = Len(out'[r])
      BY <1>2, <2>5
    <3>2. QED BY <2>4, <2>5, <3>1
  <2>7. QED BY <2>1, <2>5, <2>6 DEF OutInv
<1>7. QED BY <1>3, <1>4, <1>5, <1>6, SendStep

LEMMA EndReasonStep ==
  ASSUME TypeOK, NEW r \in Runs, Step(r), Ended(r)'
  PROVE  \/ Ended(r) /\ EndReason(r)' = EndReason(r)
         \/ EndsBadly(r) /\ EndReason(r)' = why[r]
         \/ EndsWell(r) /\ EndReason(r)' = IF calls[r] = 0 THEN "stop" ELSE "max_turns"
<1>1. out[r] \in Seq(Event)
  BY DEF TypeOK
<1>2. ASSUME NEW w \in Reasons, OutGrows(r, EndEv(w))
      PROVE  EndReason(r)' = w
  <2>1. EndEv(w) \in Event /\ EndEv(w).reason = w
    BY EventTypes DEF EndEv, Kinds
  <2>2. QED BY <1>1, <1>2, <2>1, Grown DEF OutGrows, EndReason
<1>3. CASE SendsNothing(r)
  BY <1>3 DEF SendsNothing, Ended, EndReason, Open
<1>4. CASE EndsBadly(r)
  <2>1. why[r] \in Reasons
    BY DEF TypeOK, Reasons
  <2>2. QED BY <1>2, <1>4, <2>1 DEF EndsBadly
<1>5. CASE EndsWell(r)
  BY <1>2, <1>5 DEF EndsWell, Reasons
<1>6. CASE Reports(r) \/ Errs(r)
  BY <1>6 DEF Reports, Errs, Ended, Open
<1>7. QED BY <1>3, <1>4, <1>5, <1>6, SendStep

-----------------------------------------------------------------------------
(* The contexts of a run that has ended make no difference any more. *)

\* What a step of run r does to what its contexts say and to what is made of it.
LEMMA CtxStep ==
  ASSUME TypeOK, NEW r \in Runs, Step(r)
  PROVE  /\ userErr'[r] # userErr[r] => userErr[r] = "nil" /\ pc'[r] = pc[r] /\ ~Ended(r)
         /\ runErr'[r] # runErr[r] =>
              /\ runErr[r] = "nil" /\ pc'[r] = pc[r] /\ ~Ended(r)
              /\ runErr'[r] \in {"deadline", userErr'[r]}
         /\ callErr'[r] \in {callErr[r], "nil", runErr[r], "deadline", userErr'[r]}
         /\ savedErr'[r] # savedErr[r] =>
              pc'[r] = "error" /\ savedErr'[r] \in {"nil", callErr[r]}
         /\ pc'[r] = "errend" =>
              \/ pc[r] = "errend" /\ why'[r] = why[r]
              \/ /\ why'[r] = ResolveEndReason(r) /\ savedErr'[r] = savedErr[r]
                 /\ userErr'[r] = userErr[r] /\ runErr'[r] = runErr[r]
<1> USE DEF TypeOK, Goto, Fail, CancelCall, ctxVars
<1>1. CASE Clock(r)
  BY <1>1 DEF Clock, UserDone, RunTimeout, LLMCallTimeout, Inherit, CallInherits, Contextual,
              Ended, Locations
<1>2. CASE Locking(r) \/ Storing(r)
  BY <1>2 DEF Locking, Start, TakeLock, LockFails, Unlock, CloseOut, Storing, ReadHistory,
              AppendHistory, HistoryRefuses
<1>3. CASE Calling(r)
  BY <1>3 DEF Calling, BeginCall, StreamOpens, StreamRefused
<1>4. CASE Streaming(r)
  BY <1>4 DEF Streaming, StreamDelta, StreamAccumulates, StreamCloses, StreamGivenUp
<1>5. CASE Looping(r)
  <2>1. AfterTool(r) # "errend" /\ AfterLoop(r) # "errend"
    BY DEF AfterTool, AfterLoop
  <2>2. QED BY <1>5, <2>1 DEF Looping, AssistantTurn, ToolCall, ToolResult
<1>6. CASE Ending(r)
  BY <1>6 DEF Ending, EmitEnd, EmitError, ResolveReason, EmitErrEnd
<1>7. CASE Receive(r)
  BY <1>7 DEF Receive
<1>8. QED BY <1>1, <1>2, <1>3, <1>4, <1>5, <1>6, <1>7 DEF Step

LEMMA NextBlameInv ==
  ASSUME TypeOK, NEW r \in Runs, Step(r), BlameInv(r)
  PROVE  BlameInv(r)'
<1>1. "canceled" \in {runErr'[r], callErr'[r], savedErr'[r]} => userErr'[r] = "canceled"
  BY CtxStep DEF BlameInv
<1>2. ASSUME pc'[r] = "errend"
      PROVE  /\ why'[r] = "timeout" => "deadline" \in {userErr'[r], runErr'[r], savedErr'[r]}
             /\ why'[r] = "cancelled" => userErr'[r] = "canceled"
  <2>1. CASE pc[r] = "errend" /\ why'[r] = why[r]
    BY <1>2, <2>1, CtxStep DEF BlameInv
  <2>2. CASE /\ why'[r] = ResolveEndReason(r) /\ savedErr'[r] = savedErr[r]
             /\ userErr'[r] = userErr[r] /\ runErr'[r] = runErr[r]
    BY <2>2 DEF BlameInv, ResolveEndReason
  <2>3. QED BY <1>2, <2>1, <2>2, CtxStep
<1>3. NotMadeUp(r)'
  <2> SUFFICES ASSUME Ended(r)'
               PROVE  /\ EndReason(r)' = "timeout" =>
                           "deadline" \in {userErr'[r], runErr'[r], savedErr'[r]}
                      /\ EndReason(r)' = "cancelled" => userErr'[r] = "canceled"
    BY DEF NotMadeUp
  <2>1. pc'[r] # "error" /\ savedErr'[r] = savedErr[r]
    BY CtxStep DEF Ended
  <2>2. CASE Ended(r) /\ EndReason(r)' = EndReason(r)
    BY <2>1, <2>2, CtxStep DEF BlameInv, NotMadeUp
  <2>3. CASE EndsBadly(r) /\ EndReason(r)' = why[r]
    <3>1. pc[r] = "errend" /\ pc'[r] # pc[r]
      BY <2>3 DEF EndsBadly, Ended
    <3>2. QED BY <2>1, <2>3, <3>1, CtxStep DEF BlameInv
  <2>4. CASE EndReason(r)' = IF calls[r] = 0 THEN "stop" ELSE "max_turns"
    BY <2>4
  <2>5. QED BY <2>2, <2>3, <2>4, EndReasonStep
<1>4. QED BY <1>1, <1>2, <1>3 DEF BlameInv

\* The reason is settled: why, once it is asked for, and what is sent are not
\* those of a plain error; nor those of a timeout.
SettledNotPlain(r) ==
  runErr[r] # "nil" /\ (pc[r] = "errend" => why[r] # "error") /\ NotPlain(r)
SettledCancelled(r) ==
  userErr[r] = "canceled" /\ (pc[r] = "errend" => why[r] = "cancelled") /\ NotTimeout(r)

LEMMA SettledKept ==
  ASSUME NEW s \in Runs, Keeps(s)
  PROVE  /\ SettledNotPlain(s)' = SettledNotPlain(s)
         /\ SettledCancelled(s)' = SettledCancelled(s)
  BY DEF Keeps, SettledNotPlain, SettledCancelled, NotPlain, NotTimeout, Ended, EndReason

LEMMA SettledStep ==
  ASSUME TypeOK, NEW r \in Runs, Step(r), BlameInv(r)
  PROVE  /\ SettledNotPlain(r) => SettledNotPlain(r)'
         /\ SettledCancelled(r) => SettledCancelled(r)'
<1>1. runErr[r] \in CtxErrs
  BY DEF TypeOK
<1>2. ASSUME SettledNotPlain(r) PROVE SettledNotPlain(r)'
  <2>1. runErr'[r] # "nil"
    BY <1>2, CtxStep DEF SettledNotPlain
  <2>2. pc'[r] = "errend" => why'[r] # "error"
    <3>1. ResolveEndReason(r) # "error"
      BY <1>1, <1>2 DEF SettledNotPlain, BlameInv, ResolveEndReason, CtxErrs
    <3>2. QED BY <1>2, <3>1, CtxStep DEF SettledNotPlain
  <2>3. NotPlain(r)'
    BY <1>2, EndReasonStep DEF NotPlain, SettledNotPlain, EndsBadly
  <2>4. QED BY <2>1, <2>2, <2>3 DEF SettledNotPlain
<1>3. ASSUME SettledCancelled(r) PROVE SettledCancelled(r)'
  <2>1. userErr'[r] = "canceled"
    BY <1>3, CtxStep DEF SettledCancelled
  <2>2. pc'[r] = "errend" => why'[r] = "cancelled"
    <3>1. ResolveEndReason(r) = "cancelled"
      BY <1>3 DEF SettledCancelled, ResolveEndReason
    <3>2. QED BY <1>3, <3>1, CtxStep DEF SettledCancelled
  <2>3. NotTimeout(r)'
    BY <1>3, EndReasonStep DEF NotTimeout, SettledCancelled, EndsBadly
  <2>4. QED BY <2>1, <2>2, <2>3 DEF SettledCancelled
<1>4. QED BY <1>2, <1>3

LEMMA NextSettled ==
  ASSUME NEW r \in Runs
  PROVE  TypeOK /\ TurnInv /\ [Next]_vars =>
           /\ SettledNotPlain(r) => SettledNotPlain(r)'
           /\ SettledCancelled(r) => SettledCancelled(r)'
<1> SUFFICES ASSUME TypeOK, TurnInv, [Next]_vars
             PROVE  /\ SettledNotPlain(r) => SettledNotPlain(r)'
                    /\ SettledCancelled(r) => SettledCancelled(r)'
  OBVIOUS
<1>1. ASSUME NEW s \in Runs, Step(s)
      PROVE  /\ SettledNotPlain(r) => SettledNotPlain(r)'
             /\ SettledCancelled(r) => SettledCancelled(r)'
  <2>1. CASE s = r
    BY <1>1, <2>1, SettledStep DEF TurnInv
  <2>2. CASE s # r
    BY <1>1, <2>2, OthersKeep, SettledKept
  <2>3. QED BY <2>1, <2>2
<1>2. CASE UNCHANGED vars
  BY <1>2, SettledKept DEF vars, ctxVars, turnVars, respVars, Keeps
<1>3. QED BY <1>1, <1>2 DEF Next, Step

LEMMA Settles ==
  ASSUME NEW r \in Runs
  PROVE  /\ Unresolved(r) /\ runErr[r] # "nil" => SettledNotPlain(r)
         /\ Unresolved(r) /\ userErr[r] = "canceled" => SettledCancelled(r)
         /\ SettledNotPlain(r) => NotPlain(r)
         /\ SettledCancelled(r) => NotTimeout(r)
         /\ TurnInv => NotMadeUp(r)
  BY DEF Unresolved, SettledNotPlain, SettledCancelled, NotPlain, NotTimeout, TurnInv, BlameInv

-----------------------------------------------------------------------------
(* What a step of run r does to the turn it puts together. *)

Early == {<<"idle", "locking">>, <<"locking", "reading">>, <<"locking", "calling">>,
          <<"opening", "streaming">>, <<"streaming", "turn">>, <<"tools", "results">>}

Moves(r) == /\ <<pc[r], pc'[r]>> \in Early
            /\ pc[r] = "locking" => pc'[r] = IF stored[r] THEN "reading" ELSE "calling"
Rests(r) == pc'[r] = pc[r] /\ WellLeft(r)' = WellLeft(r) /\ Failed(r)' = Failed(r)
Leaves(r) == \/ WellLeft(r) /\ WellLeft(r)' /\ pc'[r] # "append"
             \/ Failed(r) /\ Failed(r)'

SameTurn(r) == turn'[r] = turn[r] /\ tool'[r] = tool[r]
Keeping(r) == /\ pending'[r] = pending[r] /\ calls'[r] = calls[r] /\ SameTurn(r)
              /\ Rests(r) \/ Moves(r) \/ Leaves(r)
Failing(r) == /\ pc[r] \in {"locking", "reading", "opening", "streaming", "append"}
              /\ pc'[r] = "error" /\ pending'[r] = <<>> /\ calls'[r] = 0 /\ SameTurn(r)
Reading(r) == /\ pc[r] = "reading" /\ pc'[r] = "calling" /\ pending'[r] = <<UserMsg(r)>>
              /\ calls'[r] = calls[r] /\ SameTurn(r)
Beginning(r) == /\ pc[r] = "calling" /\ pc'[r] = "opening" /\ pending'[r] = pending[r]
                /\ turn[r] < MaxTurns /\ turn'[r] = turn[r] + 1 /\ calls'[r] = 0
                /\ tool'[r] = tool[r]
Accumulating(r) == /\ pc[r] = "streaming" /\ pc'[r] = "streaming"
                   /\ pending'[r] = pending[r] /\ SameTurn(r)
Replying(r) == /\ pc[r] = "turn" /\ pc'[r] = IF calls[r] = 0 THEN AfterLoop(r) ELSE "tools"
               /\ pending'[r] = Append(pending[r], AssistantMsg(r))
               /\ calls'[r] = calls[r] /\ turn'[r] = turn[r] /\ tool'[r] = 1
Answering(r) == /\ pc[r] = "results" /\ pc'[r] = AfterTool(r)
                /\ pending'[r] = Append(pending[r], ToolMsg(r))
                /\ calls'[r] = calls[r] /\ turn'[r] = turn[r] /\ tool'[r] = tool[r] + 1

LEMMA TurnStep ==
  ASSUME TypeOK, NEW r \in Runs, Step(r)
  PROVE  /\ \/ Keeping(r) \/ Failing(r) \/ Reading(r) \/ Beginning(r)
            \/ Accumulating(r) \/ Replying(r) \/ Answering(r)
         /\ stored'[r] = stored[r]
         /\ pc[r] # "reading" => base'[r] = base[r]
<1> USE DEF Goto
<1>1. stored'[r] = stored[r] /\ (pc[r] # "reading" => base'[r] = base[r])
  BY DEF Step, Locking, Start, TakeLock, LockFails, Unlock, CloseOut, Storing, ReadHistory,
         AppendHistory, HistoryRefuses, Calling, BeginCall, StreamOpens, StreamRefused,
         Streaming, StreamDelta, StreamAccumulates, StreamCloses, StreamGivenUp, Looping,
         AssistantTurn, ToolCall, ToolResult, Ending, EmitEnd, EmitError, ResolveReason, EmitErrEnd,
         Receive, Clock, UserDone, RunTimeout, LLMCallTimeout
<1> SUFFICES \/ Keeping(r) \/ Failing(r) \/ Reading(r) \/ Beginning(r)
             \/ Accumulating(r) \/ Replying(r) \/ Answering(r)
  BY <1>1
<1>2. CASE Start(r) \/ TakeLock(r) \/ StreamOpens(r) \/ ToolCall(r)
  <2>1. pending'[r] = pending[r] /\ calls'[r] = calls[r] /\ SameTurn(r)
    BY <1>2 DEF Start, TakeLock, StreamOpens, ToolCall, turnVars, respVars, SameTurn
  <2>2. Moves(r)
    BY <1>2 DEF Start, TakeLock, StreamOpens, ToolCall, Moves, Early, TypeOK
  <2>3. QED BY <2>1, <2>2 DEF Keeping
<1>3. CASE LockFails(r) \/ HistoryRefuses(r) \/ StreamRefused(r) \/ StreamGivenUp(r)
  <2>1. /\ pc[r] \in {"locking", "reading", "opening", "streaming", "append"}
        /\ Fail(r, "nil") \/ Fail(r, callErr[r])
    BY <1>3 DEF LockFails, HistoryRefuses, StreamRefused, StreamGivenUp
  <2>2. /\ pc'[r] = "error" /\ pending'[r] = <<>> /\ calls'[r] = 0
        /\ turn' = turn /\ tool' = tool
    BY <2>1 DEF Fail, DropResponse, TypeOK
  <2>3. QED BY <2>1, <2>2 DEF Failing, SameTurn
<1>4. CASE ReadHistory(r)
  BY <1>4 DEF ReadHistory, Reading, respVars, SameTurn, TypeOK
<1>5. CASE BeginCall(r)
  BY <1>5, SizesAssumption DEF BeginCall, DropResponse, TurnsLeft, Beginning, TypeOK
<1>6. CASE StreamAccumulates(r)
  BY <1>6 DEF StreamAccumulates, Accumulating, SameTurn
<1>7. CASE StreamCloses(r)
  <2>1. CASE sErr[r]
    BY <1>7, <2>1 DEF StreamCloses, Fail, DropResponse, Failing, SameTurn, TypeOK
  <2>2. CASE ~sErr[r]
    BY <1>7, <2>2 DEF StreamCloses, Keeping, Moves, Early, SameTurn, TypeOK
  <2>3. QED BY <2>1, <2>2
<1>8. CASE AssistantTurn(r)
  BY <1>8 DEF AssistantTurn, Replying, respVars, TypeOK
<1>9. CASE ToolResult(r)
  BY <1>9 DEF ToolResult, Answering, respVars, TypeOK
<1>10. CASE StreamDelta(r) \/ Receive(r) \/ Clock(r)
  <2>1. pc'[r] = pc[r] /\ pending'[r] = pending[r] /\ calls'[r] = calls[r] /\ SameTurn(r)
    BY <1>10 DEF StreamDelta, Receive, Clock, UserDone, RunTimeout, LLMCallTimeout, turnVars,
                 respVars, SameTurn
  <2>2. Ended(r) => EndReason(r)' = EndReason(r)
    BY <1>10 DEF StreamDelta, Receive, Clock, UserDone, RunTimeout, LLMCallTimeout, EndReason,
                 Ended
  <2>3. WellLeft(r)' = WellLeft(r) /\ Failed(r)' = Failed(r)
    BY <2>1, <2>2 DEF WellLeft, Failed, Ended
  <2>4. QED BY <2>1, <2>3 DEF Keeping, Rests
<1>11. CASE AppendHistory(r) \/ EmitError(r) \/ ResolveReason(r)
  BY <1>11 DEF AppendHistory, EmitError, ResolveReason, Keeping, Leaves, WellLeft, Failed, turnVars,
               respVars, SameTurn, TypeOK
<1>12. CASE EmitEnd(r) \/ EmitErrEnd(r) \/ Unlock(r) \/ CloseOut(r)
  <2>1. pending'[r] = pending[r] /\ calls'[r] = calls[r] /\ SameTurn(r) /\ Ended(r)'
    BY <1>12 DEF EmitEnd, EmitErrEnd, Unlock, CloseOut, turnVars, respVars, Ended, SameTurn,
                 TypeOK
  <2>2. Leaves(r)
    <3>1. CASE Ended(r) /\ EndReason(r)' = EndReason(r)
      BY <2>1, <3>1 DEF Leaves, WellLeft, Failed, Ended
    <3>2. CASE EndsBadly(r) /\ EndReason(r)' = why[r]
      BY <2>1, <3>2 DEF EndsBadly, Leaves, Failed, FailureReasons, Good, TypeOK
    <3>3. CASE EndsWell(r) /\ EndReason(r)' = IF calls[r] = 0 THEN "stop" ELSE "max_turns"
      BY <2>1, <3>3 DEF EndsWell, Leaves, WellLeft, Good, Ended
    <3>4. QED BY <2>1, <3>1, <3>2, <3>3, EndReasonStep
  <2>3. QED BY <2>1, <2>2 DEF Keeping
<1>13. QED
  BY <1>1, <1>2, <1>3, <1>4, <1>5, <1>6, <1>7, <1>8, <1>9, <1>10, <1>11, <1>12
  DEF Step, Locking, Storing, Calling, Streaming, Looping, Ending

\* Between the lock and its end a run is neither failed nor well left.
LEMMA PhasesDiffer ==
  ASSUME NEW r \in Runs
  PROVE  /\ pc[r] \in {"idle", "locking", "reading", "calling", "opening", "streaming", "turn",
                       "tools", "results"} => ~WellLeft(r) /\ ~Failed(r)
         /\ pc[r] \in {"append", "end"} => WellLeft(r) /\ ~Failed(r)
         /\ pc[r] \in {"error", "resolving", "errend"} => Failed(r) /\ ~WellLeft(r)
         /\ WellLeft(r) => ~Failed(r)
  BY DEF WellLeft, Failed, Ended

LEMMA KeepingPhases ==
  ASSUME TypeOK, NEW r \in Runs, Keeping(r)
  PROVE  /\ WellLeft(r)' = WellLeft(r) /\ Failed(r)' = Failed(r)
         /\ Asking(r)' = Asking(r) /\ NoReply(r)' = NoReply(r) /\ Reply(r)' = Reply(r)
         /\ pc'[r] \in {"idle", "locking", "reading"} => pc[r] \in {"idle", "locking", "reading"}
         /\ pc'[r] = "calling" => pc[r] \in {"locking", "calling"}
         /\ stored[r] /\ pc'[r] \in Read => pc[r] \in Read
<1>1. CASE Rests(r)
  BY <1>1 DEF Rests, Keeping, SameTurn, Asking, NoReply, Reply
<1>2. CASE Moves(r)
  BY <1>2 DEF Moves, Early, Keeping, SameTurn, Asking, NoReply, Reply, Read, WellLeft, Failed, Ended
<1>3. CASE Leaves(r)
  BY <1>3 DEF Leaves, Keeping, SameTurn, Asking, NoReply, Reply, Read, WellLeft, Failed, Ended
<1>4. QED BY <1>1, <1>2, <1>3 DEF Keeping

\* The assistant's message and the answer of a tool join what is to be appended.
LEMMA Added ==
  ASSUME TypeOK, NEW r \in Runs, Replying(r) \/ Answering(r)
  PROVE  /\ pending[r] \in Seq(Log!Message) /\ pending'[r] \in Seq(Log!Message)
         /\ Len(pending[r]) \in Nat /\ Len(pending'[r]) = Len(pending[r]) + 1
         /\ \A i \in 1..Len(pending[r]) : pending'[r][i] = pending[r][i]
         /\ pending'[r][Len(pending'[r])] = IF Replying(r) THEN AssistantMsg(r) ELSE ToolMsg(r)
         /\ pending'[r] # <<>>
<1>1. pending[r] \in Seq(Log!Message)
  BY DEF TypeOK
<1>2. AssistantMsg(r) \in Log!Message /\ ToolMsg(r) \in Log!Message
  BY MessageTypes, TypeParts
<1>3. ~(Replying(r) /\ Answering(r))
  BY DEF Replying, Answering
<1>4. PICK m \in Log!Message : /\ pending'[r] = Append(pending[r], m)
                               /\ m = IF Replying(r) THEN AssistantMsg(r) ELSE ToolMsg(r)
  BY <1>2, <1>3 DEF Replying, Answering
<1>5. QED BY <1>1, <1>4, Grown

LEMMA NextPendingInv ==
  ASSUME TypeOK, NEW r \in Runs, Step(r), PendingInv(r)
  PROVE  PendingInv(r)'
<1>1. stored'[r] = stored[r]
  BY TurnStep
<1>2. CASE Keeping(r)
  <2>1. pc'[r] \in {"reading", "append"} => pc[r] = pc'[r] \/ stored[r]
    BY <1>2 DEF Keeping, Rests, Moves, Leaves, Early, WellLeft, Failed, Ended
  <2>2. QED BY <1>1, <1>2, <2>1, KeepingPhases DEF PendingInv, Keeping
<1>3. CASE Failing(r)
  <2>1. ~WellLeft(r)' /\ pc'[r] \notin Read /\ pc'[r] = "error"
    BY <1>3 DEF Failing, WellLeft, Ended, Read
  <2>2. QED BY <1>1, <1>3, <2>1 DEF Failing, PendingInv
<1>4. CASE Reading(r)
  <2>1. ~Failed(r)' /\ pc'[r] = "calling"
    BY <1>4 DEF Reading, Failed, Ended
  <2>2. pending'[r] = <<UserMsg(r)>> /\ UserMsg(r).role = "user" /\ UserMsg(r).run = r
    BY <1>4 DEF Reading, UserMsg
  <2>3. stored[r]
    BY <1>4 DEF Reading, PendingInv
  <2>4. QED BY <1>1, <2>1, <2>2, <2>3 DEF PendingInv
<1>5. CASE Beginning(r) \/ Accumulating(r)
  <2>1. ~Failed(r)' /\ pending'[r] = pending[r] /\ pc[r] \in Read
        /\ pc'[r] \notin {"idle", "locking", "reading"}
    BY <1>5 DEF Beginning, Accumulating, Failed, Ended, Read
  <2>2. pc'[r] \notin {"reading", "append"}
    BY <1>5 DEF Beginning, Accumulating
  <2>3. QED BY <1>1, <2>1, <2>2 DEF PendingInv
<1>6. CASE Replying(r) \/ Answering(r)
  <2>1. /\ ~Failed(r)' /\ pc[r] \in Read
        /\ pc'[r] \notin {"idle", "locking", "reading"}
        /\ pc'[r] = "append" => stored[r]
    BY <1>6 DEF Replying, Answering, AfterLoop, AfterTool, Failed, Ended, Read
  <2>2. stored[r] => Len(pending[r]) >= 1 /\ pending[r][1].role = "user"
    BY <2>1, Added, <1>6 DEF PendingInv
  <2>3. stored[r] => pending'[r] # <<>> /\ pending'[r][1].role = "user"
    BY <1>6, <2>2, Added
  <2>4. ASSUME NEW i \in 1..Len(pending'[r])
        PROVE  pending'[r][i].run = r /\ (pending'[r][i].role = "user" => i = 1 /\ stored[r])
    <3>1. CASE i \in 1..Len(pending[r])
      BY <1>6, <3>1, Added DEF PendingInv
    <3>2. CASE i = Len(pending'[r])
      <4>1. /\ AssistantMsg(r).run = r /\ AssistantMsg(r).role = "assistant"
            /\ ToolMsg(r).run = r /\ ToolMsg(r).role = "tool"
        BY DEF AssistantMsg, ToolMsg
      <4>2. QED BY <1>6, <3>2, <4>1, Added
    <3>3. QED BY <1>6, <3>1, <3>2, Added
  <2>5. QED BY <1>1, <2>1, <2>3, <2>4 DEF PendingInv
<1>7. QED BY <1>2, <1>3, <1>4, <1>5, <1>6, TurnStep

LEMMA NextAnswersInv ==
  ASSUME TypeOK, NEW r \in Runs, Step(r), AnswersInv(r)
  PROVE  AnswersInv(r)'
<1> DEFINE L == Len(pending[r])
           p == pending[r]
           q == pending'[r]
<1>1. /\ p \in Seq(Log!Message) /\ L \in Nat /\ calls[r] \in Nat /\ tool[r] \in Nat
      /\ \A i \in 1..L : p[i] \in Log!Message
  <2>1. p \in Seq(Log!Message) /\ calls[r] \in Nat /\ tool[r] \in Nat
    BY DEF TypeOK
  <2>2. QED BY <2>1
<1>2. CASE Keeping(r)
  <2>1. q = p /\ calls'[r] = calls[r] /\ turn'[r] = turn[r] /\ tool'[r] = tool[r]
    BY <1>2 DEF Keeping, SameTurn
  <2>2. Asking(r)' = Asking(r) /\ Reply(r)' = Reply(r)
    BY <1>2, KeepingPhases
  <2>3. Log!AnswersCalled(q)
    BY <2>1 DEF AnswersInv
  <2>4. ASSUME NEW i \in 1..Len(q), q[i].role = "assistant", NEW k \in 1..q[i].n
        PROVE  IF i + k <= Len(q)
                 THEN q[i + k].role = "tool" /\ q[i + k].turn = q[i].turn /\ q[i + k].n = k
                 ELSE Asking(r)' /\ i = Reply(r)'
    BY <2>1, <2>2, <2>4 DEF AnswersInv
  <2>5. Asking(r)' => /\ tool'[r] \in 1..calls'[r] /\ Reply(r)' >= 1
                      /\ q[Reply(r)'].role = "assistant"
                      /\ q[Reply(r)'].turn = turn'[r]
                      /\ q[Reply(r)'].n = calls'[r]
    BY <2>1, <2>2 DEF AnswersInv
  <2>6. QED BY <2>3, <2>4, <2>5 DEF AnswersInv
<1>3. CASE Failing(r) \/ Reading(r)
  <2>1. ~Asking(r)' /\ (q = <<>> \/ q = <<UserMsg(r)>>)
    BY <1>3 DEF Failing, Reading, Asking
  <2>2. UserMsg(r).role = "user"
    BY DEF UserMsg
  <2>3. \A i \in 1..Len(q) : q[i].role = "user"
    BY <2>1, <2>2
  <2>4. DOMAIN q = 1..Len(q)
    BY <2>1
  <2>5. QED BY <2>1, <2>3, <2>4 DEF AnswersInv, Log!AnswersCalled
<1>4. CASE Beginning(r) \/ Accumulating(r)
  <2>1. ~Asking(r) /\ ~Asking(r)' /\ q = p
    BY <1>4 DEF Beginning, Accumulating, Asking
  <2>2. QED BY <2>1 DEF AnswersInv, Log!AnswersCalled
<1>5. CASE Replying(r)
  <2>1. /\ q \in Seq(Log!Message) /\ Len(q) = L + 1 /\ \A i \in 1..L : q[i] = p[i]
        /\ q[L + 1] = AssistantMsg(r)
    BY <1>5, Added
  <2>2. /\ q[L + 1].role = "assistant" /\ q[L + 1].turn = turn[r] /\ q[L + 1].n = calls[r]
    BY <2>1 DEF AssistantMsg
  <2>3. /\ ~Asking(r) /\ calls'[r] = calls[r] /\ turn'[r] = turn[r] /\ tool'[r] = 1
        /\ IF calls[r] = 0 THEN ~Asking(r)' ELSE Asking(r)'
    BY <1>5 DEF Replying, Asking, AfterLoop
  <2>4. Reply(r)' = L + 1
    BY <1>1, <2>1, <2>3 DEF Reply
  <2>5. Log!AnswersCalled(q)
    <3>1. SUFFICES ASSUME NEW i \in 1..(L + 1), q[i].role = "tool"
                   PROVE  /\ q[i].n \in 1..(i - 1) /\ q[i - q[i].n].role = "assistant"
                          /\ q[i - q[i].n].n >= q[i].n
      <4>1. DOMAIN q = 1..(L + 1)
        BY <2>1
      <4>2. QED BY <4>1 DEF Log!AnswersCalled
    <3>2. i \in 1..L /\ q[i] = p[i]
      BY <1>1, <2>1, <2>2, <3>1
    <3>3. /\ p[i].n \in 1..(i - 1) /\ p[i - p[i].n].role = "assistant"
          /\ p[i - p[i].n].n >= p[i].n
      BY <1>1, <3>1, <3>2 DEF AnswersInv, Log!AnswersCalled
    <3>4. i - p[i].n \in 1..L
      BY <1>1, <3>2, <3>3
    <3>5. QED BY <2>1, <3>2, <3>3, <3>4
  <2>6. ASSUME NEW i \in 1..Len(q), q[i].role = "assistant", NEW k \in 1..q[i].n
        PROVE  IF i + k <= Len(q)
                 THEN q[i + k].role = "tool" /\ q[i + k].turn = q[i].turn /\ q[i + k].n = k
                 ELSE Asking(r)' /\ i = Reply(r)'
    <3>1. CASE i \in 1..L
      <4>1. q[i] = p[i] /\ q[i].n \in Nat
        BY <1>1, <2>1, <3>1 DEF Log!Message
      <4>2. /\ i + k <= L /\ p[i + k].role = "tool" /\ p[i + k].turn = p[i].turn
            /\ p[i + k].n = k
        BY <2>3, <2>6, <3>1, <4>1 DEF AnswersInv
      <4>3. i + k \in 1..L
        BY <1>1, <3>1, <4>1, <4>2
      <4>4. QED BY <1>1, <2>1, <4>1, <4>2, <4>3
    <3>2. CASE i = L + 1
      <4>1. k >= 1 /\ calls[r] # 0
        BY <1>1, <2>2, <3>2
      <4>2. QED BY <1>1, <2>1, <2>3, <2>4, <3>2, <4>1
    <3>3. QED BY <1>1, <2>1, <3>1, <3>2
  <2>7. Asking(r)' => /\ tool'[r] \in 1..calls'[r] /\ Reply(r)' >= 1
                      /\ q[Reply(r)'].role = "assistant"
                      /\ q[Reply(r)'].turn = turn'[r]
                      /\ q[Reply(r)'].n = calls'[r]
    BY <1>1, <2>2, <2>3, <2>4
  <2>8. QED BY <2>5, <2>6, <2>7 DEF AnswersInv
<1>6. CASE Answering(r)
  <2>1. /\ q \in Seq(Log!Message) /\ Len(q) = L + 1 /\ \A i \in 1..L : q[i] = p[i]
        /\ q[L + 1] = ToolMsg(r)
    <3>1. ~Replying(r)
      BY <1>6 DEF Replying, Answering
    <3>2. QED BY <1>6, <3>1, Added
  <2>2. q[L + 1].role = "tool" /\ q[L + 1].turn = turn[r] /\ q[L + 1].n = tool[r]
    BY <2>1 DEF ToolMsg
  <2>3. /\ Asking(r) /\ calls'[r] = calls[r] /\ turn'[r] = turn[r] /\ tool'[r] = tool[r] + 1
        /\ IF tool[r] < calls[r] THEN Asking(r)' ELSE ~Asking(r)'
    BY <1>6 DEF Answering, Asking, AfterTool, AfterLoop
  <2>4. /\ Reply(r) = L - tool[r] + 1 /\ Reply(r)' = Reply(r) /\ Reply(r) \in 1..L
        /\ tool[r] \in 1..calls[r]
    <3>1. Reply(r) = L - tool[r] + 1
      BY DEF Reply
    <3>2. Reply(r)' = Len(q) - tool'[r] + 1
      BY DEF Reply
    <3>3. Reply(r) >= 1 /\ tool[r] \in 1..calls[r]
      BY <2>3 DEF AnswersInv
    <3>4. Len(q) = L + 1 /\ tool'[r] = tool[r] + 1
      BY <2>1, <2>3
    <3>5. L \in Nat /\ tool[r] \in Nat /\ calls[r] \in Nat
      BY <1>1
    <3>6. Reply(r)' = Reply(r)
      <4>1. Len(q) - tool'[r] + 1 = (L + 1) - (tool[r] + 1) + 1
        BY <3>4
      <4>2. (L + 1) - (tool[r] + 1) + 1 = L - tool[r] + 1
        BY <3>5
      <4>3. QED BY <3>1, <3>2, <4>1, <4>2
    <3>7. Reply(r) \in 1..L
      BY <3>1, <3>3, <3>5
    <3>8. QED BY <3>1, <3>3, <3>6, <3>7
  <2>5. /\ p[Reply(r)].role = "assistant" /\ p[Reply(r)].turn = turn[r]
        /\ p[Reply(r)].n = calls[r]
    BY <2>3 DEF AnswersInv
  <2>6. Log!AnswersCalled(q)
    <3>1. SUFFICES ASSUME NEW i \in 1..(L + 1), q[i].role = "tool"
                   PROVE  /\ q[i].n \in 1..(i - 1) /\ q[i - q[i].n].role = "assistant"
                          /\ q[i - q[i].n].n >= q[i].n
      <4>1. DOMAIN q = 1..(L + 1)
        BY <2>1
      <4>2. QED BY <4>1 DEF Log!AnswersCalled
    <3>2. CASE i \in 1..L
      <4>1. q[i] = p[i]
        BY <2>1, <3>2
      <4>2. /\ p[i].n \in 1..(i - 1) /\ p[i - p[i].n].role = "assistant"
            /\ p[i - p[i].n].n >= p[i].n
        BY <1>1, <3>1, <3>2, <4>1 DEF AnswersInv, Log!AnswersCalled
      <4>3. i - p[i].n \in 1..L
        BY <1>1, <3>2, <4>2
      <4>4. QED BY <2>1, <4>1, <4>2, <4>3
    <3>3. CASE i = L + 1
      <4>1. i - q[i].n = Reply(r)
        BY <1>1, <2>2, <2>4, <3>3
      <4>2. q[Reply(r)] = p[Reply(r)]
        BY <2>1, <2>4
      <4>3. q[i].n = tool[r]
        BY <2>2, <3>3
      <4>4. tool[r] \in 1..(i - 1)
        BY <1>1, <2>4, <3>3
      <4>5. calls[r] >= tool[r]
        BY <1>1, <2>4
      <4>6. QED BY <2>5, <4>1, <4>2, <4>3, <4>4, <4>5
    <3>4. QED BY <1>1, <3>2, <3>3
  <2>7. ASSUME NEW i \in 1..Len(q), q[i].role = "assistant", NEW k \in 1..q[i].n
        PROVE  IF i + k <= Len(q)
                 THEN q[i + k].role = "tool" /\ q[i + k].turn = q[i].turn /\ q[i + k].n = k
                 ELSE Asking(r)' /\ i = Reply(r)'
    <3>1. i \in 1..L /\ q[i] = p[i]
      BY <1>1, <2>1, <2>2, <2>7
    <3>2. k \in 1..p[i].n /\ p[i].n \in Nat
      BY <1>1, <2>7, <3>1 DEF Log!Message
    <3>3. CASE i + k <= L
      <4>1. p[i + k].role = "tool" /\ p[i + k].turn = p[i].turn /\ p[i + k].n = k
        BY <2>7, <3>1, <3>2, <3>3 DEF AnswersInv
      <4>2. i + k \in 1..L
        BY <1>1, <3>1, <3>2, <3>3
      <4>3. QED BY <1>1, <2>1, <3>1, <4>1, <4>2
    <3>4. CASE ~(i + k <= L)
      <4>1. i = Reply(r)
        BY <2>7, <3>1, <3>2, <3>4 DEF AnswersInv
      <4>2. CASE k = tool[r]
        <5>1. i + k = L + 1
          BY <1>1, <2>4, <4>1, <4>2
        <5>2. q[i].turn = turn[r]
          BY <2>5, <3>1, <4>1
        <5>3. Len(q) = L + 1 /\ L + 1 <= Len(q)
          BY <1>1, <2>1
        <5>4. QED BY <2>2, <4>2, <5>1, <5>2, <5>3
      <4>3. CASE k # tool[r]
        <5>1. tool[r] < calls[r] /\ i + k > L + 1
          <6>1. k <= calls[r] /\ k \in Nat /\ i = L - tool[r] + 1 /\ i + k > L
            BY <1>1, <2>4, <2>5, <3>1, <3>2, <3>4, <4>1
          <6>2. QED BY <1>1, <4>3, <6>1
        <5>2. QED BY <1>1, <2>1, <2>3, <2>4, <4>1, <5>1
      <4>4. QED BY <4>2, <4>3
    <3>5. QED BY <3>3, <3>4
  <2>8. Asking(r)' => /\ tool'[r] \in 1..calls'[r] /\ Reply(r)' >= 1
                      /\ q[Reply(r)'].role = "assistant"
                      /\ q[Reply(r)'].turn = turn'[r]
                      /\ q[Reply(r)'].n = calls'[r]
    <3>1. q[Reply(r)] = p[Reply(r)] /\ Reply(r) >= 1
      BY <1>1, <2>1, <2>4
    <3>2. Asking(r)' => tool'[r] \in 1..calls'[r]
      BY <1>1, <2>3, <2>4
    <3>3. QED BY <2>3, <2>4, <2>5, <3>1, <3>2
  <2>9. QED BY <2>6, <2>7, <2>8 DEF AnswersInv
<1>7. QED BY <1>2, <1>3, <1>4, <1>5, <1>6, TurnStep

LEMMA CalledKept ==
  ASSUME TypeOK, NEW r \in Runs, NEW t, Called(r, t),
         pending'[r] = pending[r] \/ Replying(r) \/ Answering(r)
  PROVE  Called(r, t)'
<1>1. CASE pending'[r] = pending[r]
  BY <1>1 DEF Called
<1>2. CASE Replying(r) \/ Answering(r)
  <2>1. PICK i \in 1..Len(pending[r]) : /\ pending[r][i].role = "assistant"
                                        /\ pending[r][i].turn = t /\ pending[r][i].n > 0
    BY DEF Called
  <2>2. i \in 1..Len(pending'[r]) /\ pending'[r][i] = pending[r][i]
    BY <1>2, Added
  <2>3. QED BY <2>1, <2>2 DEF Called
<1>3. QED BY <1>1, <1>2

LEMMA NextLoopInv ==
  ASSUME TypeOK, NEW r \in Runs, Step(r), AnswersInv(r), LoopInv(r)
  PROVE  LoopInv(r)'
<1>1. turn[r] \in Nat /\ turn[r] <= MaxTurns /\ MaxTurns \in Nat /\ calls[r] \in Nat
  BY SizesAssumption DEF TypeOK
<1>2. CASE Keeping(r)
  <2>1. /\ pending'[r] = pending[r] /\ calls'[r] = calls[r] /\ turn'[r] = turn[r]
        /\ LastMsg(r)' = LastMsg(r)
    BY <1>2 DEF Keeping, SameTurn, LastMsg
  <2>2. /\ WellLeft(r)' = WellLeft(r) /\ Failed(r)' = Failed(r) /\ NoReply(r)' = NoReply(r)
        /\ pc'[r] \in {"idle", "locking", "reading"} => pc[r] \in {"idle", "locking", "reading"}
        /\ pc'[r] = "calling" => pc[r] \in {"locking", "calling"}
    BY <1>2, KeepingPhases
  <2>3. /\ Ended(r)' /\ EndReason(r)' = "stop" => calls[r] = 0
        /\ Ended(r)' /\ EndReason(r)' = "max_turns" => calls[r] # 0
    BY EndReasonStep DEF LoopInv, TypeOK, FailureReasons
  <2>4. pc'[r] = "calling" /\ turn[r] > 0 => calls[r] # 0
    BY <1>1, <2>2 DEF LoopInv
  <2>5. ~Failed(r)' => \A t \in 1..turn'[r] :
          (t = turn'[r] => ~NoReply(r)' /\ calls'[r] # 0) => Called(r, t)'
    BY <2>1, <2>2, CalledKept DEF LoopInv
  <2>6. WellLeft(r)' =>
         /\ pending'[r] # <<>>
         /\ calls'[r] = 0 => LastMsg(r)'.role = "assistant" /\ LastMsg(r)'.n = 0
         /\ calls'[r] # 0 => LastMsg(r)'.role = "tool" /\ turn'[r] = MaxTurns
    BY <2>1, <2>2 DEF LoopInv
  <2>7. pc'[r] \in {"idle", "locking", "reading"} => turn'[r] = 0
    BY <2>1, <2>2 DEF LoopInv
  <2>8. QED BY <2>1, <2>3, <2>4, <2>5, <2>6, <2>7 DEF LoopInv
<1>3. CASE Failing(r)
  <2>1. ~WellLeft(r)' /\ ~Ended(r)' /\ Failed(r)' /\ pc'[r] = "error"
    BY <1>3 DEF Failing, WellLeft, Failed, Ended
  <2>2. QED BY <2>1 DEF LoopInv
<1>4. CASE Reading(r)
  <2>1. ~WellLeft(r)' /\ ~Ended(r)' /\ pc'[r] = "calling" /\ turn'[r] = 0
    BY <1>4 DEF Reading, SameTurn, WellLeft, Ended, LoopInv
  <2>2. QED BY <2>1 DEF LoopInv
<1>5. CASE Beginning(r) \/ Accumulating(r)
  <2>1. /\ ~WellLeft(r)' /\ ~Ended(r)' /\ ~Failed(r) /\ NoReply(r)'
        /\ pc'[r] \in {"opening", "streaming"} /\ pending'[r] = pending[r]
    BY <1>5 DEF Beginning, Accumulating, WellLeft, Failed, Ended, NoReply
  <2>2. ASSUME NEW t \in 1..turn'[r], t # turn'[r]
        PROVE  Called(r, t)'
    <3>1. Called(r, t)
      <4>1. CASE Beginning(r)
        <5>1. turn'[r] = turn[r] + 1 /\ ~NoReply(r) /\ pc[r] = "calling"
          BY <4>1 DEF Beginning, NoReply
        <5>2. t \in 1..turn[r]
          BY <1>1, <2>2, <5>1
        <5>3. calls[r] # 0
          BY <1>1, <5>1, <5>2 DEF LoopInv
        <5>4. QED BY <2>1, <5>1, <5>2, <5>3 DEF LoopInv
      <4>2. CASE Accumulating(r)
        <5>1. turn'[r] = turn[r]
          BY <4>2 DEF Accumulating, SameTurn
        <5>2. QED BY <2>1, <2>2, <5>1 DEF LoopInv
      <4>3. QED BY <1>5, <4>1, <4>2
    <3>2. QED BY <2>1, <3>1, CalledKept
  <2>3. QED BY <2>1, <2>2 DEF LoopInv
<1>6. CASE Replying(r)
  <2>1. /\ pending'[r] # <<>> /\ LastMsg(r)' = AssistantMsg(r)
        /\ Len(pending'[r]) \in 1..Len(pending'[r])
    BY <1>6, Added DEF LastMsg
  <2>2. /\ AssistantMsg(r).role = "assistant" /\ AssistantMsg(r).n = calls[r]
        /\ AssistantMsg(r).turn = turn[r]
    BY DEF AssistantMsg
  <2>3. /\ calls'[r] = calls[r] /\ turn'[r] = turn[r] /\ ~Ended(r)' /\ ~Failed(r)
        /\ pc'[r] \in {"append", "end", "tools"} /\ NoReply(r)
        /\ WellLeft(r)' => calls[r] = 0
    BY <1>6 DEF Replying, AfterLoop, Ended, Failed, NoReply, WellLeft
  <2>4. ASSUME NEW t \in 1..turn[r], t = turn[r] => calls[r] # 0
        PROVE  Called(r, t)'
    <3>1. CASE t = turn[r]
      <4>1. LastMsg(r)' = pending'[r][Len(pending'[r])]
        BY DEF LastMsg
      <4>2. calls[r] > 0
        BY <1>1, <2>4, <3>1
      <4>3. QED BY <2>1, <2>2, <3>1, <4>1, <4>2 DEF Called
    <3>2. CASE t # turn[r]
      <4>1. Called(r, t)
        BY <2>3, <3>2 DEF LoopInv
      <4>2. QED BY <1>6, <4>1, CalledKept
    <3>3. QED BY <3>1, <3>2
  <2>5. QED BY <2>1, <2>2, <2>3, <2>4 DEF LoopInv
<1>7. CASE Answering(r)
  <2>1. pending'[r] # <<>> /\ LastMsg(r)' = ToolMsg(r)
    <3>1. ~Replying(r)
      BY <1>7 DEF Answering, Replying
    <3>2. QED BY <1>7, <3>1, Added DEF LastMsg
  <2>2. ToolMsg(r).role = "tool"
    BY DEF ToolMsg
  <2>3. /\ calls'[r] = calls[r] /\ turn'[r] = turn[r] /\ ~Ended(r)' /\ ~Failed(r)
        /\ pc'[r] \in {"tools", "calling", "append", "end"} /\ ~NoReply(r) /\ Asking(r)
        /\ WellLeft(r)' => ~(turn[r] < MaxTurns)
    BY <1>7 DEF Answering, AfterTool, AfterLoop, TurnsLeft, Ended, Failed, NoReply, WellLeft, Asking
  <2>4. calls[r] # 0
    <3>1. tool[r] \in 1..calls[r]
      BY <2>3 DEF AnswersInv
    <3>2. QED BY <1>1, <3>1
  <2>5. ASSUME NEW t \in 1..turn[r]
        PROVE  Called(r, t)'
    <3>1. Called(r, t)
      BY <2>3, <2>4 DEF LoopInv
    <3>2. QED BY <1>7, <3>1, CalledKept
  <2>6. WellLeft(r)' => turn[r] = MaxTurns
    BY <1>1, <2>3
  <2>7. QED BY <2>1, <2>2, <2>3, <2>4, <2>5, <2>6 DEF LoopInv
<1>8. QED BY <1>2, <1>3, <1>4, <1>5, <1>6, <1>7, TurnStep

-----------------------------------------------------------------------------
(* What a step of run r sends of its tools. *)

\* Neither a call nor a result.
Quiet(r) == /\ pc'[r] = "results" <=> pc[r] = "results"
            /\ \/ out'[r] = out[r]
               \/ /\ pc[r] # "results"
                  /\ \E e \in Event : e.kind \notin {"call", "result"} /\ OutGrows(r, e)

LEMMA ToolStep ==
  ASSUME TypeOK, NEW r \in Runs, Step(r)
  PROVE  ToolCall(r) \/ ToolResult(r) \/ (Quiet(r) /\ ~Answering(r))
<1>1. turn[r] \in Nat
  BY SizesAssumption DEF TypeOK
<1>2. /\ \A k \in {"delta", "usage", "error"} :
           Ev(k, turn[r], 0) \in Event /\ Ev(k, turn[r], 0).kind \notin {"call", "result"}
      /\ \A w \in Reasons : EndEv(w) \in Event /\ EndEv(w).kind \notin {"call", "result"}
  BY <1>1, EventTypes DEF Ev, EndEv, Kinds, Reasons
<1>3. SUFFICES ASSUME ~ToolCall(r), ~ToolResult(r) PROVE Quiet(r)
  <2>1. Quiet(r) => ~Answering(r)
    BY DEF Quiet, Answering, AfterTool, AfterLoop
  <2>2. QED BY <2>1
<1> USE DEF TypeOK, Goto, Quiet
<1>4. CASE Locking(r)
  BY <1>4 DEF Locking, Start, TakeLock, LockFails, Unlock, CloseOut, Fail
<1>5. CASE Storing(r)
  BY <1>5 DEF Storing, ReadHistory, AppendHistory, HistoryRefuses, Fail
<1>6. CASE Calling(r)
  BY <1>6 DEF Calling, BeginCall, StreamOpens, StreamRefused, Fail
<1>7. CASE Streaming(r)
  <2>1. CASE StreamDelta(r)
    BY <1>2, <2>1 DEF StreamDelta, Emit, OutGrows
  <2>2. CASE StreamAccumulates(r) \/ StreamCloses(r) \/ StreamGivenUp(r)
    BY <2>2 DEF StreamAccumulates, StreamCloses, StreamGivenUp, Fail
  <2>3. QED BY <1>7, <2>1, <2>2 DEF Streaming
<1>8. CASE AssistantTurn(r)
  BY <1>2, <1>8 DEF AssistantTurn, AfterLoop, Emit, OutGrows
<1>9. CASE Ending(r)
  <2>1. why[r] \in Reasons /\ {"stop", "max_turns"} \subseteq Reasons
    BY DEF TypeOK, Reasons
  <2>2. QED BY <1>2, <1>9, <2>1
            DEF Ending, EmitEnd, EmitError, ResolveReason, EmitErrEnd, Emit, OutGrows
<1>10. CASE Receive(r) \/ Clock(r)
  BY <1>10 DEF Receive, Clock, UserDone, RunTimeout, LLMCallTimeout
<1>11. QED
  BY <1>3, <1>4, <1>5, <1>6, <1>7, <1>8, <1>9, <1>10 DEF Step, Looping

\* What the run has passed stays passed.
LEMMA SoonerKept ==
  ASSUME TypeOK, NEW r \in Runs, Step(r), NEW m, m.turn \in Nat, m.n \in Nat, Sooner(r, m)
  PROVE  Sooner(r, m)'
<1>1. turn[r] \in Nat /\ tool[r] \in Nat
  BY SizesAssumption DEF TypeOK
<1>2. CASE Keeping(r)
  BY <1>2, KeepingPhases DEF Sooner, Keeping, SameTurn
<1>3. CASE Failing(r) \/ Reading(r)
  BY <1>3 DEF Failing, Reading, Sooner, SameTurn, NoReply
<1>4. CASE Beginning(r)
  BY <1>1, <1>4 DEF Beginning, Sooner
<1>5. CASE Accumulating(r)
  BY <1>5 DEF Accumulating, Sooner, SameTurn, NoReply
<1>6. CASE Replying(r)
  BY <1>6 DEF Replying, Sooner, NoReply
<1>7. CASE Answering(r)
  BY <1>1, <1>7 DEF Answering, Sooner, NoReply, AfterTool, AfterLoop
<1>8. QED BY <1>2, <1>3, <1>4, <1>5, <1>6, <1>7, TurnStep

\* What is to be appended and what has been sent, by its turn and number.
LEMMA Numbers ==
  ASSUME TypeOK, NEW r \in Runs
  PROVE  /\ turn[r] \in Nat /\ tool[r] \in Nat
         /\ Len(pending[r]) \in Nat /\ Len(out[r]) \in Nat
         /\ \A i \in 1..Len(pending[r]) : pending[r][i].turn \in Nat /\ pending[r][i].n \in Nat
         /\ \A i \in 1..Len(out[r]) : /\ out[r][i] \in Event
                                      /\ out[r][i].turn \in Nat /\ out[r][i].n \in Nat
<1>1. /\ pending[r] \in Seq(Log!Message) /\ out[r] \in Seq(Event)
      /\ turn[r] \in Nat /\ tool[r] \in Nat
  BY SizesAssumption DEF TypeOK
<1>2. /\ \A i \in 1..Len(pending[r]) : pending[r][i] \in Log!Message
      /\ \A i \in 1..Len(out[r]) : out[r][i] \in Event
      /\ Len(pending[r]) \in Nat /\ Len(out[r]) \in Nat
  BY <1>1
<1>3. QED BY <1>1, <1>2 DEF Log!Message, Event

LEMMA NextToolsInv ==
  ASSUME TypeOK, NEW r \in Runs, Step(r), ToolsInv(r)
  PROVE  ToolsInv(r)'
<1>1. ASSUME NEW i \in 1..Len(pending[r]), pending[r][i].role = "tool", NEW m,
             m = pending[r][i]
      PROVE  Sooner(r, m) /\ Sooner(r, m)'
  <2>1. Sooner(r, m) /\ m.turn \in Nat /\ m.n \in Nat
    BY <1>1, Numbers DEF ToolsInv
  <2>2. QED BY <2>1, SoonerKept
<1>2. CASE Keeping(r) \/ Beginning(r) \/ Accumulating(r)
  <2>1. pending'[r] = pending[r]
    BY <1>2 DEF Keeping, Beginning, Accumulating
  <2>2. ASSUME NEW i \in 1..Len(pending'[r]), pending'[r][i].role = "tool"
        PROVE  /\ Sooner(r, pending[r][i])'
               /\ \A j \in 1..(i - 1) :
                    pending'[r][j].role = "tool" => Before(pending'[r][j], pending'[r][i])
    <3>1. PICK m : m = pending[r][i] /\ m = pending'[r][i]
      BY <2>1
    <3>2. Sooner(r, m)'
      BY <1>1, <2>1, <2>2, <3>1
    <3>3. Sooner(r, pending[r][i])'
      BY <3>1, <3>2 DEF Sooner
    <3>4. QED BY <2>1, <2>2, <3>3 DEF ToolsInv
  <2>3. QED BY <2>2 DEF ToolsInv
<1>3. CASE Failing(r) \/ Reading(r)
  <2>1. pending'[r] = <<>> \/ pending'[r] = <<UserMsg(r)>>
    BY <1>3 DEF Failing, Reading
  <2>2. UserMsg(r).role = "user"
    BY DEF UserMsg
  <2>3. \A i \in 1..Len(pending'[r]) : pending'[r][i].role # "tool"
    BY <2>1, <2>2
  <2>4. QED BY <2>3 DEF ToolsInv
<1>4. CASE Replying(r) \/ Answering(r)
  <2> DEFINE L == Len(pending[r])
             q == pending'[r]
  <2>1. /\ L \in Nat /\ Len(q) = L + 1 /\ \A i \in 1..L : q[i] = pending[r][i]
        /\ q[L + 1] = IF Replying(r) THEN AssistantMsg(r) ELSE ToolMsg(r)
    BY <1>4, Added
  <2>2. ASSUME NEW i \in 1..Len(q), q[i].role = "tool"
        PROVE  /\ Sooner(r, pending[r][i])'
               /\ \A j \in 1..(i - 1) : q[j].role = "tool" => Before(q[j], q[i])
    <3>1. CASE i \in 1..L
      <4>1. PICK m : m = pending[r][i] /\ m = q[i]
        BY <2>1, <3>1
      <4>2. Sooner(r, m)'
        BY <1>1, <2>2, <3>1, <4>1
      <4>3. Sooner(r, pending[r][i])'
        BY <4>1, <4>2 DEF Sooner
      <4>4. \A j \in 1..(i - 1) : j \in 1..L
        BY <2>1, <3>1
      <4>5. \A j \in 1..(i - 1) : q[j].role = "tool" => Before(q[j], q[i])
        BY <2>1, <2>2, <3>1, <4>4 DEF ToolsInv
      <4>6. QED BY <4>3, <4>5
    <3>2. CASE i = L + 1
      <4>1. /\ AssistantMsg(r).role = "assistant"
            /\ ToolMsg(r).turn = turn[r] /\ ToolMsg(r).n = tool[r]
        BY DEF AssistantMsg, ToolMsg
      <4>2. ~Replying(r) /\ q[i] = ToolMsg(r)
        BY <2>1, <2>2, <3>2, <4>1
      <4>3. turn'[r] = turn[r] /\ tool'[r] = tool[r] + 1 /\ ~NoReply(r)' /\ ~NoReply(r)
        BY <1>4, <4>2 DEF Answering, AfterTool, AfterLoop, NoReply
      <4>4. Sooner(r, pending[r][i])'
        BY <4>1, <4>2, <4>3, Numbers DEF Sooner
      <4>5. ASSUME NEW j \in 1..(i - 1), q[j].role = "tool"
            PROVE  Before(q[j], q[i])
        <5>1. j \in 1..L /\ q[j] = pending[r][j]
          BY <2>1, <3>2
        <5>2. Sooner(r, q[j])
          BY <4>5, <5>1 DEF ToolsInv
        <5>3. QED BY <4>1, <4>2, <4>3, <5>2 DEF Sooner, Before
      <4>6. QED BY <4>4, <4>5
    <3>3. QED BY <2>1, <3>1, <3>2
  <2>3. QED BY <2>2 DEF ToolsInv
<1>5. QED BY <1>2, <1>3, <1>4, TurnStep

\* One more event: those before it keep their places.
LEMMA Sent ==
  ASSUME TypeOK, NEW r \in Runs, NEW e \in Event, OutGrows(r, e)
  PROVE  /\ out'[r] # <<>> /\ Len(out[r]) \in Nat /\ Len(out'[r]) = Len(out[r]) + 1
         /\ \A i \in 1..Len(out[r]) : out'[r][i] = out[r][i]
         /\ out'[r][Len(out[r]) + 1] = e /\ out'[r][Len(out'[r])] = e
<1>1. out[r] \in Seq(Event)
  BY DEF TypeOK
<1>2. QED BY <1>1, Grown DEF OutGrows

LEMMA ToolEvents ==
  ASSUME TypeOK, NEW r \in Runs
  PROVE  /\ Ev("call", turn[r], tool[r]) \in Event /\ Ev("result", turn[r], tool[r]) \in Event
         /\ Ev("call", turn[r], tool[r]).kind = "call"
         /\ Ev("result", turn[r], tool[r]).kind = "result"
         /\ Ev("result", turn[r], tool[r]).turn = turn[r]
         /\ Ev("result", turn[r], tool[r]).n = tool[r]
<1>1. turn[r] \in Nat /\ tool[r] \in Nat
  BY Numbers
<1>2. Ev("call", turn[r], tool[r]) \in Event /\ Ev("result", turn[r], tool[r]) \in Event
  BY <1>1 DEF Ev, Kinds, Event
<1>3. QED BY <1>2 DEF Ev

\* The results sent before a step still are what they were.
LEMMA OldResults ==
  ASSUME TypeOK, NEW r \in Runs, Step(r), ResultsInv(r), NEW i \in 1..Len(out[r]),
         out[r][i].kind = "result",
         \A j \in 1..Len(out[r]) : out'[r][j] = out[r][j]
  PROVE  /\ i > 1 /\ out'[r][i - 1] = Ev("call", out'[r][i].turn, out'[r][i].n)
         /\ Sooner(r, out[r][i])'
         /\ \A j \in 1..(i - 1) : out'[r][j].kind = "result" => Before(out'[r][j], out'[r][i])
<1>1. PICK m : m = out[r][i] /\ m = out'[r][i]
  OBVIOUS
<1>2. m.turn \in Nat /\ m.n \in Nat /\ Sooner(r, m) /\ i > 1 /\ Len(out[r]) \in Nat
  BY <1>1, Numbers DEF ResultsInv
<1>3. Sooner(r, m)'
  BY <1>2, SoonerKept
<1>4. \A j \in 1..(i - 1) : j \in 1..Len(out[r])
  BY <1>2
<1>5. i - 1 \in 1..(i - 1)
  BY <1>2
<1>6. QED BY <1>1, <1>2, <1>3, <1>4, <1>5 DEF ResultsInv, Sooner

LEMMA NextResultsInv ==
  ASSUME TypeOK, NEW r \in Runs, Step(r), ResultsInv(r)
  PROVE  ResultsInv(r)'
<1> DEFINE L == Len(out[r])
           q == out'[r]
<1>1. CASE ToolCall(r)
  <2>1. OutGrows(r, Ev("call", turn[r], tool[r]))
    BY <1>1 DEF ToolCall, Emit, OutGrows, TypeOK
  <2>2. /\ q # <<>> /\ L \in Nat /\ Len(q) = L + 1 /\ \A i \in 1..L : q[i] = out[r][i]
        /\ q[L + 1] = Ev("call", turn[r], tool[r]) /\ q[Len(q)] = Ev("call", turn[r], tool[r])
    BY <2>1, ToolEvents, Sent
  <2>3. q[L + 1].kind # "result"
    BY <2>2, ToolEvents
  <2>4. turn' = turn /\ tool' = tool
    BY <1>1 DEF ToolCall, turnVars
  <2>5. q[Len(q)] = Ev("call", turn[r], tool[r])'
    BY <2>2, <2>4 DEF Ev
  <2>6. \A i \in 1..Len(q) : q[i].kind = "result" => i \in 1..L
    BY <2>2, <2>3
  <2>7. ASSUME NEW i \in 1..Len(q), q[i].kind = "result"
        PROVE  /\ i > 1 /\ q[i - 1] = Ev("call", q[i].turn, q[i].n)
               /\ Sooner(r, out[r][i])'
               /\ \A j \in 1..(i - 1) : q[j].kind = "result" => Before(q[j], q[i])
    BY <2>2, <2>6, <2>7, OldResults
  <2>8. QED BY <2>2, <2>5, <2>7 DEF ResultsInv
<1>2. CASE ToolResult(r)
  <2>1. /\ OutGrows(r, Ev("result", turn[r], tool[r])) /\ pc[r] = "results"
        /\ turn'[r] = turn[r] /\ tool'[r] = tool[r] + 1 /\ ~NoReply(r) /\ ~NoReply(r)'
        /\ pc'[r] # "results"
    BY <1>2 DEF ToolResult, Emit, OutGrows, TypeOK, Goto, AfterTool, AfterLoop, NoReply
  <2>2. /\ q # <<>> /\ L \in Nat /\ Len(q) = L + 1 /\ \A i \in 1..L : q[i] = out[r][i]
        /\ q[L + 1] = Ev("result", turn[r], tool[r])
    BY <2>1, ToolEvents, Sent
  <2>3. ASSUME NEW i \in 1..Len(q), q[i].kind = "result"
        PROVE  /\ i > 1 /\ q[i - 1] = Ev("call", q[i].turn, q[i].n)
               /\ Sooner(r, out[r][i])'
               /\ \A j \in 1..(i - 1) : q[j].kind = "result" => Before(q[j], q[i])
    <3>1. CASE i \in 1..L
      BY <2>2, <2>3, <3>1, OldResults
    <3>2. CASE i = L + 1
      <4>1. L \in 1..L /\ out[r][L] = Ev("call", turn[r], tool[r]) /\ i - 1 = L /\ i > 1
        <5>1. out[r] # <<>> /\ out[r] \in Seq(Event)
          BY <2>1 DEF ResultsInv, TypeOK
        <5>2. L >= 1
          BY <5>1
        <5>3. QED BY <2>1, <2>2, <3>2, <5>2 DEF ResultsInv
      <4>2. q[i].turn = turn[r] /\ q[i].n = tool[r]
        BY <2>2, <3>2, ToolEvents
      <4>3. q[i - 1] = Ev("call", q[i].turn, q[i].n)
        BY <2>2, <3>2, <4>1, <4>2
      <4>4. Sooner(r, out[r][i])'
        BY <2>1, <4>2, Numbers DEF Sooner
      <4>5. ASSUME NEW j \in 1..(i - 1), q[j].kind = "result"
            PROVE  Before(q[j], q[i])
        <5>1. j \in 1..L /\ q[j] = out[r][j]
          BY <2>2, <3>2
        <5>2. Sooner(r, q[j])
          BY <4>5, <5>1 DEF ResultsInv
        <5>3. QED BY <2>1, <4>2, <5>2 DEF Sooner, Before
      <4>6. QED BY <4>1, <4>3, <4>4, <4>5
    <3>3. QED BY <2>2, <3>1, <3>2
  <2>4. QED BY <2>1, <2>3 DEF ResultsInv
<1>3. CASE Quiet(r)
  <2>1. CASE out'[r] = out[r]
    <3>1. pc'[r] = "results" => turn'[r] = turn[r] /\ tool'[r] = tool[r]
      BY <1>3, TurnStep DEF Quiet, Keeping, Failing, Reading, Beginning, Accumulating, Replying,
                            Answering, SameTurn, AfterTool, AfterLoop
    <3>2. pc'[r] = "results" => q # <<>> /\ q[Len(q)] = Ev("call", turn[r], tool[r])'
      BY <1>3, <2>1, <3>1 DEF Quiet, ResultsInv, Ev
    <3>3. ASSUME NEW i \in 1..Len(q), q[i].kind = "result"
          PROVE  /\ i > 1 /\ q[i - 1] = Ev("call", q[i].turn, q[i].n)
                 /\ Sooner(r, out[r][i])'
                 /\ \A j \in 1..(i - 1) : q[j].kind = "result" => Before(q[j], q[i])
      BY <2>1, <3>3, OldResults
    <3>4. QED BY <3>2, <3>3 DEF ResultsInv
  <2>2. CASE out'[r] # out[r]
    <3>1. PICK e \in Event : e.kind # "result" /\ OutGrows(r, e)
      BY <1>3, <2>2 DEF Quiet
    <3>2. /\ L \in Nat /\ Len(q) = L + 1 /\ \A i \in 1..L : q[i] = out[r][i]
          /\ q[L + 1].kind # "result"
      BY <3>1, Sent
    <3>3. \A i \in 1..Len(q) : q[i].kind = "result" => i \in 1..L
      BY <3>2
    <3>4. ASSUME NEW i \in 1..Len(q), q[i].kind = "result"
          PROVE  /\ i > 1 /\ q[i - 1] = Ev("call", q[i].turn, q[i].n)
                 /\ Sooner(r, out[r][i])'
                 /\ \A j \in 1..(i - 1) : q[j].kind = "result" => Before(q[j], q[i])
      BY <3>2, <3>3, <3>4, OldResults
    <3>5. pc'[r] # "results"
      BY <1>3, <2>2 DEF Quiet
    <3>6. QED BY <3>4, <3>5 DEF ResultsInv
  <2>3. QED BY <2>1, <2>2
<1>4. QED BY <1>1, <1>2, <1>3, ToolStep

-----------------------------------------------------------------------------
(* The results sent are the answers to be appended. *)

Told(r, t, n) == \E i \in 1..Len(out[r]) :
  out[r][i].kind = "result" /\ out[r][i].turn = t /\ out[r][i].n = n
Noted(r, t, n) == \E j \in 1..Len(pending[r]) :
  pending[r][j].role = "tool" /\ pending[r][j].turn = t /\ pending[r][j].n = n

LEMMA ToldIff ==
  ASSUME NEW r \in Runs
  PROVE  /\ ToldInv(r) <=> (~Failed(r) => \A t, n : Told(r, t, n) <=> Noted(r, t, n))
         /\ ToldInv(r)' <=> (~Failed(r)' => \A t, n : Told(r, t, n)' <=> Noted(r, t, n)')
<1>1. ASSUME ToldInv(r), ~Failed(r), NEW t, NEW n
      PROVE  Told(r, t, n) <=> Noted(r, t, n)
  <2>1. Told(r, t, n) => Noted(r, t, n)
    <3>1. SUFFICES ASSUME NEW i \in 1..Len(out[r]), out[r][i].kind = "result",
                          out[r][i].turn = t, out[r][i].n = n
                   PROVE  Noted(r, t, n)
      BY DEF Told
    <3>2. QED BY <1>1, <3>1 DEF ToldInv, Noted
  <2>2. Noted(r, t, n) => Told(r, t, n)
    <3>1. SUFFICES ASSUME NEW j \in 1..Len(pending[r]), pending[r][j].role = "tool",
                          pending[r][j].turn = t, pending[r][j].n = n
                   PROVE  Told(r, t, n)
      BY DEF Noted
    <3>2. QED BY <1>1, <3>1 DEF ToldInv, Told
  <2>3. QED BY <2>1, <2>2
<1>2. ASSUME ~Failed(r) => \A t, n : Told(r, t, n) <=> Noted(r, t, n)
      PROVE  ToldInv(r)
  <2>1. ASSUME ~Failed(r), NEW i \in 1..Len(out[r]), out[r][i].kind = "result"
        PROVE  Noted(r, out[r][i].turn, out[r][i].n)
    BY <1>2, <2>1 DEF Told
  <2>2. ASSUME ~Failed(r), NEW j \in 1..Len(pending[r]), pending[r][j].role = "tool"
        PROVE  Told(r, pending[r][j].turn, pending[r][j].n)
    BY <1>2, <2>2 DEF Noted
  <2>3. QED BY <2>1, <2>2 DEF ToldInv, Told, Noted
<1>3. ASSUME ToldInv(r)', ~Failed(r)', NEW t, NEW n
      PROVE  Told(r, t, n)' <=> Noted(r, t, n)'
  <2>1. Told(r, t, n)' => Noted(r, t, n)'
    <3>1. SUFFICES ASSUME NEW i \in 1..Len(out'[r]), out'[r][i].kind = "result",
                          out'[r][i].turn = t, out'[r][i].n = n
                   PROVE  Noted(r, t, n)'
      BY DEF Told
    <3>2. QED BY <1>3, <3>1 DEF ToldInv, Noted
  <2>2. Noted(r, t, n)' => Told(r, t, n)'
    <3>1. SUFFICES ASSUME NEW j \in 1..Len(pending'[r]), pending'[r][j].role = "tool",
                          pending'[r][j].turn = t, pending'[r][j].n = n
                   PROVE  Told(r, t, n)'
      BY DEF Noted
    <3>2. QED BY <1>3, <3>1 DEF ToldInv, Told
  <2>3. QED BY <2>1, <2>2
<1>4. ASSUME ~Failed(r)' => \A t, n : Told(r, t, n)' <=> Noted(r, t, n)'
      PROVE  ToldInv(r)'
  <2>1. SUFFICES ASSUME ~Failed(r)'
                 PROVE  /\ \A i \in 1..Len(out'[r]) : out'[r][i].kind = "result" =>
                             \E t, n : Noted(r, t, n)' /\ t = out'[r][i].turn /\ n = out'[r][i].n
                        /\ \A j \in 1..Len(pending'[r]) : pending'[r][j].role = "tool" =>
                             \E t, n : Told(r, t, n)' /\ t = pending'[r][j].turn /\ n = pending'[r][j].n
    BY DEF ToldInv, Told, Noted
  <2>2. ASSUME NEW i \in 1..Len(out'[r]), out'[r][i].kind = "result"
        PROVE  \E t, n : Noted(r, t, n)' /\ t = out'[r][i].turn /\ n = out'[r][i].n
    BY <1>4, <2>1, <2>2 DEF Told
  <2>3. ASSUME NEW j \in 1..Len(pending'[r]), pending'[r][j].role = "tool"
        PROVE  \E t, n : Told(r, t, n)' /\ t = pending'[r][j].turn /\ n = pending'[r][j].n
    BY <1>4, <2>1, <2>3 DEF Noted
  <2>4. QED BY <2>2, <2>3
<1>5. QED BY <1>1, <1>2, <1>3, <1>4

LEMMA ToldStep ==
  ASSUME TypeOK, NEW r \in Runs, Step(r)
  PROVE  /\ ToolResult(r) => Answering(r)
         /\ ToolResult(r) => \A t, n : Told(r, t, n)' <=>
                               Told(r, t, n) \/ (t = turn[r] /\ n = tool[r])
         /\ ~ToolResult(r) => \A t, n : Told(r, t, n)' <=> Told(r, t, n)
<1>1. CASE ToolResult(r)
  <2>1. OutGrows(r, Ev("result", turn[r], tool[r]))
    BY <1>1 DEF ToolResult, Emit, OutGrows, TypeOK
  <2>2. /\ Len(out[r]) \in Nat /\ Len(out'[r]) = Len(out[r]) + 1
        /\ \A i \in 1..Len(out[r]) : out'[r][i] = out[r][i]
        /\ out'[r][Len(out[r]) + 1] = Ev("result", turn[r], tool[r])
    BY <2>1, Sent, ToolEvents
  <2>3. /\ out'[r][Len(out[r]) + 1].kind = "result" /\ out'[r][Len(out[r]) + 1].turn = turn[r]
        /\ out'[r][Len(out[r]) + 1].n = tool[r]
    BY <2>2, ToolEvents
  <2>4. Answering(r)
    BY <1>1 DEF ToolResult, Answering, Goto, respVars, TypeOK
  <2>5. \A i \in 1..Len(out'[r]) : i \in 1..Len(out[r]) \/ i = Len(out[r]) + 1
    BY <2>2
  <2>6. \A i \in 1..Len(out[r]) : i \in 1..Len(out'[r])
    BY <2>2
  <2>7. Len(out[r]) + 1 \in 1..Len(out'[r])
    BY <2>2
  <2>8. QED BY <1>1, <2>2, <2>3, <2>4, <2>5, <2>6, <2>7 DEF Told
<1>2. CASE ~ToolResult(r)
  <2>1. \/ out'[r] = out[r]
        \/ \E e \in Event : e.kind # "result" /\ OutGrows(r, e)
    <3>1. CASE ToolCall(r)
      BY <3>1, ToolEvents DEF ToolCall, Emit, OutGrows, TypeOK
    <3>2. QED BY <1>2, <3>1, ToolStep DEF Quiet
  <2>2. CASE out'[r] = out[r]
    BY <1>2, <2>2 DEF Told
  <2>3. CASE \E e \in Event : e.kind # "result" /\ OutGrows(r, e)
    <3>1. PICK e \in Event : e.kind # "result" /\ OutGrows(r, e)
      BY <2>3
    <3>2. /\ Len(out[r]) \in Nat /\ Len(out'[r]) = Len(out[r]) + 1
          /\ \A i \in 1..Len(out[r]) : out'[r][i] = out[r][i]
          /\ out'[r][Len(out[r]) + 1].kind # "result"
      BY <3>1, Sent
    <3>3. \A i \in 1..Len(out'[r]) : i \in 1..Len(out[r]) \/ out'[r][i].kind # "result"
      BY <3>2
    <3>4. \A i \in 1..Len(out[r]) : i \in 1..Len(out'[r])
      BY <3>2
    <3>5. QED BY <1>2, <3>2, <3>3, <3>4 DEF Told
  <2>4. QED BY <2>1, <2>2, <2>3
<1>3. QED BY <1>1, <1>2

LEMMA NextToldInv ==
  ASSUME TypeOK, NEW r \in Runs, Step(r), PendingInv(r), ToldInv(r)
  PROVE  ToldInv(r)'
<1> SUFFICES ASSUME ~Failed(r)', NEW t, NEW n
             PROVE  Told(r, t, n)' <=> Noted(r, t, n)'
  BY ToldIff
<1>1. ToolResult(r) => Answering(r)
  BY ToldStep
<1>2. CASE Keeping(r) \/ Beginning(r) \/ Accumulating(r)
  <2>1. pending'[r] = pending[r] /\ ~Failed(r) /\ (pc[r] = "results" => pc'[r] = "results" \/ WellLeft(r))
    BY <1>2, KeepingPhases DEF Keeping, Beginning, Accumulating, Failed, Ended, Rests, Moves,
                               Early, Leaves
  <2>2. Noted(r, t, n)' <=> Noted(r, t, n)
    BY <2>1 DEF Noted
  <2>3. ~ToolResult(r)
    BY <1>2, <2>1 DEF ToolResult, Goto, TypeOK, AfterTool, AfterLoop, WellLeft, Ended
  <2>4. QED BY <2>1, <2>2, <2>3, ToldStep, ToldIff
<1>3. CASE Failing(r)
  BY <1>3 DEF Failing, Failed
<1>4. CASE Reading(r)
  <2>1. ~Failed(r) /\ pending[r] = <<>> /\ ~ToolResult(r)
    BY <1>4 DEF Reading, Failed, Ended, PendingInv, ToolResult
  <2>2. ~Told(r, t, n)
    BY <2>1, ToldIff DEF Noted
  <2>3. pending'[r] = <<UserMsg(r)>> /\ UserMsg(r).role = "user"
    BY <1>4 DEF Reading, UserMsg
  <2>4. ~Noted(r, t, n)'
    BY <2>3 DEF Noted
  <2>5. QED BY <2>1, <2>2, <2>4, ToldStep
<1>5. CASE Replying(r) \/ Answering(r)
  <2> DEFINE L == Len(pending[r])
             q == pending'[r]
  <2>1. /\ L \in Nat /\ Len(q) = L + 1 /\ \A i \in 1..L : q[i] = pending[r][i]
        /\ q[L + 1] = IF Replying(r) THEN AssistantMsg(r) ELSE ToolMsg(r)
    BY <1>5, Added
  <2>2. \A i \in 1..Len(q) : i \in 1..L \/ i = L + 1
    BY <2>1
  <2>3. L + 1 \in 1..Len(q) /\ \A i \in 1..L : i \in 1..Len(q)
    BY <2>1
  <2>4. ~Failed(r)
    BY <1>5 DEF Replying, Answering, Failed, Ended
  <2>5. CASE Replying(r)
    <3>1. q[L + 1].role # "tool"
      BY <2>1, <2>5 DEF AssistantMsg
    <3>2. Noted(r, t, n)' <=> Noted(r, t, n)
      BY <2>1, <2>2, <2>3, <3>1 DEF Noted
    <3>3. ~ToolResult(r)
      BY <2>5 DEF Replying, ToolResult
    <3>4. QED BY <2>4, <3>2, <3>3, ToldStep, ToldIff
  <2>6. CASE Answering(r)
    <3>1. ~Replying(r)
      BY <2>6 DEF Replying, Answering
    <3>2. q[L + 1].role = "tool" /\ q[L + 1].turn = turn[r] /\ q[L + 1].n = tool[r]
      BY <2>1, <3>1 DEF ToolMsg
    <3>3. Noted(r, t, n)' <=> Noted(r, t, n) \/ (t = turn[r] /\ n = tool[r])
      BY <2>1, <2>2, <2>3, <3>2 DEF Noted
    <3>4. ToolResult(r)
      <4>1. pc[r] # "tools"
        BY <2>6 DEF Answering
      <4>2. QED BY <2>6, <4>1, ToolStep DEF ToolCall
    <3>5. QED BY <2>4, <3>3, <3>4, ToldStep, ToldIff
  <2>7. QED BY <1>5, <2>5, <2>6
<1>6. QED BY <1>2, <1>3, <1>4, <1>5, TurnStep

-----------------------------------------------------------------------------
(* The transcript. *)

\* The transcript is read and appended to in one place each.
LEMMA HistStep ==
  ASSUME TypeOK, NEW r \in Runs, Step(r)
  PROVE  /\ \/ AppendHistory(r)
            \/ hist' = hist /\ (pc[r] = "append" => pc'[r] \in {"append", "error"})
         /\ \/ ReadHistory(r)
            \/ base' = base /\ (pc[r] = "reading" => pc'[r] \in {"reading", "error"})
<1> USE DEF Goto, TypeOK
<1>1. CASE Locking(r) \/ Storing(r)
  BY <1>1 DEF Locking, Start, TakeLock, LockFails, Unlock, CloseOut, Storing, ReadHistory,
              AppendHistory, HistoryRefuses, Fail
<1>2. CASE Calling(r) \/ Streaming(r)
  BY <1>2 DEF Calling, BeginCall, StreamOpens, StreamRefused, Streaming, StreamDelta,
              StreamAccumulates, StreamCloses, StreamGivenUp
<1>3. CASE Looping(r) \/ Ending(r)
  BY <1>3 DEF Looping, AssistantTurn, ToolCall, ToolResult, Ending, EmitEnd, EmitError,
              ResolveReason, EmitErrEnd
<1>4. CASE Receive(r) \/ Clock(r)
  BY <1>4 DEF Receive, Clock, UserDone, RunTimeout, LLMCallTimeout
<1>5. QED BY <1>1, <1>2, <1>3, <1>4 DEF Step

\* Whether a run has committed only its append changes.
LEMMA CommitKept ==
  ASSUME TypeOK, NEW r \in Runs, Step(r), ~AppendHistory(r)
  PROVE  /\ hist' = hist /\ (Committed(r)' <=> Committed(r))
         /\ Committed(r) => pending'[r] = pending[r] /\ base'[r] = base[r]
         /\ pc[r] # "reading" => base'[r] = base[r]
<1>1. /\ hist' = hist /\ stored'[r] = stored[r] /\ stored[r] \in BOOLEAN
      /\ pc[r] = "append" => pc'[r] \in {"append", "error"}
      /\ pc[r] # "reading" => base'[r] = base[r]
  BY HistStep, TurnStep DEF TypeOK
<1>2. Committed(r) => pc[r] # "reading"
  BY DEF Committed, WellLeft, Ended
<1>3. CASE Keeping(r)
  <2>1. pending'[r] = pending[r] /\ WellLeft(r)' = WellLeft(r)
    BY <1>3, KeepingPhases DEF Keeping
  <2>2. pc'[r] = "append" => pc[r] = "append"
    BY <1>3 DEF Keeping, Rests, Moves, Early, Leaves, Failed, Ended
  <2>3. pc[r] = "append" => pc'[r] = "append"
    BY <1>1, <1>3 DEF Keeping, Rests, Moves, Early, Leaves, WellLeft, Failed, Ended
  <2>4. QED BY <1>1, <1>2, <2>1, <2>2, <2>3 DEF Committed
<1>4. CASE Failing(r) \/ Reading(r) \/ Beginning(r) \/ Accumulating(r)
  <2>1. ~Committed(r) /\ ~Committed(r)'
    BY <1>4 DEF Failing, Reading, Beginning, Accumulating, Committed, WellLeft, Ended
  <2>2. QED BY <1>1, <2>1
<1>5. CASE Replying(r) \/ Answering(r)
  <2>1. ~Committed(r) /\ ~Committed(r)'
    BY <1>1, <1>5 DEF Replying, Answering, AfterTool, AfterLoop, Committed, WellLeft, Ended
  <2>2. QED BY <1>1, <2>1
<1>6. QED BY <1>3, <1>4, <1>5, TurnStep

LEMMA NextHistInv ==
  ASSUME TypeOK, NoStaleAppend, NEW r \in Runs, Step(r), PendingInv(r), HistInv(r),
         NEW s \in Runs, HistInv(s)
  PROVE  HistInv(s)'
<1>1. /\ hist \in Seq(Log!Message) /\ Len(hist) \in Nat /\ base[s] \in Nat
      /\ pending[r] \in Seq(Log!Message) /\ Len(pending[r]) \in Nat
  <2>1. hist \in Seq(Log!Message) /\ base[s] \in Nat /\ pending[r] \in Seq(Log!Message)
    BY DEF TypeOK
  <2>2. QED BY <2>1
<1>2. CASE AppendHistory(r)
  <2>1. /\ pc[r] = "append" /\ pc'[r] = "end" /\ hist' = hist \o pending[r]
        /\ base' = base /\ pending' = pending /\ stored' = stored
    BY <1>2 DEF AppendHistory, Goto, TypeOK, turnVars
  <2>2. stored[r] /\ base[r] = Len(hist)
    BY <2>1 DEF PendingInv, NoStaleAppend, Phase, Read
  <2>3. /\ Len(hist') = Len(hist) + Len(pending[r])
        /\ \A j \in 1..Len(hist) : hist'[j] = hist[j]
        /\ \A i \in 1..Len(pending[r]) : hist'[Len(hist) + i] = pending[r][i]
    BY <1>1, <2>1
  <2>4. \A j \in 1..Len(hist') : j \in 1..Len(hist) \/ hist'[j].run = r
    <3>1. ASSUME NEW j \in 1..Len(hist'), j \notin 1..Len(hist)
          PROVE  hist'[j].run = r
      <4>1. PICK i \in 1..Len(pending[r]) : j = Len(hist) + i
        <5>1. j - Len(hist) \in 1..Len(pending[r]) /\ j = Len(hist) + (j - Len(hist))
          BY <1>1, <2>3, <3>1
        <5>2. QED BY <5>1
      <4>2. QED BY <2>3, <4>1 DEF PendingInv
    <3>2. QED BY <3>1
  <2>5. CASE s = r
    <3>1. Committed(r)' /\ ~Committed(r)
      BY <2>1, <2>2 DEF Committed, WellLeft
    <3>2. \A j \in 1..Len(hist) : hist'[j].run # r
      BY <2>3, <3>1 DEF HistInv
    <3>3. \A j \in 1..Len(hist') : hist'[j].run = r =>
            j > base[r] /\ j <= base[r] + Len(pending[r])
      <4>1. ASSUME NEW j \in 1..Len(hist'), hist'[j].run = r
            PROVE  j > base[r] /\ j <= base[r] + Len(pending[r])
        <5>1. j \notin 1..Len(hist)
          BY <3>2, <4>1
        <5>2. QED BY <1>1, <2>2, <2>3, <5>1
      <4>2. QED BY <4>1
    <3>4. base[r] <= Len(hist') /\ base[r] + Len(pending[r]) <= Len(hist')
      BY <1>1, <2>2, <2>3
    <3>5. QED BY <2>1, <2>2, <2>3, <2>5, <3>1, <3>3, <3>4 DEF HistInv
  <2>6. CASE s # r
    <3>1. Keeps(s)
      BY <2>6, OthersKeep
    <3>2. Committed(s)' = Committed(s)
      BY <3>1 DEF Keeps, Committed, WellLeft, Ended, EndReason
    <3>3. \A j \in 1..Len(hist') : hist'[j].run = s => j \in 1..Len(hist) /\ hist[j].run = s
      BY <2>3, <2>4, <2>6
    <3>4. Len(pending[s]) \in Nat
      <4>1. pending[s] \in Seq(Log!Message)
        BY DEF TypeOK
      <4>2. QED BY <4>1
    <3>5. base[s] <= Len(hist') /\ \A k \in Nat : base[s] + k <= Len(hist) => base[s] + k <= Len(hist')
      BY <1>1, <2>3 DEF HistInv
    <3>6. Committed(s) => \A i \in 1..Len(pending[s]) : hist'[base[s] + i] = pending[s][i]
      <4>1. ASSUME Committed(s), NEW i \in 1..Len(pending[s])
            PROVE  hist'[base[s] + i] = pending[s][i]
        <5>1. base[s] + i \in 1..Len(hist)
          BY <1>1, <3>4, <4>1 DEF HistInv
        <5>2. QED BY <2>3, <4>1, <5>1 DEF HistInv
      <4>2. QED BY <4>1
    <3>7. QED BY <2>1, <3>2, <3>3, <3>4, <3>5, <3>6 DEF HistInv
  <2>7. QED BY <2>5, <2>6
<1>3. CASE ~AppendHistory(r)
  <2>1. CASE s # r
    <3>1. Keeps(s) /\ hist' = hist
      BY <1>3, <2>1, OthersKeep, CommitKept
    <3>2. Committed(s)' = Committed(s)
      BY <3>1 DEF Keeps, Committed, WellLeft, Ended, EndReason
    <3>3. QED BY <3>1, <3>2 DEF HistInv, Keeps
  <2>2. CASE s = r /\ base'[r] = base[r]
    <3>1. /\ hist' = hist /\ (Committed(r)' <=> Committed(r))
          /\ Committed(r) => pending'[r] = pending[r]
      BY <1>3, CommitKept
    <3>2. QED BY <2>2, <3>1 DEF HistInv
  <2>3. CASE s = r /\ base'[r] # base[r]
    <3>1. /\ hist' = hist /\ ~Committed(r) /\ ~Committed(r)' /\ pc[r] = "reading"
      BY <1>3, <2>3, CommitKept
    <3>2. base'[r] = Len(hist)
      BY <2>3, HistStep DEF ReadHistory, TypeOK
    <3>3. QED BY <1>1, <2>3, <3>1, <3>2 DEF HistInv
  <2>4. QED BY <2>1, <2>2, <2>3
<1>4. QED BY <1>2, <1>3

-----------------------------------------------------------------------------
(* Every run keeps its invariants, whoever takes the step. *)

LEMMA InitTurnInv == Init => TurnInv
<1> SUFFICES ASSUME Init, NEW r \in Runs
             PROVE  OwnInv(r) /\ HistInv(r)
  BY DEF TurnInv, OwnInv
<1>1. /\ pc[r] = "idle" /\ runErr[r] = "nil" /\ callErr[r] = "nil" /\ savedErr[r] = "nil"
      /\ turn[r] = 0 /\ pending[r] = <<>> /\ out[r] = <<>> /\ hist = <<>> /\ base[r] = 0
  BY DEF Init
<1>2. /\ ~Ended(r) /\ ~WellLeft(r) /\ ~Failed(r) /\ ~Asking(r) /\ ~NoReply(r)
      /\ ~Committed(r) /\ pc[r] \notin Read
  BY <1>1 DEF Ended, WellLeft, Failed, Asking, NoReply, Committed, Read
<1>3. 1..Len(pending[r]) = {} /\ 1..Len(out[r]) = {} /\ 1..Len(hist) = {}
      /\ DOMAIN pending[r] = {}
  BY <1>1
<1>4. OutInv(r) /\ BlameInv(r) /\ PendingInv(r)
  BY <1>1, <1>2, <1>3 DEF OutInv, BlameInv, NotMadeUp, PendingInv
<1>5. AnswersInv(r) /\ LoopInv(r)
  BY <1>1, <1>2, <1>3 DEF AnswersInv, Log!AnswersCalled, LoopInv
<1>6. ResultsInv(r) /\ ToolsInv(r) /\ ToldInv(r) /\ HistInv(r)
  BY <1>1, <1>2, <1>3 DEF ResultsInv, ToolsInv, ToldInv, HistInv
<1>7. QED BY <1>4, <1>5, <1>6 DEF OwnInv

LEMMA NextTurnInv == TypeOK /\ NoStaleAppend /\ TurnInv /\ [Next]_vars => TurnInv'
<1> SUFFICES ASSUME TypeOK, NoStaleAppend, TurnInv, [Next]_vars, NEW s \in Runs
             PROVE  OwnInv(s)' /\ HistInv(s)'
  BY DEF TurnInv, OwnInv
<1>1. OwnInv(s) /\ HistInv(s)
  BY DEF TurnInv, OwnInv
<1>2. ASSUME NEW r \in Runs, Step(r)
      PROVE  OwnInv(s)' /\ HistInv(s)'
  <2>1. HistInv(s)'
    <3>1. PendingInv(r) /\ HistInv(r)
      BY DEF TurnInv
    <3>2. QED BY <1>1, <1>2, <3>1, NextHistInv
  <2>2. CASE s = r
    <3>1. /\ OutInv(r) /\ BlameInv(r) /\ PendingInv(r) /\ AnswersInv(r) /\ LoopInv(r)
          /\ ResultsInv(r) /\ ToolsInv(r) /\ ToldInv(r)
      BY DEF TurnInv
    <3>2. /\ OutInv(r)' /\ BlameInv(r)' /\ PendingInv(r)' /\ AnswersInv(r)' /\ LoopInv(r)'
          /\ ResultsInv(r)' /\ ToolsInv(r)' /\ ToldInv(r)'
      BY <1>2, <3>1, NextOutInv, NextBlameInv, NextPendingInv, NextAnswersInv, NextLoopInv,
         NextResultsInv, NextToolsInv, NextToldInv
    <3>3. QED BY <2>1, <2>2, <3>2 DEF OwnInv
  <2>3. CASE s # r
    BY <1>1, <1>2, <2>1, <2>3, OthersKeep, OwnInvKept
  <2>4. QED BY <2>2, <2>3
<1>3. CASE UNCHANGED vars
  <2>1. Keeps(s) /\ hist' = hist
    BY <1>3 DEF vars, ctxVars, turnVars, respVars, Keeps
  <2>2. Committed(s)' = Committed(s)
    BY <2>1 DEF Keeps, Committed, WellLeft, Ended, EndReason
  <2>3. HistInv(s)'
    BY <1>1, <2>1, <2>2 DEF HistInv, Keeps
  <2>4. QED BY <1>1, <2>1, <2>3, OwnInvKept
<1>4. QED BY <1>2, <1>3 DEF Next, Step

-----------------------------------------------------------------------------
(* What follows for a run that has ended. *)

LEMMA Recording ==
  ASSUME TypeOK, TurnInv, NEW r \in Runs, Ended(r)
  PROVE  /\ Recorded(r) => Committed(r)
         /\ Committed(r) <=> stored[r] /\ EndReason(r) \in Good
         /\ stored[r] /\ EndReason(r) \in Good => Recorded(r)
<1>1. hist \in Seq(Log!Message) /\ pending[r] \in Seq(Log!Message) /\ base[r] \in Nat
  BY DEF TypeOK
<1>2. DOMAIN hist = 1..Len(hist) /\ Len(hist) \in Nat /\ Len(pending[r]) \in Nat
  BY <1>1
<1>3. Recorded(r) => Committed(r)
  BY <1>2 DEF Recorded, TurnInv, HistInv
<1>4. Committed(r) <=> stored[r] /\ EndReason(r) \in Good
  BY DEF Committed, WellLeft, Ended
<1>5. Committed(r) => Recorded(r)
  <2>1. SUFFICES ASSUME Committed(r) PROVE Recorded(r)
    OBVIOUS
  <2>2. pending[r] # <<>>
    BY <2>1 DEF Committed, TurnInv, LoopInv
  <2>3. 1 \in 1..Len(pending[r])
    BY <1>1, <2>2
  <2>4. base[r] + 1 \in DOMAIN hist
    BY <1>1, <1>2, <2>1, <2>3 DEF TurnInv, HistInv
  <2>5. hist[base[r] + 1] = pending[r][1] /\ pending[r][1].run = r
    BY <2>1, <2>3 DEF TurnInv, HistInv, PendingInv
  <2>6. QED BY <2>4, <2>5 DEF Recorded
<1>6. QED BY <1>3, <1>4, <1>5

LEMMA TurnInvEnds == TypeOK /\ TurnInv => EndsOnceAndLast
<1> SUFFICES ASSUME TypeOK, TurnInv, NEW r \in Runs
             PROVE  /\ Ended(r) => out[r] # <<>> /\ out[r][Len(out[r])].kind = "end"
                    /\ \A i \in DOMAIN out[r] :
                         /\ out[r][i].kind = "end" => Ended(r) /\ i = Len(out[r])
                         /\ out[r][i].kind = "error" => i >= Len(out[r]) - 1
  BY DEF EndsOnceAndLast
<1>1. out[r] \in Seq(Event)
  BY DEF TypeOK
<1>2. DOMAIN out[r] = 1..Len(out[r]) /\ Len(out[r]) \in Nat
  BY <1>1
<1>3. OutInv(r)
  BY DEF TurnInv
<1>4. QED BY <1>2, <1>3 DEF OutInv

LEMMA TurnInvRecorded == TypeOK /\ TurnInv => RecordedIffGood
  BY Recording DEF RecordedIffGood, Good

LEMMA TurnInvTold == TypeOK /\ TurnInv => EventsTellTranscript
<1> SUFFICES ASSUME TypeOK, TurnInv, NEW r \in Runs, Ended(r)
             PROVE  (Recorded(r) => ToolsTold(r)) /\ ReasonFits(r)
  BY DEF EventsTellTranscript
<1> DEFINE P == Len(pending[r])
<1>1. /\ hist \in Seq(Log!Message) /\ pending[r] \in Seq(Log!Message) /\ out[r] \in Seq(Event)
      /\ base[r] \in Nat
  BY DEF TypeOK
<1>2. /\ DOMAIN hist = 1..Len(hist) /\ DOMAIN out[r] = 1..Len(out[r]) /\ DOMAIN pending[r] = 1..P
      /\ Len(hist) \in Nat /\ Len(out[r]) \in Nat /\ P \in Nat
  BY <1>1
<1>3. /\ LoopInv(r) /\ ResultsInv(r) /\ ToolsInv(r) /\ ToldInv(r) /\ HistInv(r)
  BY DEF TurnInv
<1>4. ASSUME Recorded(r)
      PROVE  ToolsTold(r)
  <2>1. Committed(r) /\ ~Failed(r)
    BY <1>4, Recording DEF Failed, Ended
  <2>2. base[r] + P <= Len(hist) /\ \A i \in 1..P : hist[base[r] + i] = pending[r][i]
    BY <1>3, <2>1 DEF HistInv
  <2>3. ASSUME NEW i \in ToolMessages(r)
        PROVE  /\ i - base[r] \in 1..P /\ hist[i] = pending[r][i - base[r]]
               /\ pending[r][i - base[r]].role = "tool" /\ i \in Nat
    <3>1. i \in 1..Len(hist) /\ hist[i].run = r /\ hist[i].role = "tool"
      BY <1>2 DEF ToolMessages
    <3>2. i > base[r] /\ i <= base[r] + P
      BY <1>3, <3>1 DEF HistInv
    <3>3. i - base[r] \in 1..P /\ i = base[r] + (i - base[r])
      BY <1>1, <1>2, <3>1, <3>2
    <3>4. QED BY <2>2, <3>1, <3>3
  <2>4. ASSUME NEW j \in 1..P, pending[r][j].role = "tool"
        PROVE  base[r] + j \in ToolMessages(r) /\ hist[base[r] + j] = pending[r][j]
    <3>1. base[r] + j \in DOMAIN hist
      BY <1>1, <1>2, <2>2
    <3>2. pending[r][j].run = r
      BY DEF TurnInv, PendingInv
    <3>3. QED BY <2>2, <2>4, <3>1, <3>2 DEF ToolMessages
  <2>5. ASSUME NEW i \in Results(r)
        PROVE  \E j \in ToolMessages(r) : hist[j].turn = out[r][i].turn /\ hist[j].n = out[r][i].n
    <3>1. i \in 1..Len(out[r]) /\ out[r][i].kind = "result"
      BY <1>2 DEF Results
    <3>2. PICK j \in 1..P : /\ pending[r][j].role = "tool"
                            /\ pending[r][j].turn = out[r][i].turn
                            /\ pending[r][j].n = out[r][i].n
      BY <1>3, <2>1, <3>1 DEF ToldInv
    <3>3. QED BY <2>4, <3>2
  <2>6. ASSUME NEW j \in ToolMessages(r)
        PROVE  \E i \in Results(r) : hist[j].turn = out[r][i].turn /\ hist[j].n = out[r][i].n
    <3>1. PICK k \in 1..P : hist[j] = pending[r][k] /\ pending[r][k].role = "tool"
      BY <2>3
    <3>2. PICK i \in 1..Len(out[r]) : /\ out[r][i].kind = "result"
                                      /\ out[r][i].turn = pending[r][k].turn
                                      /\ out[r][i].n = pending[r][k].n
      BY <1>3, <2>1, <3>1 DEF ToldInv
    <3>3. i \in Results(r)
      BY <1>2, <3>2 DEF Results
    <3>4. QED BY <3>1, <3>2, <3>3
  <2>7. {<<out[r][i].turn, out[r][i].n>> : i \in Results(r)}
          = {<<hist[i].turn, hist[i].n>> : i \in ToolMessages(r)}
    BY <2>5, <2>6
  <2>8. \A i, j \in Results(r) : i < j => Before(out[r][i], out[r][j])
    <3>1. SUFFICES ASSUME NEW i \in Results(r), NEW j \in Results(r), i < j
                   PROVE  Before(out[r][i], out[r][j])
      OBVIOUS
    <3>2. /\ j \in 1..Len(out[r]) /\ out[r][j].kind = "result" /\ out[r][i].kind = "result"
          /\ i \in 1..(j - 1)
      BY <1>2, <3>1 DEF Results
    <3>3. QED BY <1>3, <3>2 DEF ResultsInv
  <2>9. \A i, j \in ToolMessages(r) : i < j => Before(hist[i], hist[j])
    <3>1. SUFFICES ASSUME NEW i \in ToolMessages(r), NEW j \in ToolMessages(r), i < j
                   PROVE  Before(hist[i], hist[j])
      OBVIOUS
    <3>2. /\ j - base[r] \in 1..P /\ hist[j] = pending[r][j - base[r]]
          /\ pending[r][j - base[r]].role = "tool" /\ j \in Nat
      BY <2>3
    <3>3. /\ i - base[r] \in 1..P /\ hist[i] = pending[r][i - base[r]]
          /\ pending[r][i - base[r]].role = "tool" /\ i \in Nat
      BY <2>3
    <3>4. i - base[r] \in 1..((j - base[r]) - 1)
      BY <1>1, <1>2, <3>1, <3>2, <3>3
    <3>5. QED BY <1>3, <3>2, <3>3, <3>4 DEF ToolsInv
  <2>10. \A i \in Results(r) : i > 1 /\ out[r][i - 1] = Ev("call", out[r][i].turn, out[r][i].n)
    BY <1>2, <1>3 DEF Results, ResultsInv
  <2>11. QED BY <2>7, <2>8, <2>9, <2>10 DEF ToolsTold
<1>5. ReasonFits(r)
  <2>1. EndReason(r) = "stop" => WellLeft(r) /\ calls[r] = 0
    BY <1>3 DEF WellLeft, Good, LoopInv
  <2>2. EndReason(r) = "max_turns" =>
          /\ WellLeft(r) /\ ~Failed(r) /\ calls[r] # 0 /\ ~NoReply(r)
    BY <1>3 DEF WellLeft, Failed, Good, LoopInv, NoReply, Ended
  <2>3. ASSUME EndReason(r) = "max_turns", NEW t \in 1..MaxTurns
        PROVE  \E i \in DOMAIN pending[r] :
                 LET m == pending[r][i] IN m.role = "assistant" /\ m.turn = t /\ m.n > 0
    <3>1. t \in 1..turn[r]
      BY <1>3, <2>2, <2>3 DEF LoopInv
    <3>2. Called(r, t)
      BY <1>3, <2>2, <2>3, <3>1 DEF LoopInv
    <3>3. QED BY <1>2, <3>2 DEF Called
  <2>4. QED BY <1>3, <2>1, <2>2, <2>3 DEF ReasonFits, LoopInv
<1>6. QED BY <1>4, <1>5

\* Every run reports one end, last, and an error only right before it
\* (run.go:19, 264-270).
THEOREM EndIsLast == Spec => []EndsOnceAndLast
  BY InitTypeOK, NextTypeOK, InitLockInv, NextLockInv, InitNoStaleAppend, NextNoStaleAppend,
     InitTurnInv, NextTurnInv, TurnInvEnds, PTL DEF Spec

\* A finished run has its turn in the transcript exactly if it ended in good order
\* (run.go:21-22).
THEOREM GoodRunsAreRecorded == Spec => []RecordedIffGood
  BY InitTypeOK, NextTypeOK, InitLockInv, NextLockInv, InitNoStaleAppend, NextNoStaleAppend,
     InitTurnInv, NextTurnInv, TurnInvRecorded, PTL DEF Spec

\* A failure is blamed on the context that was over when the reason was asked
\* for, the caller's first, and on no other; what ends while the last send waits
\* changes nothing (run.go:264-295).
THEOREM BlameIsRight == Spec => FailureIsBlamedOnContext
<1> SUFFICES ASSUME NEW r \in Runs
             PROVE  Spec => /\ [](Unresolved(r) /\ runErr[r] # "nil" => []NotPlain(r))
                            /\ [](Unresolved(r) /\ userErr[r] = "canceled" => []NotTimeout(r))
                            /\ []NotMadeUp(r)
  BY DEF FailureIsBlamedOnContext
<1>1. Spec => []TypeOK /\ []TurnInv
  BY InitTypeOK, NextTypeOK, InitLockInv, NextLockInv, InitNoStaleAppend, NextNoStaleAppend,
     InitTurnInv, NextTurnInv, PTL DEF Spec
<1>2. QED BY <1>1, NextSettled, Settles, PTL DEF Spec

\* What the consumer was told of tools is what the transcript says, and the reason
\* of the end fits it (run.go:124, 172, 184-203).
THEOREM ConsumerIsToldTheTurn == Spec => []EventsTellTranscript
  BY InitTypeOK, NextTypeOK, InitLockInv, NextLockInv, InitNoStaleAppend, NextNoStaleAppend,
     InitTurnInv, NextTurnInv, TurnInvTold, PTL DEF Spec

-----------------------------------------------------------------------------
(***************************************************************************)
(* The runs implement TurnLog: reading the transcript is its Read, the     *)
(* append its Commit, a failure its Abort, and whatever else a stored run  *)
(* does a stutter, as is everything a run does that is not stored.         *)
(***************************************************************************)
LogVars == <<hist, [r \in Runs |-> Phase(r)], base>>

\* Only a whole turn is ever appended.
LEMMA AppendsWholeTurn ==
  ASSUME TypeOK, TurnInv, NEW r \in Runs, pc[r] = "append"
  PROVE  Log!WholeTurn(r, pending[r])
<1>1. pending[r] \in Seq(Log!Message)
  BY DEF TypeOK
<1>2. DOMAIN pending[r] = 1..Len(pending[r]) /\ Len(pending[r]) \in Nat
  BY <1>1
<1>3. stored[r] /\ WellLeft(r) /\ ~Asking(r)
  BY DEF TurnInv, PendingInv, WellLeft, Asking
<1>4. pending[r] # <<>> /\ pending[r][1].role = "user"
  BY <1>3 DEF TurnInv, PendingInv
<1>5. pending[r][Len(pending[r])].role \in {"assistant", "tool"}
  BY <1>3 DEF TurnInv, LoopInv, LastMsg
<1>6. Len(pending[r]) >= 2
  BY <1>1, <1>2, <1>4, <1>5
<1>7. \A i \in DOMAIN pending[r] : /\ pending[r][i].run = r
                                   /\ pending[r][i].role = "user" => i = 1
  BY <1>2 DEF TurnInv, PendingInv
<1>8. Log!CallsAnswered(pending[r]) /\ Log!AnswersCalled(pending[r])
  BY <1>2, <1>3 DEF TurnInv, AnswersInv, Log!CallsAnswered
<1>9. QED BY <1>4, <1>6, <1>7, <1>8 DEF Log!WholeTurn

LEMMA ReadRefines ==
  ASSUME TypeOK, TurnInv, NEW r \in Runs, ReadHistory(r)
  PROVE  Log!Read(r)
<1>1. stored[r] /\ pc[r] = "reading" /\ stored' = stored /\ pc' = [pc EXCEPT ![r] = "calling"]
  BY DEF ReadHistory, Goto, TurnInv, PendingInv
<1>2. /\ Phase(r) = "unread" /\ Phase(r)' = "read"
      /\ \A s \in Runs \ {r} : Phase(s)' = Phase(s)
  BY <1>1 DEF Phase, Read, TypeOK
<1>3. [s \in Runs |-> Phase(s)]' = [[s \in Runs |-> Phase(s)] EXCEPT ![r] = "read"]
  BY <1>2
<1>4. QED BY <1>2, <1>3 DEF ReadHistory, Log!Read

LEMMA AppendRefines ==
  ASSUME TypeOK, NoStaleAppend, TurnInv, NEW r \in Runs, AppendHistory(r)
  PROVE  Log!Commit(r)
<1>1. /\ stored[r] /\ pc[r] = "append" /\ stored' = stored /\ pc' = [pc EXCEPT ![r] = "end"]
      /\ hist' = hist \o pending[r] /\ base' = base
  BY DEF AppendHistory, Goto, TurnInv, PendingInv
<1>2. /\ Phase(r) = "read" /\ Phase(r)' = "over"
      /\ \A s \in Runs \ {r} : Phase(s)' = Phase(s)
  BY <1>1 DEF Phase, Read, TypeOK
<1>3. [s \in Runs |-> Phase(s)]' = [[s \in Runs |-> Phase(s)] EXCEPT ![r] = "over"]
  BY <1>2
<1>4. base[r] = Len(hist)
  BY <1>2 DEF NoStaleAppend
<1>5. SubSeq(hist', Len(hist) + 1, Len(hist')) = pending[r]
  <2>1. hist \in Seq(Log!Message) /\ pending[r] \in Seq(Log!Message)
    BY DEF TypeOK
  <2>2. Len(hist') = Len(hist) + Len(pending[r]) /\ Len(hist) \in Nat /\ Len(pending[r]) \in Nat
    BY <1>1, <2>1
  <2>3. SubSeq(hist', Len(hist) + 1, Len(hist'))
          = SubSeq(pending[r], Len(hist) + 1 - Len(hist), Len(hist') - Len(hist))
    BY <1>1, <2>1, <2>2, SubSeqOfConcat2
  <2>4. Len(hist) + 1 - Len(hist) = 1 /\ Len(hist') - Len(hist) = Len(pending[r])
    BY <2>2
  <2>5. QED BY <2>1, <2>3, <2>4, SubSeqFull
<1>6. Log!WholeTurn(r, pending[r])
  BY <1>1, AppendsWholeTurn
<1>7. QED BY <1>1, <1>2, <1>3, <1>4, <1>5, <1>6 DEF Log!Commit

LEMMA OtherStepsRefine ==
  ASSUME TypeOK, TurnInv, NEW r \in Runs, Step(r), ~ReadHistory(r), ~AppendHistory(r)
  PROVE  Log!Abort(r) \/ UNCHANGED LogVars
<1>1. /\ hist' = hist /\ base' = base /\ stored'[r] = stored[r]
      /\ pc[r] = "append" => pc'[r] \in {"append", "error"}
      /\ pc[r] = "reading" => pc'[r] \in {"reading", "error"}
  BY HistStep, TurnStep
<1>2. \A s \in Runs \ {r} : Phase(s)' = Phase(s)
  BY OthersKeep DEF Keeps, Phase
<1>3. Phase(r)' = Phase(r) \/ (Phase(r) # "over" /\ Phase(r)' = "over")
  <2>1. CASE ~stored[r]
    BY <1>1, <2>1 DEF Phase
  <2>2. CASE Keeping(r)
    BY <1>1, <2>2 DEF Keeping, Rests, Moves, Early, Leaves, WellLeft, Failed, Ended, Phase, Read
  <2>3. CASE Failing(r) \/ Reading(r) \/ Beginning(r) \/ Accumulating(r)
    BY <1>1, <2>3 DEF Failing, Reading, Beginning, Accumulating, Phase, Read
  <2>4. CASE stored[r] /\ (Replying(r) \/ Answering(r))
    BY <1>1, <2>4 DEF Replying, Answering, AfterTool, AfterLoop, Phase, Read
  <2>5. QED BY <2>1, <2>2, <2>3, <2>4, TurnStep DEF TypeOK
<1>4. CASE Phase(r)' = Phase(r)
  <2>1. [s \in Runs |-> Phase(s)]' = [s \in Runs |-> Phase(s)]
    BY <1>2, <1>4
  <2>2. QED BY <1>1, <2>1 DEF LogVars
<1>5. CASE Phase(r) # "over" /\ Phase(r)' = "over"
  <2>1. [s \in Runs |-> Phase(s)]' = [[s \in Runs |-> Phase(s)] EXCEPT ![r] = "over"]
    BY <1>2, <1>5
  <2>2. QED BY <1>1, <1>5, <2>1 DEF Log!Abort
<1>6. QED BY <1>3, <1>4, <1>5

LEMMA InitRefines == Init => Log!Init
  BY DEF Init, Log!Init, Phase

LEMMA NextRefines ==
  TypeOK /\ NoStaleAppend /\ TurnInv /\ [Next]_vars => [Log!Next]_LogVars
<1> SUFFICES ASSUME TypeOK, NoStaleAppend, TurnInv, [Next]_vars
             PROVE  Log!Next \/ UNCHANGED LogVars
  OBVIOUS
<1>1. ASSUME NEW r \in Runs, Step(r)
      PROVE  Log!Next \/ UNCHANGED LogVars
  BY <1>1, ReadRefines, AppendRefines, OtherStepsRefine DEF Log!Next
<1>2. CASE UNCHANGED vars
  BY <1>2 DEF vars, LogVars, Phase
<1>3. QED BY <1>1, <1>2 DEF Next, Step

\* The runs of a session behave as if each read the transcript and appended a whole
\* turn to it in one go (run.go:74-211): they implement TurnLog.
THEOREM RunsImplementTurnLog == Spec => RunsAreSerial
  BY InitTypeOK, NextTypeOK, InitLockInv, NextLockInv, InitNoStaleAppend, NextNoStaleAppend,
     InitTurnInv, NextTurnInv, InitRefines, NextRefines, PTL
  DEF Spec, RunsAreSerial, Log!Spec, LogVars

-----------------------------------------------------------------------------
(***************************************************************************)
(* What Drain makes of the events.  First of any sequence of events that   *)
(* is Paired: an induction over its length, with Draining as what holds    *)
(* after each event; then every run that has closed its channel has sent   *)
(* such a sequence.                                                        *)
(***************************************************************************)
\* A sequence of events in which every call is answered by the next event, every
\* answer is one, and the end is last.
Paired(es) ==
  \A i \in 1..Len(es) :
    /\ es[i].kind = "call" => /\ i < Len(es) /\ es[i + 1].kind = "result"
                              /\ CallOf(es[i + 1]) = CallOf(es[i])
    /\ es[i].kind = "result" => i > 1 /\ es[i - 1].kind = "call"
    /\ es[i].kind = "end" <=> i = Len(es)

Msg == [role : {"assistant", "tool"}, text : Seq(Nat), calls : Seq(Nat), answers : Seq(Nat)]
Acc == [msgs : Seq(Msg), text : Seq(Nat), calls : Seq(Nat), answers : Seq(Nat), failed : BOOLEAN]

TextOf(ms) == [i \in DOMAIN ms |-> ms[i].text]
CallsOf(ms) == [i \in DOMAIN ms |-> ms[i].calls]
AnswersOf(ms) == [i \in DOMAIN ms |-> ms[i].answers]
NoneEmpty(ms) ==
  \A i \in DOMAIN ms : ms[i].role = "assistant" => ms[i].text # <<>> \/ ms[i].calls # <<>>

\* The places of a kind among the first n events.
Places(es, n, kind) == {p \in 1..n : es[p].kind = kind}

\* The parts and what is still open behind them hold the places K, in order.
Kept(parts, open, K) ==
  /\ \A p : p \in K <=> \/ \E i \in DOMAIN parts : \E k \in DOMAIN parts[i] : parts[i][k] = p
                        \/ \E k \in DOMAIN open : open[k] = p
  /\ \A i, j \in DOMAIN parts : \A k \in DOMAIN parts[i], l \in DOMAIN parts[j] :
       i < j \/ (i = j /\ k < l) => parts[i][k] < parts[j][l]
  /\ \A k, l \in DOMAIN open : k < l => open[k] < open[l]
  /\ \A i \in DOMAIN parts : \A k \in DOMAIN parts[i], l \in DOMAIN open : parts[i][k] < open[l]

LEMMA KeptMore ==
  ASSUME NEW parts, NEW open \in Seq(Nat), NEW K, Kept(parts, open, K),
         NEW n \in Nat, \A p \in K : p < n
  PROVE  Kept(parts, Append(open, n), K \cup {n})
<1> DEFINE q == Append(open, n)
<1>1. /\ DOMAIN open = 1..Len(open) /\ Len(open) \in Nat /\ DOMAIN q = 1..(Len(open) + 1)
      /\ \A k \in 1..Len(open) : q[k] = open[k]
      /\ q[Len(open) + 1] = n
  OBVIOUS
<1> HIDE DEF q
<1>2. ASSUME NEW p
      PROVE  (\E k \in DOMAIN q : q[k] = p) <=> p = n \/ \E k \in DOMAIN open : open[k] = p
  BY <1>1
<1>3. \A k \in DOMAIN open : open[k] < n
  BY DEF Kept
<1>4. \A i \in DOMAIN parts : \A k \in DOMAIN parts[i] : parts[i][k] < n
  BY DEF Kept
<1>5. \A k, l \in DOMAIN q : k < l => q[k] < q[l]
  BY <1>1, <1>3 DEF Kept
<1>6. \A i \in DOMAIN parts : \A k \in DOMAIN parts[i], l \in DOMAIN q : parts[i][k] < q[l]
  BY <1>1, <1>4 DEF Kept
<1>7. Kept(parts, q, K \cup {n})
  BY <1>2, <1>5, <1>6 DEF Kept
<1> QED
  BY <1>7 DEF q

\* What is open becomes a part of its own, with empty ones behind it.
LEMMA KeptAsOne ==
  ASSUME NEW parts, NEW open \in Seq(Nat), NEW K, Kept(parts, open, K),
         NEW m \in Nat, DOMAIN parts = 1..m, NEW new, NEW l \in Nat, DOMAIN new = 1..l, m <= l,
         \A i \in 1..m : new[i] = parts[i],
         \A i \in (m + 1)..l : new[i] = IF i = m + 1 THEN open ELSE <<>>,
         m < l \/ open = <<>>
  PROVE  Kept(new, <<>>, K)
<1>1. \A i \in 1..l : \/ i \in 1..m /\ new[i] = parts[i]
                      \/ i = m + 1 /\ i > m /\ new[i] = open
                      \/ i > m + 1 /\ new[i] = <<>>
  OBVIOUS
<1>2. DOMAIN <<>> = {}
  OBVIOUS
<1>3. ASSUME NEW p
      PROVE  (\E i \in DOMAIN new : \E k \in DOMAIN new[i] : new[i][k] = p)
               <=> \/ \E i \in DOMAIN parts : \E k \in DOMAIN parts[i] : parts[i][k] = p
                   \/ \E k \in DOMAIN open : open[k] = p
  <2>1. ASSUME NEW i \in DOMAIN new, NEW k \in DOMAIN new[i], new[i][k] = p
        PROVE  \/ \E j \in DOMAIN parts : \E h \in DOMAIN parts[j] : parts[j][h] = p
               \/ \E h \in DOMAIN open : open[h] = p
    BY <1>1, <1>2, <2>1
  <2>2. ASSUME NEW i \in DOMAIN parts, NEW k \in DOMAIN parts[i], parts[i][k] = p
        PROVE  \E j \in DOMAIN new : \E h \in DOMAIN new[j] : new[j][h] = p
    BY <2>2
  <2>3. ASSUME NEW k \in DOMAIN open, open[k] = p
        PROVE  \E j \in DOMAIN new : \E h \in DOMAIN new[j] : new[j][h] = p
    <3>1. m < l
      BY <1>2, <2>3
    <3>2. m + 1 \in DOMAIN new /\ new[m + 1] = open
      BY <3>1
    <3> QED
      BY <2>3, <3>2
  <2> QED
    BY <2>1, <2>2, <2>3
<1>4. ASSUME NEW i \in DOMAIN new, NEW j \in DOMAIN new, NEW k \in DOMAIN new[i],
             NEW h \in DOMAIN new[j], i < j \/ (i = j /\ k < h)
      PROVE  new[i][k] < new[j][h]
  <2>1. CASE i \in 1..m /\ j \in 1..m
    BY <1>4, <2>1 DEF Kept
  <2>2. CASE i \in 1..m /\ j = m + 1
    BY <1>1, <1>4, <2>2 DEF Kept
  <2>3. CASE i = m + 1 /\ j = m + 1
    BY <1>1, <1>4, <2>3 DEF Kept
  <2> QED
    BY <1>1, <1>2, <1>4, <2>1, <2>2, <2>3
<1> QED
  BY <1>2, <1>3, <1>4 DEF Kept

\* What is open becomes a part for each of its places, behind empty ones.
LEMMA KeptAsMany ==
  ASSUME NEW parts, NEW open \in Seq(Nat), NEW K, Kept(parts, open, K),
         NEW m \in Nat, DOMAIN parts = 1..m, NEW new, NEW c \in Nat, m <= c,
         DOMAIN new = 1..(c + Len(open)),
         \A i \in 1..m : new[i] = parts[i],
         \A i \in (m + 1)..c : new[i] = <<>>,
         \A k \in 1..Len(open) : new[c + k] = <<open[k]>>
  PROVE  Kept(new, <<>>, K)
<1>1. Len(open) \in Nat /\ DOMAIN open = 1..Len(open) /\ DOMAIN <<>> = {}
  OBVIOUS
<1>2. ASSUME NEW i \in DOMAIN new
      PROVE  \/ i \in 1..m /\ new[i] = parts[i]
             \/ i \in (m + 1)..c /\ new[i] = <<>>
             \/ i > c /\ i - c \in DOMAIN open /\ new[i] = <<open[i - c]>>
  <2>1. CASE i > c
    <3>1. i - c \in 1..Len(open) /\ i = c + (i - c)
      BY <1>1, <2>1
    <3> QED
      BY <1>1, <2>1, <3>1
  <2> QED
    BY <1>1, <2>1
<1>3. \A x : DOMAIN <<x>> = {1} /\ <<x>>[1] = x
  OBVIOUS
<1>4. ASSUME NEW p
      PROVE  (\E i \in DOMAIN new : \E k \in DOMAIN new[i] : new[i][k] = p)
               <=> \/ \E i \in DOMAIN parts : \E k \in DOMAIN parts[i] : parts[i][k] = p
                   \/ \E k \in DOMAIN open : open[k] = p
  <2>1. ASSUME NEW i \in DOMAIN new, NEW k \in DOMAIN new[i], new[i][k] = p
        PROVE  \/ \E j \in DOMAIN parts : \E h \in DOMAIN parts[j] : parts[j][h] = p
               \/ \E h \in DOMAIN open : open[h] = p
    BY <1>1, <1>2, <1>3, <2>1
  <2>2. ASSUME NEW i \in DOMAIN parts, NEW k \in DOMAIN parts[i], parts[i][k] = p
        PROVE  \E j \in DOMAIN new : \E h \in DOMAIN new[j] : new[j][h] = p
    BY <1>1, <2>2
  <2>3. ASSUME NEW k \in DOMAIN open, open[k] = p
        PROVE  \E j \in DOMAIN new : \E h \in DOMAIN new[j] : new[j][h] = p
    <3>1. c + k \in DOMAIN new /\ new[c + k] = <<open[k]>>
      BY <1>1
    <3> QED
      BY <1>3, <2>3, <3>1
  <2> QED
    BY <2>1, <2>2, <2>3
<1>5. ASSUME NEW i \in DOMAIN new, NEW j \in DOMAIN new, NEW k \in DOMAIN new[i],
             NEW h \in DOMAIN new[j], i < j \/ (i = j /\ k < h)
      PROVE  new[i][k] < new[j][h]
  <2>1. CASE i \in 1..m /\ j \in 1..m
    BY <1>5, <2>1 DEF Kept
  <2>2. CASE i \in 1..m /\ j > c
    <3>1. new[j] = <<open[j - c]>> /\ j - c \in DOMAIN open /\ h = 1
      BY <1>2, <1>3, <2>2
    <3> QED
      BY <1>3, <1>5, <2>2, <3>1 DEF Kept
  <2>3. CASE i > c /\ j > c
    <3>1. /\ new[j] = <<open[j - c]>> /\ j - c \in DOMAIN open /\ h = 1
          /\ new[i] = <<open[i - c]>> /\ i - c \in DOMAIN open /\ k = 1
      BY <1>2, <1>3, <2>3
    <3>2. i - c < j - c
      BY <1>1, <1>5, <3>1
    <3> QED
      BY <1>3, <3>1, <3>2 DEF Kept
  <2> QED
    BY <1>1, <1>2, <1>5, <2>1, <2>2, <2>3
<1> QED
  BY <1>1, <1>4, <1>5 DEF Kept

\* Where the elements of two sequences put together come to stand.
LEMMA Joined ==
  ASSUME NEW S, NEW s \in Seq(S), NEW t \in Seq(S)
  PROVE  /\ s \o t \in Seq(S) /\ Len(s \o t) = Len(s) + Len(t) /\ Len(s) \in Nat /\ Len(t) \in Nat
         /\ \A i \in 1..Len(s) : (s \o t)[i] = s[i]
         /\ \A k \in 1..Len(t) : (s \o t)[Len(s) + k] = t[k]
<1>1. /\ s \o t \in Seq(S) /\ Len(s \o t) = Len(s) + Len(t) /\ Len(s) \in Nat /\ Len(t) \in Nat
      /\ \A i \in 1..(Len(s) + Len(t)) : (s \o t)[i] = IF i <= Len(s) THEN s[i] ELSE t[i - Len(s)]
  OBVIOUS
<1>2. \A k \in 1..Len(t) : /\ Len(s) + k \in 1..(Len(s) + Len(t)) /\ ~(Len(s) + k <= Len(s))
                           /\ (Len(s) + k) - Len(s) = k
  BY <1>1
<1> QED
  BY <1>1, <1>2

\* Sums of places.
LEMMA Sums ==
  ASSUME NEW m \in Nat, NEW d \in Nat, NEW n \in Nat
  PROVE  /\ m + (d + n) = m + d + n /\ d + n \in Nat
         /\ \A k \in 1..n : d + k \in 1..(d + n) /\ m + (d + k) = m + d + k
OBVIOUS

\* The messages a flush adds, and where they come to stand.
LEMMA FlushAdds ==
  ASSUME NEW a \in Acc
  PROVE  \E d \in {0, 1} :
           LET m == Len(a.msgs)
               new == Flush(a).msgs
           IN  /\ new \in Seq(Msg) /\ m \in Nat /\ Len(new) = m + d + Len(a.answers)
               /\ \A i \in 1..m : new[i] = a.msgs[i]
               /\ d = 0 => a.text = <<>> /\ a.calls = <<>>
               /\ d = 1 => (a.text # <<>> \/ a.calls # <<>>)
               /\ d = 1 => new[m + 1] = Assistant(a.text, a.calls)
               /\ \A k \in 1..Len(a.answers) : new[m + d + k] = Tool(a.answers[k])
<1> DEFINE m == Len(a.msgs)
           s == a.answers
           n == Len(s)
           e == a.text = <<>> /\ a.calls = <<>>
           d == IF e THEN 0 ELSE 1
           head == IF e THEN <<>> ELSE <<Assistant(a.text, a.calls)>>
           tail == [k \in DOMAIN s |-> Tool(s[k])]
           new == a.msgs \o (head \o tail)
<1>1. /\ a.msgs \in Seq(Msg) /\ s \in Seq(Nat) /\ a.text \in Seq(Nat) /\ a.calls \in Seq(Nat)
      /\ DOMAIN s = 1..n /\ m = Len(a.msgs) /\ n = Len(s)
  BY DEF Acc
<1>0. m \in Nat /\ n \in Nat /\ d \in {0, 1} /\ d \in Nat
  BY DEF Acc
<1>2. Flush(a).msgs = new
  BY DEF Flush, Gathered, Acc
<1>3. Assistant(a.text, a.calls) \in Msg /\ \A k \in 1..n : Tool(s[k]) \in Msg
  BY <1>1 DEF Assistant, Tool, Msg
<1>4. tail \in Seq(Msg) /\ Len(tail) = n /\ \A k \in 1..n : tail[k] = Tool(s[k])
  <2>1. tail \in [1..n -> Msg]
    BY <1>0, <1>1, <1>3
  <2>2. tail \in Seq(Msg)
    BY <1>0, <1>1, <2>1, SeqDef
  <2> QED
    BY <1>0, <1>1, <2>1, <2>2
<1>5. head \in Seq(Msg) /\ Len(head) = d /\ (d = 1 => head[1] = Assistant(a.text, a.calls))
  BY <1>3
<1> HIDE DEF tail, head, d, m, n
<1> DEFINE g == head \o tail
<1>6. /\ g \in Seq(Msg) /\ Len(g) = d + n
      /\ \A i \in 1..d : g[i] = head[i]
      /\ \A k \in 1..n : g[d + k] = tail[k]
  <2>1. head \in Seq(Msg) /\ tail \in Seq(Msg)
    BY <1>4, <1>5
  <2>2. Len(head) = d /\ Len(tail) = n
    BY <1>4, <1>5
  <2>3. /\ g \in Seq(Msg) /\ Len(g) = Len(head) + Len(tail)
        /\ \A i \in 1..Len(head) : g[i] = head[i]
        /\ \A k \in 1..Len(tail) : g[Len(head) + k] = tail[k]
    BY <2>1, Joined
  <2> QED
    BY <2>2, <2>3
<1>7. d = 1 => g[1] = Assistant(a.text, a.calls)
  BY <1>5, <1>6
<1>8. new = a.msgs \o g
  OBVIOUS
<1> HIDE DEF g, new
<1>9. /\ new \in Seq(Msg) /\ Len(new) = m + (d + n)
      /\ \A i \in 1..m : new[i] = a.msgs[i]
      /\ \A k \in 1..(d + n) : new[m + k] = g[k]
  <2>1. PICK f \in Seq(Msg) : f = a.msgs
    BY <1>1
  <2>2. g \in Seq(Msg) /\ Len(f) = m /\ Len(g) = d + n /\ new = f \o g
    BY <1>1, <1>6, <1>8, <2>1
  <2>3. f \o g \in Seq(Msg) /\ Len(f \o g) = Len(f) + Len(g)
    BY <2>2, Joined
  <2>4. \A i \in 1..Len(f) : (f \o g)[i] = f[i]
    BY <2>2, Joined
  <2>5. \A k \in 1..Len(g) : (f \o g)[Len(f) + k] = g[k]
    BY <2>2, Joined
  <2> QED
    BY <2>1, <2>2, <2>3, <2>4, <2>5
<1>10. \A k \in 1..n : d + k \in 1..(d + n) /\ m + (d + k) = m + d + k
  BY <1>0, Sums
<1>11. \A k \in 1..n : new[m + d + k] = Tool(s[k])
  <2> SUFFICES ASSUME NEW k \in 1..n PROVE new[m + d + k] = Tool(s[k])
    OBVIOUS
  <2>1. new[m + (d + k)] = g[d + k]
    BY <1>9, <1>10
  <2>2. g[d + k] = Tool(s[k])
    BY <1>4, <1>6
  <2> QED
    BY <1>10, <2>1, <2>2
<1>12. d = 1 => new[m + 1] = Assistant(a.text, a.calls)
  <2> SUFFICES ASSUME d = 1 PROVE new[m + 1] = g[1]
    BY <1>7
  <2>1. 1 \in 1..(d + n)
    BY <1>0, <1>1
  <2> QED
    BY <1>9, <2>1
<1>13. Len(new) = m + d + n
  <2>1. m + (d + n) = m + d + n
    BY <1>0, Sums
  <2> QED
    BY <1>9, <2>1
<1>14. /\ d = 0 => a.text = <<>> /\ a.calls = <<>>
       /\ d = 1 => (a.text # <<>> \/ a.calls # <<>>)
  BY DEF d
<1> QED
  BY <1>0, <1>1, <1>2, <1>9, <1>11, <1>12, <1>13, <1>14

\* The calls not flushed yet are answered in order, but for the one told last.
Asked(a, es, n) ==
  /\ \A k \in 1..Len(a.answers) : k <= Len(a.calls) /\ a.answers[k] = a.calls[k] + 1
  /\ IF n > 0 /\ es[n].kind = "call"
       THEN Len(a.calls) = Len(a.answers) + 1 /\ a.calls[Len(a.calls)] = n
       ELSE Len(a.calls) = Len(a.answers)

\* What Drain has made of the first n events.
Draining(a, es, n) ==
  /\ a \in Acc
  /\ Kept(TextOf(a.msgs), a.text, Places(es, n, "delta"))
  /\ Kept(CallsOf(a.msgs), a.calls, Places(es, n, "call"))
  /\ Kept(AnswersOf(a.msgs), a.answers, Places(es, n, "result"))
  /\ Answered(a.msgs, es)
  /\ NoneEmpty(a.msgs)
  /\ Asked(a, es, n)

LEMMA FlushStep ==
  ASSUME NEW es, Len(es) \in Nat, Paired(es), NEW n \in Nat, n <= Len(es),
         NEW a, Draining(a, es, n), ~(n > 0 /\ es[n].kind = "call")
  PROVE  /\ Draining(Flush(a), es, n)
         /\ Flush(a).text = <<>> /\ Flush(a).calls = <<>> /\ Flush(a).answers = <<>>
<1>1. /\ a \in Acc /\ a.text \in Seq(Nat) /\ a.calls \in Seq(Nat) /\ a.answers \in Seq(Nat)
      /\ a.msgs \in Seq(Msg) /\ Len(a.answers) \in Nat /\ Len(a.calls) = Len(a.answers)
  BY DEF Draining, Acc, Asked
<1> DEFINE new == Flush(a).msgs
<1>2. PICK m \in Nat, q \in Nat, d \in {0, 1} :
           /\ m = Len(a.msgs) /\ q = Len(a.answers)
           /\ new \in Seq(Msg) /\ Len(new) = m + d + q
           /\ \A i \in 1..m : new[i] = a.msgs[i]
           /\ d = 0 => a.text = <<>> /\ a.calls = <<>>
           /\ d = 1 => (a.text # <<>> \/ a.calls # <<>>)
           /\ d = 1 => new[m + 1] = Assistant(a.text, a.calls)
           /\ \A k \in 1..q : new[m + d + k] = Tool(a.answers[k])
  BY <1>1, FlushAdds
<1>3. /\ Flush(a) \in Acc /\ Flush(a).text = <<>> /\ Flush(a).calls = <<>> /\ Flush(a).answers = <<>>
  <2>1. Flush(a) = [a EXCEPT !.msgs = new, !.text = <<>>, !.calls = <<>>, !.answers = <<>>]
    BY <1>1 DEF Flush, Acc
  <2>2. <<>> \in Seq(Nat)
    OBVIOUS
  <2> HIDE DEF new
  <2> QED
    BY <1>1, <1>2, <2>1, <2>2 DEF Acc
<1> HIDE DEF new
<1> DEFINE l == m + d + q
<1>17. Len(a.msgs) = m /\ Len(new) = l /\ Len(a.answers) = q /\ Len(a.calls) = q
  BY <1>1, <1>2
<1>18. m \in Nat /\ l \in Nat /\ m <= l
  OBVIOUS
<1>4. /\ m \in Nat /\ q \in Nat /\ d \in {0, 1} /\ l \in Nat /\ m <= l /\ l = m + d + q
      /\ DOMAIN new = 1..l /\ DOMAIN a.msgs = 1..m /\ DOMAIN a.answers = 1..q
      /\ DOMAIN a.calls = 1..q
  <2>1. new \in Seq(Msg) /\ l = m + d + q
    BY <1>2
  <2> HIDE DEF l
  <2> QED
    BY <1>1, <1>17, <1>18, <2>1
<1>14. \A i \in 1..m : new[i] = a.msgs[i]
  BY <1>2
<1>15. /\ d = 0 => a.text = <<>> /\ a.calls = <<>>
       /\ d = 1 => (a.text # <<>> \/ a.calls # <<>>)
       /\ d = 1 => new[m + 1] = Assistant(a.text, a.calls)
  BY <1>2
<1>16. \A k \in 1..q : new[m + d + k] = Tool(a.answers[k])
  BY <1>2
<1>5. ASSUME NEW i \in (m + 1)..l
      PROVE  \/ d = 1 /\ i = m + 1 /\ new[i] = Assistant(a.text, a.calls)
             \/ /\ i = m + 1 => d = 0 /\ a.text = <<>> /\ a.calls = <<>>
                /\ \E k \in 1..q : i = m + d + k /\ new[i] = Tool(a.answers[k])
  <2>1. CASE d = 1 /\ i = m + 1
    BY <1>14, <1>15, <1>16, <1>17, <2>1
  <2>2. CASE ~(d = 1 /\ i = m + 1)
    <3>1. i - (m + d) \in 1..q /\ i = m + d + (i - (m + d)) /\ (i = m + 1 => d = 0)
      BY <1>4, <2>2
    <3> QED
      BY <1>14, <1>15, <1>16, <1>17, <3>1
  <2> QED
    BY <2>1, <2>2
<1>6. /\ Assistant(a.text, a.calls).text = a.text /\ Assistant(a.text, a.calls).calls = a.calls
      /\ Assistant(a.text, a.calls).answers = <<>> /\ Assistant(a.text, a.calls).role = "assistant"
      /\ \A p : /\ Tool(p).text = <<>> /\ Tool(p).calls = <<>> /\ Tool(p).answers = <<p>>
                /\ Tool(p).role = "tool"
  BY DEF Assistant, Tool
<1>7. m < l \/ (a.text = <<>> /\ a.calls = <<>>)
  <2>1. d = 1 => m < m + d + q
    BY <1>4
  <2> QED
    BY <1>4, <1>15, <2>1
<1> HIDE DEF l
<1>8. Kept(TextOf(new), <<>>, Places(es, n, "delta"))
  <2>1. DOMAIN TextOf(a.msgs) = 1..m /\ DOMAIN TextOf(new) = 1..l
    BY <1>4 DEF TextOf
  <2>2. \A i \in 1..m : TextOf(new)[i] = TextOf(a.msgs)[i]
    BY <1>4, <1>14 DEF TextOf
  <2>3. \A i \in (m + 1)..l : TextOf(new)[i] = IF i = m + 1 THEN a.text ELSE <<>>
    <3> SUFFICES ASSUME NEW i \in (m + 1)..l
                 PROVE  new[i].text = IF i = m + 1 THEN a.text ELSE <<>>
      BY <1>4 DEF TextOf
    <3> QED
      BY <1>5, <1>6
  <2>4. Kept(TextOf(a.msgs), a.text, Places(es, n, "delta"))
    BY DEF Draining
  <2> QED
    BY <1>1, <1>7, <1>18, <2>1, <2>2, <2>3, <2>4, KeptAsOne
<1>9. Kept(CallsOf(new), <<>>, Places(es, n, "call"))
  <2>1. DOMAIN CallsOf(a.msgs) = 1..m /\ DOMAIN CallsOf(new) = 1..l
    BY <1>4 DEF CallsOf
  <2>2. \A i \in 1..m : CallsOf(new)[i] = CallsOf(a.msgs)[i]
    BY <1>4, <1>14 DEF CallsOf
  <2>3. \A i \in (m + 1)..l : CallsOf(new)[i] = IF i = m + 1 THEN a.calls ELSE <<>>
    <3> SUFFICES ASSUME NEW i \in (m + 1)..l
                 PROVE  new[i].calls = IF i = m + 1 THEN a.calls ELSE <<>>
      BY <1>4 DEF CallsOf
    <3> QED
      BY <1>5, <1>6
  <2>4. Kept(CallsOf(a.msgs), a.calls, Places(es, n, "call"))
    BY DEF Draining
  <2> QED
    BY <1>1, <1>7, <1>18, <2>1, <2>2, <2>3, <2>4, KeptAsOne
<1>10. Kept(AnswersOf(new), <<>>, Places(es, n, "result"))
  <2>1. DOMAIN AnswersOf(a.msgs) = 1..m /\ DOMAIN AnswersOf(new) = 1..((m + d) + q)
    BY <1>4 DEF AnswersOf, l
  <2>2. \A i \in 1..m : AnswersOf(new)[i] = AnswersOf(a.msgs)[i]
    BY <1>4, <1>14 DEF AnswersOf
  <2>3. \A i \in (m + 1)..(m + d) : AnswersOf(new)[i] = <<>>
    <3> SUFFICES ASSUME NEW i \in (m + 1)..(m + d) PROVE AnswersOf(new)[i] = <<>>
      OBVIOUS
    <3>1. d = 1 /\ i = m + 1 /\ i \in 1..l
      BY <1>4 DEF l
    <3> QED
      BY <1>14, <1>15, <1>16, <1>17, <1>4, <1>6, <3>1 DEF AnswersOf
  <2>4. \A k \in 1..q : AnswersOf(new)[(m + d) + k] = <<a.answers[k]>>
    <3> SUFFICES ASSUME NEW k \in 1..q PROVE AnswersOf(new)[m + d + k] = <<a.answers[k]>>
      OBVIOUS
    <3>1. m + d + k \in 1..l
      BY <1>4 DEF l
    <3> QED
      BY <1>14, <1>15, <1>16, <1>17, <1>4, <1>6, <3>1 DEF AnswersOf
  <2>5. Kept(AnswersOf(a.msgs), a.answers, Places(es, n, "result"))
    BY DEF Draining
  <2>6. PICK c \in Nat : c = m + d /\ m <= c
    BY <1>4
  <2>7. /\ DOMAIN AnswersOf(new) = 1..(c + Len(a.answers))
        /\ \A i \in (m + 1)..c : AnswersOf(new)[i] = <<>>
        /\ \A k \in 1..Len(a.answers) : AnswersOf(new)[c + k] = <<a.answers[k]>>
    BY <1>17, <2>1, <2>3, <2>4, <2>6
  <2>8. a.answers \in Seq(Nat) /\ DOMAIN AnswersOf(a.msgs) = 1..m /\ m \in Nat /\ c \in Nat /\ m <= c
    BY <1>1, <2>1, <2>6
  <2>9. \A K : Kept(AnswersOf(a.msgs), a.answers, K) => Kept(AnswersOf(new), <<>>, K)
    BY <2>2, <2>7, <2>8, KeptAsMany
  <2> QED
    BY <2>5, <2>9
<1>11. Answered(new, es)
  <2> SUFFICES ASSUME NEW i \in 1..l, NEW k \in DOMAIN new[i].calls
               PROVE  /\ i + k <= l /\ new[i + k].role = "tool"
                      /\ CallOf(es[new[i + k].answers[1]]) = CallOf(es[new[i].calls[k]])
    BY <1>14, <1>15, <1>16, <1>17, <1>4 DEF Answered, l
  <2>1. CASE i \in 1..m
    <3>1. new[i] = a.msgs[i] /\ a.msgs[i].calls \in Seq(Nat)
      <4>1. a.msgs[i] \in Msg
        BY <1>1, <1>17, <2>1
      <4> QED
        BY <1>14, <2>1, <4>1 DEF Msg
    <3>2. /\ i + k <= m /\ a.msgs[i + k].role = "tool"
          /\ CallOf(es[a.msgs[i + k].answers[1]]) = CallOf(es[a.msgs[i].calls[k]])
      BY <1>4, <1>17, <2>1, <3>1 DEF Draining, Answered
    <3>3. k \in Nat /\ k >= 1
      BY <3>1
    <3>4. i + k \in 1..m
      BY <1>4, <2>1, <3>2, <3>3
    <3> QED
      BY <1>14, <1>15, <1>16, <1>17, <1>4, <3>1, <3>2, <3>4
  <2>2. CASE i \notin 1..m
    <3>1. i \in (m + 1)..l
      BY <1>4, <2>2
    <3>2. DOMAIN <<>> = {}
      OBVIOUS
    <3>3. d = 1 /\ i = m + 1 /\ new[i].calls = a.calls
      BY <1>5, <1>6, <3>1, <3>2
    <3>4. k \in 1..q /\ i + k = m + d + k /\ i + k <= l
      BY <1>1, <1>4, <3>3 DEF l
    <3>5. new[i + k] = Tool(a.answers[k])
      BY <1>14, <1>15, <1>16, <1>17, <3>4
    <3>6. a.answers[k] = a.calls[k] + 1
      BY <1>17, <3>4 DEF Draining, Asked
    <3>7. a.calls[k] \in Places(es, n, "call")
      BY <3>3 DEF Draining, Kept
    <3>8. CallOf(es[a.calls[k] + 1]) = CallOf(es[a.calls[k]])
      BY <3>7 DEF Places, Paired
    <3> QED
      BY <1>6, <3>3, <3>4, <3>5, <3>6, <3>8
  <2> QED
    BY <2>1, <2>2
<1>12. NoneEmpty(new)
  <2> SUFFICES ASSUME NEW i \in 1..l, new[i].role = "assistant"
               PROVE  new[i].text # <<>> \/ new[i].calls # <<>>
    BY <1>4 DEF NoneEmpty
  <2>1. CASE i \in 1..m
    BY <1>14, <1>15, <1>16, <1>17, <1>4, <2>1 DEF Draining, NoneEmpty
  <2>2. CASE i \notin 1..m
    <3>1. i \in (m + 1)..l
      BY <1>4, <2>2
    <3> QED
      BY <1>14, <1>15, <1>16, <1>17, <1>5, <1>6, <3>1
  <2> QED
    BY <2>1, <2>2
<1>13. Asked(Flush(a), es, n)
  BY <1>3 DEF Asked
<1> QED
  BY <1>3, <1>8, <1>9, <1>10, <1>11, <1>12, <1>13 DEF Draining, new

LEMMA PlacesGrow ==
  ASSUME NEW es, NEW n \in Nat, n > 0, NEW kind
  PROVE  /\ Places(es, n, kind) = IF es[n].kind = kind THEN Places(es, n - 1, kind) \cup {n}
                                                       ELSE Places(es, n - 1, kind)
         /\ \A p \in Places(es, n - 1, kind) : p < n
         /\ n - 1 \in Nat
BY DEF Places

\* An event that is one more element of what is gathered.
LEMMA TextStep ==
  ASSUME NEW es, NEW n \in Nat, n > 0, es[n].kind = "delta", n - 1 > 0 => es[n - 1].kind # "call",
         NEW a, Draining(a, es, n - 1)
  PROVE  Draining([a EXCEPT !.text = Append(a.text, n)], es, n)
<1> DEFINE b == [a EXCEPT !.text = Append(a.text, n)]
<1>1. /\ a \in Acc /\ a.text \in Seq(Nat)
      /\ Append(a.text, n) \in Seq(Nat)
  BY DEF Draining, Acc
<1>2. /\ b \in Acc /\ b.msgs = a.msgs /\ b.text = Append(a.text, n)
      /\ b.calls = a.calls /\ b.answers = a.answers
  BY <1>1 DEF Acc
<1> HIDE DEF b
<1>3. Kept(TextOf(b.msgs), b.text, Places(es, n, "delta"))
  <2>1. Kept(TextOf(a.msgs), a.text, Places(es, n - 1, "delta"))
    BY DEF Draining
  <2>2. Places(es, n, "delta") = Places(es, n - 1, "delta") \cup {n}
    BY PlacesGrow
  <2>3. \A p \in Places(es, n - 1, "delta") : p < n
    BY PlacesGrow
  <2> QED
    BY <1>1, <1>2, <2>1, <2>2, <2>3, KeptMore
<1>4. Places(es, n, "call") = Places(es, n - 1, "call") /\ Places(es, n, "result") = Places(es, n - 1, "result")
  BY PlacesGrow
<1>5. Asked(b, es, n)
  BY <1>2 DEF Draining, Asked
<1> QED
  BY <1>2, <1>3, <1>4, <1>5 DEF Draining, b

LEMMA CallStep ==
  ASSUME NEW es, NEW n \in Nat, n > 0, es[n].kind = "call", n - 1 > 0 => es[n - 1].kind # "call",
         NEW a, Draining(a, es, n - 1)
  PROVE  Draining([a EXCEPT !.calls = Append(a.calls, n)], es, n)
<1> DEFINE b == [a EXCEPT !.calls = Append(a.calls, n)]
<1>1. /\ a \in Acc /\ a.calls \in Seq(Nat) /\ a.answers \in Seq(Nat)
      /\ Append(a.calls, n) \in Seq(Nat)
  BY DEF Draining, Acc
<1>2. /\ b \in Acc /\ b.msgs = a.msgs /\ b.calls = Append(a.calls, n)
      /\ b.text = a.text /\ b.answers = a.answers
  BY <1>1 DEF Acc
<1> HIDE DEF b
<1>3. Kept(CallsOf(b.msgs), b.calls, Places(es, n, "call"))
  <2>1. Kept(CallsOf(a.msgs), a.calls, Places(es, n - 1, "call"))
    BY DEF Draining
  <2>2. Places(es, n, "call") = Places(es, n - 1, "call") \cup {n}
    BY PlacesGrow
  <2>3. \A p \in Places(es, n - 1, "call") : p < n
    BY PlacesGrow
  <2> QED
    BY <1>1, <1>2, <2>1, <2>2, <2>3, KeptMore
<1>4. Places(es, n, "delta") = Places(es, n - 1, "delta") /\ Places(es, n, "result") = Places(es, n - 1, "result")
  BY PlacesGrow
<1>5. Asked(b, es, n)
  <2>1. /\ Len(a.calls) = Len(a.answers) /\ Len(a.calls) \in Nat
        /\ \A k \in 1..Len(a.answers) : a.answers[k] = a.calls[k] + 1
    BY <1>1 DEF Draining, Asked
  <2>2. /\ Len(b.calls) = Len(a.calls) + 1 /\ b.calls[Len(b.calls)] = n
        /\ \A k \in 1..Len(a.calls) : b.calls[k] = a.calls[k]
    BY <1>1, <1>2
  <2> QED
    BY <1>2, <2>1, <2>2 DEF Asked
<1> QED
  BY <1>2, <1>3, <1>4, <1>5 DEF Draining, b

LEMMA AnswerStep ==
  ASSUME NEW es, NEW n \in Nat, n > 1, es[n].kind = "result", es[n - 1].kind = "call",
         NEW a, Draining(a, es, n - 1)
  PROVE  Draining([a EXCEPT !.answers = Append(a.answers, n)], es, n)
<1> DEFINE b == [a EXCEPT !.answers = Append(a.answers, n)]
<1>1. /\ a \in Acc /\ a.calls \in Seq(Nat) /\ a.answers \in Seq(Nat)
      /\ Append(a.answers, n) \in Seq(Nat)
  BY DEF Draining, Acc
<1>2. /\ b \in Acc /\ b.msgs = a.msgs /\ b.answers = Append(a.answers, n)
      /\ b.text = a.text /\ b.calls = a.calls
  BY <1>1 DEF Acc
<1> HIDE DEF b
<1>3. Kept(AnswersOf(b.msgs), b.answers, Places(es, n, "result"))
  <2>1. Kept(AnswersOf(a.msgs), a.answers, Places(es, n - 1, "result"))
    BY DEF Draining
  <2>2. Places(es, n, "result") = Places(es, n - 1, "result") \cup {n}
    BY PlacesGrow
  <2>3. \A p \in Places(es, n - 1, "result") : p < n
    BY PlacesGrow
  <2> QED
    BY <1>1, <1>2, <2>1, <2>2, <2>3, KeptMore
<1>4. Places(es, n, "delta") = Places(es, n - 1, "delta") /\ Places(es, n, "call") = Places(es, n - 1, "call")
  BY PlacesGrow
<1>5. Asked(b, es, n)
  <2>1. /\ Len(a.calls) = Len(a.answers) + 1 /\ Len(a.answers) \in Nat /\ a.calls[Len(a.calls)] = n - 1
        /\ \A k \in 1..Len(a.answers) : a.answers[k] = a.calls[k] + 1
    BY <1>1 DEF Draining, Asked
  <2>2. /\ Len(b.answers) = Len(a.answers) + 1 /\ b.answers[Len(b.answers)] = n
        /\ \A k \in 1..Len(a.answers) : b.answers[k] = a.answers[k]
    BY <1>1, <1>2
  <2> QED
    BY <1>2, <2>1, <2>2 DEF Asked
<1> QED
  BY <1>2, <1>3, <1>4, <1>5 DEF Draining, b

LEMMA OtherStep ==
  ASSUME NEW es, NEW n \in Nat, n > 0, es[n].kind \notin {"delta", "call", "result"},
         n - 1 > 0 => es[n - 1].kind # "call", NEW a, Draining(a, es, n - 1),
         NEW b \in Acc, b.msgs = a.msgs, b.text = a.text, b.calls = a.calls, b.answers = a.answers
  PROVE  Draining(b, es, n)
<1>1. \A k \in {"delta", "call", "result"} : Places(es, n, k) = Places(es, n - 1, k)
  BY PlacesGrow
<1>2. Asked(b, es, n)
  BY DEF Draining, Asked
<1> QED
  BY <1>1, <1>2 DEF Draining

LEMMA DrainedStep ==
  ASSUME NEW es \in Seq(Event), Paired(es), NEW n \in 1..Len(es), NEW a, Draining(a, es, n - 1)
  PROVE  /\ Draining(Drained(a, es[n], n), es, n)
         /\ n = Len(es) => LET b == Drained(a, es[n], n)
                           IN  b.text = <<>> /\ b.calls = <<>> /\ b.answers = <<>>
<1>1. /\ Len(es) \in Nat /\ n \in Nat /\ n > 0 /\ n - 1 \in Nat /\ n - 1 <= Len(es)
      /\ n - 1 > 0 => n - 1 \in 1..Len(es) /\ (n - 1) + 1 = n
      /\ es[n].kind \in Kinds /\ a \in Acc
  <2>1. es[n] \in Event /\ Len(es) \in Nat
    OBVIOUS
  <2>2. es[n].kind \in Kinds /\ a \in Acc
    BY <2>1 DEF Event, Draining
  <2> QED
    BY <2>1, <2>2
<1>2. /\ n - 1 > 0 /\ es[n - 1].kind = "call" => es[n].kind = "result"
      /\ es[n].kind = "result" => n > 1 /\ es[n - 1].kind = "call"
      /\ es[n].kind = "end" <=> n = Len(es)
  BY <1>1 DEF Paired
<1>3. CASE es[n].kind = "delta"
  <2> DEFINE b == IF a.answers # <<>> THEN Flush(a) ELSE a
  <2>1. Draining(b, es, n - 1)
    BY <1>1, <1>2, <1>3, FlushStep
  <2>2. Drained(a, es[n], n) = [b EXCEPT !.text = Append(b.text, n)]
    BY <1>3 DEF Drained
  <2> HIDE DEF b
  <2>3. n - 1 > 0 => es[n - 1].kind # "call"
    BY <1>2, <1>3
  <2>4. Draining([b EXCEPT !.text = Append(b.text, n)], es, n)
    BY <1>1, <1>3, <2>1, <2>3, TextStep
  <2> QED
    BY <1>2, <1>3, <2>2, <2>4
<1>4. CASE es[n].kind = "call"
  <2>1. Drained(a, es[n], n) = [a EXCEPT !.calls = Append(a.calls, n)]
    BY <1>4 DEF Drained
  <2>2. n - 1 > 0 => es[n - 1].kind # "call"
    BY <1>2, <1>4
  <2>3. Draining([a EXCEPT !.calls = Append(a.calls, n)], es, n)
    BY <1>1, <1>4, <2>2, CallStep
  <2> QED
    BY <1>2, <1>4, <2>1, <2>3
<1>5. CASE es[n].kind = "result"
  <2>1. Drained(a, es[n], n) = [a EXCEPT !.answers = Append(a.answers, n)]
    BY <1>5 DEF Drained
  <2> QED
    BY <1>1, <1>2, <1>5, <2>1, AnswerStep
<1>6. CASE es[n].kind = "error"
  <2>1. Drained(a, es[n], n) = [a EXCEPT !.failed = TRUE]
    BY <1>6 DEF Drained
  <2> DEFINE b == [a EXCEPT !.failed = TRUE]
  <2>2. b \in Acc /\ b.msgs = a.msgs /\ b.text = a.text /\ b.calls = a.calls /\ b.answers = a.answers
    BY <1>1 DEF Acc
  <2> HIDE DEF b
  <2>3. Draining(b, es, n)
    BY <1>1, <1>2, <1>6, <2>2, OtherStep
  <2> QED
    BY <1>2, <1>6, <2>1, <2>3 DEF b
<1>7. CASE es[n].kind = "usage"
  <2>1. Drained(a, es[n], n) = a
    BY <1>7 DEF Drained
  <2>2. Draining(a, es, n)
    BY <1>1, <1>2, <1>7, OtherStep
  <2> QED
    BY <1>2, <1>7, <2>1, <2>2
<1>8. CASE es[n].kind = "end"
  <2>1. Drained(a, es[n], n) = Flush(a)
    BY <1>8 DEF Drained
  <2>2. /\ Draining(Flush(a), es, n - 1)
        /\ Flush(a).text = <<>> /\ Flush(a).calls = <<>> /\ Flush(a).answers = <<>>
    BY <1>1, <1>2, <1>8, FlushStep
  <2>3. Flush(a) \in Acc
    BY <2>2 DEF Draining
  <2>4. Draining(Flush(a), es, n)
    BY <1>1, <1>2, <1>8, <2>2, <2>3, OtherStep
  <2> QED
    BY <2>1, <2>2, <2>4
<1> QED
  BY <1>1, <1>3, <1>4, <1>5, <1>6, <1>7, <1>8 DEF Kinds

\* What Drain is after each of the first m events.
Follows(f, es, m) ==
  /\ DOMAIN f = 0..m
  /\ f[0] = Nothing
  /\ \A n \in 1..m : f[n] = Drained(f[n - 1], es[n], n)

\* Every set of numbers has a least one: induction for what follows.
LEMMA LeastNat ==
  ASSUME NEW T, T \subseteq Nat, T # {}
  PROVE  \E x \in T : \A y \in T : x <= y
<1>1. IsWellFoundedOn(OpToRel(<, Nat), Nat)
  BY NatLessThanWellFounded
<1>2. PICK x \in T : \A y \in T : ~ (<<y, x>> \in OpToRel(<, Nat))
  BY <1>1, WFMin
<1>3. \A y \in T : ~ (<<y, x>> \in {ss \in Nat \X Nat : ss[1] < ss[2]})
  BY <1>2, Zenon DEF OpToRel
<1>4. \A y \in T : ~(y < x)
  BY <1>3
<1> QED
  BY <1>4

LEMMA FollowsExists ==
  ASSUME NEW es, NEW m \in Nat
  PROVE  \E f : f = [n \in 0..m |-> f[n]] /\ Follows(f, es, m)
<1> DEFINE T == {n \in Nat : ~ \E f : f = [i \in 0..n |-> f[i]] /\ Follows(f, es, n)}
<1>1. SUFFICES ASSUME T # {} PROVE FALSE
  OBVIOUS
<1>2. PICK x \in T : \A y \in T : x <= y
  <2>1. T \subseteq Nat
    OBVIOUS
  <2> HIDE DEF T
  <2> QED
    BY <1>1, <2>1, LeastNat
<1>3. x \in Nat /\ ~ \E f : f = [i \in 0..x |-> f[i]] /\ Follows(f, es, x)
  BY <1>2
<1>4. CASE x = 0
  <2> DEFINE g == [i \in 0..x |-> Nothing]
  <2>1. g = [i \in 0..x |-> g[i]]
    OBVIOUS
  <2>2. 0 \in 0..x /\ 1..x = {} /\ DOMAIN g = 0..x /\ g[0] = Nothing
    BY <1>4
  <2> HIDE DEF g
  <2> QED
    BY <1>3, <2>1, <2>2 DEF Follows
<1>5. CASE x # 0
  <2>1. x - 1 \in Nat /\ x - 1 < x
    BY <1>3, <1>5
  <2>2. x - 1 \notin T
    BY <1>2, <2>1
  <2>3. PICK f : f = [i \in 0..(x - 1) |-> f[i]] /\ Follows(f, es, x - 1)
    BY <2>1, <2>2
  <2> DEFINE g == [i \in 0..x |-> IF i = x THEN Drained(f[x - 1], es[x], x) ELSE f[i]]
  <2>4. g = [i \in 0..x |-> g[i]] /\ DOMAIN g = 0..x
    OBVIOUS
  <2>5. g[0] = Nothing
    BY <2>1, <2>3 DEF Follows
  <2>6. ASSUME NEW n \in 1..x PROVE g[n] = Drained(g[n - 1], es[n], n)
    <3>1. n \in 0..x /\ n - 1 \in 0..x /\ n - 1 # x
      BY <1>3
    <3>2. g[n - 1] = f[n - 1]
      BY <3>1
    <3>3. CASE n = x
      BY <3>1, <3>2, <3>3
    <3>4. CASE n # x
      <4>1. n \in 1..(x - 1)
        BY <1>3, <3>4
      <4>2. g[n] = f[n]
        BY <3>1, <3>4
      <4> QED
        BY <2>3, <3>2, <4>1, <4>2 DEF Follows
    <3> QED
      BY <3>3, <3>4
  <2> HIDE DEF g
  <2>7. Follows(g, es, x)
    BY <2>4, <2>5, <2>6 DEF Follows
  <2> QED
    BY <1>3, <2>4, <2>7
<1> QED
  BY <1>4, <1>5

LEMMA DrainFollows ==
  ASSUME NEW es, Len(es) \in Nat
  PROVE  \E f : Follows(f, es, Len(es)) /\ Drain(es) = f[Len(es)]
<1> DEFINE m == Len(es)
           StepTo(f, n) == IF n = 0 THEN Nothing ELSE Drained(f[n - 1], es[n], n)
           drained == CHOOSE h : h = [n \in 0..m |-> StepTo(h, n)]
<1>1. PICK f : f = [n \in 0..m |-> f[n]] /\ Follows(f, es, m)
  BY FollowsExists
<1>2. f = [n \in 0..m |-> StepTo(f, n)]
  <2>1. \A n \in 0..m : f[n] = StepTo(f, n)
    <3> SUFFICES ASSUME NEW n \in 0..m PROVE f[n] = StepTo(f, n)
      OBVIOUS
    <3>1. CASE n = 0
      BY <1>1, <3>1 DEF Follows
    <3>2. CASE n # 0
      <4>1. n \in 1..m
        BY <3>2
      <4> QED
        BY <1>1, <3>2, <4>1 DEF Follows
    <3> QED
      BY <3>1, <3>2
  <2> HIDE DEF StepTo
  <2> QED
    BY <1>1, <2>1
<1>3. drained = [n \in 0..m |-> StepTo(drained, n)]
  BY <1>2
<1>4. Drain(es) = drained[m]
  BY Zenon DEF Drain
<1> HIDE DEF drained
<1>5. Follows(drained, es, m)
  <2>1. DOMAIN drained = 0..m
    BY <1>3
  <2>2. \A n \in 0..m : drained[n] = StepTo(drained, n)
    BY <1>3
  <2>3. 0 \in 0..m
    OBVIOUS
  <2>4. \A n \in 1..m : n \in 0..m /\ n # 0
    OBVIOUS
  <2> QED
    BY <2>1, <2>2, <2>3, <2>4 DEF Follows
<1> QED
  BY <1>4, <1>5

LEMMA NothingYet ==
  ASSUME NEW es
  PROVE  Draining(Nothing, es, 0)
<1>1. /\ Nothing \in Acc /\ Nothing.msgs = <<>> /\ Nothing.text = <<>> /\ Nothing.calls = <<>>
      /\ Nothing.answers = <<>>
  <2>1. <<>> \in Seq(Nat) /\ <<>> \in Seq(Msg)
    OBVIOUS
  <2> QED
    BY <2>1 DEF Nothing, Acc
<1>2. DOMAIN <<>> = {} /\ Len(<<>>) = 0
  OBVIOUS
<1>3. DOMAIN TextOf(<<>>) = {} /\ DOMAIN CallsOf(<<>>) = {} /\ DOMAIN AnswersOf(<<>>) = {}
  BY <1>2 DEF TextOf, CallsOf, AnswersOf
<1>4. \A k : Places(es, 0, k) = {}
  BY DEF Places
<1>5. /\ Kept(TextOf(<<>>), <<>>, {}) /\ Kept(CallsOf(<<>>), <<>>, {})
      /\ Kept(AnswersOf(<<>>), <<>>, {})
  BY <1>2, <1>3 DEF Kept
<1>6. Answered(<<>>, es) /\ NoneEmpty(<<>>)
  BY <1>2 DEF Answered, NoneEmpty
<1>7. Asked(Nothing, es, 0)
  BY <1>1, <1>2 DEF Asked
<1> QED
  BY <1>1, <1>4, <1>5, <1>6, <1>7 DEF Draining

\* What is kept with nothing open is told in parts.
LEMMA KeptTells ==
  ASSUME NEW es \in Seq(Event), NEW kind, NEW parts, Kept(parts, <<>>, Places(es, Len(es), kind))
  PROVE  Tells(parts, es, kind)
<1>1. DOMAIN <<>> = {} /\ DOMAIN es = 1..Len(es)
  OBVIOUS
<1>2. Places(es, Len(es), kind) = {p \in DOMAIN es : es[p].kind = kind}
  BY <1>1 DEF Places
<1>3. UNION {{parts[i][k] : k \in DOMAIN parts[i]} : i \in DOMAIN parts} = Places(es, Len(es), kind)
  BY <1>1 DEF Kept
<1>4. \A i, j \in DOMAIN parts : \A k \in DOMAIN parts[i], l \in DOMAIN parts[j] :
        i < j \/ (i = j /\ k < l) => parts[i][k] < parts[j][l]
  BY DEF Kept
<1> QED
  BY <1>2, <1>3, <1>4 DEF Tells

\* Drain makes a transcript of every sequence of events that is paired.
LEMMA DrainTells ==
  ASSUME NEW es \in Seq(Event), es # <<>>, Paired(es)
  PROVE  LET ms == Drain(es).msgs IN
           /\ Answered(ms, es) /\ NoneEmpty(ms)
           /\ Tells(TextOf(ms), es, "delta") /\ Tells(CallsOf(ms), es, "call")
           /\ Tells(AnswersOf(ms), es, "result")
<1>1. Len(es) \in Nat /\ Len(es) > 0
  OBVIOUS
<1>2. PICK f : Follows(f, es, Len(es)) /\ Drain(es) = f[Len(es)]
  BY <1>1, DrainFollows
<1> DEFINE T == {n \in Nat : n <= Len(es) /\ ~Draining(f[n], es, n)}
<1>3. T = {}
  <2>1. SUFFICES ASSUME T # {} PROVE FALSE
    OBVIOUS
  <2>2. PICK x \in T : \A y \in T : x <= y
    <3>1. T \subseteq Nat
      OBVIOUS
    <3> HIDE DEF T
    <3> QED
      BY <2>1, <3>1, LeastNat
  <2>3. x \in Nat /\ x <= Len(es) /\ ~Draining(f[x], es, x)
    BY <2>2
  <2>4. CASE x = 0
    BY <1>2, <2>3, <2>4, NothingYet DEF Follows
  <2>5. CASE x # 0
    <3>1. x \in 1..Len(es) /\ x - 1 \in Nat /\ x - 1 <= Len(es) /\ x - 1 < x
      BY <1>1, <2>3, <2>5
    <3>2. Draining(f[x - 1], es, x - 1)
      BY <2>2, <3>1
    <3>3. f[x] = Drained(f[x - 1], es[x], x)
      BY <1>2, <3>1 DEF Follows
    <3> QED
      BY <2>3, <3>1, <3>2, <3>3, DrainedStep
  <2> QED
    BY <2>4, <2>5
<1> DEFINE m == Len(es)
<1>4. m \in 1..Len(es) /\ m - 1 \in Nat /\ m - 1 <= Len(es) /\ m = Len(es)
  BY <1>1
<1>5. Draining(f[m - 1], es, m - 1)
  BY <1>3, <1>4
<1>6. f[m] = Drained(f[m - 1], es[m], m)
  BY <1>2, <1>4 DEF Follows
<1>7. PICK a : a = Drain(es)
  OBVIOUS
<1>8. Draining(a, es, m) /\ a.text = <<>> /\ a.calls = <<>> /\ a.answers = <<>>
  BY <1>2, <1>4, <1>5, <1>6, <1>7, DrainedStep
<1>9. /\ Answered(a.msgs, es) /\ NoneEmpty(a.msgs)
      /\ Kept(TextOf(a.msgs), <<>>, Places(es, m, "delta"))
      /\ Kept(CallsOf(a.msgs), <<>>, Places(es, m, "call"))
      /\ Kept(AnswersOf(a.msgs), <<>>, Places(es, m, "result"))
  BY <1>8 DEF Draining
<1>10. /\ Tells(TextOf(a.msgs), es, "delta") /\ Tells(CallsOf(a.msgs), es, "call")
       /\ Tells(AnswersOf(a.msgs), es, "result")
  BY <1>9, KeptTells
<1> QED
  BY <1>7, <1>9, <1>10

\* Every call is answered by the event behind it, once there is one.
CallsInv(r) ==
  \A i \in 1..Len(out[r]) : out[r][i].kind = "call" =>
    IF i = Len(out[r]) THEN pc[r] = "results"
    ELSE out[r][i + 1].kind = "result" /\ CallOf(out[r][i + 1]) = CallOf(out[r][i])

LEMMA EvFields ==
  ASSUME NEW k, NEW t, NEW n
  PROVE  Ev(k, t, n).kind = k /\ CallOf(Ev(k, t, n)) = <<t, n>>
BY DEF Ev, CallOf

LEMMA NextCallsInv ==
  ASSUME TypeOK, NEW r \in Runs, Step(r), ResultsInv(r), CallsInv(r)
  PROVE  CallsInv(r)'
<1> DEFINE L == Len(out[r])
           q == out'[r]
<1>1. ASSUME NEW e \in Event, OutGrows(r, e)
      PROVE  /\ L \in Nat /\ Len(q) = L + 1 /\ q[L + 1] = e
             /\ \A i \in 1..L : q[i] = out[r][i]
             /\ \A i \in 1..Len(q) : i = L + 1 \/ (i \in 1..L /\ i # Len(q))
             /\ \A i \in 1..L : i = L \/ i + 1 \in 1..L
  <2>1. L \in Nat /\ Len(q) = L + 1 /\ q[L + 1] = e /\ \A i \in 1..L : q[i] = out[r][i]
    BY <1>1, Sent
  <2> QED
    BY <2>1
<1>2. CASE ToolCall(r)
  <2>1. OutGrows(r, Ev("call", turn[r], tool[r])) /\ pc[r] = "tools" /\ pc'[r] = "results"
    BY <1>2 DEF ToolCall, Emit, OutGrows, TypeOK, Goto
  <2>2. \A i \in 1..L : out[r][i].kind = "call" => i # L
    BY <2>1 DEF CallsInv
  <2>3. /\ L \in Nat /\ Len(q) = L + 1
        /\ \A i \in 1..L : q[i] = out[r][i]
        /\ \A i \in 1..Len(q) : i = L + 1 \/ (i \in 1..L /\ i # Len(q))
        /\ \A i \in 1..L : i = L \/ i + 1 \in 1..L
    BY <1>1, <2>1, ToolEvents
  <2> QED
    BY <2>1, <2>2, <2>3 DEF CallsInv
<1>3. CASE ToolResult(r)
  <2>1. OutGrows(r, Ev("result", turn[r], tool[r])) /\ pc[r] = "results"
    BY <1>3 DEF ToolResult, Emit, OutGrows, TypeOK
  <2>2. out[r][L] = Ev("call", turn[r], tool[r])
    BY <2>1 DEF ResultsInv
  <2>3. /\ L \in Nat /\ Len(q) = L + 1 /\ q[L + 1] = Ev("result", turn[r], tool[r])
        /\ \A i \in 1..L : q[i] = out[r][i]
        /\ \A i \in 1..Len(q) : i = L + 1 \/ (i \in 1..L /\ i # Len(q))
        /\ \A i \in 1..L : i = L \/ i + 1 \in 1..L
    BY <1>1, <2>1, ToolEvents
  <2>4. q[L + 1].kind = "result"
    BY <2>3, ToolEvents
  <2>5. CallOf(q[L + 1]) = CallOf(out[r][L])
    BY <2>2, <2>3, EvFields
  <2> QED
    BY <2>3, <2>4, <2>5 DEF CallsInv
<1>4. CASE Quiet(r)
  <2>1. CASE q = out[r]
    BY <1>4, <2>1 DEF Quiet, CallsInv
  <2>2. CASE q # out[r]
    <3>1. pc[r] # "results" /\ \E e \in Event : e.kind \notin {"call", "result"} /\ OutGrows(r, e)
      BY <1>4, <2>2 DEF Quiet
    <3>2. PICK e \in Event : e.kind # "call" /\ OutGrows(r, e)
      BY <3>1
    <3>3. \A i \in 1..L : out[r][i].kind = "call" => i # L
      BY <3>1 DEF CallsInv
    <3> QED
      BY <1>1, <3>2, <3>3 DEF CallsInv
  <2> QED
    BY <2>1, <2>2
<1> QED
  BY <1>2, <1>3, <1>4, ToolStep

CallsAnswered == \A r \in Runs : CallsInv(r)

LEMMA InitCallsAnswered == Init => CallsAnswered
<1> SUFFICES ASSUME Init, NEW r \in Runs PROVE CallsInv(r)
  BY DEF CallsAnswered
<1>1. out[r] = <<>> /\ 1..Len(out[r]) = {}
  BY DEF Init
<1> QED
  BY <1>1 DEF CallsInv

LEMMA NextCallsAnswered == TypeOK /\ TurnInv /\ CallsAnswered /\ [Next]_vars => CallsAnswered'
<1> SUFFICES ASSUME TypeOK, TurnInv, CallsAnswered, [Next]_vars, NEW s \in Runs
             PROVE  CallsInv(s)'
  BY DEF CallsAnswered
<1>1. CallsInv(s) /\ ResultsInv(s)
  BY DEF CallsAnswered, TurnInv
<1>2. ASSUME NEW r \in Runs, Step(r) PROVE CallsInv(s)'
  <2>1. CASE s = r
    BY <1>1, <1>2, <2>1, NextCallsInv
  <2>2. CASE s # r
    BY <1>1, <1>2, <2>2, OthersKeep DEF Keeps, CallsInv
  <2> QED
    BY <2>1, <2>2
<1>3. CASE UNCHANGED vars
  BY <1>1, <1>3 DEF vars, CallsInv
<1> QED
  BY <1>2, <1>3 DEF Next, Step

\* So the events of a run that has ended are paired.
LEMMA ClosedIsPaired ==
  ASSUME TypeOK, TurnInv, CallsAnswered, NEW r \in Runs, Closed(r)
  PROVE  out[r] \in Seq(Event) /\ out[r] # <<>> /\ Paired(out[r])
<1>1. out[r] \in Seq(Event) /\ Len(out[r]) \in Nat
  BY DEF TypeOK
<1>2. OutInv(r) /\ ResultsInv(r) /\ CallsInv(r) /\ Ended(r) /\ pc[r] # "results"
  BY DEF TurnInv, CallsAnswered, Closed, Ended
<1>3. out[r] # <<>> /\ out[r][Len(out[r])].kind = "end"
  BY <1>2 DEF OutInv
<1>4. ASSUME NEW i \in 1..Len(out[r])
      PROVE  /\ out[r][i].kind = "call" =>
                  /\ i < Len(out[r]) /\ out[r][i + 1].kind = "result"
                  /\ CallOf(out[r][i + 1]) = CallOf(out[r][i])
             /\ out[r][i].kind = "result" => i > 1 /\ out[r][i - 1].kind = "call"
             /\ out[r][i].kind = "end" <=> i = Len(out[r])
  <2>1. out[r][i].kind = "result" => i > 1 /\ out[r][i - 1].kind = "call"
    <3> SUFFICES ASSUME out[r][i].kind = "result"
                 PROVE  i > 1 /\ out[r][i - 1].kind = "call"
      OBVIOUS
    <3>1. i > 1 /\ out[r][i - 1] = Ev("call", out[r][i].turn, out[r][i].n)
      BY <1>2 DEF ResultsInv
    <3> QED
      BY <3>1, EvFields
  <2>2. out[r][i].kind = "call" =>
          /\ i < Len(out[r]) /\ out[r][i + 1].kind = "result"
          /\ CallOf(out[r][i + 1]) = CallOf(out[r][i])
    BY <1>1, <1>2 DEF CallsInv
  <2>3. out[r][i].kind = "end" <=> i = Len(out[r])
    BY <1>2, <1>3 DEF OutInv
  <2> QED
    BY <2>1, <2>2, <2>3
<1> QED
  BY <1>1, <1>3, <1>4 DEF Paired

LEMMA TurnInvDrained == TypeOK /\ TurnInv /\ CallsAnswered => DrainIsTranscript
<1> SUFFICES ASSUME TypeOK, TurnInv, CallsAnswered, NEW r \in Runs, Closed(r)
             PROVE  LET ms == Transcript(r) IN
                      /\ Answered(ms, out[r]) /\ NoneEmpty(ms)
                      /\ Tells(TextOf(ms), out[r], "delta") /\ Tells(CallsOf(ms), out[r], "call")
                      /\ Tells(AnswersOf(ms), out[r], "result")
  BY DEF DrainIsTranscript, NoneEmpty, TextOf, CallsOf, AnswersOf
<1> QED
  BY ClosedIsPaired, DrainTells DEF Transcript

\* The messages Drain makes of a run that has ended, well or not, are a transcript
\* (drain.go:10-12, 29-43).
THEOREM DrainMakesATranscript == Spec => []DrainIsTranscript
  BY InitTypeOK, NextTypeOK, InitLockInv, NextLockInv, InitNoStaleAppend, NextNoStaleAppend,
     InitTurnInv, NextTurnInv, InitCallsAnswered, NextCallsAnswered, TurnInvDrained, PTL DEF Spec
-----------------------------------------------------------------------------
(***************************************************************************)
(* What a run reports is what a Runner promises.  Said is what the last    *)
(* event says; Saying is what the place of the run says.  The two are the  *)
(* same, so the place tells which event may come next.                     *)
(***************************************************************************)
Saying(r) == CASE pc[r] = "results" -> "called"
               [] pc[r] \in {"resolving", "errend"} -> "failed"
               [] pc[r] \in {"unlocking", "closing"} -> "ended"
               [] pc[r] = "closed" -> "closed"
               [] OTHER -> "live"
SaidInv == \A r \in Runs : Said(r) = Saying(r)

\* What is said with an event of kind k.
After(k) == CASE k = "call" -> "called" [] k = "error" -> "failed" [] k = "end" -> "ended"
              [] OTHER -> "live"

\* Event e is one that may be told where the run is.
MayTell(r, e) ==
  /\ Saying(r)' = After(e.kind)
  /\ \/ Saying(r) = "live" /\ e.kind \in {"delta", "usage", "call", "error"}
     \/ Saying(r) = "called" /\ e.kind = "result"
     \/ Saying(r) = "live" /\ e.kind = "end" /\ e.reason \in {"stop", "max_turns"}
     \/ Saying(r) = "failed" /\ e.kind = "end" /\ e.reason \in {"error", "timeout", "cancelled"}

IsQuiet(r) == /\ out'[r] = out[r]
              /\ Saying(r)' = Saying(r) \/ (Saying(r) = "ended" /\ Saying(r)' = "closed")
IsTelling(r) == \E e \in Event : OutGrows(r, e) /\ MayTell(r, e)

LEMMA EventOfTurn ==
  ASSUME TypeOK, NEW r \in Runs, NEW n \in Nat,
         NEW k \in {"delta", "usage", "call", "result", "error"}
  PROVE  Ev(k, turn[r], n) \in Event /\ Ev(k, turn[r], n).kind = k
<1>1. turn[r] \in Nat
  BY Numbers
<1> QED
  BY <1>1 DEF Ev, Event, Kinds

LEMMA EventOfEnd ==
  ASSUME NEW w \in Reasons
  PROVE  EndEv(w) \in Event /\ EndEv(w).kind = "end" /\ EndEv(w).reason = w
<1>1. w \in Reasons \cup {""} /\ 0 \in Nat /\ "end" \in Kinds
  BY Zenon DEF Kinds
<1>2. EndEv(w) \in Event
  BY <1>1, Zenon DEF EndEv, Event
<1>3. EndEv(w).kind = "end" /\ EndEv(w).reason = w
  BY DEF EndEv
<1> QED
  BY <1>2, <1>3

\* A step that sends an event of the run's turn.
LEMMA TellsOf ==
  ASSUME TypeOK, NEW r \in Runs, NEW k \in {"delta", "usage", "call", "result", "error"},
         NEW n \in Nat, Emit(r, Ev(k, turn[r], n)), Saying(r)' = After(k),
         IF k = "result" THEN Saying(r) = "called" ELSE Saying(r) = "live"
  PROVE  IsTelling(r)
<1>1. Ev(k, turn[r], n) \in Event /\ Ev(k, turn[r], n).kind = k
  BY EventOfTurn
<1>2. OutGrows(r, Ev(k, turn[r], n))
  BY DEF Emit, OutGrows, TypeOK
<1> DEFINE e == Ev(k, turn[r], n)
<1> HIDE DEF e
<1>3. MayTell(r, e)
  BY <1>1 DEF MayTell, e
<1> QED
  BY <1>1, <1>2, <1>3 DEF IsTelling, e

LEMMA TellsEnd ==
  ASSUME TypeOK, NEW r \in Runs, NEW w \in Reasons, Emit(r, EndEv(w)), Saying(r)' = "ended",
         Saying(r) = IF w \in Good THEN "live" ELSE "failed"
  PROVE  IsTelling(r)
<1> DEFINE e == EndEv(w)
<1>1. e \in Event /\ e.kind = "end" /\ e.reason = w
  BY EventOfEnd
<1>2. OutGrows(r, e)
  BY DEF Emit, OutGrows, TypeOK
<1> HIDE DEF e
<1>3. After("end") = "ended"
  BY DEF After
<1>4. MayTell(r, e)
  BY <1>1, <1>3 DEF MayTell, Good, Reasons, FailureReasons
<1> QED
  BY <1>1, <1>2, <1>4 DEF IsTelling

LEMMA SayStep ==
  ASSUME TypeOK, NEW r \in Runs, Step(r)
  PROVE  IsQuiet(r) \/ IsTelling(r)
<1>1. pc \in [Runs -> Locations] /\ 0 \in Nat /\ tool[r] \in Nat
  BY Numbers DEF TypeOK
<1>2. ASSUME NEW l \in Locations, Goto(r, l)
      PROVE  pc'[r] = l
  BY <1>1, <1>2 DEF Goto
<1>3. ASSUME NEW l \in {"locking", "reading", "calling", "opening", "streaming", "turn", "error"},
             Goto(r, l), Saying(r) = "live", out'[r] = out[r]
      PROVE  IsQuiet(r)
  <2>1. pc'[r] = l
    BY <1>2, <1>3 DEF Locations
  <2> QED
    BY <1>3, <2>1 DEF IsQuiet, Saying
<1>4. CASE Locking(r)
  BY <1>1, <1>4 DEF Locking, Start, TakeLock, LockFails, Unlock, CloseOut, Fail, Goto, IsQuiet, Saying
<1>5. CASE Storing(r)
  BY <1>1, <1>5 DEF Storing, ReadHistory, AppendHistory, HistoryRefuses, Fail, Goto, IsQuiet, Saying
<1>6. CASE Calling(r)
  BY <1>1, <1>6 DEF Calling, BeginCall, StreamOpens, StreamRefused, Fail, Goto, IsQuiet, Saying
<1>7. CASE StreamDelta(r)
  <2>1. pc[r] = "streaming" /\ pc' = pc /\ Emit(r, Ev("delta", turn[r], 0))
    BY <1>7 DEF StreamDelta
  <2>2. Saying(r) = "live" /\ Saying(r)' = After("delta")
    BY <2>1 DEF Saying, After
  <2> QED
    BY <1>1, <2>1, <2>2, TellsOf
<1>8. CASE StreamAccumulates(r) \/ StreamCloses(r) \/ StreamGivenUp(r)
  BY <1>1, <1>8 DEF StreamAccumulates, StreamCloses, StreamGivenUp, Fail, Goto, IsQuiet, Saying
<1>9. CASE AssistantTurn(r)
  <2>1. pc[r] = "turn" /\ pc'[r] \in {"append", "end", "tools"}
    BY <1>1, <1>9 DEF AssistantTurn, AfterLoop, Goto
  <2>2. Saying(r) = "live" /\ Saying(r)' = "live" /\ After("usage") = "live"
    BY <2>1 DEF Saying, After
  <2>3. CASE usage[r]
    BY <1>1, <1>9, <2>2, <2>3, TellsOf DEF AssistantTurn
  <2>4. CASE ~usage[r]
    BY <1>9, <2>2, <2>4 DEF AssistantTurn, IsQuiet
  <2> QED
    BY <2>3, <2>4
<1>10. CASE ToolCall(r)
  <2>1. pc[r] = "tools" /\ pc'[r] = "results" /\ Emit(r, Ev("call", turn[r], tool[r]))
    BY <1>1, <1>10 DEF ToolCall, Goto
  <2>2. Saying(r) = "live" /\ Saying(r)' = After("call")
    BY <2>1 DEF Saying, After
  <2> QED
    BY <1>1, <2>1, <2>2, TellsOf
<1>11. CASE ToolResult(r)
  <2>1. /\ pc[r] = "results" /\ pc'[r] \in {"tools", "calling", "append", "end"}
        /\ Emit(r, Ev("result", turn[r], tool[r]))
    BY <1>1, <1>11 DEF ToolResult, AfterTool, AfterLoop, Goto
  <2>2. Saying(r) = "called" /\ Saying(r)' = After("result")
    BY <2>1 DEF Saying, After
  <2> QED
    BY <1>1, <2>1, <2>2, TellsOf
<1>12. CASE EmitEnd(r)
  <2>1. pc[r] = "end" /\ pc'[r] = "unlocking"
    BY <1>1, <1>12 DEF EmitEnd, Goto
  <2>2. PICK w \in Good : Emit(r, EndEv(w))
    BY <1>12 DEF EmitEnd, Good
  <2>3. Saying(r) = "live" /\ Saying(r)' = "ended" /\ w \in Reasons
    BY <2>1, <2>2 DEF Saying, Good, Reasons
  <2> QED
    BY <2>2, <2>3, TellsEnd
<1>13. CASE EmitError(r)
  <2>1. pc[r] = "error" /\ pc'[r] = "resolving" /\ Emit(r, Ev("error", turn[r], 0))
    BY <1>1, <1>13 DEF EmitError, Goto
  <2>2. Saying(r) = "live" /\ Saying(r)' = After("error")
    BY <2>1 DEF Saying, After
  <2> QED
    BY <1>1, <2>1, <2>2, TellsOf
<1>14. CASE EmitErrEnd(r)
  <2>1. pc[r] = "errend" /\ pc'[r] \in {"unlocking", "closing"}
    BY <1>1, <1>14 DEF EmitErrEnd, Goto
  <2>2. PICK w \in {"error", "timeout", "cancelled"} : Emit(r, EndEv(w))
    BY <1>14 DEF EmitErrEnd, TypeOK, FailureReasons
  <2>3. Saying(r) = "failed" /\ Saying(r)' = "ended" /\ w \in Reasons \ Good
    BY <2>1, <2>2 DEF Saying, Good, Reasons, FailureReasons
  <2> QED
    BY <2>2, <2>3, TellsEnd
<1>15. CASE Receive(r) \/ Clock(r)
  BY <1>15 DEF Receive, Clock, UserDone, RunTimeout, LLMCallTimeout, IsQuiet, Saying
<1>16. CASE ResolveReason(r)
  BY <1>1, <1>16 DEF ResolveReason, Goto, IsQuiet, Saying
<1> QED
  BY <1>4, <1>5, <1>6, <1>7, <1>8, <1>9, <1>10, <1>11, <1>12, <1>13, <1>14, <1>15, <1>16
  DEF Step, Streaming, Looping, Ending

\* A step of a run keeps Said and Saying together, and is one of a Runner.
LEMMA TellingStep ==
  ASSUME TypeOK, NEW r \in Runs, Step(r), Said(r) = Saying(r)
  PROVE  Said(r)' = Saying(r)' /\ Telling(r)
<1>1. CASE IsQuiet(r)
  <2>1. out'[r] = out[r] /\ (Saying(r)' = Saying(r) \/ (Saying(r) = "ended" /\ Saying(r)' = "closed"))
    BY <1>1 DEF IsQuiet
  <2>2. \A x \in {pc[r], pc'[r]} : x = "closed" \/ x # "closed"
    OBVIOUS
  <2>3. CASE pc'[r] = "closed"
    <3>1. Said(r)' = "closed" /\ Saying(r)' = "closed"
      BY <2>3 DEF Said, Saying
    <3>2. Said(r) \in {"ended", "closed"}
      BY <2>1, <3>1
    <3> QED
      BY <2>1, <3>1, <3>2 DEF Telling, Teller!Closes
  <2>4. CASE pc'[r] # "closed"
    <3>1. Saying(r)' # "closed"
      BY <2>4 DEF Saying
    <3>2. Saying(r)' = Saying(r) /\ Saying(r) # "closed"
      BY <2>1, <3>1
    <3>3. pc[r] # "closed"
      BY <3>2 DEF Saying
    <3>4. Said(r)' = Said(r)
      BY <2>1, <2>4, <3>3 DEF Said
    <3> QED
      BY <2>1, <3>2, <3>4 DEF Telling
  <2> QED
    BY <2>3, <2>4
<1>2. CASE IsTelling(r)
  <2>1. PICK e \in Event : OutGrows(r, e) /\ MayTell(r, e)
    BY <1>2 DEF IsTelling
  <2>2. /\ out'[r] # <<>> /\ out'[r] # out[r] /\ out'[r][Len(out'[r])] = e
        /\ out'[r] = Append(out[r], e)
    <3>1. /\ out'[r] # <<>> /\ Len(out[r]) \in Nat /\ Len(out'[r]) = Len(out[r]) + 1
          /\ out'[r][Len(out'[r])] = e
      BY <2>1, Sent
    <3>2. out'[r] # out[r]
      BY <3>1
    <3> QED
      BY <2>1, <3>1, <3>2 DEF OutGrows
  <2>3. Saying(r)' = After(e.kind)
    BY <2>1 DEF MayTell
  <2>4. pc'[r] # "closed"
    BY <2>3 DEF Saying, After
  <2>5. Said(r)' = After(e.kind)
    BY <2>2, <2>4 DEF Said, After
  <2>6. Teller(r)!Tells(e.kind, e.reason)
    BY <2>1, <2>5 DEF MayTell, After, Teller!Tells, Teller!Good, Teller!Bad
  <2> QED
    BY <2>2, <2>3, <2>5, <2>6 DEF Telling
<1> QED
  BY <1>1, <1>2, SayStep

LEMMA InitSaid == Init => SaidInv /\ \A r \in Runs : Teller(r)!RunnerInit
<1> SUFFICES ASSUME Init, NEW r \in Runs PROVE Said(r) = Saying(r) /\ Teller(r)!RunnerInit
  BY DEF SaidInv
<1>1. pc[r] = "idle" /\ out[r] = <<>>
  BY DEF Init
<1>2. Said(r) = "live" /\ Saying(r) = "live"
  BY <1>1 DEF Said, Saying
<1> QED
  BY <1>2 DEF Teller!RunnerInit

LEMMA NextSaid ==
  TypeOK /\ SaidInv /\ [Next]_vars => SaidInv' /\ [\A r \in Runs : Telling(r)]_vars
<1> SUFFICES ASSUME TypeOK, SaidInv, [Next]_vars, NEW s \in Runs
             PROVE  Said(s)' = Saying(s)' /\ Telling(s)
  BY DEF SaidInv
<1>1. Said(s) = Saying(s)
  BY DEF SaidInv
<1>2. ASSUME UNCHANGED <<pc[s], out[s]>>
      PROVE  Said(s)' = Saying(s)' /\ Telling(s)
  <2>1. Said(s)' = Said(s) /\ Saying(s)' = Saying(s) /\ out'[s] = out[s]
    BY <1>2 DEF Said, Saying
  <2> QED
    BY <1>1, <2>1 DEF Telling
<1>3. ASSUME NEW r \in Runs, Step(r)
      PROVE  Said(s)' = Saying(s)' /\ Telling(s)
  <2>1. CASE s = r
    BY <1>1, <1>3, <2>1, TellingStep
  <2>2. CASE s # r
    BY <1>2, <1>3, <2>2, OthersKeep DEF Keeps
  <2> QED
    BY <2>1, <2>2
<1>4. CASE UNCHANGED vars
  BY <1>2, <1>4 DEF vars
<1> QED
  BY <1>3, <1>4 DEF Next, Step

\* A run is a Runner to its consumers: a result right behind each call, the end
\* behind an error exactly if its reason is a failure's, the close behind the end
\* (run.go:19, 190-191, 203-211, 264-295), for any sizes and deadlines.
THEOREM RunsAreRunners == Spec => RunnerContract
  BY InitTypeOK, NextTypeOK, InitSaid, NextSaid, PTL DEF Spec, RunnerContract
=============================================================================
