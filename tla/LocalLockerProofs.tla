------------------------- MODULE LocalLockerProofs --------------------------
(***************************************************************************)
(* LocalLocker is a Locker, for every set of calls and session ids, and    *)
(* the runs that lock their session with it behave as AgentRun says.       *)
(***************************************************************************)
EXTENDS LockedRuns, TLAPS

\* What ties the callers, their goroutines and the map together: a call that
\* is waiting or holding uses the mutex the map has for its id, because Forget
\* does not run meanwhile, and a holder's goroutine owns that mutex.
Coupling ==
  /\ \A c \in Calls : status[c] = "idle" <=> goro[c] = "none"
  /\ \A c \in Calls : goro[c] # "none" => mutex[c] \in Calls
  /\ \A c \in Calls : status[c] = "held" => Owns(c)
  /\ \A c \in Calls : status[c] \in {"waiting", "held"} => mutex[c] = locks[id[c]]

IInv == TypeOK /\ Coupling /\ LockedIffOwned

LEMMA InitIInv == Init => IInv
  BY DEF Init, IInv, TypeOK, Coupling, LockedIffOwned, Owns, Statuses, GoroStates

LEMMA NextIInv == IInv /\ [Next]_vars => IInv'
<1> SUFFICES ASSUME IInv, [Next]_vars PROVE IInv'
  OBVIOUS
<1> USE NoMutexAssumption
        DEF IInv, TypeOK, Coupling, LockedIffOwned, Owns, Statuses, GoroStates
<1>1. ASSUME NEW c \in Calls, Lock(c) PROVE IInv'
  <2>1. TypeOK'
    BY <1>1 DEF Lock
  <2>2. Coupling'
    BY <1>1 DEF Lock
  <2>3. LockedIffOwned'
    BY <1>1 DEF Lock
  <2>4. QED BY <2>1, <2>2, <2>3
<1>2. ASSUME NEW c \in Calls, AcquireMutex(c) PROVE IInv'
  <2>1. TypeOK'
    BY <1>2 DEF AcquireMutex
  <2>2. Coupling'
    BY <1>2 DEF AcquireMutex
  <2>3. LockedIffOwned'
    BY <1>2 DEF AcquireMutex
  <2>4. QED BY <2>1, <2>2, <2>3
<1>3. ASSUME NEW c \in Calls, LockReturns(c) PROVE IInv'
  BY <1>3 DEF LockReturns
<1>4. ASSUME NEW c \in Calls, LockCancelled(c) PROVE IInv'
  BY <1>4 DEF LockCancelled
<1>5. ASSUME NEW c \in Calls, ReleaseAbandoned(c) PROVE IInv'
  <2>1. TypeOK'
    BY <1>5 DEF ReleaseAbandoned, UnlockMutex
  <2>2. Coupling'
    BY <1>5 DEF ReleaseAbandoned, UnlockMutex
  <2>3. LockedIffOwned'
    BY <1>5 DEF ReleaseAbandoned, UnlockMutex
  <2>4. QED BY <2>1, <2>2, <2>3
<1>6. ASSUME NEW c \in Calls, Unlock(c) PROVE IInv'
  <2>1. CASE status[c] = "held" /\ UnlockMutex(c)
    <3>1. TypeOK'
      BY <1>6, <2>1 DEF Unlock, UnlockMutex
    <3>2. Coupling'
      BY <1>6, <2>1 DEF Unlock, UnlockMutex
    <3>3. LockedIffOwned'
      BY <1>6, <2>1 DEF Unlock, UnlockMutex
    <3>4. QED BY <3>1, <3>2, <3>3
  <2>2. CASE status[c] = "released" /\ UNCHANGED <<locked, goro>>
    BY <1>6, <2>2 DEF Unlock
  <2>3. QED BY <1>6, <2>1, <2>2 DEF Unlock
<1>7. ASSUME NEW c \in Calls, ContextDone(c) PROVE IInv'
  BY <1>7 DEF ContextDone
<1>8. ASSUME NEW i \in Ids, Forget(i) PROVE IInv'
  BY <1>8 DEF Forget
<1>9. CASE UNCHANGED vars
  BY <1>9 DEF vars
<1>10. QED
  BY <1>1, <1>2, <1>3, <1>4, <1>5, <1>6, <1>7, <1>8, <1>9 DEF Next, LockStep

LEMMA IInvMutualExclusion == IInv => MutualExclusion
  BY DEF IInv, Coupling, LockedIffOwned, MutualExclusion

\* The variables keep their types in every behaviour of the locker.
THEOREM TypeCorrect == Spec => []TypeOK
<1>1. IInv => TypeOK
  BY DEF IInv
<1>2. QED
  BY InitIInv, NextIInv, <1>1, PTL DEF Spec

\* No two calls hold the lock of one session id (locker.go:10-13), for any
\* number of calls, ids, cancellations, repeated unlocks and legal Forgets.
THEOREM LockIsExclusive == Spec => []MutualExclusion
  BY InitIInv, NextIInv, IInvMutualExclusion, PTL DEF Spec

\* A mutex is locked exactly while one call owes it an unlock, so that Go's
\* "unlock of unlocked mutex" cannot happen and no mutex is left locked for
\* good (locker.go:45-63).
THEOREM NoOrphanMutex == Spec => []LockedIffOwned
<1>1. IInv => LockedIffOwned
  BY DEF IInv
<1>2. QED
  BY InitIInv, NextIInv, <1>1, PTL DEF Spec

LEMMA StepImplementsContract ==
  IInv /\ [Next]_vars => [Contract!Next]_<<status, id>>
<1> SUFFICES ASSUME IInv, [Next]_vars
             PROVE Contract!Next \/ UNCHANGED <<status, id>>
  OBVIOUS
<1> USE DEF Contract!Next, Contract!Become
<1>1. ASSUME NEW c \in Calls, Lock(c) PROVE Contract!Next
  BY <1>1 DEF Lock, Contract!Request
<1>2. ASSUME NEW c \in Calls, LockReturns(c) PROVE Contract!Next
  <2>1. ASSUME NEW d \in Calls, id[d] = id[c] PROVE status[d] # "held"
    BY <1>2, <2>1 DEF LockReturns, IInv, Coupling, LockedIffOwned, Owns
  <2>2. Contract!Grant(c)
    BY <1>2, <2>1 DEF LockReturns, Contract!Grant
  <2>3. QED BY <2>2
<1>3. ASSUME NEW c \in Calls, LockCancelled(c) PROVE Contract!Next
  BY <1>3 DEF LockCancelled, Contract!Refuse
<1>4. ASSUME NEW c \in Calls, Unlock(c)
      PROVE Contract!Next \/ UNCHANGED <<status, id>>
  <2>1. CASE status[c] = "held"
    BY <1>4, <2>1 DEF Unlock, Contract!Release
  <2>2. CASE status[c] = "released"
    BY <1>4, <2>2 DEF Unlock, IInv, TypeOK
  <2>3. QED BY <1>4, <2>1, <2>2 DEF Unlock
<1>5. ASSUME NEW c \in Calls,
             AcquireMutex(c) \/ ReleaseAbandoned(c) \/ ContextDone(c)
      PROVE UNCHANGED <<status, id>>
  BY <1>5 DEF AcquireMutex, ReleaseAbandoned, ContextDone
<1>6. ASSUME NEW i \in Ids, Forget(i) PROVE UNCHANGED <<status, id>>
  BY <1>6 DEF Forget
<1>7. CASE UNCHANGED vars
  BY <1>7 DEF vars
<1>8. QED
  BY <1>1, <1>2, <1>3, <1>4, <1>5, <1>6, <1>7 DEF Next, LockStep

\* LocalLocker implements what the Locker interface promises, so that a
\* component checked against SessionMutex may be run with a LocalLocker.
THEOREM ImplementsLocker == Spec => LockerContract
<1>1. Init => Contract!Init
  BY DEF Init, Contract!Init
<1>2. QED
  BY InitIInv, NextIInv, StepImplementsContract, <1>1, PTL
  DEF Spec, LockerContract, Contract!Spec

-----------------------------------------------------------------------------
(***************************************************************************)
(* LockedRuns: AgentRun with a LocalLocker.  What is proved of AgentRun    *)
(* holds of its image under the refinement mapping, P!..., as well.        *)
(***************************************************************************)
P == INSTANCE AgentRunProofs WITH holder <- Holder

\* AgentRunProofs and LockedRuns instantiate AgentRun alike.
LEMMA SameLocking ==
  ASSUME NEW r \in Runs
  PROVE  P!Locking(r) <=> R!Locking(r)
  BY DEF P!Locking, P!Start, P!TakeLock, P!LockFails, P!Unlock, P!CloseOut, P!Fail, P!Goto,
         P!DropResponse, P!ctxVars, P!turnVars, P!respVars, R!Locking, R!Start, R!TakeLock,
         R!LockFails, R!Unlock, R!CloseOut, R!Fail, R!Goto, R!DropResponse, R!ctxVars,
         R!turnVars, R!respVars

LEMMA SameStoring ==
  ASSUME NEW r \in Runs
  PROVE  P!Storing(r) <=> R!Storing(r)
  BY DEF P!Storing, P!ReadHistory, P!AppendHistory, P!HistoryRefuses, P!Fail, P!Goto,
         P!DropResponse, P!UserMsg, P!ctxVars, P!turnVars, P!respVars, R!Storing,
         R!ReadHistory, R!AppendHistory, R!HistoryRefuses, R!Fail, R!Goto, R!DropResponse,
         R!UserMsg, R!ctxVars, R!turnVars, R!respVars

LEMMA SameCalling ==
  ASSUME NEW r \in Runs
  PROVE  P!Calling(r) <=> R!Calling(r)
  BY DEF P!Calling, P!BeginCall, P!StreamOpens, P!StreamRefused, P!TurnsLeft, P!CancelCall,
         P!Fail, P!Goto, P!DropResponse, P!ctxVars, P!turnVars, P!respVars, R!Calling,
         R!BeginCall, R!StreamOpens, R!StreamRefused, R!TurnsLeft, R!CancelCall, R!Fail,
         R!Goto, R!DropResponse, R!ctxVars, R!turnVars, R!respVars

LEMMA SameStreaming ==
  ASSUME NEW r \in Runs
  PROVE  P!Streaming(r) <=> R!Streaming(r)
  BY DEF P!Streaming, P!StreamDelta, P!StreamAccumulates, P!StreamCloses, P!StreamGivenUp,
         P!CancelCall, P!Fail, P!Goto, P!Emit, P!Ev, P!DropResponse, P!ctxVars, P!turnVars,
         P!respVars, R!Streaming, R!StreamDelta, R!StreamAccumulates, R!StreamCloses,
         R!StreamGivenUp, R!CancelCall, R!Fail, R!Goto, R!Emit, R!Ev, R!DropResponse,
         R!ctxVars, R!turnVars, R!respVars

LEMMA SameLooping ==
  ASSUME NEW r \in Runs
  PROVE  P!Looping(r) <=> R!Looping(r)
  BY DEF P!Looping, P!AssistantTurn, P!ToolCall, P!ToolResult, P!AfterTool, P!AfterLoop,
         P!TurnsLeft, P!AssistantMsg, P!ToolMsg, P!Goto, P!Emit, P!Ev, P!ctxVars,
         P!turnVars, P!respVars, R!Looping, R!AssistantTurn, R!ToolCall, R!ToolResult,
         R!AfterTool, R!AfterLoop, R!TurnsLeft, R!AssistantMsg, R!ToolMsg, R!Goto, R!Emit,
         R!Ev, R!ctxVars, R!turnVars, R!respVars

LEMMA SameEnding ==
  ASSUME NEW r \in Runs
  PROVE  P!Ending(r) <=> R!Ending(r)
  BY DEF P!Ending, P!EmitEnd, P!EmitError, P!ResolveReason, P!EmitErrEnd, P!EndEv, P!Ev,
         P!ResolveEndReason, P!Goto, P!Emit, P!ctxVars, P!turnVars, P!respVars, R!Ending,
         R!EmitEnd, R!EmitError, R!ResolveReason, R!EmitErrEnd, R!EndEv, R!Ev, R!ResolveEndReason, R!Goto, R!Emit,
         R!ctxVars, R!turnVars, R!respVars

LEMMA SameReceive ==
  ASSUME NEW r \in Runs
  PROVE  P!Receive(r) <=> R!Receive(r)
  BY DEF P!Receive, P!ctxVars, P!turnVars, P!respVars, R!Receive, R!ctxVars, R!turnVars,
         R!respVars

LEMMA SameClock ==
  ASSUME NEW r \in Runs
  PROVE  P!Clock(r) <=> R!Clock(r)
  BY DEF P!Clock, P!UserDone, P!RunTimeout, P!LLMCallTimeout, P!Contextual, P!Locations,
         P!Inherit, P!CallInherits, P!InCall, P!ctxVars, P!turnVars, P!respVars, R!Clock,
         R!UserDone, R!RunTimeout, R!LLMCallTimeout, R!Contextual, R!Locations, R!Inherit,
         R!CallInherits, R!InCall, R!ctxVars, R!turnVars, R!respVars

LEMMA SameSpec == /\ P!Init <=> R!Init
                  /\ P!Next <=> R!Next
                  /\ P!vars = R!vars
                  /\ [P!Next]_P!vars <=> [R!Next]_R!vars
<1>1. P!Init <=> R!Init
  BY DEF P!Init, R!Init
<1>2. P!Next <=> R!Next
  BY SameLocking, SameStoring, SameCalling, SameStreaming, SameLooping, SameEnding,
     SameReceive, SameClock
  DEF P!Next, R!Next
<1>3. P!vars = R!vars
  BY DEF P!vars, P!ctxVars, P!turnVars, P!respVars, R!vars, R!ctxVars, R!turnVars,
         R!respVars
<1>4. (P!vars)' = P!vars <=> (R!vars)' = R!vars
  BY DEF P!vars, P!ctxVars, P!turnVars, P!respVars, R!vars, R!ctxVars, R!turnVars,
         R!respVars
<1>5. QED BY <1>1, <1>2, <1>3, <1>4

\* The calls of the runs are for the session, the others are not.
IdsInv == \A c \in Calls : id[c] = Session <=> c \in Runs

\* No run holds the lock, or the one that Holder says.
LEMMA HolderHolds ==
  /\ Held = {} => Holder = NoRun
  /\ \A r \in Runs : Holder = r => status[r] = "held"
  BY RunsAssumption DEF Held, Holder

LEMMA HolderIs ==
  ASSUME NEW r \in Runs, Held = {r}
  PROVE  Holder = r
  BY DEF Holder

LEMMA HolderStays ==
  ASSUME \A r \in Runs : status'[r] = "held" <=> status[r] = "held"
  PROVE  Holder' = Holder
<1>1. Held' = Held
  BY DEF Held
<1>2. QED BY <1>1 DEF Holder

\* A run that has the mutex of the session has no other run beside it.
LEMMA OneHolds ==
  ASSUME IInv, IdsInv, NEW r \in Runs, goro[r] = "acquired",
         status[r] \in {"waiting", "held"}
  PROVE  \A s \in Runs \ {r} : status[s] # "held"
<1>1. ASSUME NEW s \in Runs, status[s] = "held" PROVE s = r
  <2>1. r \in Calls /\ s \in Calls /\ id[r] = id[s]
    BY RunsAssumption DEF IdsInv
  <2>2. mutex[r] = mutex[s] /\ Owns(r) /\ Owns(s)
    BY <1>1, <2>1 DEF IInv, Coupling, Owns
  <2>3. QED BY <2>1, <2>2 DEF IInv, LockedIffOwned
<1>2. QED BY <1>1

LEMMA LockedStepIsLockers == LockedNext => [Next]_vars
<1> SUFFICES ASSUME LockedNext PROVE Next \/ UNCHANGED vars
  OBVIOUS
<1>1. ASSUME NEW r \in Runs,
             CallsLock(r) \/ LockSucceeds(r) \/ LockFails(r) \/ CallsUnlock(r)
      PROVE  Next
  BY <1>1, RunsAssumption
  DEF CallsLock, LockSucceeds, LockFails, CallsUnlock, Next, LockStep
<1>2. ASSUME NEW r \in Runs, ContextEnds(r) \/ RunStep(r)
      PROVE  Next \/ UNCHANGED vars
  BY <1>2, RunsAssumption DEF ContextEnds, RunStep, lockerVars, Next, LockStep
<1>3. CASE LockerStep
  BY <1>3 DEF LockerStep
<1>4. QED BY <1>1, <1>2, <1>3 DEF LockedNext

LEMMA UnchangedRun ==
  ASSUME UNCHANGED runVars, Holder' = Holder
  PROVE  UNCHANGED R!vars
  BY DEF runVars, restVars, R!vars, R!ctxVars, R!turnVars, R!respVars

\* Every step is one of AgentRun, or one that it does not see.
LEMMA LockedStepIsRuns ==
  ASSUME IInv, IdsInv, P!LockInv, LockedNext
  PROVE  R!Next \/ UNCHANGED R!vars
<1>calls. Runs \subseteq Calls /\ status \in [Calls -> Statuses]
  BY RunsAssumption DEF IInv, TypeOK
<1>1. ASSUME NEW r \in Runs, CallsLock(r) PROVE UNCHANGED R!vars
  <2>1. \A s \in Runs : status'[s] = "held" <=> status[s] = "held"
    BY <1>calls, <1>1 DEF CallsLock, Lock
  <2>2. QED BY <1>1, <2>1, HolderStays, UnchangedRun DEF CallsLock
<1>2. ASSUME NEW r \in Runs, LockSucceeds(r) PROVE R!TakeLock(r)
  <2>1. status[r] = "waiting" /\ goro[r] = "acquired"
        /\ status' = [status EXCEPT ![r] = "held"]
    BY <1>2 DEF LockSucceeds, LockReturns
  <2>2. \A s \in Runs \ {r} : status[s] # "held"
    BY <2>1, OneHolds
  <2>3. Held = {}
    BY <2>1, <2>2 DEF Held
  <2>4. Held' = {r}
    BY <1>calls, <2>1, <2>2 DEF Held
  <2>5. Holder = NoRun /\ Holder' = r
    BY <2>3, <2>4, HolderHolds DEF Holder
  <2>6. QED BY <1>2, <2>5 DEF LockSucceeds, R!TakeLock, R!Goto, restVars,
                              R!ctxVars, R!turnVars, R!respVars
<1>3. ASSUME NEW r \in Runs, CallsUnlock(r) PROVE R!Unlock(r)
  <2>1. Holder = r /\ status[r] = "held"
    BY <1>3, HolderHolds DEF CallsUnlock, P!LockInv, P!Holding
  <2>2. goro[r] = "acquired"
    BY <1>calls, <2>1 DEF IInv, Coupling, Owns
  <2>3. \A s \in Runs \ {r} : status[s] # "held"
    BY <2>1, <2>2, OneHolds
  <2>4. status' = [status EXCEPT ![r] = "released"]
    BY <1>3 DEF CallsUnlock, Unlock
  <2>5. Held' = {}
    BY <1>calls, <2>3, <2>4 DEF Held
  <2>6. Holder' = NoRun
    BY <2>5 DEF Holder
  <2>7. QED BY <1>3, <2>6 DEF CallsUnlock, R!Unlock, R!Goto, restVars,
                              R!ctxVars, R!turnVars, R!respVars
<1>4. ASSUME NEW r \in Runs, LockFails(r) PROVE R!LockFails(r)
  BY <1>4 DEF LockFails
<1>5. ASSUME NEW r \in Runs, ContextEnds(r) \/ RunStep(r) PROVE R!Next
  BY <1>5 DEF ContextEnds, RunStep, R!Next, R!Locking
<1>6. CASE LockerStep
  BY <1>6, HolderStays, UnchangedRun DEF LockerStep
<1>7. QED
  BY <1>1, <1>2, <1>3, <1>4, <1>5, <1>6 DEF LockedNext, R!Next, R!Locking

\* The locker's invariant and AgentRun's: where a run that has the lock may be.
LockedIInv == IInv /\ IdsInv /\ P!TypeOK /\ P!LockInv

LEMMA InitLockedIInv == LockedInit => LockedIInv
<1> SUFFICES ASSUME LockedInit PROVE LockedIInv
  OBVIOUS
<1>1. IInv /\ IdsInv /\ P!Init
  BY InitIInv, SameSpec DEF LockedInit, IdsInv
<1>2. P!TypeOK
  BY <1>1, P!InitTypeOK, RunsAssumption, SizesAssumption
<1>3. P!LockInv
  BY <1>1, P!InitLockInv, RunsAssumption, SizesAssumption
<1>4. QED BY <1>1, <1>2, <1>3 DEF LockedIInv

LEMMA NextLockedIInv ==
  LockedIInv /\ [LockedNext]_lockedVars => LockedIInv' /\ [R!Next]_R!vars
<1> SUFFICES ASSUME LockedIInv, [LockedNext]_lockedVars
             PROVE  LockedIInv' /\ [R!Next]_R!vars
  OBVIOUS
<1>0. IInv /\ IdsInv /\ P!TypeOK /\ P!LockInv
  BY DEF LockedIInv
<1>1. [Next]_vars
  BY LockedStepIsLockers DEF lockedVars, lockerVars
<1>2. IInv'
  BY <1>0, <1>1, NextIInv
<1>3. IdsInv'
  <2>1. id' = id
    BY <1>1 DEF Next, LockStep, Lock, AcquireMutex, LockReturns, LockCancelled,
       ReleaseAbandoned, Unlock, ContextDone, Forget, vars
  <2>2. QED BY <1>0, <2>1 DEF IdsInv
<1>4. [R!Next]_R!vars
  <2>1. CASE LockedNext
    BY <1>0, <2>1, LockedStepIsRuns
  <2>2. CASE UNCHANGED lockedVars
    BY <2>2, HolderStays, UnchangedRun DEF lockedVars, lockerVars, vars
  <2>3. QED BY <2>1, <2>2
<1>5. [P!Next]_P!vars
  BY <1>4, SameSpec
<1>6. P!TypeOK'
  BY <1>0, <1>5, P!NextTypeOK, RunsAssumption, SizesAssumption
<1>7. P!LockInv'
  BY <1>0, <1>5, P!NextLockInv, RunsAssumption, SizesAssumption
<1>8. QED BY <1>2, <1>3, <1>4, <1>6, <1>7 DEF LockedIInv

\* The runs of a session that lock it with a LocalLocker are runs as AgentRun
\* has them, whatever is cancelled, forgotten or locked by others (run.go:73-80,
\* locker.go:45-63).
THEOREM RunsWorkWithLocalLocker == LockedSpec => RunsAreLocked
<1>1. LockedInit => R!Init
  BY DEF LockedInit
<1>2. QED
  BY InitLockedIInv, NextLockedIInv, <1>1, PTL DEF LockedSpec, RunsAreLocked, R!Spec

\* P!Spec is the same formula as R!Spec.
LEMMA RunsSpec == LockedSpec => P!Spec
  BY RunsWorkWithLocalLocker, SameSpec, PTL DEF RunsAreLocked, P!Spec, R!Spec

\* Nor do their properties differ.
LEMMA SamePhase ==
  ASSUME NEW r \in Runs
  PROVE  P!Phase(r) = R!Phase(r)
  BY DEF P!Phase, R!Phase, P!Read, R!Read

LEMMA SameWholeTurn ==
  ASSUME NEW r \in Runs, NEW b
  PROVE  P!Log!WholeTurn(r, b) <=> R!Log!WholeTurn(r, b)
  BY DEF P!Log!WholeTurn, P!Log!CallsAnswered, P!Log!AnswersCalled, R!Log!WholeTurn,
         R!Log!CallsAnswered, R!Log!AnswersCalled

LEMMA SameLog == /\ P!Log!Init <=> R!Log!Init
                 /\ [P!Log!Next]_<<hist, [r \in Runs |-> P!Phase(r)], base>>
                      <=> [R!Log!Next]_<<hist, [r \in Runs |-> R!Phase(r)], base>>
<1> DEFINE p == [r \in Runs |-> P!Phase(r)]
           q == [r \in Runs |-> R!Phase(r)]
<1>1. p = q /\ p' = q'
  BY DEF P!Phase, R!Phase, P!Read, R!Read
<1>2. P!Log!Init <=> R!Log!Init
  BY <1>1 DEF P!Log!Init, R!Log!Init
<1>3. P!Log!Next <=> R!Log!Next
  <2>1. ASSUME NEW r \in Runs
        PROVE  /\ P!Log!Read(r) <=> R!Log!Read(r)
               /\ P!Log!Commit(r) <=> R!Log!Commit(r)
               /\ P!Log!Abort(r) <=> R!Log!Abort(r)
    BY <1>1, <2>1, SameWholeTurn
    DEF P!Log!Read, P!Log!Commit, P!Log!Abort, R!Log!Read, R!Log!Commit, R!Log!Abort
  <2>2. QED BY <2>1 DEF P!Log!Next, R!Log!Next
<1>4. QED BY <1>1, <1>2, <1>3

\* What AgentRun and Drain promise of the runs, TurnLog included, they keep with
\* a LocalLocker (run.go:19-22, 74-211, 272-295): its goroutines, cancelled
\* calls, Forgets and other users take nothing of it away.
THEOREM LockedRunsKeepTheirPromises ==
  LockedSpec => /\ []P!EndsOnceAndLast
                /\ []P!RecordedIffGood
                /\ P!FailureIsBlamedOnContext
                /\ []P!EventsTellTranscript
                /\ []P!DrainIsTranscript
                /\ P!RunnerContract
  BY RunsSpec, P!EndIsLast, P!GoodRunsAreRecorded, P!BlameIsRight, P!ConsumerIsToldTheTurn,
     P!DrainMakesATranscript, P!RunsAreRunners, RunsAssumption, SizesAssumption, PTL

\* No run with a LocalLocker appends its turn behind messages it has not read
\* (run.go:74-211, locker.go:45-63).
THEOREM LockedRunsLoseNothing == LockedSpec => []NoStaleAppend
<1>1. P!NoStaleAppend => NoStaleAppend
  BY SamePhase DEF P!NoStaleAppend, NoStaleAppend, R!NoStaleAppend
<1>2. QED BY <1>1, RunsSpec, P!NoLostUpdate, RunsAssumption, SizesAssumption, PTL

\* With a LocalLocker the runs of a session are serial (run.go:74-211,
\* locker.go:45-63).
THEOREM LockedRunsAreSerial == LockedSpec => RunsAreSerial
  BY RunsSpec, SameLog, P!RunsImplementTurnLog, RunsAssumption, SizesAssumption, PTL
  DEF RunsAreSerial, R!RunsAreSerial, P!RunsAreSerial, P!Log!Spec, R!Log!Spec
=============================================================================
