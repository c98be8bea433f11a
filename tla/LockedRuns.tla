----------------------------- MODULE LockedRuns -----------------------------
(***************************************************************************)
(* The runs of a session together with the LocalLocker that serialises     *)
(* them (agent/run.go, agent/locker.go).  In AgentRun a run takes the lock *)
(* in one step, when no other run has it.  Here it calls Lock and waits in *)
(* it, a goroutine takes the mutex, a cancelled call leaves its goroutine  *)
(* behind, and other users of the locker lock and forget what they like.   *)
(* The runs behave as AgentRun says all the same.                          *)
(*                                                                         *)
(* The calls of Lock are those of the runs, one each, and those of others, *)
(* for other ids.  A call, its return and the end of the context given to  *)
(* it are steps of a run and the locker together.  All other steps are of  *)
(* one of them alone.                                                      *)
(***************************************************************************)
EXTENDS LocalLocker

CONSTANTS Runs,    \* the runs, by the name of their call of Lock
          Session, \* their session id
          NoRun, MaxTurns, OutCap, MaxDeltas, MaxCalls, UserEnds, HistoryFails

ASSUME RunsAssumption == Runs \subseteq Calls /\ NoRun \notin Runs
\* As AgentRun assumes them.
ASSUME SizesAssumption ==
  /\ MaxTurns \in Nat \ {0}
  /\ OutCap \in Nat \ {0}
  /\ MaxDeltas \in Nat
  /\ MaxCalls \in Nat
  /\ UserEnds \subseteq {"canceled", "deadline"}
  /\ HistoryFails \in BOOLEAN

VARIABLES pc, stored, userErr, runErr, callErr, savedErr, why, hist, base, turn, deltas,
          calls, usage, sErr, cut, tool, pending, out, got

\* The runs that Lock has given an unlock function they have not called yet.
Held == {r \in Runs : status[r] = "held"}
Holder == IF Held = {} THEN NoRun ELSE CHOOSE r \in Held : TRUE

R == INSTANCE AgentRun WITH holder <- Holder

lockerVars == vars
restVars == <<stored, userErr, runErr, callErr, savedErr, why, hist, base, turn, deltas, calls,
              usage, sErr, cut, tool, pending, out, got>>
runVars == <<pc, restVars>>
lockedVars == <<lockerVars, runVars>>

LockedInit ==
  /\ Init
  /\ \A c \in Calls : id[c] = Session <=> c \in Runs
  /\ R!Init

-----------------------------------------------------------------------------
\* Run r calls Lock, with its id and its context.
CallsLock(r) ==
  /\ pc[r] = "locking"
  /\ Lock(r)
  /\ UNCHANGED runVars

\* Lock returns the unlock function.
LockSucceeds(r) ==
  /\ pc[r] = "locking"
  /\ LockReturns(r)
  /\ R!Goto(r, IF stored[r] THEN "reading" ELSE "calling")
  /\ UNCHANGED restVars

\* Lock returns the error of the context.
LockFails(r) == LockCancelled(r) /\ R!LockFails(r)

\* The deferred unlock.
CallsUnlock(r) ==
  /\ pc[r] = "unlocking"
  /\ Unlock(r)
  /\ R!Goto(r, "closing")
  /\ UNCHANGED restVars

\* The locker minds the context of a run up to the return of Lock.
Minds(r) == status[r] \in {"idle", "waiting"} /\ runErr[r] = "nil"
ContextEnds(r) ==
  /\ IF Minds(r) THEN ContextDone(r) ELSE UNCHANGED lockerVars
  /\ R!Clock(r)

\* What a run does without the locker.
RunStep(r) ==
  /\ UNCHANGED lockerVars
  /\ \/ R!Start(r) \/ R!CloseOut(r) \/ R!Storing(r) \/ R!Calling(r)
     \/ R!Streaming(r) \/ R!Looping(r) \/ R!Ending(r) \/ R!Receive(r)

\* What the locker does without a run: its goroutines, other calls, Forget.
LockerStep ==
  /\ Next
  /\ \A r \in Runs : /\ status'[r] = status[r]
                     /\ r \in ctxDone' <=> r \in ctxDone
  /\ UNCHANGED runVars

LockedNext ==
  \/ \E r \in Runs : \/ CallsLock(r) \/ LockSucceeds(r) \/ LockFails(r)
                     \/ CallsUnlock(r) \/ ContextEnds(r) \/ RunStep(r)
  \/ LockerStep

LockedSpec == LockedInit /\ [][LockedNext]_lockedVars

(***************************************************************************)
(* What is due happens: the goroutines of the locker run, and mutexes are  *)
(* given to those who wait; runs proceed; tools, History calls and         *)
(* Client.Stream come back, which their interfaces owe to the context they *)
(* get; time passes, so that the RunTimeout expires; and a caller keeps    *)
(* receiving.  The provider owes nothing.  One condition for all of it is  *)
(* enough: no step can be taken for ever, so a behaviour comes to rest,    *)
(* and then nothing is due.                                                *)
(***************************************************************************)
Scheduled(c) == (AcquireMutex(c) \/ ReleaseAbandoned(c)) /\ UNCHANGED runVars
Proceeds(r) ==
  \/ CallsLock(r) \/ LockSucceeds(r) \/ LockFails(r) \/ CallsUnlock(r)
  \/ /\ UNCHANGED lockerVars
     /\ \/ R!CloseOut(r) \/ R!Storing(r) \/ R!Calling(r) \/ R!StreamGivenUp(r)
        \/ R!Looping(r) \/ R!Ending(r) \/ R!Receive(r)
  \/ ContextEnds(r) /\ R!RunTimeout(r)
LockedFairness ==
  WF_lockedVars((\E c \in Calls : Scheduled(c)) \/ (\E r \in Runs : Proceeds(r)))

LockedFairSpec == LockedSpec /\ LockedFairness

-----------------------------------------------------------------------------
\* With a LocalLocker, and whatever else it is used for, the runs of a session
\* do what AgentRun says, where a lock is just who has it (run.go:73-80).
RunsAreLocked == R!Spec

\* From the read of the transcript to the append, no other run of the session
\* touches it (run.go:74-211, ADR-024).
NoStaleAppend == R!NoStaleAppend

\* The runs behave as if each read the transcript and appended a whole turn to
\* it in one go (TurnLog).
RunsAreSerial == R!RunsAreSerial

\* Every run that is started closes its channel, whatever the provider and the
\* other runs of the session do, and whatever goroutines they leave behind in
\* the locker, as long as its caller keeps receiving (run.go:63-64, 74-80, 228).
RunEnds == \A r \in Runs : pc[r] = "locking" ~> pc[r] = "closed"
=============================================================================
