---------------------------- MODULE LocalLocker -----------------------------
(***************************************************************************)
(* agent.LocalLocker (agent/locker.go): a map from session ids to          *)
(* sync.Mutexes, created on first use and dropped by Forget.  A Go mutex   *)
(* cannot be waited for together with a context, so Lock starts a          *)
(* goroutine that takes it and selects on that goroutine and ctx.Done();   *)
(* when the context wins, the mutex is still taken later and a second      *)
(* goroutine must give it back.                                            *)
(*                                                                         *)
(* A mutex is named by the call of Lock that creates it.  Every step of a  *)
(* section guarded by l.mu is one action: l.mu makes it atomic.  m.Lock()  *)
(* and the close(acquired) after it are one step as well: between the two  *)
(* no other process sees anything but a mutex that is taken.               *)
(***************************************************************************)
EXTENDS Naturals, FiniteSets

CONSTANTS Calls,   \* the calls of Lock, each made once
          Ids,     \* the session ids
          NoMutex  \* "no entry in the map"

ASSUME NoMutexAssumption == NoMutex \notin Calls

VARIABLES status,   \* status[c]: where the caller of Lock is, as in SessionMutex
          id,       \* id[c]: the session id of call c
          locks,    \* l.locks: the mutex of each session id, or NoMutex
          mutex,    \* mutex[c]: the local variable m of call c
          goro,     \* goro[c]: the goroutine call c started to take the mutex
          locked,   \* the mutexes that are locked
          ctxDone   \* the calls whose context is done

vars == <<status, id, locks, mutex, goro, locked, ctxDone>>

Statuses == {"idle", "waiting", "held", "refused", "released"}
GoroStates == {"none", "locking", "acquired", "unlocked"}

TypeOK ==
  /\ status \in [Calls -> Statuses]
  /\ id \in [Calls -> Ids]
  /\ locks \in [Ids -> Calls \cup {NoMutex}]
  /\ mutex \in [Calls -> Calls \cup {NoMutex}]
  /\ goro \in [Calls -> GoroStates]
  /\ locked \in SUBSET Calls
  /\ ctxDone \in SUBSET Calls

Init ==
  /\ status = [c \in Calls |-> "idle"]
  /\ id \in [Calls -> Ids]
  /\ locks = [i \in Ids |-> NoMutex]
  /\ mutex = [c \in Calls |-> NoMutex]
  /\ goro = [c \in Calls |-> "none"]
  /\ locked = {}
  /\ ctxDone = {}

-----------------------------------------------------------------------------
\* As if Lock made a mutex without a look at the map.
LockFresh(c) ==
  /\ status[c] = "idle"
  /\ status' = [status EXCEPT ![c] = "waiting"]
  /\ locks' = [locks EXCEPT ![id[c]] = c]
  /\ mutex' = [mutex EXCEPT ![c] = c]
  /\ goro' = [goro EXCEPT ![c] = "locking"]
  /\ UNCHANGED <<id, locked, ctxDone>>

\* The critical section of Lock and the start of the acquiring goroutine.
Lock(c) ==
  LET m == IF locks[id[c]] = NoMutex THEN c ELSE locks[id[c]]
  IN /\ status[c] = "idle"
     /\ status' = [status EXCEPT ![c] = "waiting"]
     /\ locks' = [locks EXCEPT ![id[c]] = m]
     /\ mutex' = [mutex EXCEPT ![c] = m]
     /\ goro' = [goro EXCEPT ![c] = "locking"]
     /\ UNCHANGED <<id, locked, ctxDone>>

\* m.Lock() returns in the goroutine of call c, which closes acquired.
AcquireMutex(c) ==
  /\ goro[c] = "locking"
  /\ mutex[c] \notin locked
  /\ locked' = locked \cup {mutex[c]}
  /\ goro' = [goro EXCEPT ![c] = "acquired"]
  /\ UNCHANGED <<status, id, locks, mutex, ctxDone>>

\* select takes <-acquired: Lock returns its unlock function.
LockReturns(c) ==
  /\ status[c] = "waiting"
  /\ goro[c] = "acquired"
  /\ status' = [status EXCEPT ![c] = "held"]
  /\ UNCHANGED <<id, locks, mutex, goro, locked, ctxDone>>

\* select takes <-ctx.Done(), which it may even when acquired is closed too:
\* Lock starts the releasing goroutine and returns ctx.Err().
LockCancelled(c) ==
  /\ status[c] = "waiting"
  /\ c \in ctxDone
  /\ status' = [status EXCEPT ![c] = "refused"]
  /\ UNCHANGED <<id, locks, mutex, goro, locked, ctxDone>>

\* m.Unlock() for the mutex of call c.
UnlockMutex(c) ==
  /\ locked' = locked \ {mutex[c]}
  /\ goro' = [goro EXCEPT ![c] = "unlocked"]

\* As if the releasing goroutine did not wait for acquired.
ReleaseAtOnce(c) ==
  /\ status[c] = "refused"
  /\ goro[c] \in {"locking", "acquired"}
  /\ UnlockMutex(c)
  /\ UNCHANGED <<status, id, locks, mutex, ctxDone>>

\* As if a cancelled Lock did not give the mutex back.
ReleaseNever(c) == FALSE /\ UNCHANGED vars

\* The releasing goroutine of a cancelled Lock: <-acquired; m.Unlock().
ReleaseAbandoned(c) ==
  /\ status[c] = "refused"
  /\ goro[c] = "acquired"
  /\ UnlockMutex(c)
  /\ UNCHANGED <<status, id, locks, mutex, ctxDone>>

\* As if unlock were m.Unlock itself, without the sync.Once.
UnlockNoOnce(c) ==
  /\ status[c] \in {"held", "released"}
  /\ UnlockMutex(c)
  /\ status' = [status EXCEPT ![c] = "released"]
  /\ UNCHANGED <<id, locks, mutex, ctxDone>>

\* The unlock function; sync.Once makes every call but the first do nothing.
Unlock(c) ==
  /\ \/ /\ status[c] = "held"
        /\ UnlockMutex(c)
     \/ /\ status[c] = "released"
        /\ UNCHANGED <<locked, goro>>
  /\ status' = [status EXCEPT ![c] = "released"]
  /\ UNCHANGED <<id, locks, mutex, ctxDone>>

\* As if Forget did not mind calls that are waiting or holding.
ForgetAnytime(i) ==
  /\ locks' = [locks EXCEPT ![i] = NoMutex]
  /\ UNCHANGED <<status, id, mutex, goro, locked, ctxDone>>

\* Forget, used as its comment allows: no Lock call of the id is waiting and
\* no unlock is due.  Goroutines of cancelled calls may well be around.
Forget(i) ==
  /\ \A c \in Calls : id[c] = i => status[c] \notin {"waiting", "held"}
  /\ locks' = [locks EXCEPT ![i] = NoMutex]
  /\ UNCHANGED <<status, id, mutex, goro, locked, ctxDone>>

\* The caller's context is cancelled or expires, before or while Lock waits.
ContextDone(c) ==
  /\ status[c] \in {"idle", "waiting"}
  /\ c \notin ctxDone
  /\ ctxDone' = ctxDone \cup {c}
  /\ UNCHANGED <<status, id, locks, mutex, goro, locked>>

LockStep(c) ==
  \/ Lock(c) \/ AcquireMutex(c) \/ LockReturns(c) \/ LockCancelled(c)
  \/ ReleaseAbandoned(c) \/ Unlock(c) \/ ContextDone(c)

Next == (\E c \in Calls : LockStep(c)) \/ (\E i \in Ids : Forget(i))

Spec == Init /\ [][Next]_vars

(***************************************************************************)
(* Goroutines are scheduled, and a holder calls unlock (Session defers it, *)
(* run.go:80).  A Go mutex in starvation mode is handed to its waiters in  *)
(* order; each call asks once here, so weak fairness is enough.  No        *)
(* context is ever obliged to end.                                         *)
(***************************************************************************)
Fairness ==
  \A c \in Calls : /\ WF_vars(AcquireMutex(c))
                   /\ WF_vars(LockReturns(c) \/ LockCancelled(c))
                   /\ WF_vars(ReleaseAbandoned(c))
                   /\ WF_vars(status[c] = "held" /\ Unlock(c))

FairSpec == Spec /\ Fairness

-----------------------------------------------------------------------------
\* Lock never lets two calls of one session id through at a time, cancelled
\* waiters, repeated unlocks and Forget notwithstanding (locker.go:10-13).
MutualExclusion ==
  \A c, d \in Calls : /\ status[c] = "held"
                      /\ status[d] = "held"
                      /\ id[c] = id[d]
                      => c = d

\* A goroutine that has taken a mutex and not given it back.
Owns(c) == goro[c] = "acquired"

\* A mutex is locked exactly while one call owes it an unlock: Unlock and the
\* releasing goroutine never meet an unlocked mutex (a fatal error in Go), and
\* no mutex stays locked with nobody left to unlock it (locker.go:50-63).
LockedIffOwned ==
  /\ TypeOK
  /\ \A c \in Calls : Owns(c) => mutex[c] \in locked
  /\ \A c, d \in Calls : Owns(c) /\ Owns(d) /\ mutex[c] = mutex[d] => c = d
  /\ \A m \in locked : \E c \in Calls : Owns(c) /\ mutex[c] = m

\* Every call of Lock comes back, with the lock or with the context's error,
\* and one that comes back with the error leaves nothing locked behind: its
\* goroutine takes the mutex and gives it back (locker.go:50-63).
LockAnswers ==
  \A c \in Calls :
    /\ status[c] = "waiting" ~> status[c] \in {"held", "refused"}
    /\ status[c] = "refused" ~> goro[c] = "unlocked"

\* LocalLocker implements the Locker contract.
Contract == INSTANCE SessionMutex
LockerContract == Contract!Spec
=============================================================================
