---------------------------- MODULE SessionMutex ----------------------------
(***************************************************************************)
(* What agent.Locker promises its callers (agent/locker.go:8-16): mutual   *)
(* exclusion keyed by session id.  A call asks for the lock of one id, and *)
(* either is granted it, at a moment when no other call holds it, or is    *)
(* refused; a holder gives it back.  Nothing is said of how.  LocalLocker  *)
(* is shown to implement this module, and AgentRun relies on no more.      *)
(***************************************************************************)
CONSTANTS Calls,   \* the calls of Locker.Lock
          Ids      \* the session ids

VARIABLES status,  \* status[c]: how far call c has got
          id       \* id[c]: the session id call c asks for

Statuses == {"idle", "waiting", "held", "refused", "released"}

Init == /\ status = [c \in Calls |-> "idle"]
        /\ id \in [Calls -> Ids]

Become(c, s) == /\ status' = [status EXCEPT ![c] = s]
                /\ UNCHANGED id

Request(c) == status[c] = "idle" /\ Become(c, "waiting")

Grant(c) == /\ status[c] = "waiting"
            /\ \A d \in Calls : id[d] = id[c] => status[d] # "held"
            /\ Become(c, "held")

Refuse(c) == status[c] = "waiting" /\ Become(c, "refused")

Release(c) == status[c] = "held" /\ Become(c, "released")

Next == \E c \in Calls : Request(c) \/ Grant(c) \/ Refuse(c) \/ Release(c)

Spec == Init /\ [][Next]_<<status, id>>
=============================================================================
