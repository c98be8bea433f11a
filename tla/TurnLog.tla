------------------------------ MODULE TurnLog -------------------------------
(***************************************************************************)
(* What a session's transcript promises whoever runs turns on it           *)
(* (agent/history.go, agent/session.go:36-38): a run reads the transcript  *)
(* once and adds a whole turn to it, or nothing; and the transcript it     *)
(* adds to is the very one it read.  There is no lock here: Commit simply  *)
(* does not happen after somebody else's.  AgentRun is shown to implement  *)
(* this module, by holding the session lock from the read to the append.   *)
(***************************************************************************)
EXTENDS Naturals, Sequences

CONSTANTS Runs,     \* the runs on one session
          MaxTurns  \* the bound on the model calls of a run

VARIABLES hist,     \* the transcript, a sequence of messages
          phase,    \* phase[r]: what run r has done with it
          seen      \* seen[r]: how long it was when run r read it

Phases == {"unread", "read", "over"}

\* A message is its role, the run and the model call (0 for the user's) it
\* belongs to and a number: how many tools an assistant message calls, which
\* of them a tool message answers.  whole tells whether the text is all of
\* what the provider had to say.
Roles == {"user", "assistant", "tool"}
Message == [role : Roles, run : Runs, turn : Nat, n : Nat, whole : BOOLEAN]

\* The tool messages that follow an assistant message answer all its calls, in
\* order; without them the next request to the provider is refused.
CallsAnswered(b) ==
  \A i \in DOMAIN b : b[i].role = "assistant" =>
    \A k \in 1..b[i].n : /\ i + k <= Len(b)
                         /\ b[i + k].role = "tool"
                         /\ b[i + k].turn = b[i].turn
                         /\ b[i + k].n = k

\* No tool message answers a call nobody made.
AnswersCalled(b) ==
  \A i \in DOMAIN b : b[i].role = "tool" =>
    /\ b[i].n \in 1..(i - 1)
    /\ b[i - b[i].n].role = "assistant"
    /\ b[i - b[i].n].n >= b[i].n

\* The messages of one finished turn of run r.
WholeTurn(r, b) ==
  /\ Len(b) >= 2
  /\ b[1].role = "user"
  /\ \A i \in DOMAIN b : b[i].run = r /\ (b[i].role = "user" => i = 1)
  /\ CallsAnswered(b)
  /\ AnswersCalled(b)

Init == /\ hist = <<>>
        /\ phase = [r \in Runs |-> "unread"]
        /\ seen = [r \in Runs |-> 0]

Read(r) == /\ phase[r] = "unread"
           /\ phase' = [phase EXCEPT ![r] = "read"]
           /\ seen' = [seen EXCEPT ![r] = Len(hist)]
           /\ UNCHANGED hist

Commit(r) == /\ phase[r] = "read"
             /\ seen[r] = Len(hist)
             /\ phase' = [phase EXCEPT ![r] = "over"]
             /\ LET b == SubSeq(hist', Len(hist) + 1, Len(hist'))
                IN hist' = hist \o b /\ WholeTurn(r, b)
             /\ UNCHANGED seen

Abort(r) == /\ phase[r] # "over"
            /\ phase' = [phase EXCEPT ![r] = "over"]
            /\ UNCHANGED <<hist, seen>>

Next == \E r \in Runs : Read(r) \/ Commit(r) \/ Abort(r)

Spec == Init /\ [][Next]_<<hist, phase, seen>>
=============================================================================
