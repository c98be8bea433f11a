---------------------------- MODULE EventStream ----------------------------
(***************************************************************************)
(* What llm.Client promises of the channel that Stream returns             *)
(* (llm/client.go): at most one usage and, as far as there is one, an      *)
(* error followed by nothing but the usage and the end; the end last, and  *)
(* the channel closed after it.  A stream whose context is over may be cut *)
(* at any place, its end included.                                         *)
(***************************************************************************)
EXTENDS Sequences

CONSTANT EventKinds

VARIABLES
  sent,    \* the kinds of the events sent
  closed,  \* whether the channel is closed
  over     \* whether the context is over

Sent(k) == \E i \in DOMAIN sent : sent[i] = k

\* Stream returned a channel; the one before is followed no longer.
Open == /\ sent' = <<>> /\ closed' = FALSE
        /\ UNCHANGED over

Send(k) ==
  /\ ~closed /\ ~Sent("end")
  /\ Sent("error") => k \in {"usage", "end"}
  /\ k = "usage" => ~Sent("usage")
  /\ sent' = Append(sent, k)
  /\ UNCHANGED <<closed, over>>

Close ==
  /\ ~closed
  /\ Sent("end") \/ over
  /\ closed' = TRUE
  /\ UNCHANGED <<sent, over>>

\* The context of the call ends.
Cut == /\ ~over /\ over' = TRUE
       /\ UNCHANGED <<sent, closed>>

StreamInit == sent = <<>> /\ closed = FALSE /\ over = FALSE
StreamNext == Open \/ (\E k \in EventKinds : Send(k)) \/ Close \/ Cut

StreamSpec == StreamInit /\ [][StreamNext]_<<sent, closed, over>>
=============================================================================
