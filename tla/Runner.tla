------------------------------- MODULE Runner -------------------------------
(***************************************************************************)
(* What a voice.Runner reports on the channel it returns, agent.Session in *)
(* the first place (voice/voice.go, agent/event.go): text, thinking,       *)
(* images, usage and tool calls in any order, each call with its result    *)
(* right behind it; then the end, behind an error exactly if its reason is *)
(* that of a failure; and behind the end the channel is closed.  The       *)
(* pipeline relies on it: it takes the reason of the last end it received  *)
(* when the channel is closed.                                             *)
(***************************************************************************)

VARIABLE said  \* what has been reported, as far as it limits what may follow

Good == {"stop", "max_turns"}
Bad == {"error", "timeout", "cancelled"}

RunnerInit == said = "live"

\* An event of a kind and, at the end, with a reason.
Tells(kind, why) ==
  \/ said = "live" /\ kind \in {"delta", "usage"} /\ said' = "live"
  \/ said = "live" /\ kind = "call" /\ said' = "called"
  \/ said = "called" /\ kind = "result" /\ said' = "live"
  \/ said = "live" /\ kind = "error" /\ said' = "failed"
  \/ said = "live" /\ kind = "end" /\ why \in Good /\ said' = "ended"
  \/ said = "failed" /\ kind = "end" /\ why \in Bad /\ said' = "ended"

Closes == said = "ended" /\ said' = "closed"
=============================================================================
