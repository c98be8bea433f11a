------------------------------- MODULE Drain --------------------------------
(***************************************************************************)
(* agent.Drain (agent/drain.go): the messages a caller of RunWithMessages  *)
(* puts together from the events of a run (AgentRun), to append them to a  *)
(* transcript of its own.  A "delta" is text or an image here; thinking    *)
(* changes nothing in Drain.                                               *)
(***************************************************************************)
EXTENDS AgentRun

\* A message: an assistant's holds text and calls, a tool's the answer to a call.
\* All of it is named by the places of the events that told it.
Assistant(text, made) == [role |-> "assistant", text |-> text, calls |-> made, answers |-> <<>>]
Tool(place) == [role |-> "tool", text |-> <<>>, calls |-> <<>>, answers |-> <<place>>]
CallOf(e) == <<e.turn, e.n>>

\* The local variables of Drain.
Nothing == [msgs |-> <<>>, text |-> <<>>, calls |-> <<>>, answers |-> <<>>, failed |-> FALSE]

\* The assistant message put together so far, unless it would be empty, and the
\* answers to it.
Gathered(a) == (IF a.text = <<>> /\ a.calls = <<>> THEN <<>> ELSE <<Assistant(a.text, a.calls)>>)
                 \o [k \in DOMAIN a.answers |-> Tool(a.answers[k])]

\* As if flush did not reset accToolResults.
FlushKeepingResults(a) ==
  [a EXCEPT !.msgs = a.msgs \o Gathered(a), !.text = <<>>, !.calls = <<>>]

\* flush.
Flush(a) ==
  [a EXCEPT !.msgs = a.msgs \o Gathered(a), !.text = <<>>, !.calls = <<>>, !.answers = <<>>]

\* The branches of the switch, for the event e at place n.
Drained(a, e, n) ==
  CASE e.kind = "delta"  -> LET b == IF a.answers # <<>> THEN Flush(a) ELSE a
                            IN  [b EXCEPT !.text = Append(b.text, n)]
    [] e.kind = "call"   -> [a EXCEPT !.calls = Append(a.calls, n)]
    [] e.kind = "result" -> [a EXCEPT !.answers = Append(a.answers, n)]
    [] e.kind = "error"  -> [a EXCEPT !.failed = TRUE]
    [] e.kind = "end"    -> Flush(a)
    [] e.kind = "usage"  -> a

Drain(events) ==
  LET drained[n \in 0..Len(events)] ==
        IF n = 0 THEN Nothing ELSE Drained(drained[n - 1], events[n], n)
  IN  drained[Len(events)]

-----------------------------------------------------------------------------
Closed(r) == pc[r] = "closed"
Transcript(r) == Drain(out[r]).msgs

\* Told in parts, one per message: every event of that kind once, in order.
Tells(parts, events, kind) ==
  /\ UNION {{parts[i][k] : k \in DOMAIN parts[i]} : i \in DOMAIN parts}
       = {p \in DOMAIN events : events[p].kind = kind}
  /\ \A i, j \in DOMAIN parts : \A k \in DOMAIN parts[i], l \in DOMAIN parts[j] :
       i < j \/ (i = j /\ k < l) => parts[i][k] < parts[j][l]

\* The answers to all the calls of a message follow it, in order.
Answered(ms, events) ==
  \A i \in DOMAIN ms : \A k \in DOMAIN ms[i].calls :
    /\ i + k <= Len(ms) /\ ms[i + k].role = "tool"
    /\ CallOf(events[ms[i + k].answers[1]]) = CallOf(events[ms[i].calls[k]])

\* The messages of any run that has ended, well or not, are a transcript that a
\* provider accepts and that tells all that happened: behind an assistant
\* message, which is never empty, come the answers to all its calls, in order,
\* and no call, no answer and no text is lost or told twice (drain.go:10-12, 29-43).
DrainIsTranscript ==
  \A r \in Runs : Closed(r) =>
    LET ms == Transcript(r) IN
      /\ Answered(ms, out[r])
      /\ \A i \in DOMAIN ms : ms[i].role = "assistant" => ms[i].text # <<>> \/ ms[i].calls # <<>>
      /\ Tells([i \in DOMAIN ms |-> ms[i].text], out[r], "delta")
      /\ Tells([i \in DOMAIN ms |-> ms[i].calls], out[r], "call")
      /\ Tells([i \in DOMAIN ms |-> ms[i].answers], out[r], "result")
=============================================================================
