---------------------------- MODULE VoiceHandler ----------------------------
(***************************************************************************)
(* Handler.ServeHTTP (voice/http.go) and the turn it serves: the input is  *)
(* read from a request, the turn runs under a context of its own, detached *)
(* from the request and with the Timeout, and each event is written as a   *)
(* line to the client.  A write to a client that went away fails; one to a *)
(* client that reads slowly, or has stopped, takes its time, so that the   *)
(* turn sees no less of this consumer than of any other.                   *)
(***************************************************************************)
EXTENDS VoiceTurn

VARIABLES status,    \* the status ServeHTTP has answered with, or 0
          gone,      \* whether a write has failed
          returned   \* whether ServeHTTP has returned

httpVars == <<status, gone, returned>>
hvars == <<vars, httpVars>>

HTypeOK == /\ TypeOK /\ gone \in BOOLEAN /\ returned \in BOOLEAN
           /\ status \in {0, 200, 400, 405, 413, 415}

HInit == Init /\ status = 0 /\ gone = FALSE /\ returned = FALSE

-----------------------------------------------------------------------------
\* A request: its media type; whether the body is larger than MaxAudioBytes,
\* or cannot be read or parsed; what it holds and asks for; and what Session
\* answers to it.  JSON has no audio, and a body of audio no text.
Inputs == {r \in [post : BOOLEAN, type : {"json", "multipart", "audio", "other"},
                  large : BOOLEAN, broken : BOOLEAN, text : BOOLEAN,
                  audio : {"none", "known", "unknown"},
                  output : {"text", "speech", "other"}, session : {"ok", "error", "nil"}] :
             /\ r.type = "json" => r.audio = "none"
             /\ r.type = "audio" => ~r.text}

\* Whether Options.Transcriber and Options.Speech are set.
Pipeline == [transcriber : BOOLEAN, speech : BOOLEAN]

\* readInput; 0 is no error.
ReadInput(r) ==
  CASE r.type = "other"                         -> 415
    [] r.type # "other" /\ r.large              -> 413
    [] r.type # "other" /\ ~r.large /\ r.broken -> 400
    [] OTHER -> IF r.audio = "unknown" THEN 415 ELSE 0

\* The checks of Run, every one of them ErrInvalidRequest.
RunRefuses(r, p) ==
  \/ r.audio # "none" /\ ~p.transcriber
  \/ r.audio = "none" /\ ~r.text
  \/ r.output = "speech" /\ ~p.speech
  \/ r.output = "other"
  \/ r.session = "nil"

Answer(r, p) ==
  IF ~r.post THEN 405
  ELSE IF ReadInput(r) # 0 THEN ReadInput(r)
  ELSE IF r.session = "error" \/ RunRefuses(r, p) THEN 400
  ELSE 200

\* ServeHTTP up to its loop.
Begin ==
  /\ status = 0
  /\ \E r \in Inputs, p \in Pipeline :
       /\ status' = Answer(r, p)
       /\ IF status' = 200 THEN Run(r.audio # "none", r.output = "speech") ELSE UNCHANGED vars
  /\ returned' = (status' # 200)
  /\ UNCHANGED gone

\* The range loop: an event is received, and written unless the client is gone.
\* As in Receive, nothing depends on a receive while there is room.
Serve ==
  /\ ~HasRoom \/ (pc = "closed" /\ got < Len(out))
  /\ got' = got + 1
  /\ gone' \in {gone, TRUE}
  /\ UNCHANGED <<pc, speech, ctx, agentVars, speakerVars, booked, reason, out, status, returned>>

Return ==
  /\ pc = "closed" /\ got = Len(out)
  /\ ~returned /\ returned' = TRUE
  /\ UNCHANGED <<vars, status, gone>>

\* The Timeout is the only way the context ends before the channel is closed.
HNext == Begin \/ Serve \/ Return \/ ((Turn \/ CtxOver) /\ UNCHANGED httpVars)

HSpec == HInit /\ [][HNext]_hvars

\* A request is read in the end.
HFairSpec == HSpec /\ Running /\ WF_hvars(Begin) /\ WF_hvars(Return)

-----------------------------------------------------------------------------
\* A turn ends as in TurnEnds, and one served to a client that closes its tab
\* half-way goes on to its end, too: "keep draining so the turn completes"
\* (http.go:212-215, 232-240), if the client reads or its connection breaks in
\* the end; then the handler returns.
ServedTurnEnds ==
  /\ TurnEnds
  /\ WF_hvars(Serve) => <>(returned /\ pc \in {"idle", "closed"})

\* "EventDone is still delivered" once the context is over (voice.go:200), and
\* "the done line is always the last one, also for a turn that hit Timeout"
\* (http.go:65-66): a turn that finds room for its end, at once or within the
\* grace, is one whose client, if it stays, has got the done event last when
\* the handler returns.  Nobody takes that room: the emitter, the other sender,
\* is through.  (A client that reads nothing all through the grace goes without,
\* voice.go:202-204.)
DoneIsNotDropped ==
  /\ []HTypeOK
  /\ [](pc \in {"done", "grace"} /\ HasRoom => [](returned /\ ~gone => got \in Told("done")))
=============================================================================
