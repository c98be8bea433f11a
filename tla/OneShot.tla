------------------------------ MODULE OneShot ------------------------------
(***************************************************************************)
(* The endpoints of the OpenRouter client that answer a request at once:   *)
(* Speak (speech.go), Decide (decision.go) and Complete (complete.go), and *)
(* TranscribeDetailed (llm/audio.go), which calls Complete.  Each checks   *)
(* its request, sends it with do, and looks into a 200: such an answer may *)
(* still be an error.                                                      *)
(***************************************************************************)
EXTENDS ApiCall, FiniteSets

CONSTANT Questions  \* bound: the names of the questions

VARIABLES
  opc,   \* where the call is
  op,    \* which endpoint it is
  asked, \* what an answer has to hold: the questions; or what it says it holds
  paid,  \* whether the answer told a price (history variable)
  ores   \* what was returned: an error, the parts of the answer, its price

oneShotVars == <<opc, op, asked, paid, ores>>

Parts == {"text", "call", "image"}
NoAnswer == [err |-> "none", parts |-> {}, price |-> FALSE]

OneShotTypeOK ==
  /\ opc \in {"idle", "trying", "returned"} /\ op \in {"speech", "decision", "complete", "transcribe"}
  /\ asked \subseteq Questions \cup Parts \cup {"audio"} /\ paid \in BOOLEAN
  /\ ores \in [err : Errors \cup {"none", "ctx"},
               parts : SUBSET (Questions \cup Parts \cup {"audio"}), price : BOOLEAN]

OneShotInit ==
  /\ opc = "idle" /\ op \in {"speech", "decision", "complete", "transcribe"}
  /\ asked = {} /\ paid = FALSE /\ ores = NoAnswer

ShotReturn(r) == opc' = "returned" /\ ores' = r
ShotFails(e) == ShotReturn([err |-> e, parts |-> {}, price |-> FALSE])

-----------------------------------------------------------------------------
\* apiQuestion: the criteria that each kind of question takes; two options may
\* be "true" and "false", or others.
Question == [kind : {"choice", "noul", "score", "box", "other"}, text : BOOLEAN,
             criteria : {"none", "one", "two", "truth"}]
QuestionFails(q) ==
  \/ ~q.text \/ q.kind = "other"
  \/ q.kind = "choice" /\ q.criteria \in {"none", "one"}
  \/ q.kind = "noul" /\ q.criteria \in {"one", "two"}
  \/ q.kind = "score" /\ q.criteria = "none"

\* The checks before the request: a model and an input; of a decision, a state
\* whose images have a URL or bytes, and questions that are all well-formed.
ShotStarts(names) == /\ opc' = "trying" /\ asked' = names
                     /\ Http!Do /\ UNCHANGED <<ctx, ores>>
ShotRefused == ShotFails("invalid") /\ UNCHANGED <<callVars, asked>>

Shoot ==
  /\ opc = "idle"
  /\ UNCHANGED <<op, paid>>
  /\ \/ op = "complete" /\ ShotStarts({})
     \/ op = "transcribe" /\ \E audio, format \in BOOLEAN :
          IF audio /\ format THEN ShotStarts({}) ELSE ShotRefused
     \/ op = "speech" /\ \E model, input \in BOOLEAN :
          IF model /\ input THEN ShotStarts({"audio"}) ELSE ShotRefused
     \/ op = "decision" /\ \E model, state, images \in BOOLEAN, names \in SUBSET Questions :
          \E qs \in [names -> Question] :
            IF model /\ state /\ images /\ names # {} /\ \A n \in names : ~QuestionFails(qs[n])
              THEN ShotStarts(names) ELSE ShotRefused

ShotTrying ==
  /\ opc = "trying"
  /\ Attempting \/ Refused(200, ClassifySentinel) \/ (Http!Succeed /\ UNCHANGED ctx)
  /\ UNCHANGED oneShotVars

ShotGaveUp ==
  /\ opc = "trying" /\ GaveUp
  /\ ShotFails(hRes)
  /\ UNCHANGED <<callVars, op, asked, paid>>

-----------------------------------------------------------------------------
\* An unreadable body.
Garbled ==
  /\ opc = "trying" /\ Answered /\ op # "speech"
  /\ ShotFails("server")
  /\ UNCHANGED <<callVars, op, asked, paid>>

\* Speak: a body of JSON is an error, whatever it says, and an empty one, too.
Spoken ==
  /\ opc = "trying" /\ Answered /\ op = "speech"
  /\ \E json, empty \in BOOLEAN :
       IF json \/ empty THEN ShotFails("server")
                        ELSE ShotReturn([err |-> "none", parts |-> {"audio"}, price |-> FALSE])
  /\ UNCHANGED <<callVars, op, asked, paid>>

\* Decide: the answers as they come, with the price, and an error if one is
\* missing.
Decided ==
  /\ opc = "trying" /\ Answered /\ op = "decision"
  /\ \E given \in SUBSET Questions :
       ShotReturn([err |-> IF asked \subseteq given THEN "none" ELSE "server",
                   parts |-> given, price |-> TRUE])
  /\ paid' = TRUE
  /\ UNCHANGED <<callVars, op, asked>>

\* As if an error envelope came without its price.
CompletionsUnpriced(parts, price) ==
  {[err |-> e, parts |-> {}, price |-> FALSE] : e \in {"server", "filtered"}}
    \cup {[err |-> e, parts |-> parts, price |-> price] : e \in {"none", "filtered"}}

\* What parseCompleteResponse makes of a 200, told a price or not: an error
\* envelope, or all the parts of the choices, and an error beside them if
\* moderation stopped it; the price in any case.
Completions(parts, price) ==
  {[err |-> e, parts |-> {}, price |-> price] : e \in {"server", "filtered"}}
    \cup {[err |-> e, parts |-> parts, price |-> price] : e \in {"none", "filtered"}}

Completed ==
  /\ opc = "trying" /\ Answered /\ op = "complete"
  /\ paid' \in BOOLEAN
  /\ \E parts \in SUBSET Parts :
       asked' = parts /\ \E r \in Completions(parts, paid') : ShotReturn(r)
  /\ UNCHANGED <<callVars, op>>

\* TranscribeDetailed: the text of the reply, unless there was no speech, or an
\* error; the price in any case.
Transcribed ==
  /\ opc = "trying" /\ Answered /\ op = "transcribe"
  /\ paid' \in BOOLEAN
  /\ \E speech \in BOOLEAN, r \in Completions({"text"}, paid') :
       LET parts == IF speech /\ r.err = "none" THEN r.parts ELSE {}
       IN  asked' = (IF speech THEN {"text"} ELSE {}) /\ ShotReturn([r EXCEPT !.parts = parts])
  /\ UNCHANGED <<callVars, op>>

OneShotNext == Shoot \/ ShotTrying \/ ShotGaveUp \/ Garbled \/ Spoken \/ Decided \/ Completed
               \/ Transcribed

-----------------------------------------------------------------------------
\* Without an error, the answer holds all that was asked for: audio, an answer
\* to every question, all of the reply (speech.go:44-54, decision.go:70-74); and
\* the price of an answer that told one is not lost with an error, since "a
\* priced failure still cost money" (complete.go:59-62, llm/audio.go:86-87).
AnswerIsComplete ==
  opc = "returned" => /\ ores.err = "none" => asked \subseteq ores.parts
                      /\ paid => ores.price
=============================================================================
