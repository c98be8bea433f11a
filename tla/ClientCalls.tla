---------------------------- MODULE ClientCalls ----------------------------
(***************************************************************************)
(* A call of one of the clients, made under a context that may end at any  *)
(* time: Codex's Complete, a device login, a video job, an image command,  *)
(* a request that is answered at once; or concurrent calls of the test     *)
(* double.  The calls share nothing: a behaviour is one of them, from the  *)
(* moment it is made.                                                      *)
(***************************************************************************)
EXTENDS CodexStream, VideoJob, DeviceLogin, ImageCommand, OneShot, StubClient

VARIABLE client  \* which of them it is

DefaultOpts == [explicit |-> FALSE, model |-> "images", kind |-> "none",
                aspect |-> NoAspect, tier |-> "", quality |-> FALSE]

CallsInit ==
  /\ client \in {"codex", "login", "video", "image", "oneshot", "stub"}
  /\ CallInit /\ CodexInit /\ DeviceInit /\ VideoInit /\ StubInit
  /\ ImageInit /\ (client # "image" => opts = DefaultOpts)
  /\ OneShotInit /\ (client # "oneshot" => op = "speech")

callsVars == <<client, callVars, codexVars, deviceVars, videoVars, imageVars, oneShotVars, stubVars>>

CallsTypeOK == /\ CallTypeOK /\ CodexTypeOK /\ DeviceTypeOK /\ VideoTypeOK
               /\ ImageTypeOK /\ OneShotTypeOK /\ StubTypeOK

-----------------------------------------------------------------------------
\* The steps of one client leave what the others keep alone.
OnlyCodex == /\ client = "codex" /\ UNCHANGED client
             /\ UNCHANGED <<deviceVars, videoVars, imageVars, oneShotVars, stubVars>>
OnlyLogin == /\ client = "login" /\ UNCHANGED client
             /\ UNCHANGED <<codexVars, videoVars, imageVars, oneShotVars, stubVars>>
OnlyVideo == /\ client = "video" /\ UNCHANGED client
             /\ UNCHANGED <<codexVars, deviceVars, imageVars, oneShotVars, stubVars>>
OnlyImage == /\ client = "image" /\ UNCHANGED client
             /\ UNCHANGED <<codexVars, deviceVars, videoVars, oneShotVars, stubVars>>
OnlyShot == /\ client = "oneshot" /\ UNCHANGED client
            /\ UNCHANGED <<codexVars, deviceVars, videoVars, imageVars, stubVars>>
OnlyStub == /\ client = "stub" /\ UNCHANGED client
            /\ UNCHANGED <<callVars, codexVars, deviceVars, videoVars, imageVars, oneShotVars>>

Codex == OnlyCodex /\ CodexNext
Login == OnlyLogin /\ DeviceNext
Video == OnlyVideo /\ VideoNext
Image == OnlyImage /\ ImageNext
Shot == OnlyShot /\ OneShotNext
Stub == OnlyStub /\ StubNext

\* Whether the call has been made, and is over.
Made == CASE client = "codex" -> cpc # "idle"
          [] client = "login" -> lpc # "idle"
          [] client = "video" -> vpc # "idle"
          [] client = "image" -> TRUE
          [] client = "oneshot" -> opc # "idle"
          [] OTHER -> FALSE
Over == CASE client = "codex" -> cpc = "returned"
          [] client = "login" -> lpc = "returned"
          [] client = "video" -> vpc = "returned"
          [] client = "image" -> ipc = "returned"
          [] client = "oneshot" -> opc = "returned"
          [] OTHER -> TRUE

ContextEnds ==
  /\ Made /\ ~Over
  /\ CtxOver
  /\ UNCHANGED <<client, codexVars, deviceVars, videoVars, imageVars, oneShotVars, stubVars>>

CallsNext == Codex \/ Login \/ Video \/ Image \/ Shot \/ Stub \/ ContextEnds

CallsSpec == CallsInit /\ [][CallsNext]_callsVars

(***************************************************************************)
(* Requests are answered in the end, bodies end, time passes.  Nothing     *)
(* makes a user confirm a code, a provider finish a job, or a caller end   *)
(* its context.                                                            *)
(***************************************************************************)
CallsFairSpec ==
  /\ CallsSpec
  /\ WF_callsVars(OnlyCodex /\ CodexOpening)
  /\ WF_callsVars(OnlyCodex /\ CodexReading)
  /\ WF_callsVars(OnlyCodex /\ CodexSending)
  /\ WF_callsVars(OnlyCodex /\ CodexDraining)
  /\ WF_callsVars(OnlyLogin /\ LoginStep)
  /\ WF_callsVars(OnlyLogin /\ Clock)
  /\ WF_callsVars(Video) /\ WF_callsVars(Image) /\ WF_callsVars(Shot)
  /\ \A c \in Callers : WF_callsVars(OnlyStub /\ StubWork(c))

-----------------------------------------------------------------------------
\* What a command or a caller takes for success is all that was asked for, paid
\* for and answered, by the script meant for it where a test scripts the
\* answers: see FlagsAreServed, AnswerIsComplete and ScriptsPlayInOrder.
AnswersAreComplete == CallsTypeOK /\ FlagsAreServed /\ AnswerIsComplete /\ ScriptsPlayInOrder

\* Every call comes back by itself, but for a video job, which goes on until its
\* context ends (video.go:20-23), and a script that blocks, which waits for the
\* test or its context (stub_client.go:23-25).
CallReturns ==
  /\ Made /\ (client = "video" => ctx # "nil") ~> Over
  /\ \A c \in Callers : (spc[c] \in {"streaming", "sending", "completing"} /\ (released \/ sctx # "nil"))
                           ~> spc[c] \in {"closed", "returned"}

\* The streams of Codex and of the test double are what llm.Client promises.
OfCodex == INSTANCE EventStream WITH
  EventKinds <- {"text", "usage", "error", "end"},
  sent <- [i \in DOMAIN out |-> out[i].kind], closed <- ppc = "closed", over <- ctx # "nil"
OfStub(c) == INSTANCE EventStream WITH
  EventKinds <- {"text", "usage", "error", "end"},
  sent <- schan[c], closed <- spc[c] = "closed", over <- sctx # "nil"

StreamContract ==
  /\ OfCodex!StreamSpec
  /\ \A c \in Callers : OfStub(c)!StreamInit
  /\ [][\A c \in Callers : [OfStub(c)!StreamNext]_<<schan[c], spc[c], sctx>>]_stubVars
=============================================================================
