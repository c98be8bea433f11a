------------------------- MODULE ClientCallsProofs --------------------------
(***************************************************************************)
(* What a call of a client comes back with, for any number of attempts,    *)
(* statuses, answers, events, prices and times: a video job is not lost, a *)
(* login is neither late nor early, a reply is whole, a command does what  *)
(* its flags say, and scripts play in their order.                         *)
(***************************************************************************)
EXTENDS ClientCalls, SequenceTheorems, FiniteSetTheorems, TLAPS

-----------------------------------------------------------------------------
(* The request under retry.Do, which every client but the double shares. *)

HttpInv ==
  /\ CallTypeOK
  /\ hAt = "done" => hRes # "none"
  /\ hAt = "sleeping" => hTry < HttpAttempts

\* What any step does to it.
HttpStep ==
  \/ UNCHANGED callVars
  \/ /\ UNCHANGED ctx
     /\ Http!Do \/ Http!Try \/ Http!Wait \/ Http!Succeed \/ \E e \in Errors : Http!Fail(e)
  \/ CtxOver

LEMMA SentinelsAreErrors ==
  \A s \in Statuses : ClassifySentinel[s] \in Errors /\ StatusSentinel[s] \in Errors
  BY DEF ClassifySentinel, StatusSentinel, Errors

LEMMA RefusedFails ==
  ASSUME NEW want, NEW class, \A s \in Statuses : class[s] \in Errors, Refused(want, class)
  PROVE  UNCHANGED ctx /\ \E e \in Errors : Http!Fail(e)
  <1>1. "server" \in Errors
    BY DEF Errors
  <1> QED BY <1>1 DEF Refused

LEMMA CallsAreHttpSteps == CallsNext => HttpStep
  <1> SUFFICES ASSUME CallsNext PROVE HttpStep
    OBVIOUS
  <1>r. \A want : Refused(want, ClassifySentinel) \/ Refused(want, StatusSentinel) => HttpStep
    BY SentinelsAreErrors, RefusedFails DEF HttpStep
  <1>a. Attempting => HttpStep
    BY DEF Attempting, HttpStep
  <1>d. Http!Do /\ UNCHANGED ctx => HttpStep
    BY DEF HttpStep
  <1>s. Http!Succeed /\ UNCHANGED ctx => HttpStep
    BY DEF HttpStep
  <1>u. UNCHANGED callVars => HttpStep
    BY DEF HttpStep
  <1>1. CASE Codex
    <2>1. CASE CodexAsk
      BY <2>1, <1>d, <1>u DEF CodexAsk
    <2>2. CASE CodexOpening
      <3>1. CASE CodexRequestFails
        BY <3>1, <1>r DEF CodexRequestFails, HttpStep
      <3> QED BY <2>2, <3>1, <1>a, <1>s, <1>u DEF CodexOpening, CodexTrying, CodexOpens, CodexAskFails
    <2>3. CASE CodexReading \/ CodexSending \/ CodexDraining
      BY <2>3, <1>u DEF CodexReading, CodexSending, CodexDraining, CodexScan, CodexCut, CodexEmit,
                        CodexEnd, CodexClose, CodexReceive, CodexReturn
    <2> QED BY <1>1, <2>1, <2>2, <2>3 DEF Codex, CodexNext
  <1>2. CASE Login
    BY <1>2, <1>u DEF Login, DeviceNext, LoginStep, Confirm, Clock, StartLogin, Started, Asked,
                      Granted, Pending, PollFails, Pause, Exchange
  <1>3. CASE Video
    <2>1. CASE VideoTrying
      BY <2>1, <1>a, <1>r, <1>s DEF VideoTrying
    <2>2. \A j : Look(j) => HttpStep
      BY <1>d, <1>u DEF Look
    <2>3. CASE VideoSubmitted \/ VideoPolled
      BY <2>2, <2>3, <1>u DEF VideoSubmitted, VideoPolled
    <2>4. CASE VideoTick
      BY <2>4, <1>d, <1>u DEF VideoTick, callVars, httpVars
    <2> QED BY <1>3, <2>1, <2>3, <2>4, <1>d, <1>u
            DEF Video, VideoNext, VideoSubmit, VideoGaveUp, VideoDownloaded
  <1>4. CASE Image
    <2>1. CASE ImageTrying
      BY <2>1, <1>a, <1>r, <1>s DEF ImageTrying
    <2> QED BY <1>4, <2>1, <1>d, <1>u DEF Image, ImageNext, LoadRefs, ChooseFrame, AskForImages,
                                          ImagesArrive, ImageGaveUp, WriteImages
  <1>5. CASE Shot
    <2>1. CASE ShotTrying
      BY <2>1, <1>a, <1>r, <1>s DEF ShotTrying
    <2>2. (\E names : ShotStarts(names)) \/ ShotRefused => HttpStep
      BY <1>d, <1>u DEF ShotStarts, ShotRefused
    <2>3. CASE Shoot
      BY <2>2, <2>3 DEF Shoot
    <2> QED BY <1>5, <2>1, <2>3, <1>u DEF Shot, OneShotNext, ShotGaveUp, Garbled, Spoken, Decided,
                                          Completed, Transcribed
  <1>6. CASE Stub
    BY <1>6, <1>u DEF Stub, OnlyStub
  <1>7. CASE ContextEnds
    BY <1>7 DEF ContextEnds, HttpStep
  <1> QED BY <1>1, <1>2, <1>3, <1>4, <1>5, <1>6, <1>7 DEF CallsNext

LEMMA HttpStepKeeps == HttpInv /\ HttpStep => HttpInv'
  <1> SUFFICES ASSUME HttpInv, HttpStep PROVE HttpInv'
    OBVIOUS
  <1> USE CallAssumption DEF HttpInv, CallTypeOK, Http!RetryTypeOK, Http!Attempts
  <1>1. CASE UNCHANGED callVars
    BY <1>1 DEF callVars
  <1>2. CASE CtxOver
    BY <1>2 DEF CtxOver, httpVars
  <1>3. CASE UNCHANGED ctx /\ Http!Do
    BY <1>3 DEF Http!Do
  <1>4. CASE UNCHANGED ctx /\ Http!Try
    BY <1>4 DEF Http!Try
  <1>5. CASE UNCHANGED ctx /\ Http!Wait
    BY <1>5 DEF Http!Wait, Http!Bail, Http!Wake, Http!Cancelled, Http!Return
  <1>6. CASE UNCHANGED ctx /\ Http!Succeed
    BY <1>6 DEF Http!Succeed, Http!Return
  <1>7. CASE UNCHANGED ctx /\ \E e \in Errors : Http!Fail(e)
    BY <1>7 DEF Http!Fail, Http!Return, Errors
  <1> QED BY <1>1, <1>2, <1>3, <1>4, <1>5, <1>6, <1>7 DEF HttpStep

LEMMA HttpHolds == CallsSpec => []HttpInv
  <1>1. CallsInit => HttpInv
    BY CallAssumption DEF CallsInit, CallInit, HttpInv, CallTypeOK, Http!RetryInit, Http!RetryTypeOK,
                          Http!Attempts
  <1>2. HttpInv /\ [CallsNext]_callsVars => HttpInv'
    BY HttpStepKeeps, CallsAreHttpSteps DEF callsVars, HttpStep
  <1> QED BY <1>1, <1>2, PTL DEF CallsSpec

-----------------------------------------------------------------------------
(* GenerateVideo. *)

\* What is known of the job at each place of GenerateVideo.
VideoInv ==
  /\ VideoTypeOK
  /\ client # "video" => vpc = "idle"
  /\ vpc \in {"idle", "submitting"} => ~known
  /\ vpc \in {"waiting", "polling", "downloading"} => known
  /\ vpc \in {"waiting", "polling"} => job.status \notin {"completed", "failed"}
  /\ vpc = "downloading" => job.status = "completed" /\ job.urls = "some"
  /\ JobIsNotLost

LEMMA MergedIsAnswer ==
  ASSUME NEW j \in JobAnswer, NEW a \in Answers
  PROVE  Merged(j, a) \in JobAnswer
  BY VideoAssumption DEF Merged, JobAnswer

\* An error of the job is returned with its id.
LEMMA FailingKeepsTheJob ==
  ASSUME HttpInv, VideoTypeOK, NEW e \in Errors \cup {"ctx"}, VideoFails(e), known' \in BOOLEAN,
         job' \in JobAnswer, client' = client, client = "video",
         known' => ~(job'.status = "completed" /\ job'.urls = "some")
  PROVE  VideoInv'
  <1>1. /\ vres' = [err |-> e, id |-> known', clip |-> FALSE, cost |-> FALSE]
        /\ vpc' = "returned"
    BY DEF VideoFails, VideoReturn, NoClip
  <1>2. vres' \in VideoResult
    BY <1>1 DEF VideoResult
  <1>3. e # "none"
    BY DEF Errors
  <1>4. VideoTypeOK'
    BY <1>1, <1>2 DEF VideoTypeOK
  <1>5. JobIsNotLost'
    BY <1>1, <1>3 DEF JobIsNotLost
  <1> QED BY <1>1, <1>4, <1>5 DEF VideoInv

\* What awaitVideo makes of an answer.
LEMMA LookingKeepsTheJob ==
  ASSUME HttpInv, VideoTypeOK, Look(job'), known', known' \in BOOLEAN, job' \in JobAnswer,
         client' = client, client = "video"
  PROVE  VideoInv'
  <1>1. CASE job'.status = "completed" /\ job'.urls = "some"
    BY <1>1 DEF Look, VideoInv, VideoTypeOK, JobIsNotLost
  <1>2. CASE job'.status = "completed" /\ job'.urls # "some"
    <2>1. VideoFails("filtered")
      BY <1>2 DEF Look
    <2> QED BY <1>2, <2>1, FailingKeepsTheJob DEF Errors
  <1>3. CASE job'.status = "failed"
    <2>1. VideoFails(Cause(job'))
      BY <1>3 DEF Look
    <2>2. Cause(job') \in Errors
      BY DEF Cause, Errors
    <2> QED BY <1>3, <2>1, <2>2, FailingKeepsTheJob
  <1>4. CASE job'.status \notin {"completed", "failed"}
    <2>1. vpc' = "waiting" /\ vres' = vres
      BY <1>4 DEF Look
    <2> QED BY <1>4, <2>1 DEF VideoInv, VideoTypeOK, JobIsNotLost
  <1> QED BY <1>1, <1>2, <1>3, <1>4

LEMMA VideoStep ==
  ASSUME HttpInv, VideoInv, Video
  PROVE  VideoInv'
  <1> USE DEF VideoInv, Video, OnlyVideo
  <1>1. CASE VideoSubmit
    <2>1. CASE VideoFails("invalid")
      BY <1>1, <2>1, FailingKeepsTheJob DEF VideoSubmit, VideoTypeOK, Errors
    <2>2. CASE vpc' = "submitting" /\ vres' = vres
      BY <1>1, <2>2 DEF VideoSubmit, VideoTypeOK, JobIsNotLost
    <2> QED BY <1>1, <2>1, <2>2 DEF VideoSubmit
  <1>2. CASE VideoTrying
    BY <1>2 DEF VideoTrying, videoVars, VideoTypeOK, JobIsNotLost
  <1>3. CASE VideoSubmitted
    <2>1. ASSUME NEW a \in Answers, known' = TRUE, job' = Merged(job, a), Look(job')
          PROVE  VideoInv'
      BY <2>1, MergedIsAnswer, LookingKeepsTheJob DEF VideoTypeOK
    <2>2. CASE UNCHANGED <<known, job>> /\ VideoFails("server")
      BY <1>3, <2>2, FailingKeepsTheJob DEF VideoSubmitted, VideoTypeOK, Errors
    <2> QED BY <1>3, <2>1, <2>2 DEF VideoSubmitted
  <1>4. CASE VideoPolled
    <2>1. ASSUME NEW a \in Answers, job' = Merged(job, a), Look(job')
          PROVE  VideoInv'
      BY <1>4, <2>1, MergedIsAnswer, LookingKeepsTheJob DEF VideoPolled, VideoTypeOK
    <2>2. CASE UNCHANGED <<known, job>> /\ VideoFails("server")
      BY <1>4, <2>2, FailingKeepsTheJob DEF VideoPolled, VideoTypeOK, Errors
    <2> QED BY <1>4, <2>1, <2>2 DEF VideoPolled
  <1>5. CASE VideoTick
    <2>1. CASE vpc' = "polling" /\ vres' = vres
      BY <1>5, <2>1 DEF VideoTick, VideoTypeOK, JobIsNotLost
    <2>2. CASE VideoFails("ctx")
      BY <1>5, <2>2, FailingKeepsTheJob DEF VideoTick, VideoTypeOK
    <2> QED BY <1>5, <2>1, <2>2 DEF VideoTick
  <1>6. CASE VideoGaveUp
    <2>1. CASE VideoReturn([NoClip EXCEPT !.err = hRes, !.id = known,
                                          !.cost = (vpc = "downloading" /\ job.cost = "priced")])
      <3>1. hRes \in Errors \cup {"ctx"}
        BY <1>6 DEF VideoGaveUp, GaveUp, HttpInv, CallTypeOK, Http!RetryTypeOK
      <3>2. vpc' = "returned" /\ vres' = [err |-> hRes, id |-> known, clip |-> FALSE,
                                          cost |-> (vpc = "downloading" /\ job.cost = "priced")]
        BY <2>1 DEF VideoReturn, NoClip
      <3>3. vres' \in VideoResult
        BY <3>1, <3>2 DEF VideoResult, VideoTypeOK
      <3>4. VideoTypeOK'
        BY <1>6, <3>2, <3>3 DEF VideoGaveUp, VideoTypeOK
      <3>5. /\ vres'.id <=> known
            /\ ~vres'.clip /\ vres'.err # "none"
            /\ vres'.cost <=> (vpc = "downloading" /\ job.cost = "priced")
        BY <3>1, <3>2 DEF Errors
      <3>6. JobIsNotLost'
        BY <1>6, <3>2, <3>3, <3>4, <3>5 DEF VideoGaveUp, JobIsNotLost, VideoResult, VideoTypeOK
      <3> QED BY <1>6, <3>2, <3>4, <3>6 DEF VideoGaveUp
    <2>2. CASE vpc = "submitting" /\ VideoFails("filtered")
      BY <1>6, <2>2, FailingKeepsTheJob DEF VideoGaveUp, VideoTypeOK, Errors
    <2> QED BY <1>6, <2>1, <2>2 DEF VideoGaveUp
  <1>7. CASE VideoDownloaded
    <2> PICK e \in {"none", "server"} :
               VideoReturn([err |-> e, id |-> TRUE, clip |-> e = "none", cost |-> job.cost = "priced"])
      BY <1>7 DEF VideoDownloaded
    <2>1. vpc' = "returned" /\ vres' = [err |-> e, id |-> TRUE, clip |-> e = "none",
                                        cost |-> job.cost = "priced"]
      BY DEF VideoReturn
    <2>2. vres' \in VideoResult
      BY <2>1 DEF VideoResult, Errors
    <2>3. VideoTypeOK'
      BY <1>7, <2>1, <2>2 DEF VideoDownloaded, VideoTypeOK
    <2>4. JobIsNotLost'
      BY <1>7, <2>1 DEF VideoDownloaded, JobIsNotLost, VideoTypeOK
    <2> QED BY <1>7, <2>1, <2>3, <2>4 DEF VideoDownloaded
  <1> QED BY <1>1, <1>2, <1>3, <1>4, <1>5, <1>6, <1>7 DEF VideoNext

LEMMA VideoHolds == CallsSpec => []VideoInv
  <1>1. CallsInit => VideoInv
    <2>1. NoJob \in JobAnswer /\ NoClip \in VideoResult
      BY DEF NoJob, JobAnswer, NoClip, VideoResult, Errors
    <2> QED BY <2>1 DEF CallsInit, VideoInit, VideoInv, VideoTypeOK, JobIsNotLost
  <1>2. HttpInv /\ VideoInv /\ [CallsNext]_callsVars => VideoInv'
    <2> SUFFICES ASSUME HttpInv, VideoInv, CallsNext \/ UNCHANGED callsVars PROVE VideoInv'
      OBVIOUS
    <2>1. CASE UNCHANGED <<client, videoVars>>
      BY <2>1 DEF VideoInv, videoVars, VideoTypeOK, JobIsNotLost
    <2> QED BY <2>1, VideoStep DEF CallsNext, Codex, Login, Image, Shot, Stub, OnlyCodex, OnlyLogin,
                                   OnlyImage, OnlyShot, OnlyStub, ContextEnds, callsVars
  <1> QED BY <1>1, <1>2, HttpHolds, PTL DEF CallsSpec

\* A job whose id the provider told is returned whatever happens later, and a
\* clip exactly without an error (llm/video.go, video.go:48-65).
THEOREM JobComesBack == CallsSpec => []JobIsNotLost
  <1>1. VideoInv => JobIsNotLost
    BY DEF VideoInv
  <1> QED BY <1>1, VideoHolds, PTL

-----------------------------------------------------------------------------
(* A device login. *)

\* Where a code may be asked for, no timer is overdue; a pause ends while the code
\* lives and not within the interval, and a request that did not see the
\* confirmation was under way when it came.
LoginInv ==
  /\ DeviceTypeOK
  /\ client # "login" => lpc = "idle"
  /\ lpc # "returned" => lres = "none"
  /\ lpc \in {"idle", "starting"} => now = 0 /\ askedAt = Never
  /\ lpc \in {"answered", "pausing"} => askedAt <= now
  /\ lpc \in {"polling", "answered", "pausing"} => now <= wake
  /\ lpc \in {"polling", "answered"} => wake <= ExpiresAt + MaxDelay /\ wake <= now + MaxDelay
  /\ lpc = "pausing" => wake <= ExpiresAt /\ wake >= askedAt + Interval
  /\ lpc = "answered" /\ ~heard /\ confirmed # Never => confirmed + MaxDelay >= wake
  /\ heard => confirmed # Never
  /\ lpc = "answered" /\ heard => code = "granted"
  /\ lpc = "exchanging" => heard
  /\ LoginIsTimely

LEMMA NeverIsNever == Never \in Nat /\ Never = ExpiresAt + MaxDelay + Interval + 1
                      /\ ExpiresAt \in Nat /\ MaxDelay \in Nat /\ Interval \in Nat
  BY DeviceAssumption DEF Never

\* An end of the login that is neither tokens nor an expired code.
LEMMA LoginFails ==
  ASSUME LoginInv, client = "login", client' = client, lpc \in {"starting", "answered", "pausing"},
         NEW r, LoginReturn(r), r \in Errors \cup {"ctx", "disabled"},
         UNCHANGED <<now, wake, confirmed, askedAt, heard, code>>
  PROVE  LoginInv'
  <1>1. r \notin {"expired", "tokens"} /\ r \in Errors \cup {"none", "ctx", "tokens", "expired", "disabled"}
    BY DEF Errors
  <1> QED BY <1>1 DEF LoginInv, LoginReturn, DeviceTypeOK, LoginIsTimely

LEMMA LoginStepKeeps ==
  ASSUME LoginInv, Login
  PROVE  LoginInv'
  <1> USE NeverIsNever DEF Login, OnlyLogin
  <1>e. {"server", "plain"} \subseteq Errors
    BY DEF Errors
  <1>1. CASE StartLogin
    BY <1>1 DEF StartLogin, LoginInv, DeviceTypeOK, LoginIsTimely
  <1>2. CASE Started
    <2>1. CASE lpc' = "polling" /\ wake' = now + MaxDelay /\ lres' = lres
      BY <1>2, <2>1 DEF Started, LoginInv, DeviceTypeOK, LoginIsTimely
    <2>2. CASE wake' = wake /\ \E r \in Errors \cup {"disabled"} : LoginReturn(r)
      BY <1>2, <2>2, LoginFails DEF Started
    <2> QED BY <1>2, <1>e, <2>1, <2>2, SentinelsAreErrors DEF Started
  <1>3. CASE Asked
    <2>1. /\ askedAt' = now /\ now' = now /\ wake' = wake /\ confirmed' = confirmed
          /\ lpc' = "answered" /\ lres' = lres
      BY <1>3 DEF Asked
    <2>2. (heard' => confirmed # Never /\ code' = "granted") /\ heard' = (confirmed # Never)
      BY <1>3 DEF Asked
    <2>3. DeviceTypeOK'
      <3>1. code' \in {"none", "granted", "used"} /\ heard' \in BOOLEAN
        BY <1>3 DEF Asked, LoginInv, DeviceTypeOK
      <3> QED BY <2>1, <3>1 DEF LoginInv, DeviceTypeOK
    <2>4. lpc = "polling" /\ client = "login" /\ client' = "login" /\ lres = "none"
      BY <1>3 DEF Asked, LoginInv
    <2>5. LoginIsTimely'
      BY <2>1, <2>4 DEF LoginIsTimely
    <2>6. now \in Nat /\ now <= wake /\ wake <= ExpiresAt + MaxDelay /\ wake <= now + MaxDelay
      BY <2>4 DEF LoginInv, DeviceTypeOK
    <2>7. ~(~heard' /\ confirmed # Never)
      BY <2>2
    <2> QED BY <2>1, <2>2, <2>3, <2>4, <2>5, <2>6, <2>7 DEF LoginInv
  <1>4. CASE Granted
    <2>1. CASE lpc' = "exchanging" /\ lres' = lres
      BY <1>4, <2>1 DEF Granted, LoginInv, DeviceTypeOK, LoginIsTimely
    <2>2. CASE LoginReturn("plain")
      BY <1>4, <1>e, <2>2, LoginFails DEF Granted
    <2> QED BY <1>4, <2>1, <2>2 DEF Granted
  <1>5. CASE Pending
    <2>1. CASE now + Interval > ExpiresAt
      <3>1. lpc' = "returned" /\ lres' = "expired" /\ wake' = wake
        BY <1>5, <2>1 DEF Pending, LoginReturn
      <3>2. LoginIsTimely'
        BY <1>5, <2>1, <3>1 DEF Pending, LoginInv, DeviceTypeOK, LoginIsTimely
      <3> QED BY <1>5, <3>1, <3>2 DEF Pending, LoginInv, DeviceTypeOK
    <2>2. CASE ~(now + Interval > ExpiresAt)
      <3>1. lpc' = "pausing" /\ wake' = now + Interval /\ lres' = lres
        BY <1>5, <2>2 DEF Pending
      <3> QED BY <1>5, <2>2, <3>1 DEF Pending, LoginInv, DeviceTypeOK, LoginIsTimely
    <2> QED BY <2>1, <2>2
  <1>6. CASE PollFails
    <2>1. \E r \in Errors : LoginReturn(r)
      BY <1>6, <1>e, SentinelsAreErrors DEF PollFails
    <2> QED BY <1>6, <2>1, LoginFails DEF PollFails
  <1>7. CASE Pause
    <2>1. CASE now >= wake /\ lpc' = "polling" /\ wake' = now + MaxDelay /\ lres' = lres
      BY <1>7, <2>1 DEF Pause, LoginInv, DeviceTypeOK, LoginIsTimely
    <2>2. CASE LoginReturn("ctx") /\ wake' = wake
      BY <1>7, <2>2, LoginFails DEF Pause
    <2> QED BY <1>7, <2>1, <2>2 DEF Pause
  <1>8. CASE Exchange
    <2>1. \E r \in Errors \cup {"tokens"} : LoginReturn(r)
      BY <1>8, <1>e, SentinelsAreErrors DEF Exchange
    <2>2. PICK r \in Errors \cup {"tokens"} : lpc' = "returned" /\ lres' = r
      BY <2>1 DEF LoginReturn
    <2>3. r # "expired"
      BY DEF Errors
    <2> QED BY <1>8, <2>2, <2>3 DEF Exchange, LoginInv, DeviceTypeOK, LoginIsTimely
  <1>9. CASE Confirm
    BY <1>9 DEF Confirm, LoginInv, DeviceTypeOK, LoginIsTimely
  <1>10. CASE Clock
    BY <1>10 DEF Clock, LoginInv, DeviceTypeOK, LoginIsTimely
  <1> QED BY <1>1, <1>2, <1>3, <1>4, <1>5, <1>6, <1>7, <1>8, <1>9, <1>10 DEF DeviceNext, LoginStep

LEMMA LoginHolds == CallsSpec => []LoginInv
  <1>1. CallsInit => LoginInv
    <2> SUFFICES ASSUME DeviceInit PROVE LoginInv
      BY DEF CallsInit
    <2>1. DeviceTypeOK
      <3>1. heard \in BOOLEAN
        BY Zenon DEF DeviceInit
      <3>2. 0 \in 0..Never /\ Never \in 0..Never
        BY NeverIsNever
      <3> QED BY <3>1, <3>2 DEF DeviceInit, DeviceTypeOK
    <2> QED BY <2>1 DEF DeviceInit, LoginInv, LoginIsTimely
  <1>2. LoginInv /\ [CallsNext]_callsVars => LoginInv'
    <2> SUFFICES ASSUME LoginInv, CallsNext \/ UNCHANGED callsVars PROVE LoginInv'
      OBVIOUS
    <2>1. CASE UNCHANGED <<client, deviceVars>>
      BY <2>1 DEF LoginInv, deviceVars, DeviceTypeOK, LoginIsTimely
    <2> QED BY <2>1, LoginStepKeeps DEF CallsNext, Codex, Video, Image, Shot, Stub, OnlyCodex,
                                        OnlyVideo, OnlyImage, OnlyShot, OnlyStub, ContextEnds, callsVars
  <1> QED BY <1>1, <1>2, PTL DEF CallsSpec

\* A login gives up only when there is no time left, on a code that was not
\* confirmed while there was, never asks twice within the interval, and has tokens
\* only of a confirmed code (auth.go:188-189, 205-231).
THEOREM LoginWaitsForTheUser == CallsSpec => []LoginIsTimely
  <1>1. LoginInv => LoginIsTimely
    BY DEF LoginInv
  <1> QED BY <1>1, LoginHolds, PTL

-----------------------------------------------------------------------------
(* The test double. *)

\* A call that has not begun has no script, one that plays events has a turn
\* script, and no script is added to those.
StubInv ==
  /\ StubTypeOK
  /\ scripts["turns"] = Len(Scripts)
  /\ \A c \in Callers :
       /\ spc[c] = "idle" => mine[c] = Nothing /\ sres[c] = "none"
       /\ spc[c] \in {"streaming", "sending", "completing"} =>
            \E n \in 1..Len(Scripts) : mine[c] = <<"turns", n>>
  /\ ScriptsPlayInOrder

LEMMA TurnIsTyped ==
  ASSUME StubInv, NEW c \in Callers, spc[c] \in {"streaming", "sending", "completing"}
  PROVE  Turn(c).events \in Seq({"text", "usage", "error", "end"})
  <1>1. PICK n \in 1..Len(Scripts) : mine[c] = <<"turns", n>>
    BY DEF StubInv
  <1>2. Scripts[n] \in [events : Seq({"text", "usage", "error", "end"}), blocks : BOOLEAN]
    BY StubAssumption, ElementOfSeq
  <1> QED BY <1>1, <1>2 DEF Turn

\* Consuming a script keeps the order of all kinds.
LEMMA ConsumeKeepsOrder ==
  ASSUME StubInv, NEW c \in Callers, NEW k \in Kinds, spc[c] = "idle", Consume(c, k),
         scripts' = scripts
  PROVE  /\ cursor' \in [Kinds -> Nat]
         /\ requests' \in [Kinds -> Seq(Callers)]
         /\ mine' \in [Callers -> (Kinds \cup {"none"}) \X Nat]
         /\ \A d \in Callers : mine'[d] = IF d = c THEN <<k, cursor[k] + 1>> ELSE mine[d]
         /\ cursor[k] + 1 \in 1..scripts[k]
         /\ \A h \in Kinds :
              /\ Len(requests'[h]) = cursor'[h] /\ cursor'[h] <= scripts'[h]
              /\ \A n \in DOMAIN requests'[h] : mine'[requests'[h][n]] = <<h, n>>
  <1>t. /\ cursor \in [Kinds -> Nat] /\ scripts \in [Kinds -> Nat]
        /\ requests \in [Kinds -> Seq(Callers)]
        /\ mine \in [Callers -> (Kinds \cup {"none"}) \X Nat]
    BY DEF StubInv, StubTypeOK
  <1>o. \A h \in Kinds :
          /\ Len(requests[h]) = cursor[h] /\ cursor[h] <= scripts[h]
          /\ \A n \in DOMAIN requests[h] : mine[requests[h][n]] = <<h, n>>
    BY DEF StubInv, ScriptsPlayInOrder
  <1>n. mine[c] = <<"none", 0>>
    BY DEF StubInv, Nothing
  <1>1. cursor' \in [Kinds -> Nat] /\ cursor[k] + 1 \in 1..scripts[k]
    BY <1>t DEF Consume
  <1>2. requests' \in [Kinds -> Seq(Callers)]
    BY <1>t DEF Consume
  <1>3. mine' \in [Callers -> (Kinds \cup {"none"}) \X Nat]
    BY <1>t DEF Consume
  <1>4. \A d \in Callers : mine'[d] = IF d = c THEN <<k, cursor[k] + 1>> ELSE mine[d]
    BY <1>t DEF Consume
  <1>5. ASSUME NEW h \in Kinds
        PROVE  /\ Len(requests'[h]) = cursor'[h] /\ cursor'[h] <= scripts'[h]
               /\ \A n \in DOMAIN requests'[h] : mine'[requests'[h][n]] = <<h, n>>
    <2>0. /\ requests[h] \in Seq(Callers) /\ DOMAIN requests[h] = 1..Len(requests[h])
          /\ Len(requests[h]) \in Nat
      BY <1>t
    <2>1. ASSUME NEW n \in DOMAIN requests[h]
          PROVE  requests[h][n] \in Callers /\ mine'[requests[h][n]] = <<h, n>>
      <3>0. n \in 1..Len(requests[h])
        BY <2>0
      <3>1. requests[h][n] \in Callers /\ n \in Nat \ {0}
        BY <2>0, <3>0, ElementOfSeq
      <3>3. mine[requests[h][n]] = <<h, n>>
        BY <1>o
      <3>2. requests[h][n] # c
        BY <1>n, <3>1, <3>3
      <3> QED BY <1>4, <3>1, <3>2, <3>3
    <2>2. CASE h # k
      <3>1. requests'[h] = requests[h] /\ cursor'[h] = cursor[h]
        BY <1>t, <2>2 DEF Consume
      <3> QED BY <1>o, <2>1, <3>1
    <2>3. CASE h = k
      <3>1. requests'[h] = Append(requests[h], c) /\ cursor'[h] = cursor[h] + 1
        BY <1>t, <2>3 DEF Consume
      <3>2. /\ Len(requests'[h]) = Len(requests[h]) + 1
            /\ DOMAIN requests'[h] = 1..(Len(requests[h]) + 1)
            /\ requests'[h][Len(requests[h]) + 1] = c
            /\ \A n \in 1..Len(requests[h]) : requests'[h][n] = requests[h][n]
        BY <2>0, <3>1
      <3>3. Len(requests'[h]) = cursor'[h] /\ cursor'[h] <= scripts'[h]
        BY <1>1, <1>t, <1>o, <2>3, <3>1, <3>2
      <3>4. mine'[c] = <<h, Len(requests[h]) + 1>>
        BY <1>4, <1>o, <2>3
      <3>5. ASSUME NEW n \in DOMAIN requests'[h]
            PROVE  mine'[requests'[h][n]] = <<h, n>>
        <4>1. CASE n = Len(requests[h]) + 1
          BY <3>2, <3>4, <4>1
        <4>2. CASE n # Len(requests[h]) + 1
          <5>1. n \in 1..Len(requests[h])
            BY <2>0, <3>2, <4>2
          <5> QED BY <2>0, <2>1, <3>2, <5>1
        <4> QED BY <4>1, <4>2
      <3> QED BY <3>3, <3>5
    <2> QED BY <2>2, <2>3
  <1> QED BY <1>1, <1>2, <1>3, <1>4, <1>5

\* A step that consumes nothing and moves one call.
LEMMA CallMovesOn ==
  ASSUME StubInv, NEW c \in Callers, spc[c] # "idle",
         UNCHANGED <<sctx, released, scripts, cursor, requests, mine>>,
         NEW p \in {"sending", "closed", "returned"}, spc' = [spc EXCEPT ![c] = p],
         p = "sending" => spc[c] = "streaming",
         schan' = schan,
         sres' \in [Callers -> {"none", "stream", "ok", "error", "exhausted", "ctx"}],
         \A d \in Callers : sres'[d] = sres[d] \/ (d = c /\ sres'[d] # "exhausted")
  PROVE  StubInv'
  <1>1. spc' \in [Callers -> {"idle", "streaming", "sending", "completing", "closed", "returned"}]
        /\ \A d \in Callers : spc'[d] = IF d = c THEN p ELSE spc[d]
    BY DEF StubInv, StubTypeOK
  <1>2. StubTypeOK'
    BY <1>1 DEF StubInv, StubTypeOK
  <1>3. ScriptsPlayInOrder'
    BY DEF StubInv, ScriptsPlayInOrder
  <1>4. \A d \in Callers :
          /\ spc'[d] = "idle" => mine'[d] = Nothing /\ sres'[d] = "none"
          /\ spc'[d] \in {"streaming", "sending", "completing"} =>
               \E n \in 1..Len(Scripts) : mine'[d] = <<"turns", n>>
    BY <1>1 DEF StubInv
  <1> QED BY <1>2, <1>3, <1>4 DEF StubInv

\* A call takes a script.
LEMMA CallTakesScript ==
  ASSUME StubInv, NEW c \in Callers, NEW k \in Kinds, spc[c] = "idle", Consume(c, k),
         UNCHANGED <<sctx, released, scripts, schan>>,
         NEW p \in {"streaming", "completing", "returned"}, spc' = [spc EXCEPT ![c] = p],
         p # "returned" => k = "turns",
         NEW r \in {"none", "stream", "ok", "error"}, sres' = [sres EXCEPT ![c] = r]
  PROVE  StubInv'
  <1>1. spc' \in [Callers -> {"idle", "streaming", "sending", "completing", "closed", "returned"}]
        /\ \A d \in Callers : spc'[d] = IF d = c THEN p ELSE spc[d]
    BY DEF StubInv, StubTypeOK
  <1>2. sres' \in [Callers -> {"none", "stream", "ok", "error", "exhausted", "ctx"}]
        /\ \A d \in Callers : sres'[d] = IF d = c THEN r ELSE sres[d]
    BY DEF StubInv, StubTypeOK
  <1>c. /\ cursor' \in [Kinds -> Nat]
        /\ requests' \in [Kinds -> Seq(Callers)]
        /\ mine' \in [Callers -> (Kinds \cup {"none"}) \X Nat]
        /\ \A d \in Callers : mine'[d] = IF d = c THEN <<k, cursor[k] + 1>> ELSE mine[d]
        /\ cursor[k] + 1 \in 1..scripts[k]
        /\ \A h \in Kinds :
             /\ Len(requests'[h]) = cursor'[h] /\ cursor'[h] <= scripts'[h]
             /\ \A n \in DOMAIN requests'[h] : mine'[requests'[h][n]] = <<h, n>>
    BY ConsumeKeepsOrder
  <1>3. StubTypeOK'
    BY <1>1, <1>2, <1>c DEF StubInv, StubTypeOK
  <1>4. \A d \in Callers : sres'[d] = "exhausted" => mine'[d] = Nothing
    BY <1>2, <1>c DEF StubInv, ScriptsPlayInOrder
  <1>5. ScriptsPlayInOrder'
    BY <1>4, <1>c DEF ScriptsPlayInOrder
  <1>6. ASSUME NEW d \in Callers
        PROVE  /\ spc'[d] = "idle" => mine'[d] = Nothing /\ sres'[d] = "none"
               /\ spc'[d] \in {"streaming", "sending", "completing"} =>
                    \E n \in 1..Len(Scripts) : mine'[d] = <<"turns", n>>
    <2>1. CASE d = c
      <3>1. spc'[d] = p /\ mine'[d] = <<k, cursor[k] + 1>>
        BY <1>1, <1>c, <2>1
      <3>2. scripts["turns"] = Len(Scripts)
        BY DEF StubInv
      <3>3. p # "returned" => cursor[k] + 1 \in 1..Len(Scripts) /\ mine'[d] = <<"turns", cursor[k] + 1>>
        BY <1>c, <3>1, <3>2
      <3> QED BY <3>1, <3>3
    <2>2. CASE d # c
      <3>1. spc'[d] = spc[d] /\ mine'[d] = mine[d] /\ sres'[d] = sres[d]
        BY <1>1, <1>2, <1>c, <2>2
      <3> QED BY <3>1 DEF StubInv
    <2> QED BY <2>1, <2>2
  <1> QED BY <1>3, <1>5, <1>6 DEF StubInv

LEMMA StubStepKeeps ==
  ASSUME StubInv, Stub
  PROVE  StubInv'
  <1>t. /\ "turns" \in Kinds /\ Endpoints \subseteq Kinds /\ "turns" \notin Endpoints
        /\ scripts \in [Kinds -> Nat]
        /\ spc \in [Callers -> {"idle", "streaming", "sending", "completing", "closed", "returned"}]
        /\ sres \in [Callers -> {"none", "stream", "ok", "error", "exhausted", "ctx"}]
    BY StubAssumption DEF Kinds, StubInv, StubTypeOK
  <1>1. ASSUME NEW c \in Callers, StubStream(c)
        PROVE  StubInv'
    BY <1>1, <1>t, CallTakesScript DEF StubStream
  <1>2. ASSUME NEW c \in Callers, StubComplete(c)
        PROVE  StubInv'
    <2>1. sres' = [sres EXCEPT ![c] = "none"]
      BY <1>2, <1>t DEF StubComplete, StubInv
    <2> QED BY <1>2, <1>t, <2>1, CallTakesScript DEF StubComplete
  <1>3. ASSUME NEW c \in Callers, NEW k \in Endpoints, StubCall(c, k)
        PROVE  StubInv'
    BY <1>3, <1>t, CallTakesScript DEF StubCall
  <1>4. ASSUME NEW c \in Callers, StubWork(c)
        PROVE  StubInv'
    <2>1. CASE StubUnblocked(c)
      <3>1. /\ spc[c] = "streaming" /\ spc' = [spc EXCEPT ![c] = "sending"]
            /\ UNCHANGED <<sctx, released, scripts, cursor, requests, mine, schan, sres>>
        BY <2>1 DEF StubUnblocked
      <3>2. sres' \in [Callers -> {"none", "stream", "ok", "error", "exhausted", "ctx"}]
        BY <1>t, <3>1
      <3>3. \A d \in Callers : sres'[d] = sres[d] \/ (d = c /\ sres'[d] # "exhausted")
        BY <3>1
      <3> QED BY <3>1, <3>2, <3>3, CallMovesOn
    <2>2. CASE StubSend(c)
      <3>1. Turn(c).events \in Seq({"text", "usage", "error", "end"})
        BY <2>2, TurnIsTyped DEF StubSend
      <3>2. schan \in [Callers -> Seq({"text", "usage", "error", "end"})]
        BY DEF StubInv, StubTypeOK
      <3>3. Turn(c).events[Len(schan[c]) + 1] \in {"text", "usage", "error", "end"}
        <4>1. Len(schan[c]) + 1 \in 1..Len(Turn(c).events)
          BY <2>2, <3>1, <3>2 DEF StubSend
        <4> QED BY <3>1, <4>1, ElementOfSeq
      <3>4. schan' \in [Callers -> Seq({"text", "usage", "error", "end"})]
        <4>1. Append(schan[c], Turn(c).events[Len(schan[c]) + 1]) \in Seq({"text", "usage", "error", "end"})
          BY <3>2, <3>3, AppendProperties
        <4>2. schan' = [schan EXCEPT ![c] = Append(schan[c], Turn(c).events[Len(schan[c]) + 1])]
          BY <2>2 DEF StubSend
        <4> QED BY <3>2, <4>1, <4>2
      <3>5. UNCHANGED <<sctx, released, scripts, cursor, requests, spc, mine, sres>>
        BY <2>2 DEF StubSend
      <3> QED BY <3>4, <3>5 DEF StubInv, StubTypeOK, ScriptsPlayInOrder
    <2>3. CASE StubClose(c)
      <3>1. /\ spc[c] # "idle" /\ spc' = [spc EXCEPT ![c] = "closed"]
            /\ UNCHANGED <<sctx, released, scripts, cursor, requests, mine, schan, sres>>
        BY <2>3 DEF StubClose
      <3>2. sres' \in [Callers -> {"none", "stream", "ok", "error", "exhausted", "ctx"}]
        BY <1>t, <3>1
      <3>3. \A d \in Callers : sres'[d] = sres[d] \/ (d = c /\ sres'[d] # "exhausted")
        BY <3>1
      <3> QED BY <3>1, <3>2, <3>3, CallMovesOn
    <2>4. CASE StubFold(c)
      <3>1. PICK r \in {"ok", "error", "ctx"} : sres' = [sres EXCEPT ![c] = r]
        BY <2>4 DEF StubFold
      <3>2. /\ sres' \in [Callers -> {"none", "stream", "ok", "error", "exhausted", "ctx"}]
            /\ \A d \in Callers : sres'[d] = IF d = c THEN r ELSE sres[d]
        BY <1>t, <3>1
      <3>3. \A d \in Callers : sres'[d] = sres[d] \/ (d = c /\ sres'[d] # "exhausted")
        BY <3>2
      <3>4. /\ spc[c] # "idle" /\ spc' = [spc EXCEPT ![c] = "returned"]
            /\ UNCHANGED <<sctx, released, scripts, cursor, requests, mine, schan>>
        BY <2>4 DEF StubFold
      <3> QED BY <3>2, <3>3, <3>4, CallMovesOn
    <2> QED BY <1>4, <2>1, <2>2, <2>3, <2>4 DEF StubWork
  <1>5. ASSUME NEW c \in Callers, NEW k \in Kinds, Exhausted(c, k)
        PROVE  StubInv'
    <2>1. mine[c] = Nothing
      BY <1>5 DEF Exhausted, StubInv
    <2>2. /\ spc' \in [Callers -> {"idle", "streaming", "sending", "completing", "closed", "returned"}]
          /\ sres' \in [Callers -> {"none", "stream", "ok", "error", "exhausted", "ctx"}]
          /\ \A d \in Callers : d # c => spc'[d] = spc[d] /\ sres'[d] = sres[d]
          /\ spc'[c] = "returned" /\ sres'[c] = "exhausted"
      BY <1>5, <1>t DEF Exhausted
    <2>3. UNCHANGED <<sctx, released, scripts, cursor, requests, mine, schan>>
      BY <1>5 DEF Exhausted
    <2>4. StubTypeOK'
      BY <2>2, <2>3 DEF StubInv, StubTypeOK
    <2>5. ScriptsPlayInOrder'
      BY <2>1, <2>2, <2>3 DEF StubInv, ScriptsPlayInOrder
    <2> QED BY <2>2, <2>3, <2>4, <2>5 DEF StubInv
  <1>6. ASSUME NEW k \in Endpoints, AddScript(k)
        PROVE  StubInv'
    <2>1. /\ scripts' \in [Kinds -> Nat] /\ scripts'["turns"] = scripts["turns"]
          /\ \A h \in Kinds : scripts'[h] >= scripts[h]
      BY <1>6, <1>t DEF AddScript
    <2>2. UNCHANGED <<sctx, released, cursor, requests, spc, mine, schan, sres>>
      BY <1>6 DEF AddScript
    <2>3. ScriptsPlayInOrder'
      <3>1. \A h \in Kinds : cursor[h] <= scripts'[h]
        BY <1>t, <2>1 DEF StubInv, StubTypeOK, ScriptsPlayInOrder
      <3> QED BY <2>2, <3>1 DEF StubInv, ScriptsPlayInOrder
    <2> QED BY <2>1, <2>2, <2>3 DEF StubInv, StubTypeOK
  <1>7. CASE Release \/ StubCtxOver
    <2>1. /\ UNCHANGED <<scripts, cursor, requests, spc, mine, schan, sres>>
          /\ released' \in BOOLEAN /\ sctx' \in StubCtxEnds \cup {"nil"}
      BY <1>7 DEF Release, StubCtxOver, StubInv, StubTypeOK
    <2> QED BY <2>1 DEF StubInv, StubTypeOK, ScriptsPlayInOrder
  <1> QED BY <1>1, <1>2, <1>3, <1>4, <1>5, <1>6, <1>7 DEF Stub, OnlyStub, StubNext

LEMMA StubHolds == CallsSpec => []StubInv
  <1>1. CallsInit => StubInv
    <2> SUFFICES ASSUME StubInit PROVE StubInv
      BY DEF CallsInit
    <2>1. "turns" \in Kinds
      BY DEF Kinds
    <2>2. Len(Scripts) \in Nat
      BY StubAssumption
    <2>3. /\ scripts \in [Kinds -> Nat] /\ cursor \in [Kinds -> Nat]
          /\ requests \in [Kinds -> Seq(Callers)]
      BY <2>2 DEF StubInit
    <2>4. /\ mine \in [Callers -> (Kinds \cup {"none"}) \X Nat]
          /\ schan \in [Callers -> Seq({"text", "usage", "error", "end"})]
      BY DEF StubInit, Nothing
    <2>5. StubTypeOK
      BY <2>3, <2>4 DEF StubInit, StubTypeOK
    <2>6. ScriptsPlayInOrder
      BY <2>2 DEF StubInit, ScriptsPlayInOrder
    <2> QED BY <2>1, <2>5, <2>6 DEF StubInit, StubInv
  <1>2. StubInv /\ [CallsNext]_callsVars => StubInv'
    <2> SUFFICES ASSUME StubInv, CallsNext \/ UNCHANGED callsVars PROVE StubInv'
      OBVIOUS
    <2>1. CASE UNCHANGED stubVars
      BY <2>1 DEF StubInv, stubVars, StubTypeOK, ScriptsPlayInOrder
    <2> QED BY <2>1, StubStepKeeps DEF CallsNext, Codex, Login, Video, Image, Shot, OnlyCodex, OnlyLogin,
                                       OnlyVideo, OnlyImage, OnlyShot, ContextEnds, callsVars
  <1> QED BY <1>1, <1>2, PTL DEF CallsSpec

-----------------------------------------------------------------------------
(* The endpoints that answer at once. *)

ShotInv ==
  /\ OneShotTypeOK
  /\ opc # "returned" => ~paid
  /\ opc = "trying" /\ op = "speech" => asked \subseteq {"audio"}
  /\ AnswerIsComplete

\* What a call may return.
LEMMA ShotReturns ==
  ASSUME ShotInv, NEW e \in Errors \cup {"none", "ctx"},
         NEW ps \in SUBSET (Questions \cup Parts \cup {"audio"}), NEW price \in BOOLEAN,
         ShotReturn([err |-> e, parts |-> ps, price |-> price]),
         op' = op, asked' \subseteq Questions \cup Parts \cup {"audio"}, paid' \in BOOLEAN,
         e = "none" => asked' \subseteq ps, paid' => price
  PROVE  ShotInv'
  <1>1. opc' = "returned" /\ ores' = [err |-> e, parts |-> ps, price |-> price]
    BY DEF ShotReturn
  <1>2. /\ ores' \in [err : Errors \cup {"none", "ctx"},
                      parts : SUBSET (Questions \cup Parts \cup {"audio"}), price : BOOLEAN]
        /\ ores'.err = e /\ ores'.parts = ps /\ (ores'.price <=> price)
    BY <1>1
  <1> QED BY <1>1, <1>2 DEF ShotInv, OneShotTypeOK, AnswerIsComplete

LEMMA ShotStep ==
  ASSUME HttpInv, ShotInv, Shot
  PROVE  ShotInv'
  <1>e. {"server", "filtered", "invalid"} \subseteq Errors
    BY DEF Errors
  <1>f. ASSUME NEW e \in Errors \cup {"ctx"}, ShotFails(e), op' = op, asked' = asked, paid' = paid, ~paid
        PROVE  ShotInv'
    <2>1. ShotReturn([err |-> e, parts |-> {}, price |-> FALSE])
      BY <1>f DEF ShotFails
    <2>2. e # "none"
      BY DEF Errors
    <2>3. asked' \subseteq Questions \cup Parts \cup {"audio"} /\ paid' \in BOOLEAN
      BY <1>f DEF ShotInv, OneShotTypeOK
    <2> QED BY <1>f, <2>1, <2>2, <2>3, ShotReturns
  <1>1. CASE Shoot
    <2>1. ASSUME NEW names \in SUBSET (Questions \cup {"audio"}), ShotStarts(names), op' = op, paid' = paid,
                 op = "speech" => names \subseteq {"audio"}
          PROVE  ShotInv'
      BY <1>1, <2>1 DEF Shoot, ShotStarts, ShotInv, OneShotTypeOK, AnswerIsComplete
    <2>2. ASSUME ShotRefused, op' = op, paid' = paid, ~paid
          PROVE  ShotInv'
      BY <1>e, <1>f, <2>2 DEF ShotRefused
    <2>3. ~paid /\ op' = op /\ paid' = paid
      BY <1>1 DEF Shoot, ShotInv
    <2> QED BY <1>1, <2>1, <2>2, <2>3 DEF Shoot
  <1>2. CASE ShotTrying
    BY <1>2 DEF ShotTrying, oneShotVars, ShotInv, OneShotTypeOK, AnswerIsComplete
  <1>3. CASE ShotGaveUp
    <2>1. hRes \in Errors \cup {"ctx"}
      BY <1>3 DEF ShotGaveUp, GaveUp, HttpInv, CallTypeOK, Http!RetryTypeOK
    <2> QED BY <1>3, <1>f, <2>1 DEF ShotGaveUp, ShotInv
  <1>4. CASE Garbled
    BY <1>4, <1>e, <1>f DEF Garbled, ShotInv
  <1>5. CASE Spoken
    <2>1. CASE ShotFails("server")
      BY <1>5, <1>e, <1>f, <2>1 DEF Spoken, ShotInv
    <2>2. CASE asked \subseteq {"audio"} /\ ShotReturn([err |-> "none", parts |-> {"audio"}, price |-> FALSE])
      <3>1. paid' \in BOOLEAN /\ ~paid' /\ op' = op /\ asked' = asked
        BY <1>5 DEF Spoken, ShotInv, OneShotTypeOK
      <3> QED BY <2>2, <3>1, ShotReturns
    <2> QED BY <1>5, <2>1, <2>2 DEF Spoken, ShotInv
  <1>6. CASE Decided
    <2> PICK given \in SUBSET Questions :
               ShotReturn([err |-> IF asked \subseteq given THEN "none" ELSE "server",
                           parts |-> given, price |-> TRUE])
      BY <1>6 DEF Decided
    <2>1. asked' = asked /\ op' = op /\ paid' = TRUE /\ asked \subseteq Questions \cup Parts \cup {"audio"}
      BY <1>6 DEF Decided, ShotInv, OneShotTypeOK
    <2>2. PICK e \in {"none", "server"} : e = IF asked \subseteq given THEN "none" ELSE "server"
      OBVIOUS
    <2>3. given \in SUBSET (Questions \cup Parts \cup {"audio"}) /\ e \in Errors \cup {"none", "ctx"}
      BY <1>e
    <2>4. ShotReturn([err |-> e, parts |-> given, price |-> TRUE])
      BY <2>2
    <2> QED BY <2>1, <2>2, <2>3, <2>4, ShotReturns
  <1>c. ASSUME NEW parts \in SUBSET Parts, NEW price \in BOOLEAN, NEW r \in Completions(parts, price)
        PROVE  \E e \in Errors \cup {"none"}, ps \in SUBSET Parts :
                 /\ r = [err |-> e, parts |-> ps, price |-> price]
                 /\ e = "none" => ps = parts
    <2>1. CASE r \in {[err |-> e, parts |-> {}, price |-> price] : e \in {"server", "filtered"}}
      BY <1>e, <2>1
    <2>2. CASE r \in {[err |-> e, parts |-> parts, price |-> price] : e \in {"none", "filtered"}}
      BY <1>e, <2>2
    <2> QED BY <2>1, <2>2 DEF Completions
  <1>7. CASE Completed
    <2>1. PICK parts \in SUBSET Parts :
            asked' = parts /\ \E r \in Completions(parts, paid') : ShotReturn(r)
      BY <1>7 DEF Completed
    <2>2. paid' \in BOOLEAN /\ op' = op
      BY <1>7 DEF Completed
    <2>3. PICK r \in Completions(parts, paid') : ShotReturn(r)
      BY <2>1
    <2>4. PICK e \in Errors \cup {"none"}, ps \in SUBSET Parts :
            r = [err |-> e, parts |-> ps, price |-> paid'] /\ (e = "none" => ps = parts)
      BY <1>c, <2>2
    <2> QED BY <2>1, <2>2, <2>3, <2>4, ShotReturns
  <1>8. CASE Transcribed
    <2>1. PICK speech \in BOOLEAN, r \in Completions({"text"}, paid') :
            /\ asked' = (IF speech THEN {"text"} ELSE {})
            /\ ShotReturn([r EXCEPT !.parts = IF speech /\ r.err = "none" THEN r.parts ELSE {}])
      BY <1>8 DEF Transcribed
    <2>2. paid' \in BOOLEAN /\ op' = op
      BY <1>8 DEF Transcribed
    <2>3. {"text"} \in SUBSET Parts
      BY DEF Parts
    <2>4. PICK e \in Errors \cup {"none"}, ps \in SUBSET Parts :
            r = [err |-> e, parts |-> ps, price |-> paid'] /\ (e = "none" => ps = {"text"})
      BY <1>c, <2>2, <2>3
    <2>5. PICK qs \in SUBSET Parts : qs = IF speech /\ e = "none" THEN ps ELSE {}
      OBVIOUS
    <2>6. ShotReturn([err |-> e, parts |-> qs, price |-> paid'])
      BY <2>1, <2>4, <2>5
    <2>7. asked' \subseteq Questions \cup Parts \cup {"audio"} /\ (e = "none" => asked' \subseteq qs)
      BY <2>1, <2>3, <2>4, <2>5
    <2> QED BY <2>2, <2>6, <2>7, ShotReturns
  <1> QED BY <1>1, <1>2, <1>3, <1>4, <1>5, <1>6, <1>7, <1>8 DEF Shot, OneShotNext

LEMMA ShotHolds == CallsSpec => []ShotInv
  <1>1. CallsInit => ShotInv
    <2>1. NoAnswer \in [err : Errors \cup {"none", "ctx"},
                      parts : SUBSET (Questions \cup Parts \cup {"audio"}), price : BOOLEAN]
      BY DEF NoAnswer
    <2> QED BY <2>1 DEF CallsInit, OneShotInit, ShotInv, OneShotTypeOK, AnswerIsComplete
  <1>2. HttpInv /\ ShotInv /\ [CallsNext]_callsVars => ShotInv'
    <2> SUFFICES ASSUME HttpInv, ShotInv, CallsNext \/ UNCHANGED callsVars PROVE ShotInv'
      OBVIOUS
    <2>1. CASE UNCHANGED oneShotVars
      BY <2>1 DEF ShotInv, oneShotVars, OneShotTypeOK, AnswerIsComplete
    <2> QED BY <2>1, ShotStep DEF CallsNext, Codex, Login, Video, Image, Stub, OnlyCodex, OnlyLogin,
                                  OnlyVideo, OnlyImage, OnlyStub, ContextEnds, callsVars
  <1> QED BY <1>1, <1>2, HttpHolds, PTL DEF CallsSpec

-----------------------------------------------------------------------------
(* The frame of an image, for any ratio: roots exist, and rounding them keeps
   to the limits. *)

LEMMA TimesKeepsOrder ==
  ASSUME NEW x \in Nat, NEW y \in Nat, NEW d \in Nat
  PROVE  /\ x <= y => x * d <= y * d
         /\ x < y /\ d > 0 => x * d < y * d
         /\ x * d < y * d => x < y
         /\ x * d <= y * d /\ d > 0 => x <= y
  OBVIOUS

LEMMA SquaresKeepOrder ==
  ASSUME NEW x \in Nat, NEW y \in Nat
  PROVE  x * x < y * y => x < y
  OBVIOUS

\* Two roots of the same number, scaled by x / y and by y / x.
LEMMA RootsAgree ==
  ASSUME NEW x \in Nat \ {0}, NEW y \in Nat \ {0}, NEW n \in Nat, NEW a \in Nat, NEW b \in Nat,
         a * a * x <= n * y, n * x < b * b * y
  PROVE  a * x < b * y
  <1>1. (a * a * x) * x <= (n * y) * x
    BY TimesKeepsOrder
  <1>2. (n * x) * y < (b * b * y) * y
    BY TimesKeepsOrder
  <1>3. /\ (a * a * x) * x = (a * x) * (a * x) /\ (b * b * y) * y = (b * y) * (b * y)
        /\ (n * y) * x = (n * x) * y
    OBVIOUS
  <1>4. (a * x) * (a * x) < (b * y) * (b * y)
    BY <1>1, <1>2, <1>3
  <1> QED BY <1>4, SquaresKeepOrder

LEMMA DivIsBetween ==
  ASSUME NEW x \in Nat, NEW y \in Nat \ {0}, NEW m \in Nat
  PROVE  /\ m * y <= x => m <= x \div y
         /\ x < (m + 1) * y => x \div y <= m
         /\ x \div y \in Nat
  OBVIOUS

\* A set that holds of the end of an interval and not of its beginning begins
\* somewhere between: in one half of it or the other.
LEMMA HalvedOnce ==
  ASSUME NEW S, NEW m \in Nat \ {0}, NEW lo \in Nat, NEW h \in 1..(m + m), lo \notin S, lo + h \in S
  PROVE  \E l2 \in Nat, h2 \in 1..m : l2 \notin S /\ l2 + h2 \in S /\ l2 + h2 <= lo + h
  <1>1. CASE h <= m
    BY <1>1
  <1>2. CASE h > m /\ lo + m \in S
    BY <1>2
  <1>3. CASE h > m /\ lo + m \notin S
    <2>1. lo + m \in Nat /\ h - m \in 1..m /\ (lo + m) + (h - m) = lo + h
      BY <1>3
    <2> QED BY <1>3, <2>1
  <1> QED BY <1>1, <1>2, <1>3

LEMMA BeginsSomewhere ==
  ASSUME NEW S, NEW hi \in 1..512, 0 \notin S, hi \in S
  PROVE  \E k \in 1..hi : k \in S /\ k - 1 \notin S
  <1> DEFINE Within(m) == \E lo \in Nat, h \in 1..m : lo \notin S /\ lo + h \in S /\ lo + h <= hi
  <1>1. Within(512)
    <2>1. 0 + hi = hi /\ hi <= hi
      OBVIOUS
    <2> WITNESS 0 \in Nat, hi \in 1..512
    <2> QED BY <2>1
  <1>2. ASSUME NEW m \in Nat \ {0}, Within(m + m) PROVE Within(m)
    <2> PICK lo \in Nat, h \in 1..(m + m) : lo \notin S /\ lo + h \in S /\ lo + h <= hi
      BY <1>2
    <2> PICK l2 \in Nat, h2 \in 1..m : l2 \notin S /\ l2 + h2 \in S /\ l2 + h2 <= lo + h
      BY <1>2, HalvedOnce
    <2> QED OBVIOUS
  <1> HIDE DEF Within
  <1>3. Within(256) BY <1>1, <1>2, 256 + 256 = 512
  <1>4. Within(128) BY <1>3, <1>2, 128 + 128 = 256
  <1>5. Within(64) BY <1>4, <1>2, 64 + 64 = 128
  <1>6. Within(32) BY <1>5, <1>2, 32 + 32 = 64
  <1>7. Within(16) BY <1>6, <1>2, 16 + 16 = 32
  <1>8. Within(8) BY <1>7, <1>2, 8 + 8 = 16
  <1>9. Within(4) BY <1>8, <1>2, 4 + 4 = 8
  <1>10. Within(2) BY <1>9, <1>2, 2 + 2 = 4
  <1>11. Within(1) BY <1>10, <1>2, 1 + 1 = 2
  <1>12. PICK lo \in Nat : lo \notin S /\ lo + 1 \in S /\ lo + 1 <= hi
    BY <1>11 DEF Within
  <1>13. (lo + 1) - 1 = lo /\ lo + 1 \in 1..hi
    BY <1>12
  <1> QED BY <1>12, <1>13

\* The root of n / d is below k units and a half; rounded, it is k of them.
Below(n, d, k) == n < (16 * k + 8) * (16 * k + 8) * d
IsNear(n, d, k) == /\ n < (16 * k + 8) * (16 * k + 8) * d
                   /\ n >= (16 * k - 8) * (16 * k - 8) * d

LEMMA NearIsBetween ==
  ASSUME NEW n \in Nat, NEW d \in Nat, NEW k \in Nat \ {0}
  PROVE  IsNear(n, d, k) <=> Below(n, d, k) /\ ~Below(n, d, k - 1)
  <1>1. k - 1 \in Nat /\ 16 * (k - 1) + 8 = 16 * k - 8 /\ 16 * k - 8 \in Nat
    OBVIOUS
  <1>2. Below(n, d, k - 1) <=> n < (16 * k - 8) * (16 * k - 8) * d
    BY <1>1 DEF Below
  <1>3. (16 * k - 8) * (16 * k - 8) * d \in Nat
    BY <1>1
  <1> QED BY <1>2, <1>3 DEF Below, IsNear

\* A root in range is found.
LEMMA RootIsNear ==
  ASSUME NEW n \in Nat, NEW d \in Nat, ~Below(n, d, 0), Below(n, d, 300)
  PROVE  \E k \in 1..300 : IsNear(n, d, k) /\ Root16(n, d) = 16 * k
  <1> DEFINE S == {k \in Nat : Below(n, d, k)}
  <1>1. 0 \notin S /\ 300 \in S /\ 300 \in 1..512
    OBVIOUS
  <1>2. PICK k \in 1..300 : k \in S /\ k - 1 \notin S
    <2> HIDE DEF S
    <2> QED BY <1>1, BeginsSomewhere
  <1>3. IsNear(n, d, k)
    <2>1. k \in Nat \ {0} /\ k - 1 \in Nat
      OBVIOUS
    <2> QED BY <1>2, <2>1, NearIsBetween
  <1> DEFINE c == CHOOSE j \in 1..300 : IsNear(n, d, j)
  <1>4. c \in 1..300 /\ IsNear(n, d, c)
    BY <1>3
  <1>5. Root16(n, d) = 16 * c
    BY DEF Root16, IsNear
  <1> QED BY <1>4, <1>5

LEMMA RoundIsASide ==
  ASSUME NEW n \in Nat, NEW d \in Nat \ {0}, NEW m \in Nat, NEW h \in Nat, m * d <= n, n <= h * d
  PROVE  Round16(n, d) \in Nat /\ m <= Round16(n, d) + 8 /\ Round16(n, d) <= h + 8
  <1> DEFINE q == (2 * n + 16 * d) \div (32 * d)
  <1>1. q \in Nat
    BY DivIsBetween
  <1>2. q * (32 * d) <= 2 * n + 16 * d /\ 2 * n + 16 * d < (q + 1) * (32 * d)
    OBVIOUS
  <1>3. Round16(n, d) = q * 16
    BY DEF Round16
  <1> HIDE DEF q
  <1>4. (q * 32) * d <= (2 * h + 16) * d
    BY <1>1, <1>2
  <1>5. (2 * m + 16) * d < (q * 32 + 32) * d
    BY <1>1, <1>2
  <1>6. ASSUME NEW x \in Nat, NEW y \in Nat, x * d <= y * d PROVE x <= y
    BY <1>6
  <1>7. q * 32 <= 2 * h + 16
    BY <1>1, <1>4, <1>6
  <1>8. 2 * m + 16 <= q * 32 + 32
    BY <1>1, <1>5, <1>6
  <1> QED BY <1>1, <1>3, <1>7, <1>8

\* The short edge that goes with a long one of k units.
LEMMA MostIsTight ==
  ASSUME NEW k \in 1..300
  PROVE  \E m \in Nat : /\ ((MaxPixels \div (16 * k)) \div 16) * 16 = 16 * m
                        /\ 16 * m * (16 * k) <= MaxPixels
                        /\ MaxPixels < (16 * m + 16) * (16 * k)
  <1> DEFINE q == MaxPixels \div (16 * k)
             m == q \div 16
  <1>1. MaxPixels = 8294400 /\ MaxPixels \in Nat
    BY SMT DEF MaxPixels
  <1>2. q \in Nat /\ q * (16 * k) <= MaxPixels /\ MaxPixels < (q + 1) * (16 * k)
    BY SMT, <1>1
  <1> HIDE DEF q
  <1>3. m \in Nat /\ 16 * m <= q /\ q + 1 <= 16 * m + 16
    BY SMT, <1>2
  <1> HIDE DEF m
  <1>4. 16 * m * (16 * k) <= q * (16 * k)
    BY SMT, <1>2, <1>3
  <1>5. (q + 1) * (16 * k) <= (16 * m + 16) * (16 * k)
    BY SMT, <1>2, <1>3
  <1>6. ((MaxPixels \div (16 * k)) \div 16) * 16 = 16 * m
    BY SMT, <1>3 DEF q, m
  <1> QED BY SMT, <1>1, <1>2, <1>3, <1>4, <1>5, <1>6

\* The two roots of a frame whose area is too large.
LEMMA TooManyRoots ==
  ASSUME NEW x \in Nat \ {0}, NEW y \in Nat \ {0}, x <= y, 9 * y < 16 * x
  PROVE  \E j \in 135..180, k \in 180..240 :
           /\ IsNear(MaxPixels * x, y, j) /\ Root16(MaxPixels * x, y) = 16 * j
           /\ IsNear(MaxPixels * y, x, k) /\ Root16(MaxPixels * y, x) = 16 * k
  <1>1. MaxPixels = 8294400
    BY SMT DEF MaxPixels
  <1>2. /\ (16 * 0 + 8) * (16 * 0 + 8) = 64
        /\ (16 * 300 + 8) * (16 * 300 + 8) = 23116864
        /\ 2160 * 2160 = 4665600 /\ 2880 * 2880 = 8294400 /\ 3840 * 3840 = 14745600
    BY SMT
  <1>3. \E j \in 1..300 : IsNear(MaxPixels * x, y, j) /\ Root16(MaxPixels * x, y) = 16 * j
    <2>1. MaxPixels * x \in Nat /\ ~Below(MaxPixels * x, y, 0) /\ Below(MaxPixels * x, y, 300)
      BY SMT, <1>1, <1>2 DEF Below
    <2> QED BY <2>1, RootIsNear
  <1>4. \E k \in 1..300 : IsNear(MaxPixels * y, x, k) /\ Root16(MaxPixels * y, x) = 16 * k
    <2>1. MaxPixels * y \in Nat /\ ~Below(MaxPixels * y, x, 0) /\ Below(MaxPixels * y, x, 300)
      BY SMT, <1>1, <1>2 DEF Below
    <2> QED BY <2>1, RootIsNear
  <1>5. PICK j \in 1..300 : IsNear(MaxPixels * x, y, j) /\ Root16(MaxPixels * x, y) = 16 * j
    BY <1>3
  <1>6. PICK k \in 1..300 : IsNear(MaxPixels * y, x, k) /\ Root16(MaxPixels * y, x) = 16 * k
    BY <1>4
  <1> DEFINE ja == 16 * j + 8
             jb == 16 * j - 8
             ka == 16 * k + 8
             kb == 16 * k - 8
  <1>7. ja \in Nat /\ jb \in Nat /\ ka \in Nat /\ kb \in Nat
    BY SMT
  <1>8. /\ 8294400 * x < ja * ja * y /\ jb * jb * y <= 8294400 * x
        /\ 8294400 * y < ka * ka * x /\ kb * kb * x <= 8294400 * y
    BY SMT, <1>1, <1>5, <1>6 DEF IsNear
  <1> HIDE DEF ja, jb, ka, kb
  <1>9. 2160 < ja
    <2>1. 4665600 * y < (ja * ja) * y
      BY SMT, <1>7, <1>8
    <2>2. 4665600 < ja * ja
      BY SMT, <1>7, <2>1, TimesKeepsOrder
    <2> QED BY SMT, <1>2, <1>7, <2>2, SquaresKeepOrder
  <1>10. jb < 2881
    <2>1. (jb * jb) * y <= 8294400 * y
      BY SMT, <1>7, <1>8
    <2>2. jb * jb <= 8294400
      BY SMT, <1>7, <2>1, TimesKeepsOrder
    <2>3. 2881 * 2881 = 8300161
      BY SMT
    <2> QED BY SMT, <1>2, <1>7, <2>2, <2>3, SquaresKeepOrder
  <1>11. 2880 < ka
    <2>1. 8294400 * x < (ka * ka) * x
      BY SMT, <1>7, <1>8
    <2>2. 8294400 < ka * ka
      BY SMT, <1>7, <2>1, TimesKeepsOrder
    <2> QED BY SMT, <1>2, <1>7, <2>2, SquaresKeepOrder
  <1>12. kb < 3840
    <2>1. (kb * kb) * x < 14745600 * x
      BY SMT, <1>7, <1>8
    <2>2. kb * kb < 14745600
      BY SMT, <1>7, <2>1, TimesKeepsOrder
    <2> QED BY SMT, <1>2, <1>7, <2>2, SquaresKeepOrder
  <1>13. j \in 135..180 /\ k \in 180..240
    BY SMT, <1>9, <1>10, <1>11, <1>12 DEF ja, jb, ka, kb
  <1> QED BY SMT, <1>5, <1>6, <1>13

LEMMA EdgeIsATier ==
  ASSUME NEW t
  PROVE  Edge(t) \in {1024, 2048, 4096}
  BY SMT DEF Edge

\* The frames by their cases, for a ratio x to y.
LEMMA TooManyFits ==
  ASSUME NEW a \in (Nat \ {0}) \X (Nat \ {0}), NEW t \in Tiers, Hi(a) <= 3 * Lo(a), TooMany(a, t)
  PROVE  Frame(a, t) \in Nat \X Nat /\ Fits(Frame(a, t), a, t)
  <1> DEFINE x == Lo(a)
             y == Hi(a)
  <1>1. x \in Nat \ {0} /\ y \in Nat \ {0} /\ x <= y
    BY SMT DEF Lo, Hi
  <1>2. MaxPixels = 8294400 /\ MaxEdge = 3840 /\ Edge(t) \in {1024, 2048, 4096}
    BY SMT, EdgeIsATier DEF MaxPixels, MaxEdge
  <1> HIDE DEF x, y
  <1>3. 9 * y < 16 * x
    <2>1. CASE TooLong(a, t)
      <3>1. 3840 * x > 2160 * y
        BY SMT, <1>2, <2>1 DEF TooMany, x, y
      <3> QED BY SMT, <1>1, <3>1
    <2>2. CASE ~TooLong(a, t)
      <3> DEFINE e == Edge(t)
      <3>1. e * y * e > 8294400 * x /\ ~(e * y > 3840 * x)
        BY SMT, <1>2, <2>2 DEF TooMany, TooLong, x, y
      <3> QED BY SMT, <1>1, <1>2, <3>1
    <2> QED BY <2>1, <2>2
  <1>4. PICK j \in 135..180, k \in 180..240 :
           /\ IsNear(MaxPixels * x, y, j) /\ Root16(MaxPixels * x, y) = 16 * j
           /\ IsNear(MaxPixels * y, x, k) /\ Root16(MaxPixels * y, x) = 16 * k
    BY <1>1, <1>3, TooManyRoots
  <1>5. PICK m \in Nat : /\ ((MaxPixels \div (16 * k)) \div 16) * 16 = 16 * m
                         /\ 16 * m * (16 * k) <= MaxPixels
                         /\ MaxPixels < (16 * m + 16) * (16 * k)
    <2>1. k \in 1..300
      BY SMT
    <2> QED BY <2>1, MostIsTight
  <1>6. m >= 135
    <2>1. (16 * m + 16) * (16 * k) <= (16 * m + 16) * 3840
      BY SMT
    <2> QED BY SMT, <1>2, <1>5, <2>1
  <1> DEFINE s == IF 16 * j > 16 * m THEN 16 * m ELSE 16 * j
  <1>7. Frame(a, t) = <<s, 16 * k>>
    <2>1. Frame(a, t) = Shrunk(16 * j, 16 * k)
      BY <1>4 DEF Frame, x, y
    <2>2. ~(16 * k > MaxEdge)
      BY SMT, <1>2
    <2> QED BY <1>5, <2>1, <2>2 DEF Shrunk
  <1>8. s \in Nat /\ s % 16 = 0 /\ (16 * k) % 16 = 0 /\ s <= 16 * j /\ s <= 16 * m /\ s >= 2160
    BY SMT, <1>6
  <1>9. s * (16 * k) <= MaxPixels
    <2>1. s * (16 * k) <= 16 * m * (16 * k)
      BY SMT, <1>8
    <2> QED BY SMT, <1>2, <1>5, <1>8, <2>1
  <1>10. (16 * j - 8) * y < (16 * k + 8) * x /\ (16 * k - 8) * x < (16 * j + 8) * y
    <2> DEFINE ja == 16 * j + 8
               jb == 16 * j - 8
               ka == 16 * k + 8
               kb == 16 * k - 8
    <2>1. ja \in Nat /\ jb \in Nat /\ ka \in Nat /\ kb \in Nat /\ MaxPixels \in Nat
      BY SMT, <1>2
    <2>2. /\ jb * jb * y <= MaxPixels * x /\ MaxPixels * x < ja * ja * y
          /\ kb * kb * x <= MaxPixels * y /\ MaxPixels * y < ka * ka * x
      BY SMT, <1>1, <1>2, <1>4 DEF IsNear
    <2> HIDE DEF ja, jb, ka, kb
    <2>3. jb * y < ka * x /\ kb * x < ja * y
      BY SMT, <1>1, <2>1, <2>2, RootsAgree
    <2> QED BY SMT, <2>3 DEF ja, jb, ka, kb
  <1>11. s * y <= 16 * k * x + 16 * y
    <2>1. s * y <= 16 * j * y
      BY SMT, <1>1, <1>8
    <2> QED BY SMT, <1>1, <1>8, <1>10, <2>1
  <1>12. 16 * k * x <= s * y + 32 * y
    <2>1. CASE s = 16 * j
      BY SMT, <1>1, <1>10, <2>1
    <2>2. CASE s = 16 * m
      <3> DEFINE kb == 16 * k - 8
                 l == 16 * k
      <3>1. kb * kb * x <= MaxPixels * y
        BY SMT, <1>1, <1>2, <1>4 DEF IsNear
      <3>2. (l - 16) * l <= kb * kb
        BY SMT
      <3>3. (l - 16) * l * x <= kb * kb * x
        BY SMT, <1>1, <3>2
      <3>4. MaxPixels * y < (s + 16) * l * y
        BY SMT, <1>1, <1>2, <1>5, <1>8, <2>2
      <3>5. ((l - 16) * x) * l < ((s + 16) * y) * l
        BY SMT, <1>1, <1>2, <1>8, <3>1, <3>3, <3>4
      <3>6. l \in Nat /\ (l - 16) * x \in Nat /\ (s + 16) * y \in Nat
        BY SMT, <1>1, <1>8
      <3>7. (l - 16) * x < (s + 16) * y
        BY SMT, <3>5, <3>6, TimesKeepsOrder
      <3> QED BY SMT, <1>1, <1>8, <3>7
    <2> QED BY SMT, <2>1, <2>2
  <1> HIDE DEF s
  <1>13. 16 * k <= MaxEdge /\ s <= 16 * k /\ 16 * k <= 3 * s
    BY SMT, <1>2, <1>8
  <1> QED BY SMT, <1>7, <1>8, <1>9, <1>11, <1>12, <1>13 DEF Fits, x, y

\* One side rounded, the other as it is.
LEMMA RoundedIsNear ==
  ASSUME NEW n \in Nat, NEW d \in Nat \ {0}
  PROVE  \E k \in Nat : /\ Round16(n, d) = 16 * k
                        /\ (16 * k) * d <= n + 8 * d /\ n < (16 * k) * d + 8 * d
  <1> DEFINE q == (2 * n + 16 * d) \div (32 * d)
  <1>1. q \in Nat
    BY DivIsBetween
  <1>2. q * (32 * d) <= 2 * n + 16 * d /\ 2 * n + 16 * d < (q + 1) * (32 * d)
    OBVIOUS
  <1>3. Round16(n, d) = 16 * q
    BY DEF Round16
  <1> HIDE DEF q
  <1>4. q * (32 * d) = 2 * ((16 * q) * d) /\ (q + 1) * (32 * d) = 2 * ((16 * q) * d) + 32 * d
    BY <1>1
  <1>5. (16 * q) * d \in Nat
    BY <1>1
  <1> QED BY <1>1, <1>2, <1>3, <1>4, <1>5

LEMMA TooLongFits ==
  ASSUME NEW a \in (Nat \ {0}) \X (Nat \ {0}), NEW t \in Tiers, Hi(a) <= 3 * Lo(a),
         TooLong(a, t), ~TooMany(a, t)
  PROVE  Frame(a, t) \in Nat \X Nat /\ Fits(Frame(a, t), a, t)
  <1> DEFINE x == Lo(a)
             y == Hi(a)
  <1>1. x \in Nat \ {0} /\ y \in Nat \ {0} /\ x <= y /\ y <= 3 * x
    BY SMT DEF Lo, Hi
  <1>2. MaxPixels = 8294400 /\ MaxEdge = 3840
    BY SMT DEF MaxPixels, MaxEdge
  <1> HIDE DEF x, y
  <1>3. 3840 * x <= 2160 * y
    BY SMT, <1>1, <1>2 DEF TooMany, x, y
  <1>4. PICK k \in Nat : /\ Round16(3840 * x, y) = 16 * k
                         /\ (16 * k) * y <= 3840 * x + 8 * y /\ 3840 * x < (16 * k) * y + 8 * y
    <2> DEFINE n == 3840 * x
    <2>1. n \in Nat
      BY SMT, <1>1
    <2> HIDE DEF n
    <2>2. \E k \in Nat : /\ Round16(n, y) = 16 * k
                         /\ (16 * k) * y <= n + 8 * y /\ n < (16 * k) * y + 8 * y
      BY <1>1, <2>1, RoundedIsNear
    <2> QED BY SMT, <2>2 DEF n
  <1>5. (16 * k) * y < 2176 * y /\ 1272 * y < (16 * k) * y
    BY SMT, <1>1, <1>3, <1>4
  <1>6. 16 * k < 2176 /\ 1272 < 16 * k
    BY SMT, <1>1, <1>5, TimesKeepsOrder
  <1>7. k \in 80..135
    BY SMT, <1>6
  <1>8. Frame(a, t) = <<16 * k, 3840>>
    <2>1. Frame(a, t) = Shrunk(16 * k, 3840)
      BY SMT, <1>2, <1>4 DEF Frame, x, y
    <2>2. ((8294400 \div 3840) \div 16) * 16 = 2160
      BY SMT
    <2> QED BY SMT, <1>2, <1>7, <2>1, <2>2 DEF Shrunk
  <1>9. 16 * k * 3840 <= MaxPixels /\ (16 * k) % 16 = 0 /\ 3840 % 16 = 0
    BY SMT, <1>2, <1>7
  <1>10. 3840 * x <= 16 * k * y + 32 * y /\ 16 * k * y <= 3840 * x + 16 * y
    BY SMT, <1>1, <1>4
  <1> QED BY SMT, <1>2, <1>7, <1>8, <1>9, <1>10 DEF Fits, x, y

LEMMA PlainFits ==
  ASSUME NEW a \in (Nat \ {0}) \X (Nat \ {0}), NEW t \in Tiers, Hi(a) <= 3 * Lo(a),
         ~TooLong(a, t), ~TooMany(a, t)
  PROVE  Frame(a, t) \in Nat \X Nat /\ Fits(Frame(a, t), a, t)
  <1> DEFINE x == Lo(a)
             y == Hi(a)
             e == Edge(t)
  <1>1. x \in Nat \ {0} /\ y \in Nat \ {0} /\ x <= y /\ y <= 3 * x
    BY SMT DEF Lo, Hi
  <1>2. MaxPixels = 8294400 /\ MaxEdge = 3840 /\ e \in {1024, 2048, 4096}
    BY SMT, EdgeIsATier DEF MaxPixels, MaxEdge
  <1>3. e * y <= 3840 * x
    BY SMT, <1>1, <1>2 DEF TooLong
  <1> HIDE DEF x, y
  <1>4. e \in {1024, 2048} /\ e * y \in Nat
    BY SMT, <1>1, <1>2, <1>3
  <1> HIDE DEF e
  <1>5. PICK k \in Nat : /\ Round16(e * y, x) = 16 * k
                         /\ (16 * k) * x <= e * y + 8 * x /\ e * y < (16 * k) * x + 8 * x
    <2> DEFINE n == e * y
    <2>1. n \in Nat
      BY SMT, <1>4
    <2> HIDE DEF n
    <2>2. \E k \in Nat : /\ Round16(n, x) = 16 * k
                         /\ (16 * k) * x <= n + 8 * x /\ n < (16 * k) * x + 8 * x
      BY <1>1, <2>1, RoundedIsNear
    <2> QED BY SMT, <2>2 DEF n
  <1>6. e * x <= e * y /\ e * y <= 3 * e * x
    BY SMT, <1>1, <1>4
  <1>7. e * x < (16 * k + 8) * x /\ (16 * k) * x <= (3 * e + 8) * x /\ (16 * k) * x <= 3848 * x
    BY SMT, <1>1, <1>3, <1>4, <1>5, <1>6
  <1>8. e < 16 * k + 8 /\ 16 * k <= 3 * e + 8 /\ 16 * k <= 3848
    BY SMT, <1>1, <1>4, <1>7, TimesKeepsOrder
  <1>9. k \in 64..240 /\ e <= 16 * k /\ 16 * k <= 3 * e
    BY SMT, <1>4, <1>8
  <1>10. e * (16 * k) <= 8294400
    BY SMT, <1>4, <1>9
  <1>11. Frame(a, t) = <<e, 16 * k>>
    <2>1. Frame(a, t) = Shrunk(e, 16 * k)
      BY <1>5 DEF Frame, x, y, e
    <2>2. PICK m \in Nat : /\ ((MaxPixels \div (16 * k)) \div 16) * 16 = 16 * m
                           /\ 16 * m * (16 * k) <= MaxPixels
                           /\ MaxPixels < (16 * m + 16) * (16 * k)
      <3>1. k \in 1..300
        BY SMT, <1>9
      <3> QED BY <3>1, MostIsTight
    <2>3. e * (16 * k) < (16 * m + 16) * (16 * k)
      BY SMT, <1>2, <1>4, <1>10, <2>2
    <2>4. e < 16 * m + 16
      BY SMT, <1>4, <1>9, <2>3, TimesKeepsOrder
    <2>5. ~(e > 16 * m)
      BY SMT, <1>4, <2>4
    <2>6. ~(16 * k > MaxEdge)
      BY SMT, <1>2, <1>9
    <2> QED BY <2>1, <2>2, <2>5, <2>6 DEF Shrunk
  <1>12. e % 16 = 0 /\ (16 * k) % 16 = 0 /\ e * (16 * k) <= MaxPixels /\ 16 * k <= MaxEdge
    BY SMT, <1>2, <1>4, <1>9, <1>10
  <1>13. 16 * k * x <= e * y + 32 * y /\ e * y <= 16 * k * x + 16 * y
    BY SMT, <1>1, <1>4, <1>5
  <1> QED BY SMT, <1>4, <1>9, <1>11, <1>12, <1>13 DEF Fits, x, y, e

\* Whatever the ratio, if it is not beyond 3:1, and whatever the tier, the frame
\* that imagesAPISize computes is within the limits of the endpoint and has the
\* tier and the ratio that were asked for, up to its rounding
\* (internal/cli/image.go:44-50, 243-289).
THEOREM FramesFit ==
  ASSUME NEW a \in (Nat \ {0}) \X (Nat \ {0}), NEW t, Renderable(a, t)
  PROVE  Frame(a, t) \in Nat \X Nat /\ Fits(Frame(a, t), a, t)
  BY TooManyFits, TooLongFits, PlainFits DEF Renderable

-----------------------------------------------------------------------------
(* The image command. *)

\* A frame that is asked for is one that the request may carry and the endpoint takes.
PixelsInv == pixels # NoPixels => SizeMatches(pixels) /\ Fits(pixels, opts.aspect, opts.tier)

\* What is asked for without pixels, and what is not asked for as it was meant.
Beyond == opts.kind = "bad" \/ opts.tier \notin Tiers \/ Hi(opts.aspect) > 3 * Lo(opts.aspect)
ChoiceInv ==
  /\ ipc \in {"asking", "trying", "writing"} /\ model = "images" /\ opts.kind = "ratio" =>
       pixels # NoPixels
  /\ ires = "frame" \/ model = "fallback" => Beyond

ImageInv ==
  /\ ImageTypeOK
  /\ client # "image" => ipc = "loading"
  /\ opts.kind = "ratio" => opts.aspect # NoAspect
  /\ ipc # "returned" => ires = "none"
  /\ ipc \in {"loading", "framing"} => pixels = NoPixels /\ model = opts.model
  /\ PixelsInv
  /\ ChoiceInv
  /\ ipc = "writing" => answer # <<>>
  /\ FlagsAreServed

LEMMA PixelsStay == UNCHANGED <<pixels, opts>> => (PixelsInv' <=> PixelsInv)
  BY DEF PixelsInv

LEMMA BeyondStays == UNCHANGED opts => (Beyond' <=> Beyond)
  BY DEF Beyond

LEMMA FramesAreChosen == ImageInv => FrameFits
  BY DEF ImageInv, PixelsInv, ChoiceInv, Beyond, FrameFits

LEMMA FramesAreSizes ==
  ASSUME NEW a \in Aspects, NEW t, Renderable(a, t)
  PROVE  /\ Frame(a, t) \in Nat \X Nat /\ Frame(a, t) # NoPixels
         /\ SizeMatches(Frame(a, t)) /\ Fits(Frame(a, t), a, t)
  <1>1. a \in (Nat \ {0}) \X (Nat \ {0})
    BY ImageAssumption
  <1>2. Frame(a, t) \in Nat \X Nat /\ Fits(Frame(a, t), a, t)
    BY <1>1, FramesFit
  <1>3. PICK s \in Nat, l \in Nat : Frame(a, t) = <<s, l>>
    BY <1>2
  <1>4. l <= MaxEdge /\ s <= l /\ (s = Edge(t) \/ s >= 1280)
    BY <1>2, <1>3 DEF Fits
  <1>5. Edge(t) \in {1024, 2048, 4096}
    BY EdgeIsATier
  <1>6. s \in 100..9999 /\ l \in 100..9999
    <2>1. l <= 3840
      BY <1>4 DEF MaxEdge
    <2>2. s >= 1024
      BY <1>4, <1>5
    <2>3. s <= l
      BY <1>4
    <2>4. s \in 100..9999
      BY SMT, <2>1, <2>2, <2>3
    <2>5. l \in 100..9999
      BY SMT, <2>1, <2>2, <2>3
    <2> QED BY <2>4, <2>5
  <1>7. Frame(a, t) # NoPixels
    <2>1. s # 0
      BY <1>6
    <2>2. <<s, l>>[1] = s /\ <<0, 0>>[1] = 0
      OBVIOUS
    <2>3. <<s, l>> # <<0, 0>>
      BY ZenonT(20), <2>1, <2>2
    <2> QED BY <1>3, <2>3 DEF NoPixels
  <1> QED BY <1>2, <1>3, <1>6, <1>7 DEF SizeMatches

LEMMA ImagesAreCounted ==
  ASSUME DOMAIN answer \subseteq 1..MaxImages
  PROVE  DataIn(answer) \in Nat
  <1> DEFINE D == {i \in DOMAIN answer : answer[i] = "data"}
  <1>1. IsFiniteSet(1..MaxImages)
    BY ImageAssumption, FS_Interval
  <1>2. D \subseteq 1..MaxImages
    OBVIOUS
  <1>3. IsFiniteSet(D)
    <2> HIDE DEF D
    <2> QED BY <1>1, <1>2, FS_Subset
  <1> QED BY <1>3, FS_CardinalityType DEF DataIn

\* The command ends, but not with what it has written.
LEMMA ImageEnds ==
  ASSUME ImageInv, client = "image", client' = client, NEW r, ImageReturn(r),
         r \in Errors \cup {"ctx", "frame", "quality", "refs", "empty", "disk"},
         r = "invalid" => hRes' = "invalid", r = "frame" => Beyond, written' \in Nat,
         UNCHANGED <<opts, model, pixels, refs, answer>>
  PROVE  ImageInv'
  <1>1. ipc' = "returned" /\ ires' = r /\ r # "ok"
    BY DEF ImageReturn, Errors
  <1>2. ImageTypeOK'
    BY <1>1 DEF ImageInv, ImageTypeOK
  <1>3. FlagsAreServed'
    BY <1>1 DEF ImageInv, FlagsAreServed
  <1>4. ChoiceInv'
    BY <1>1, BeyondStays DEF ImageInv, ChoiceInv
  <1> QED BY <1>1, <1>2, <1>3, <1>4, PixelsStay DEF ImageInv

LEMMA ImageStep ==
  ASSUME HttpInv, ImageInv, Image
  PROVE  ImageInv'
  <1> USE DEF Image, OnlyImage
  <1>e. {"server", "filtered", "invalid"} \subseteq Errors
    BY DEF Errors
  <1>t. written \in Nat /\ DOMAIN answer \subseteq 1..MaxImages
    BY DEF ImageInv, ImageTypeOK
  <1>1. CASE LoadRefs
    <2>1. UNCHANGED <<opts, model, pixels, answer, written>> /\ ipc = "loading"
      BY <1>1 DEF LoadRefs
    <2>2. ASSUME refs' \in (0..MaxRefs) \X Nat, refs'[2] <= Budget, ires' = ires,
                 ipc' \in {"loading", "framing"}
          PROVE  ImageInv'
      BY <2>1, <2>2, PixelsStay, BeyondStays DEF ImageInv, ImageTypeOK, FlagsAreServed, ChoiceInv
    <2>3. refs \in (0..MaxRefs) \X Nat /\ refs[2] <= Budget
      BY DEF ImageInv, ImageTypeOK, FlagsAreServed
    <2>4. ASSUME NEW size \in RefSizes, refs[1] < MaxRefs, Load(size)
          PROVE  ImageInv'
      <3>1. CASE ImageReturn("refs") /\ UNCHANGED refs
        BY <1>t, <2>1, <3>1, ImageEnds DEF Errors
      <3>2. CASE /\ ipc' = ipc /\ ires' = ires
                 /\ \E grown \in {0, 1} : /\ refs[2] + size + grown <= Budget
                                          /\ refs' = WithRef(size + grown)
        <4>1. PICK grown \in {0, 1} : /\ refs[2] + size + grown <= Budget
                                      /\ refs' = WithRef(size + grown)
          BY <3>2
        <4>2. size \in Nat /\ MaxRefs \in Nat /\ Budget \in Nat
          BY ImageAssumption
        <4>3. refs' = <<refs[1] + 1, refs[2] + (size + grown)>>
          BY <4>1 DEF WithRef
        <4> QED BY <2>1, <2>2, <2>3, <2>4, <3>2, <4>1, <4>2, <4>3
      <3> QED BY <2>4, <3>1, <3>2 DEF Load
    <2> QED BY <1>1, <2>1, <2>2, <2>3, <2>4 DEF LoadRefs
  <1>2. CASE ChooseFrame
    <2>1. UNCHANGED <<opts, refs, answer, written>> /\ ipc = "framing" /\ ires = "none"
      BY <1>2 DEF ChooseFrame, ImageInv
    <2>r. opts.kind = "ratio" => opts.aspect \in (Nat \ {0}) \X (Nat \ {0})
      BY ImageAssumption DEF ImageInv, ImageTypeOK, ImageOpts
    <2>b. ASSUME opts.kind \notin {"none", "auto"}, ~Renderable(opts.aspect, opts.tier) PROVE Beyond
      <3>1. CASE opts.kind = "bad"
        BY <3>1 DEF Beyond
      <3>2. CASE opts.kind = "ratio"
        <4>1. Hi(opts.aspect) \in Nat /\ Lo(opts.aspect) \in Nat
          BY <2>r, <3>2 DEF Hi, Lo
        <4> QED BY <2>b, <4>1 DEF Beyond, Renderable
      <3> QED BY <2>b, <3>1, <3>2 DEF ImageInv, ImageTypeOK, ImageOpts
    <2>2. CASE ImageReturn("frame") /\ UNCHANGED <<model, pixels>> /\ Beyond
      BY <1>t, <2>1, <2>2, ImageEnds DEF Errors
    <2>3. CASE /\ ipc' = "asking" /\ UNCHANGED <<model, pixels, ires>>
               /\ model # "images" \/ opts.kind \in {"none", "auto"}
      BY <2>1, <2>3, PixelsStay, BeyondStays DEF ImageInv, ImageTypeOK, FlagsAreServed, ChoiceInv
    <2>4. CASE /\ ipc' = "asking" /\ UNCHANGED <<model, ires>>
               /\ opts.kind \notin {"none", "auto", "bad"} /\ Renderable(opts.aspect, opts.tier)
               /\ pixels' = Frame(opts.aspect, opts.tier)
      <3>1. opts.aspect \in Aspects
        <4>1. opts.aspect \in Aspects \cup {NoAspect}
          BY DEF ImageInv, ImageTypeOK, ImageOpts
        <4>2. opts.kind = "ratio" => opts.aspect # NoAspect
          BY DEF ImageInv
        <4> QED BY <2>4, <4>1, <4>2 DEF ImageInv, ImageTypeOK, ImageOpts
      <3>2. /\ pixels' \in Nat \X Nat /\ pixels' # NoPixels
            /\ SizeMatches(pixels') /\ Fits(pixels', opts.aspect, opts.tier)
        BY <2>4, <3>1, FramesAreSizes
      <3>3. PixelsInv'
        BY <2>1, <3>2 DEF PixelsInv
      <3> QED BY <2>1, <2>4, <3>2, <3>3, BeyondStays
              DEF ImageInv, ImageTypeOK, FlagsAreServed, ChoiceInv
    <2>5. CASE /\ ipc' = "asking" /\ model' = "fallback" /\ UNCHANGED <<pixels, ires>>
               /\ ~opts.explicit /\ Beyond
      BY <2>1, <2>5, PixelsStay, BeyondStays DEF ImageInv, ImageTypeOK, FlagsAreServed, ChoiceInv
    <2> QED BY <1>2, <2>b, <2>2, <2>3, <2>4, <2>5 DEF ChooseFrame, Beyond
  <1>3. CASE AskForImages
    <2>1. UNCHANGED <<opts, model, pixels, refs, answer, written>> /\ ipc = "asking"
      BY <1>3 DEF AskForImages
    <2>2. ~ImagesBodyFails
      BY DEF ImagesBodyFails, Sent, ImageInv, PixelsInv
    <2>3. CASE ImageReturn("quality")
      BY <1>t, <2>1, <2>3, ImageEnds DEF Errors
    <2>4. CASE ipc' = "trying" /\ ires' = ires
      BY <2>1, <2>4, PixelsStay, BeyondStays DEF ImageInv, ImageTypeOK, FlagsAreServed, ChoiceInv
    <2> QED BY <1>3, <2>2, <2>3, <2>4 DEF AskForImages
  <1>4. CASE ImageTrying
    BY <1>4, PixelsStay, BeyondStays
    DEF ImageTrying, imageVars, ImageInv, ImageTypeOK, FlagsAreServed, ChoiceInv
  <1>5. CASE ImagesArrive
    <2>1. UNCHANGED <<opts, model, pixels, refs, written>> /\ ipc = "trying"
      BY <1>5 DEF ImagesArrive
    <2>2. CASE answer' = answer /\ \E e \in {"server", "filtered", "empty"} : ImageReturn(e)
      BY <1>e, <1>t, <2>1, <2>2, ImageEnds DEF Errors
    <2>3. ASSUME NEW n \in 0..MaxImages, NEW data \in [1..n -> Data], ImagesIn(data) # <<>>,
                 ipc' = "writing", answer' = ImagesIn(data), ires' = ires
          PROVE  ImageInv'
      <3>1. /\ DOMAIN answer' \subseteq 1..MaxImages
            /\ answer' \in [DOMAIN answer' -> {"data", "url"}]
        <4> DEFINE D == {j \in DOMAIN data : data[j] \in {"data", "url"}}
        <4>1. answer' = [i \in D |-> data[i]]
          BY <2>3 DEF ImagesIn
        <4>2. D \subseteq 1..n /\ 1..n \subseteq 1..MaxImages /\ \A i \in D : data[i] \in {"data", "url"}
          BY ImageAssumption
        <4> HIDE DEF D
        <4> QED BY <4>1, <4>2
      <3> QED BY <2>1, <2>3, <3>1, PixelsStay, BeyondStays DEF ImageInv, ImageTypeOK, FlagsAreServed, ChoiceInv
    <2> QED BY <1>5, <2>1, <2>2, <2>3 DEF ImagesArrive
  <1>6. CASE ImageGaveUp
    <2>1. hRes \in Errors \cup {"ctx"} /\ hRes' = hRes
      BY <1>6 DEF ImageGaveUp, GaveUp, HttpInv, CallTypeOK, Http!RetryTypeOK, callVars
    <2>2. hRes # "frame"
      BY <2>1 DEF Errors
    <2> QED BY <1>6, <1>t, <2>1, <2>2, ImageEnds DEF ImageGaveUp
  <1>7. CASE WriteImages
    <2>1. UNCHANGED <<opts, model, pixels, refs, answer>> /\ ipc = "writing"
      BY <1>7 DEF WriteImages
    <2>2. DataIn(answer) \in Nat
      BY <1>t, ImagesAreCounted
    <2>3. CASE ImageReturn("disk") /\ written' = written
      BY <1>t, <2>1, <2>3, ImageEnds DEF Errors
    <2>4. ASSUME NEW n \in 0..DataIn(answer), written' = n,
                 IF n < DataIn(answer) THEN ImageReturn("disk") ELSE ImageReturn("ok")
          PROVE  ImageInv'
      <3>1. CASE n < DataIn(answer)
        BY <2>1, <2>2, <2>4, <3>1, ImageEnds DEF Errors
      <3>2. CASE ~(n < DataIn(answer))
        <4>1. ipc' = "returned" /\ ires' = "ok" /\ written' = DataIn(answer) /\ written' \in Nat
          BY <2>2, <2>4, <3>2 DEF ImageReturn
        <4>2. answer # <<>> /\ DataIn(answer)' = DataIn(answer)
          BY <2>1 DEF ImageInv, DataIn
        <4>3. FlagsAreServed'
          BY <2>1, <4>1, <4>2 DEF ImageInv, FlagsAreServed
        <4> QED BY <2>1, <4>1, <4>3, PixelsStay, BeyondStays DEF ImageInv, ImageTypeOK, ChoiceInv
      <3> QED BY <3>1, <3>2
    <2> QED BY <1>7, <2>3, <2>4 DEF WriteImages
  <1> QED BY <1>1, <1>2, <1>3, <1>4, <1>5, <1>6, <1>7 DEF ImageNext

LEMMA ImageHolds == CallsSpec => []ImageInv
  <1>1. CallsInit => ImageInv
    <2> SUFFICES ASSUME ImageInit, client # "image" => opts = DefaultOpts PROVE ImageInv
      BY DEF CallsInit
    <2>1. opts \in ImageOpts /\ (opts.kind = "ratio" => opts.aspect # NoAspect) /\ model = opts.model
      BY DEF ImageInit
    <2>2. refs = <<0, 0>> /\ MaxRefs \in Nat /\ Budget \in Nat
      BY ImageAssumption DEF ImageInit
    <2>3. answer = <<>> /\ DOMAIN answer \subseteq 1..MaxImages /\ answer \in [DOMAIN answer -> {"data", "url"}]
      BY DEF ImageInit
    <2>4. ipc = "loading" /\ pixels = <<0, 0>> /\ written = 0 /\ ires = "none"
      BY DEF ImageInit, NoPixels
    <2>5. model \in {"images", "chat"}
      BY <2>1 DEF ImageOpts
    <2>6. ImageTypeOK
      BY <2>1, <2>2, <2>3, <2>4, <2>5 DEF ImageTypeOK
    <2> QED BY <2>1, <2>2, <2>4, <2>5, <2>6
        DEF ImageInv, PixelsInv, FlagsAreServed, ChoiceInv, NoPixels
  <1>2. HttpInv /\ ImageInv /\ [CallsNext]_callsVars => ImageInv'
    <2> SUFFICES ASSUME HttpInv, ImageInv, CallsNext \/ UNCHANGED callsVars PROVE ImageInv'
      OBVIOUS
    <2>1. CASE UNCHANGED <<client, imageVars>> /\ (client # "image" \/ hRes' = hRes)
      BY <2>1, PixelsStay, BeyondStays
      DEF ImageInv, imageVars, ImageTypeOK, FlagsAreServed, ChoiceInv
    <2>2. CASE ContextEnds
      BY <2>1, <2>2 DEF ContextEnds, CtxOver, httpVars
    <2> QED BY <2>1, <2>2, ImageStep DEF CallsNext, Codex, Login, Video, Shot, Stub, OnlyCodex, OnlyLogin,
                                   OnlyVideo, OnlyShot, OnlyStub, callsVars, callVars
  <1> QED BY <1>1, <1>2, HttpHolds, PTL DEF CallsSpec

-----------------------------------------------------------------------------
(* Codex's stream, and its reader. *)

Events == [kind : {"text", "usage", "error", "end"}, n : Nat, why : Errors \cup Finishes]

CodexTyped == CodexTypeOK /\ out \in Seq(Events) /\ got \in 0..Len(out)

\* Where the two sides are together.
PlaceInv ==
  /\ client # "codex" => cpc = "idle"
  /\ cpc \in {"idle", "opening"} => ppc = "none"
  /\ cpc = "draining" => ppc # "none"
  /\ cpc = "returned" => \/ ppc = "none" /\ resp.err # "none"
                         \/ ppc = "closed" /\ got = Len(out)
  /\ ppc = "none" => /\ said = <<>> /\ ~sawDelta /\ finish = "" /\ batch = <<>> /\ out = <<>>
                     /\ resp.text = <<>> /\ ~resp.usage /\ resp.finish = ""
                     /\ cpc # "returned" => resp.err = "none"

\* The backend has ended its answer; how; and what went wrong, if nothing else is
\* read.
Last == said[Len(said)]
Told == said # <<>> /\ Settles(Last)
Blame == CASE Told /\ Last = "unsafe"                  -> "filtered"
           [] Told /\ Last \notin {"unsafe", "failed"} -> "none"
           [] OTHER                                    -> "server"
ScanOver == ppc \in {"ending", "closing", "closed"}

SaidInv ==
  /\ sawDelta <=> \E i \in 1..Len(said) : said[i] = "delta"
  /\ Told => finish = FinishOf(Last)
  /\ ppc \in {"none", "scanning"} => ~Told

\* What is about to be sent is a text that is new, or the one report of the end.
BatchInv ==
  /\ ppc # "emitting" => batch = <<>>
  /\ ppc = "emitting" =>
       /\ Len(batch) = 1
       /\ \/ /\ batch[1].kind = "text" /\ ~Told
             /\ batch[1].n = Len(said) /\ Len(said) \in TextSaid
             /\ \A i \in 1..Len(out) : out[i].kind = "text" => out[i].n < Len(said)
          \/ batch[1].kind = "usage" /\ Told /\ Last \in Priced
          \/ batch[1].kind = "error" /\ Blame # "none" /\ batch[1].why = Blame

\* What was sent is of the answer, and in its order.
SentIsSaid(i) ==
  /\ out[i].kind = "text"  => out[i].n \in TextSaid
  /\ out[i].kind = "usage" => ScanOver /\ Told /\ Last \in Priced
  /\ out[i].kind = "error" => ScanOver /\ Blame # "none" /\ out[i].why = Blame
  /\ out[i].kind = "end"   => ppc \in {"closing", "closed"} /\ out[i].why = finish
OutInv ==
  /\ \A i \in 1..Len(out) : SentIsSaid(i)
  /\ \A i, j \in 1..Len(out) : i < j /\ out[i].kind = "text" /\ out[j].kind = "text" => out[i].n < out[j].n

\* As long as the context is not over, nothing is missing.
SentKind(k) == \E i \in 1..Len(out) : out[i].kind = k
WholeInv ==
  ctx = "nil" =>
    /\ \A n \in TextSaid : \/ \E i \in 1..Len(out) : out[i].kind = "text" /\ out[i].n = n
                           \/ ppc = "emitting" /\ batch[1].kind = "text" /\ batch[1].n = n
    /\ ScanOver => /\ Told /\ Last \in Priced => SentKind("usage")
                   /\ Blame # "none" => SentKind("error")
    /\ ppc \in {"closing", "closed"} => SentKind("end")

\* The response is what was received.
GotKind(k) == \E i \in 1..got : out[i].kind = k
RespInv ==
  /\ \A i \in DOMAIN resp.text : \E j \in 1..got : out[j].kind = "text" /\ out[j].n = resp.text[i]
  /\ \A j \in 1..got : out[j].kind = "text" => \E i \in DOMAIN resp.text : resp.text[i] = out[j].n
  /\ \A i, j \in DOMAIN resp.text : i < j => resp.text[i] < resp.text[j]
  /\ resp.usage <=> GotKind("usage")
  /\ GotKind("end") => resp.finish = finish
  /\ ppc # "none" =>
       resp.err = IF GotKind("error") THEN Blame
                  ELSE IF cpc = "returned" /\ ctx # "nil" THEN "ctx" ELSE "none"

CodexInv == CodexTyped /\ PlaceInv /\ SaidInv /\ BatchInv /\ OutInv /\ WholeInv /\ RespInv

\* Where nothing new is read, what is said of the answer stays.
LEMMA SaidStays ==
  ASSUME said' = said
  PROVE  TextSaid' = TextSaid /\ Told' = Told /\ Last' = Last /\ Blame' = Blame
  BY DEF TextSaid, Told, Last, Blame

LEMMA TextIsSaid == TextSaid \subseteq 1..Len(said) /\ TextSaid' \subseteq 1..Len(said')
  BY DEF TextSaid

LEMMA TextIsText ==
  ASSUME NEW i \in 1..Len(said')
  PROVE  i \in TextSaid' <=> (said'[i] = "delta" \/ (said'[i] = "done" /\ \A j \in 1..i : said'[j] # "delta"))
  BY DEF TextSaid

\* What one more event adds to the text of the answer.
LEMMA OneMoreSaid ==
  ASSUME SaidInv, NEW k, NEW n \in Nat, Len(said) \in Nat, n = Len(said) + 1, Len(said') = n, said'[n] = k,
         \A i \in 1..Len(said) : said'[i] = said[i]
  PROVE  TextSaid' = IF k = "delta" \/ (k = "done" /\ ~sawDelta) THEN TextSaid \cup {n} ELSE TextSaid
  <1>2. ASSUME NEW i \in 1..Len(said)
        PROVE  i \in TextSaid' <=> i \in TextSaid
    BY <1>2 DEF TextSaid
  <1>3. n \in TextSaid' <=> (k = "delta" \/ (k = "done" /\ ~sawDelta))
    <2>1. (\A j \in 1..n : said'[j] # "delta") <=> k # "delta" /\ ~sawDelta
      BY DEF SaidInv
    <2>2. n \in 1..Len(said')
      OBVIOUS
    <2> QED BY <2>1, <2>2, TextIsText
  <1>4. TextSaid' \subseteq 1..n /\ TextSaid \subseteq 1..Len(said)
    BY TextIsSaid
  <1>5. n \notin TextSaid
    BY <1>4
  <1>6. \A i \in 1..n : i \in 1..Len(said) \/ i = n
    OBVIOUS
  <1>7. CASE k = "delta" \/ (k = "done" /\ ~sawDelta)
    BY <1>2, <1>3, <1>4, <1>5, <1>6, <1>7
  <1>8. CASE ~(k = "delta" \/ (k = "done" /\ ~sawDelta))
    <2>1. TextSaid' = TextSaid
      BY <1>2, <1>3, <1>4, <1>5, <1>6, <1>8
    <2> QED BY <1>8, <2>1
  <1> QED BY <1>7, <1>8

LEMMA TextSaidGrows ==
  ASSUME said \in Seq(SaidKinds), SaidInv, NEW k \in SaidKinds, said' = Append(said, k)
  PROVE  TextSaid' = IF k = "delta" \/ (k = "done" /\ ~sawDelta)
                       THEN TextSaid \cup {Len(said) + 1} ELSE TextSaid
  <1>1. Len(said) \in Nat /\ Len(said) + 1 \in Nat /\ Len(said') = Len(said) + 1
    BY AppendProperties
  <1>2. said'[Len(said) + 1] = k /\ \A i \in 1..Len(said) : said'[i] = said[i]
    BY AppendProperties
  <1> QED BY <1>1, <1>2, OneMoreSaid

\* The response, with one of its fields written.
Responses == [text : Seq(Nat), usage : BOOLEAN, finish : Finishes, err : Errors \cup {"none", "ctx"}]

LEMMA WithErr ==
  ASSUME NEW r \in Responses, NEW e \in Errors \cup {"none", "ctx"}
  PROVE  /\ [r EXCEPT !.err = e] \in Responses
         /\ [r EXCEPT !.err = e].text = r.text /\ [r EXCEPT !.err = e].usage = r.usage
         /\ [r EXCEPT !.err = e].finish = r.finish /\ [r EXCEPT !.err = e].err = e
  BY DEF Responses

LEMMA WithText ==
  ASSUME NEW r \in Responses, NEW t \in Seq(Nat)
  PROVE  /\ [r EXCEPT !.text = t] \in Responses
         /\ [r EXCEPT !.text = t].text = t /\ [r EXCEPT !.text = t].usage = r.usage
         /\ [r EXCEPT !.text = t].finish = r.finish /\ [r EXCEPT !.text = t].err = r.err
  BY DEF Responses

LEMMA WithUsage ==
  ASSUME NEW r \in Responses
  PROVE  /\ [r EXCEPT !.usage = TRUE] \in Responses
         /\ [r EXCEPT !.usage = TRUE].text = r.text /\ [r EXCEPT !.usage = TRUE].usage
         /\ [r EXCEPT !.usage = TRUE].finish = r.finish /\ [r EXCEPT !.usage = TRUE].err = r.err
  BY DEF Responses

LEMMA WithFinish ==
  ASSUME NEW r \in Responses, NEW f \in Finishes
  PROVE  /\ [r EXCEPT !.finish = f] \in Responses
         /\ [r EXCEPT !.finish = f].text = r.text /\ [r EXCEPT !.finish = f].usage = r.usage
         /\ [r EXCEPT !.finish = f].finish = f /\ [r EXCEPT !.finish = f].err = r.err
  BY DEF Responses

\* A step of another client, or of the request, or the end of the context before
\* the call is over.
LEMMA CodexStays ==
  ASSUME CodexInv, UNCHANGED <<client, codexVars>>,
         ctx' = ctx \/ (ctx = "nil" /\ ctx' # "nil" /\ cpc # "returned")
  PROVE  CodexInv'
  <1> USE DEF codexVars
  <1>1. CodexTyped'
    BY DEF CodexInv, CodexTyped, CodexTypeOK
  <1>2. PlaceInv'
    BY DEF CodexInv, PlaceInv
  <1>3. SaidInv'
    BY SaidStays DEF CodexInv, SaidInv, FinishOf
  <1>4. BatchInv' /\ OutInv'
    BY SaidStays DEF CodexInv, BatchInv, OutInv, SentIsSaid, ScanOver
  <1>5. WholeInv'
    BY SaidStays DEF CodexInv, WholeInv, SentKind, ScanOver
  <1>6. RespInv'
    BY SaidStays DEF CodexInv, RespInv, GotKind
  <1> QED BY <1>1, <1>2, <1>3, <1>4, <1>5, <1>6 DEF CodexInv

LEMMA EmptyIsEmpty == Len(<<>>) = 0 /\ DOMAIN <<>> = {}
  OBVIOUS

\* Before the stream is opened nothing has happened, but for a request that failed.
LEMMA NothingYet ==
  ASSUME CodexInv, client = "codex", client' = client, ctx' = ctx, ppc = "none", cpc # "returned",
         UNCHANGED <<said, sawDelta, finish, batch, out, got>>,
         resp' \in Responses,
         resp'.text = resp.text, resp'.usage = resp.usage, resp'.finish = resp.finish,
         \/ cpc' = "opening" /\ ppc' = "none" /\ resp'.err = resp.err
         \/ cpc' = "draining" /\ ppc' = "scanning" /\ resp'.err = resp.err
         \/ cpc' = "returned" /\ ppc' = "none" /\ resp'.err # "none"
  PROVE  CodexInv'
  <1>1. /\ said' = <<>> /\ ~sawDelta' /\ finish' = "" /\ batch' = <<>> /\ out' = <<>>
        /\ resp'.text = <<>> /\ ~resp'.usage /\ resp'.finish = ""
        /\ cpc' # "returned" => resp'.err = "none"
    BY DEF CodexInv, PlaceInv
  <1>2. Len(out') = 0 /\ Len(said') = 0 /\ DOMAIN resp'.text = {}
    BY <1>1, EmptyIsEmpty
  <1>3. got' = 0
    <2>1. got' \in 0..Len(out')
      BY DEF CodexInv, CodexTyped
    <2> QED BY <1>2, <2>1
  <1>4. ~Told' /\ TextSaid' = {}
    <2>1. TextSaid' \subseteq 1..0
      BY <1>2, TextIsSaid
    <2>2. 1..0 = {}
      OBVIOUS
    <2>3. ~Told'
      BY <1>1 DEF Told
    <2> QED BY <2>1, <2>2, <2>3
  <1>5. PlaceInv'
    BY <1>1 DEF CodexInv, PlaceInv
  <1>6. CodexTyped'
    BY <1>1, <1>2, <1>3 DEF CodexInv, CodexTyped, CodexTypeOK, Responses
  <1>7. SaidInv'
    <2>1. 1..Len(said') = {}
      BY <1>2
    <2> QED BY <1>1, <1>4, <2>1 DEF SaidInv
  <1>8. 1..Len(out') = {} /\ 1..got' = {} /\ ppc' \in {"none", "scanning"}
    BY <1>2, <1>3
  <1>9. BatchInv' /\ OutInv'
    BY <1>1, <1>8 DEF BatchInv, OutInv
  <1>10. WholeInv'
    BY <1>4, <1>8 DEF WholeInv, ScanOver
  <1>11. RespInv'
    BY <1>1, <1>2, <1>8 DEF RespInv, GotKind
  <1> QED BY <1>5, <1>6, <1>7, <1>9, <1>10, <1>11 DEF CodexInv

LEMMA OneIsOne ==
  ASSUME NEW S, NEW x \in S
  PROVE  <<x>> # <<>> /\ Len(<<x>>) = 1 /\ <<x>>[1] = x /\ <<x>> \in Seq(S)
  OBVIOUS

\* One event is to be emitted, and which.
Batched(b, knd, n, w) ==
  /\ b \in Seq([kind : {"text", "usage", "error"}, n : Nat, why : Errors \cup {""}])
  /\ b # <<>> /\ Len(b) = 1 /\ b[1] \in Events
  /\ b[1].kind = knd /\ b[1].n = n /\ b[1].why = w

LEMMA BatchOf ==
  ASSUME NEW knd \in {"text", "usage", "error"}, NEW n \in Nat, NEW w \in Errors \cup {""}
  PROVE  Batched(<<Ev(knd, n, w)>>, knd, n, w)
  <1> DEFINE b == <<Ev(knd, n, w)>>
  <1>1. /\ Ev(knd, n, w) \in [kind : {"text", "usage", "error"}, n : Nat, why : Errors \cup {""}]
        /\ Ev(knd, n, w) \in Events
        /\ Ev(knd, n, w).kind = knd /\ Ev(knd, n, w).n = n /\ Ev(knd, n, w).why = w
    BY DEF Ev, Events, Errors, Finishes
  <1>2. /\ b[1] = Ev(knd, n, w) /\ Len(b) = 1 /\ b # <<>>
        /\ b \in Seq([kind : {"text", "usage", "error"}, n : Nat, why : Errors \cup {""}])
    BY <1>1, OneIsOne, Zenon
  <1> QED BY <1>1, <1>2, Zenon DEF Batched

LEMMA BatchesOf ==
  /\ \A n \in Nat : Batched(<<Ev("text", n, "")>>, "text", n, "")
  /\ Batched(<<Ev("usage", 0, "")>>, "usage", 0, "")
  /\ Batched(<<Ev("error", 0, "server")>>, "error", 0, "server")
  /\ Batched(<<Ev("error", 0, "filtered")>>, "error", 0, "filtered")
  /\ \A b, knd, n, w : Batched(b, knd, n, w) => b # <<>>
  <1>1. {"server", "filtered", ""} \subseteq Errors \cup {""} /\ 0 \in Nat
    BY DEF Errors
  <1>2. \A b, knd, n, w : Batched(b, knd, n, w) => b # <<>>
    BY DEF Batched
  <1> QED BY <1>1, <1>2, BatchOf

\* What is read is emitted next, unless it says nothing.
LEMMA ScanKeeps ==
  ASSUME CodexInv, client = "codex", client' = client, CodexScan
  PROVE  CodexInv'
  <1>1. /\ ppc = "scanning" /\ UNCHANGED <<ctx, cpc, out, got, resp>> /\ batch = <<>> /\ ~Told
        /\ cpc = "draining"
    BY DEF CodexScan, callVars, CodexInv, PlaceInv, BatchInv, SaidInv, CodexTyped, CodexTypeOK
  <1>2. PICK k \in SaidKinds :
          /\ said' = Append(said, k)
          /\ batch' = EventsOf(k, Len(said'))
          /\ sawDelta' = (sawDelta \/ k = "delta")
          /\ finish' = FinishOf(k)
          /\ ppc' = IF batch' # <<>> THEN "emitting" ELSE IF Settles(k) THEN "ending" ELSE "scanning"
    BY DEF CodexScan
  <1> DEFINE n == Len(said) + 1
             isText == k = "delta" \/ (k = "done" /\ ~sawDelta)
  <1>3. /\ said \in Seq(SaidKinds) /\ Len(said) \in Nat /\ n \in Nat /\ n # 0
        /\ sawDelta \in BOOLEAN /\ finish \in Finishes
    <2>1. said \in Seq(SaidKinds) /\ sawDelta \in BOOLEAN /\ finish \in Finishes
      BY DEF CodexInv, CodexTyped, CodexTypeOK
    <2> QED BY <2>1
  <1>4. /\ said' \in Seq(SaidKinds) /\ Len(said') = n /\ said'[n] = k
        /\ \A i \in 1..Len(said) : said'[i] = said[i]
    BY <1>2, <1>3, AppendProperties
  <1>5. TextSaid' = IF isText THEN TextSaid \cup {n} ELSE TextSaid
    BY <1>2, <1>3, TextSaidGrows DEF CodexInv
  <1>6. Last' = k /\ (Told' <=> Settles(k)) /\ said' # <<>>
    <2>1. said' # <<>>
      BY <1>3, <1>4, EmptyIsEmpty
    <2> QED BY <1>4, <2>1 DEF Last, Told
  <1>7. batch' = EventsOf(k, n)
    BY <1>2, <1>4
  <1>8. /\ isText => batch' = <<Ev("text", n, "")>>
        /\ k \in Priced => batch' = <<Ev("usage", 0, "")>>
        /\ k = "failed" => batch' = <<Ev("error", 0, "server")>>
        /\ k = "unsafe" => batch' = <<Ev("error", 0, "filtered")>>
        /\ ~isText /\ k \notin Priced \cup {"failed", "unsafe"} => batch' = <<>>
    BY <1>7 DEF EventsOf, Priced
  <1>9. /\ isText => ~Settles(k)
        /\ k \in Priced \cup {"failed", "unsafe"} => Settles(k) /\ ~isText
        /\ finish' \in Finishes
        /\ Blame' = CASE k = "unsafe" -> "filtered"
                      [] k = "failed" \/ ~Settles(k) -> "server"
                      [] OTHER -> "none"
    BY <1>2, <1>3, <1>6 DEF Settles, Priced, FinishOf, Finishes, Blame
  <1>10. \/ isText /\ Batched(batch', "text", n, "") /\ ppc' = "emitting"
         \/ k \in Priced /\ Batched(batch', "usage", 0, "") /\ ppc' = "emitting"
         \/ k = "failed" /\ Batched(batch', "error", 0, "server") /\ ppc' = "emitting"
         \/ k = "unsafe" /\ Batched(batch', "error", 0, "filtered") /\ ppc' = "emitting"
         \/ /\ ~isText /\ k \notin Priced \cup {"failed", "unsafe"} /\ batch' = <<>>
            /\ ppc' = IF Settles(k) THEN "ending" ELSE "scanning"
    <2> HIDE DEF n, isText
    <2>1. CASE isText
      <3>1. Batched(batch', "text", n, "")
        BY <1>3, <1>8, <2>1, BatchesOf
      <3> QED BY <1>2, <2>1, <3>1, BatchesOf
    <2>2. CASE k \in Priced
      <3>1. Batched(batch', "usage", 0, "")
        BY <1>8, <2>2, BatchesOf
      <3> QED BY <1>2, <2>2, <3>1, BatchesOf
    <2>3. CASE k = "failed"
      <3>1. Batched(batch', "error", 0, "server")
        BY <1>8, <2>3, BatchesOf
      <3> QED BY <1>2, <2>3, <3>1, BatchesOf
    <2>4. CASE k = "unsafe"
      <3>1. Batched(batch', "error", 0, "filtered")
        BY <1>8, <2>4, BatchesOf
      <3> QED BY <1>2, <2>4, <3>1, BatchesOf
    <2>5. CASE ~isText /\ k \notin Priced \cup {"failed", "unsafe"}
      BY <1>2, <1>8, <2>5
    <2> QED BY <2>1, <2>2, <2>3, <2>4, <2>5
  <1>11. CodexTyped'
    <2>1. out \in Seq(Events) /\ got \in 0..Len(out) /\ Len(out) - got \in 0..OutCap
      BY DEF CodexInv, CodexTyped, CodexTypeOK
    <2>2. resp \in Responses
      BY DEF CodexInv, CodexTyped, CodexTypeOK, Responses
    <2>3. batch' \in Seq([kind : {"text", "usage", "error"}, n : Nat, why : Errors \cup {""}])
      BY <1>10, EmptySeq DEF Batched
    <2>4. ppc' \in {"scanning", "emitting", "ending"} /\ sawDelta' \in BOOLEAN
      BY <1>2, <1>10
    <2> QED BY <1>1, <1>4, <1>9, <2>1, <2>2, <2>3, <2>4 DEF CodexTyped, CodexTypeOK, Responses
  <1>12. PlaceInv'
    BY <1>1, <1>10 DEF PlaceInv
  <1>13. SaidInv'
    <2>1. sawDelta' <=> \E i \in 1..Len(said') : said'[i] = "delta"
      <3>1. sawDelta <=> \E i \in 1..Len(said) : said[i] = "delta"
        BY DEF SaidInv, CodexInv
      <3>2. \A i \in 1..n : i \in 1..Len(said) \/ i = n
        BY <1>3
      <3>3. n \in 1..n /\ 1..Len(said) \subseteq 1..n
        BY <1>3
      <3>4. sawDelta' <=> (sawDelta \/ k = "delta")
        BY <1>2
      <3> HIDE DEF n
      <3> QED BY <1>4, <3>1, <3>2, <3>3, <3>4
    <2>2. Told' => finish' = FinishOf(Last)'
      BY <1>2, <1>6 DEF Settles, FinishOf, SaidKinds, Priced, Incomplete
    <2>3. ppc' \in {"none", "scanning"} => ~Told'
      BY <1>6, <1>10
    <2> QED BY <2>1, <2>2, <2>3 DEF SaidInv
  <1>14. \A i \in 1..Len(out) : out[i].kind \notin {"usage", "error", "end"} /\ (out[i].kind = "text" => out[i].n \in TextSaid)
    BY <1>1 DEF CodexInv, OutInv, SentIsSaid, ScanOver
  <1>15. BatchInv'
    <2>1. CASE isText /\ Batched(batch', "text", n, "") /\ ppc' = "emitting"
      <3>1. n \in TextSaid' /\ ~Told' /\ Len(said') = n
        BY <1>4, <1>5, <1>6, <1>9, <2>1
      <3>2. \A i \in 1..Len(out) : out[i].kind = "text" => out[i].n < n
        BY <1>3, <1>14, TextIsSaid
      <3> QED BY <1>1, <2>1, <3>1, <3>2 DEF BatchInv, Batched
    <2>2. CASE ppc' = "emitting" /\ Batched(batch', "usage", 0, "") /\ k \in Priced
      BY <1>6, <1>9, <2>2 DEF BatchInv, Batched
    <2>3. CASE ppc' = "emitting" /\ k = "failed" /\ Batched(batch', "error", 0, "server")
      BY <1>6, <1>9, <2>3 DEF BatchInv, Batched
    <2>4. CASE ppc' = "emitting" /\ k = "unsafe" /\ Batched(batch', "error", 0, "filtered")
      BY <1>6, <1>9, <2>4 DEF BatchInv, Batched
    <2>5. CASE batch' = <<>> /\ ppc' # "emitting"
      BY <2>5 DEF BatchInv
    <2> QED BY <1>10, <2>1, <2>2, <2>3, <2>4, <2>5
  <1>16. OutInv'
    <2>1. \A i \in 1..Len(out) : SentIsSaid(i)'
      BY <1>1, <1>5, <1>14 DEF SentIsSaid
    <2> QED BY <1>1, <2>1 DEF CodexInv, OutInv
  <1>17. WholeInv'
    <2> SUFFICES ASSUME ctx' = "nil" PROVE WholeInv'
      BY DEF WholeInv
    <2>1. \A m \in TextSaid : \E i \in 1..Len(out) : out[i].kind = "text" /\ out[i].n = m
      BY <1>1 DEF CodexInv, WholeInv
    <2>2. ASSUME NEW m \in TextSaid'
          PROVE  \/ \E i \in 1..Len(out') : out'[i].kind = "text" /\ out'[i].n = m
                 \/ ppc' = "emitting" /\ batch'[1].kind = "text" /\ batch'[1].n = m
      <3>1. CASE m \in TextSaid
        BY <1>1, <2>1, <3>1
      <3>2. CASE m = n /\ isText
        BY <1>9, <1>10, <3>2 DEF Batched
      <3> QED BY <1>5, <2>2, <3>1, <3>2
    <2>3. ppc' \notin {"closing", "closed"}
      BY <1>10
    <2>4. ScanOver' => Settles(k) /\ k \notin Priced \cup {"failed", "unsafe"}
      BY <1>10 DEF ScanOver
    <2>5. ScanOver' => ~(Told' /\ Last' \in Priced) /\ Blame' = "none"
      BY <1>6, <1>9, <2>4
    <2> QED BY <2>2, <2>3, <2>5 DEF WholeInv
  <1>18. RespInv'
    <2>1. ~GotKind("error") /\ ~GotKind("end") /\ ~GotKind("error")' /\ ~GotKind("end")'
      <3>1. 1..got \subseteq 1..Len(out)
        BY DEF CodexInv, CodexTyped
      <3> QED BY <1>1, <1>14, <3>1 DEF GotKind
    <2>2. GotKind("usage")' = GotKind("usage")
      BY <1>1 DEF GotKind
    <2> QED BY <1>1, <1>10, <2>1, <2>2 DEF CodexInv, RespInv
  <1> QED BY <1>11, <1>12, <1>13, <1>15, <1>16, <1>17, <1>18 DEF CodexInv

\* The response stays when nothing is received and what was sent stays sent.
LEMMA RespStays ==
  ASSUME CodexInv, UNCHANGED <<got, resp, cpc, said>>, cpc = "draining", ppc' # "none",
         finish' = finish \/ ~GotKind("end"),
         \A i \in 1..got : out'[i] = out[i]
  PROVE  RespInv'
  <1>1. Blame' = Blame /\ ppc # "none"
    BY SaidStays DEF CodexInv, PlaceInv
  <1>2. \A knd : GotKind(knd)' <=> GotKind(knd)
    BY DEF GotKind
  <1>3. RespInv
    BY DEF CodexInv
  <1>4. /\ \A i \in DOMAIN resp.text : \E j \in 1..got : out'[j].kind = "text" /\ out'[j].n = resp.text[i]
        /\ \A j \in 1..got : out'[j].kind = "text" => \E i \in DOMAIN resp.text : resp.text[i] = out'[j].n
        /\ \A i, j \in DOMAIN resp.text : i < j => resp.text[i] < resp.text[j]
    BY <1>3 DEF RespInv
  <1> QED BY <1>1, <1>2, <1>3, <1>4 DEF RespInv

\* Its type stays, too, when only the two sides of the stream move.
LEMMA CodexTypeStays ==
  ASSUME CodexInv, UNCHANGED <<cpc, said, sawDelta, got, resp>>,
         finish' \in Finishes, ppc' \in {"scanning", "emitting", "ending", "closing", "closed"},
         batch' = <<>> \/ \E knd, n, w : Batched(batch', knd, n, w),
         out' \in Seq(Events), Len(out') - got \in 0..OutCap
  PROVE  CodexTyped'
  <1>1. batch' \in Seq([kind : {"text", "usage", "error"}, n : Nat, why : Errors \cup {""}])
    BY EmptySeq DEF Batched
  <1>2. Len(out') \in Nat /\ Len(out) \in Nat
    BY DEF CodexInv, CodexTyped
  <1>3. got \in Nat
    BY <1>2 DEF CodexInv, CodexTyped
  <1>4. got \in 0..Len(out')
    BY <1>2, <1>3, CodexAssumption
  <1>5. resp \in Responses /\ said \in Seq(SaidKinds) /\ sawDelta \in BOOLEAN /\ cpc \in {"idle", "opening", "draining", "returned"}
    BY DEF CodexInv, CodexTyped, CodexTypeOK, Responses
  <1> QED BY <1>1, <1>4, <1>5 DEF CodexTyped, CodexTypeOK, Responses

\* The body ends before the answer does.
LEMMA CutKeeps ==
  ASSUME CodexInv, client = "codex", client' = client, CodexCut
  PROVE  CodexInv'
  <1>1. /\ ppc = "scanning" /\ UNCHANGED <<ctx, cpc, said, sawDelta, out, got, resp>>
        /\ batch = <<>> /\ ~Told /\ cpc = "draining"
    BY DEF CodexCut, callVars, CodexInv, PlaceInv, BatchInv, SaidInv, CodexTyped, CodexTypeOK
  <1>2. \/ ctx = "nil" /\ ppc' = "emitting" /\ finish' = "error" /\ batch' = <<Ev("error", 0, "server")>>
        \/ ctx # "nil" /\ ppc' = "ending" /\ batch' = batch /\ finish' = finish
    BY DEF CodexCut
  <1>3. \/ ctx = "nil" /\ ppc' = "emitting" /\ finish' = "error" /\ Batched(batch', "error", 0, "server")
        \/ ctx # "nil" /\ ppc' = "ending" /\ batch' = <<>> /\ finish' = finish
    BY <1>1, <1>2, BatchesOf
  <1>4. TextSaid' = TextSaid /\ ~Told' /\ Last' = Last /\ Blame' = Blame /\ Blame = "server"
    BY <1>1, SaidStays DEF Blame
  <1>5. \A i \in 1..Len(out) : out[i].kind \notin {"usage", "error", "end"} /\ (out[i].kind = "text" => out[i].n \in TextSaid)
    BY <1>1 DEF CodexInv, OutInv, SentIsSaid, ScanOver
  <1>6. CodexTyped'
    <2>1. finish' \in Finishes
      BY <1>2 DEF CodexInv, CodexTyped, CodexTypeOK, Finishes
    <2>2. out \in Seq(Events) /\ Len(out) - got \in 0..OutCap
      BY DEF CodexInv, CodexTyped, CodexTypeOK
    <2> QED BY <1>1, <1>3, <2>1, <2>2, CodexTypeStays
  <1>7. PlaceInv'
    BY <1>1, <1>2 DEF PlaceInv
  <1>8. SaidInv'
    BY <1>1, <1>2, <1>4 DEF CodexInv, SaidInv
  <1>9. BatchInv'
    BY <1>1, <1>3, <1>4 DEF BatchInv, Batched
  <1>10. OutInv'
    <2>1. \A i \in 1..Len(out) : SentIsSaid(i)'
      BY <1>1, <1>4, <1>5 DEF SentIsSaid
    <2> QED BY <1>1, <2>1 DEF CodexInv, OutInv
  <1>11. WholeInv'
    <2> SUFFICES ASSUME ctx' = "nil" PROVE WholeInv'
      BY DEF WholeInv
    <2>1. ppc' = "emitting"
      BY <1>1, <1>2
    <2>2. \A m \in TextSaid : \E i \in 1..Len(out) : out[i].kind = "text" /\ out[i].n = m
      BY <1>1 DEF CodexInv, WholeInv
    <2> QED BY <1>1, <1>4, <2>1, <2>2 DEF WholeInv, ScanOver
  <1>12. RespInv'
    <2>1. ~GotKind("end")
      <3>1. 1..got \subseteq 1..Len(out)
        BY DEF CodexInv, CodexTyped
      <3> QED BY <1>5, <3>1 DEF GotKind
    <2>2. ppc' # "none" /\ \A i \in 1..got : out'[i] = out[i]
      BY <1>1, <1>2
    <2> QED BY <1>1, <2>1, <2>2, RespStays
  <1> QED BY <1>6, <1>7, <1>8, <1>9, <1>10, <1>11, <1>12 DEF CodexInv

LEMMA OutGrows ==
  ASSUME CodexInv, NEW e \in Events, Deliver(e)
  PROVE  /\ out' \in Seq(Events) /\ Len(out) \in Nat /\ Len(out') = Len(out) + 1
         /\ out'[Len(out) + 1] = e /\ \A i \in 1..Len(out) : out'[i] = out[i]
         /\ got \in 0..Len(out) /\ Len(out') - got \in 0..OutCap
  <1>1. out \in Seq(Events) /\ out' = Append(out, e)
    BY DEF CodexInv, CodexTyped, Deliver
  <1>2. got \in 0..Len(out) /\ Len(out) - got < OutCap /\ Len(out) \in Nat
    BY <1>1 DEF CodexInv, CodexTyped, Deliver
  <1>3. /\ out' \in Seq(Events) /\ Len(out') = Len(out) + 1
        /\ out'[Len(out) + 1] = e /\ \A i \in 1..Len(out) : out'[i] = out[i]
    BY <1>1, AppendProperties
  <1>4. Len(out') - got \in 0..OutCap
    BY <1>2, <1>3, CodexAssumption
  <1> QED BY <1>2, <1>3, <1>4

LEMMA BatchIsEvents ==
  ASSUME CodexInv, ppc = "emitting"
  PROVE  batch[1] \in Events
  <1> DEFINE e == batch[1]
  <1>1. Len(batch) = 1
    BY DEF CodexInv, BatchInv
  <1>2. batch \in Seq([kind : {"text", "usage", "error"}, n : Nat, why : Errors \cup {""}])
    BY DEF CodexInv, CodexTyped, CodexTypeOK
  <1>3. 1 \in 1..Len(batch)
    BY <1>1
  <1>4. e \in [kind : {"text", "usage", "error"}, n : Nat, why : Errors \cup {""}]
    BY <1>2, <1>3, ElementOfSeq, Zenon
  <1>5. e \in Events
    <2> HIDE DEF e
    <2> QED BY <1>4 DEF Events, Finishes
  <1> QED BY <1>5

\* A text that is sent is behind the others, a report is the last thing sent.
LEMMA EmitKeeps ==
  ASSUME CodexInv, client = "codex", client' = client, CodexEmit
  PROVE  CodexInv'
  <1> SUFFICES ASSUME NEW n, n = Len(out) + 1 PROVE CodexInv'
    OBVIOUS
  <1> DEFINE e == batch[1]
  <1>1. /\ ppc = "emitting" /\ UNCHANGED <<ctx, cpc, said, sawDelta, finish, got, resp>>
        /\ batch' = <<>> /\ cpc = "draining"
    BY DEF CodexEmit, callVars, CodexInv, PlaceInv, CodexTyped, CodexTypeOK
  <1>2. \/ Deliver(e) /\ ppc' = IF e.kind = "text" THEN "scanning" ELSE "ending"
        \/ /\ ctx # "nil" /\ out' = out /\ ppc' \in {"scanning", "ending"}
           /\ ppc' = "scanning" => e.kind = "text"
    BY DEF CodexEmit, Drop
  <1>3. TextSaid' = TextSaid /\ Told' = Told /\ Last' = Last /\ Blame' = Blame
    BY <1>1, SaidStays
  <1>4. \/ /\ e.kind = "text" /\ ~Told /\ e.n = Len(said) /\ Len(said) \in TextSaid
           /\ \A i \in 1..Len(out) : out[i].kind = "text" => out[i].n < Len(said)
        \/ e.kind = "usage" /\ Told /\ Last \in Priced
        \/ e.kind = "error" /\ Blame # "none" /\ e.why = Blame
    BY <1>1 DEF CodexInv, BatchInv
  <1>5. e \in Events
    BY <1>1, BatchIsEvents
  <1>6. \A i \in 1..Len(out) : out[i].kind \notin {"usage", "error", "end"} /\ (out[i].kind = "text" => out[i].n \in TextSaid)
    BY <1>1 DEF CodexInv, OutInv, SentIsSaid, ScanOver
  <1>7. /\ out \in Seq(Events) /\ got \in 0..Len(out) /\ Len(out) - got \in 0..OutCap /\ Len(out) \in Nat
        /\ finish \in Finishes
    <2>1. out \in Seq(Events) /\ got \in 0..Len(out) /\ Len(out) - got \in 0..OutCap /\ finish \in Finishes
      BY DEF CodexInv, CodexTyped, CodexTypeOK
    <2> QED BY <2>1
  <1>8. \/ /\ out' \in Seq(Events) /\ Len(out') = n /\ out'[n] = e
           /\ \A i \in 1..Len(out) : out'[i] = out[i]
           /\ Len(out') - got \in 0..OutCap
           /\ ppc' = IF e.kind = "text" THEN "scanning" ELSE "ending"
        \/ /\ ctx # "nil" /\ out' = out /\ ppc' \in {"scanning", "ending"}
           /\ ppc' = "scanning" => e.kind = "text"
    BY <1>2, <1>5, OutGrows
  <1>9. n \in Nat /\ n \notin 1..Len(out) /\ \A i \in 1..n : i \in 1..Len(out) \/ i = n
    BY <1>7
  <1> HIDE DEF e
  <1>10. CodexTyped'
    <2>1. out' \in Seq(Events) /\ Len(out') - got \in 0..OutCap /\ ppc' \in {"scanning", "ending"}
      BY <1>7, <1>8
    <2> QED BY <1>1, <1>7, <2>1, CodexTypeStays
  <1>11. PlaceInv'
    BY <1>1, <1>8 DEF PlaceInv
  <1>12. SaidInv'
    <2>1. ppc' = "scanning" => ~Told
      BY <1>4, <1>8
    <2>2. ppc' # "none"
      BY <1>8
    <2> QED BY <1>1, <1>3, <2>1, <2>2 DEF CodexInv, SaidInv, FinishOf
  <1>13. BatchInv'
    BY <1>1, <1>8 DEF BatchInv
  <1>14. OutInv'
    <2>1. CASE ctx # "nil" /\ out' = out
      <3>1. \A i \in 1..Len(out) : SentIsSaid(i)'
        BY <1>3, <1>6, <2>1 DEF SentIsSaid
      <3> QED BY <2>1, <3>1 DEF CodexInv, OutInv
    <2>2. CASE /\ Len(out') = n /\ out'[n] = e /\ \A i \in 1..Len(out) : out'[i] = out[i]
               /\ ppc' = IF e.kind = "text" THEN "scanning" ELSE "ending"
      <3>1. \A i \in 1..Len(out) : SentIsSaid(i)'
        BY <1>3, <1>6, <2>2 DEF SentIsSaid
      <3>2. SentIsSaid(n)'
        BY <1>3, <1>4, <2>2 DEF SentIsSaid, ScanOver
      <3>3. ASSUME NEW i \in 1..n, NEW j \in 1..n, i < j, out'[i].kind = "text", out'[j].kind = "text"
            PROVE  out'[i].n < out'[j].n
        <4>1. i \in 1..Len(out)
          BY <1>7, <3>3
        <4>2. CASE j \in 1..Len(out)
          BY <2>2, <3>3, <4>1, <4>2 DEF CodexInv, OutInv
        <4>3. CASE j = n
          BY <1>4, <2>2, <3>3, <4>1, <4>3
        <4> QED BY <1>9, <4>2, <4>3
      <3> QED BY <1>9, <2>2, <3>1, <3>2, <3>3 DEF OutInv
    <2> QED BY <1>8, <2>1, <2>2
  <1>15. WholeInv'
    <2> SUFFICES ASSUME ctx' = "nil" PROVE WholeInv'
      BY DEF WholeInv
    <2>1. /\ Len(out') = n /\ out'[n] = e /\ \A i \in 1..Len(out) : out'[i] = out[i]
          /\ ppc' = IF e.kind = "text" THEN "scanning" ELSE "ending"
      BY <1>1, <1>8
    <2>2. n \in 1..n /\ 1..Len(out) \subseteq 1..n
      BY <1>7
    <2>3. \A m \in TextSaid : \/ \E i \in 1..Len(out) : out[i].kind = "text" /\ out[i].n = m
                              \/ e.kind = "text" /\ e.n = m
      BY <1>1 DEF CodexInv, WholeInv, e
    <2>4. \A m \in TextSaid' : \E i \in 1..Len(out') : out'[i].kind = "text" /\ out'[i].n = m
      BY <1>3, <2>1, <2>2, <2>3
    <2>5. \A knd : e.kind = knd => SentKind(knd)'
      BY <2>1, <2>2 DEF SentKind
    <2>6. ScanOver' => e.kind # "text" /\ ppc' \notin {"closing", "closed"}
      BY <2>1 DEF ScanOver
    <2>7. e.kind = "usage" => Blame = "none"
      BY <1>4 DEF Blame, Priced
    <2>8. e.kind = "error" => ~(Told /\ Last \in Priced)
      <3>1. Blame # "none" => ~(Told /\ Last \in Priced)
        BY DEF Blame, Priced
      <3> QED BY <1>4, <3>1
    <2>9. ppc' \notin {"closing", "closed"}
      BY <2>1
    <2>10. ScanOver' => /\ (Told' /\ Last' \in Priced => SentKind("usage")')
                        /\ (Blame' # "none" => SentKind("error")')
      BY <1>3, <1>4, <2>5, <2>6, <2>7, <2>8
    <2> QED BY <2>4, <2>9, <2>10 DEF WholeInv
  <1>16. RespInv'
    <2>1. ppc' # "none" /\ \A i \in 1..got : out'[i] = out[i]
      BY <1>7, <1>8
    <2> QED BY <1>1, <2>1, RespStays
  <1> QED BY <1>10, <1>11, <1>12, <1>13, <1>14, <1>15, <1>16 DEF CodexInv

\* The end is sent last, and with the reason that was told.
LEMMA EndKeeps ==
  ASSUME CodexInv, client = "codex", client' = client, CodexEnd
  PROVE  CodexInv'
  <1> SUFFICES ASSUME NEW n, n = Len(out) + 1 PROVE CodexInv'
    OBVIOUS
  <1> DEFINE e == Ev("end", 0, finish)
  <1>1. /\ ppc = "ending" /\ ppc' = "closing" /\ cpc = "draining" /\ batch = <<>>
        /\ UNCHANGED <<ctx, cpc, said, sawDelta, finish, batch, got, resp>>
    BY DEF CodexEnd, callVars, CodexInv, PlaceInv, BatchInv, CodexTyped, CodexTypeOK
  <1>2. Deliver(e) \/ (ctx # "nil" /\ out' = out)
    BY DEF CodexEnd, Drop
  <1>3. TextSaid' = TextSaid /\ Told' = Told /\ Last' = Last /\ Blame' = Blame
    BY <1>1, SaidStays
  <1>4. /\ out \in Seq(Events) /\ got \in 0..Len(out) /\ Len(out) - got \in 0..OutCap /\ Len(out) \in Nat
        /\ finish \in Finishes
    <2>1. out \in Seq(Events) /\ got \in 0..Len(out) /\ Len(out) - got \in 0..OutCap /\ finish \in Finishes
      BY DEF CodexInv, CodexTyped, CodexTypeOK
    <2> QED BY <2>1
  <1>5. e \in Events /\ e.kind = "end" /\ e.why = finish
    BY <1>4 DEF Ev, Events
  <1>6. \/ /\ out' \in Seq(Events) /\ Len(out') = n /\ out'[n] = e
           /\ \A i \in 1..Len(out) : out'[i] = out[i]
           /\ Len(out') - got \in 0..OutCap
        \/ ctx # "nil" /\ out' = out
    BY <1>2, <1>5, OutGrows
  <1>7. n \in Nat /\ n \notin 1..Len(out) /\ \A i \in 1..n : i \in 1..Len(out) \/ i = n
    BY <1>4
  <1>8. \A i \in 1..Len(out) : SentIsSaid(i) /\ out[i].kind # "end"
    BY <1>1 DEF CodexInv, OutInv, SentIsSaid
  <1> HIDE DEF e
  <1>10. CodexTyped'
    <2>1. out' \in Seq(Events) /\ Len(out') - got \in 0..OutCap
      BY <1>4, <1>6
    <2> QED BY <1>1, <1>4, <2>1, CodexTypeStays
  <1>11. PlaceInv'
    BY <1>1 DEF PlaceInv
  <1>12. SaidInv'
    BY <1>1, <1>3 DEF CodexInv, SaidInv, FinishOf
  <1>13. BatchInv'
    BY <1>1 DEF BatchInv
  <1>14. OutInv'
    <2>1. ASSUME NEW i \in 1..Len(out), out'[i] = out[i]
          PROVE  SentIsSaid(i)'
      BY <1>1, <1>3, <1>8, <2>1 DEF SentIsSaid, ScanOver
    <2>2. CASE out' = out
      BY <2>1, <2>2 DEF CodexInv, OutInv
    <2>3. CASE Len(out') = n /\ out'[n] = e /\ \A i \in 1..Len(out) : out'[i] = out[i]
      <3>1. SentIsSaid(n)'
        BY <1>1, <1>5, <2>3 DEF SentIsSaid
      <3>2. \A i, j \in 1..n : i < j /\ out'[i].kind = "text" /\ out'[j].kind = "text" => out'[i].n < out'[j].n
        BY <1>5, <1>7, <2>3 DEF CodexInv, OutInv
      <3> QED BY <1>7, <2>1, <2>3, <3>1, <3>2 DEF OutInv
    <2> QED BY <1>6, <2>2, <2>3
  <1>15. WholeInv'
    <2> SUFFICES ASSUME ctx' = "nil" PROVE WholeInv'
      BY DEF WholeInv
    <2>1. /\ Len(out') = n /\ out'[n] = e /\ \A i \in 1..Len(out) : out'[i] = out[i]
          /\ n \in 1..n /\ 1..Len(out) \subseteq 1..n
      BY <1>1, <1>4, <1>6
    <2>2. \A m \in TextSaid : \E i \in 1..Len(out) : out[i].kind = "text" /\ out[i].n = m
      BY <1>1 DEF CodexInv, WholeInv
    <2>3. \A m \in TextSaid' : \E i \in 1..Len(out') : out'[i].kind = "text" /\ out'[i].n = m
      BY <1>3, <2>1, <2>2
    <2>4. \A knd : SentKind(knd) \/ e.kind = knd => SentKind(knd)'
      BY <2>1 DEF SentKind
    <2>5. (Told /\ Last \in Priced => SentKind("usage")) /\ (Blame # "none" => SentKind("error"))
      BY <1>1 DEF CodexInv, WholeInv, ScanOver
    <2>6. (Told' /\ Last' \in Priced => SentKind("usage")') /\ (Blame' # "none" => SentKind("error")') /\ SentKind("end")'
      BY <1>3, <1>5, <2>4, <2>5
    <2> QED BY <2>3, <2>6 DEF WholeInv
  <1>16. RespInv'
    <2>1. ppc' # "none" /\ \A i \in 1..got : out'[i] = out[i]
      BY <1>1, <1>4, <1>6
    <2> QED BY <1>1, <2>1, RespStays
  <1> QED BY <1>10, <1>11, <1>12, <1>13, <1>14, <1>15, <1>16 DEF CodexInv

LEMMA CloseKeeps ==
  ASSUME CodexInv, client = "codex", client' = client, CodexClose
  PROVE  CodexInv'
  <1>1. /\ ppc = "closing" /\ ppc' = "closed" /\ cpc = "draining" /\ batch = <<>>
        /\ UNCHANGED <<ctx, cpc, said, sawDelta, finish, batch, out, got, resp>>
    BY DEF CodexClose, callVars, CodexInv, PlaceInv, BatchInv, CodexTyped, CodexTypeOK
  <1>2. TextSaid' = TextSaid /\ Told' = Told /\ Last' = Last /\ Blame' = Blame
    BY <1>1, SaidStays
  <1>3. out \in Seq(Events) /\ Len(out) - got \in 0..OutCap /\ finish \in Finishes
    BY DEF CodexInv, CodexTyped, CodexTypeOK
  <1>4. CodexTyped'
    BY <1>1, <1>3, CodexTypeStays
  <1>5. PlaceInv' /\ BatchInv'
    BY <1>1 DEF PlaceInv, BatchInv
  <1>6. SaidInv'
    BY <1>1, <1>2 DEF CodexInv, SaidInv, FinishOf
  <1>7. OutInv'
    BY <1>1, <1>2 DEF CodexInv, OutInv, SentIsSaid, ScanOver
  <1>8. WholeInv'
    BY <1>1, <1>2 DEF CodexInv, WholeInv, SentKind, ScanOver
  <1>9. RespInv'
    BY <1>1, RespStays
  <1> QED BY <1>4, <1>5, <1>6, <1>7, <1>8, <1>9 DEF CodexInv

\* What is received is the next event that was sent.
LEMMA ReceiveKeeps ==
  ASSUME CodexInv, client = "codex", client' = client, CodexReceive
  PROVE  CodexInv'
  <1> SUFFICES ASSUME NEW n, n = got + 1, NEW e, e = out[n] PROVE CodexInv'
    OBVIOUS
  <1>1. /\ cpc = "draining" /\ ppc # "none" /\ got < Len(out) /\ got' = n
        /\ UNCHANGED <<ctx, cpc, ppc, said, sawDelta, finish, batch, out>>
    BY DEF CodexReceive, callVars, CodexInv, PlaceInv
  <1>2. resp' = CASE e.kind = "text"  -> [resp EXCEPT !.text = Append(@, e.n)]
                  [] e.kind = "usage" -> [resp EXCEPT !.usage = TRUE]
                  [] e.kind = "error" -> [resp EXCEPT !.err = e.why]
                  [] e.kind = "end"   -> [resp EXCEPT !.finish = e.why]
    BY <1>1 DEF CodexReceive
  <1>3. /\ out \in Seq(Events) /\ got \in 0..Len(out) /\ Len(out) - got \in 0..OutCap /\ Len(out) \in Nat
    <2>1. out \in Seq(Events) /\ got \in 0..Len(out) /\ Len(out) - got \in 0..OutCap
      BY DEF CodexInv, CodexTyped, CodexTypeOK
    <2> QED BY <2>1
  <1>4. /\ n \in 1..Len(out) /\ n \in Nat /\ n \notin 1..got /\ 1..got \subseteq 1..n
        /\ \A i \in 1..n : i \in 1..got \/ i = n
        /\ \A i \in 1..got : i < n /\ i \in 1..Len(out)
        /\ Len(out) - n \in 0..OutCap
    BY <1>1, <1>3, CodexAssumption
  <1>5. e \in Events
    BY <1>3, <1>4, ElementOfSeq, Zenon
  <1>6. TextSaid' = TextSaid /\ Told' = Told /\ Last' = Last /\ Blame' = Blame
    BY <1>1, SaidStays
  <1>7. SentIsSaid(n) /\ resp \in Responses
    BY <1>4 DEF CodexInv, OutInv, CodexTyped, CodexTypeOK, Responses
  <1>8. resp.text \in Seq(Nat) /\ e.n \in Nat
    BY <1>5, <1>7 DEF Responses, Events
  <1>9. ASSUME resp' \in Responses, RespInv'
        PROVE  CodexInv'
    <2>1. CodexTyped'
      <3>1. batch \in Seq([kind : {"text", "usage", "error"}, n : Nat, why : Errors \cup {""}])
        BY DEF CodexInv, CodexTyped, CodexTypeOK
      <3>2. cpc \in {"idle", "opening", "draining", "returned"} /\ said \in Seq(SaidKinds)
            /\ ppc \in {"none", "scanning", "emitting", "ending", "closing", "closed"}
            /\ sawDelta \in BOOLEAN /\ finish \in Finishes
        BY DEF CodexInv, CodexTyped, CodexTypeOK
      <3>3. n \in 0..Len(out)
        BY <1>3, <1>4
      <3> QED BY <1>1, <1>3, <1>4, <1>9, <3>1, <3>2, <3>3 DEF CodexTyped, CodexTypeOK, Responses
    <2>2. PlaceInv' /\ BatchInv'
      BY <1>1, <1>6 DEF CodexInv, PlaceInv, BatchInv
    <2>3. SaidInv'
      BY <1>1, <1>6 DEF CodexInv, SaidInv, FinishOf
    <2>4. OutInv' /\ WholeInv'
      BY <1>1, <1>6 DEF CodexInv, OutInv, SentIsSaid, ScanOver, WholeInv, SentKind
    <2> QED BY <1>9, <2>1, <2>2, <2>3, <2>4 DEF CodexInv
  <1>10. \A knd : GotKind(knd)' <=> GotKind(knd) \/ e.kind = knd
    BY <1>1, <1>4 DEF GotKind
  <1>11. RespInv
    BY DEF CodexInv
  <1>12. ASSUME resp'.text = resp.text, e.kind # "text"
         PROVE  /\ \A i \in DOMAIN resp'.text : \E j \in 1..got' : out'[j].kind = "text" /\ out'[j].n = resp'.text[i]
                /\ \A j \in 1..got' : out'[j].kind = "text" => \E i \in DOMAIN resp'.text : resp'.text[i] = out'[j].n
                /\ \A i, j \in DOMAIN resp'.text : i < j => resp'.text[i] < resp'.text[j]
    BY <1>1, <1>4, <1>11, <1>12 DEF RespInv
  <1>13. CASE e.kind = "text"
    <2>1. resp' = [resp EXCEPT !.text = Append(resp.text, e.n)]
      BY <1>2, <1>13
    <2>2. /\ resp' \in Responses
          /\ resp'.text = Append(resp.text, e.n)
          /\ resp'.usage = resp.usage /\ resp'.finish = resp.finish /\ resp'.err = resp.err
      BY <1>7, <1>8, <2>1, WithText, AppendProperties
    <2>3. PICK m \in Nat : m = Len(resp.text) + 1
      BY <1>8
    <2>4. /\ DOMAIN resp.text = 1..Len(resp.text) /\ DOMAIN resp'.text = 1..m
          /\ resp'.text[m] = e.n /\ \A i \in 1..Len(resp.text) : resp'.text[i] = resp.text[i]
      BY <1>8, <2>2, <2>3, AppendProperties
    <2>5. /\ m \in 1..m /\ 1..Len(resp.text) \subseteq 1..m
          /\ \A i \in 1..m : i \in 1..Len(resp.text) \/ i = m
          /\ \A i, j \in 1..m : i < j => i \in 1..Len(resp.text)
      BY <1>8, <2>3
    <2>6. \A i \in 1..Len(resp.text) : \E j \in 1..got : out[j].kind = "text" /\ out[j].n = resp.text[i]
      BY <1>11, <2>4 DEF RespInv
    <2>7. \A i \in 1..Len(resp.text) : resp.text[i] < e.n
      <3>1. \A j \in 1..got : out[j].kind = "text" => out[j].n < e.n
        BY <1>4, <1>13 DEF CodexInv, OutInv
      <3> QED BY <2>6, <3>1
    <2>8. \A i \in DOMAIN resp'.text : \E j \in 1..got' : out'[j].kind = "text" /\ out'[j].n = resp'.text[i]
      BY <1>1, <1>4, <1>13, <2>4, <2>5, <2>6
    <2>9. \A j \in 1..got' : out'[j].kind = "text" => \E i \in DOMAIN resp'.text : resp'.text[i] = out'[j].n
      <3>1. ASSUME NEW j \in 1..got, out[j].kind = "text"
            PROVE  \E i \in 1..m : resp'.text[i] = out[j].n
        BY <1>11, <2>4, <2>5, <3>1 DEF RespInv
      <3>2. \E i \in 1..m : resp'.text[i] = out[n].n
        BY <2>4, <2>5
      <3>3. \A j \in 1..n : out[j].kind = "text" => \E i \in 1..m : resp'.text[i] = out[j].n
        BY <1>4, <3>1, <3>2
      <3> QED BY <1>1, <2>4, <3>3
    <2>10. \A i, j \in DOMAIN resp'.text : i < j => resp'.text[i] < resp'.text[j]
      BY <1>11, <2>4, <2>5, <2>7 DEF RespInv
    <2>11. RespInv'
      BY <1>1, <1>6, <1>10, <1>11, <1>13, <2>2, <2>8, <2>9, <2>10 DEF RespInv
    <2> QED BY <1>9, <2>2, <2>11
  <1>14. CASE e.kind = "usage"
    <2>1. resp' = [resp EXCEPT !.usage = TRUE]
      BY <1>2, <1>14
    <2>2. /\ resp' \in Responses /\ resp'.usage
          /\ resp'.text = resp.text /\ resp'.finish = resp.finish /\ resp'.err = resp.err
      BY <1>7, <2>1, WithUsage
    <2>3. RespInv'
      BY <1>1, <1>6, <1>10, <1>11, <1>12, <1>14, <2>2 DEF RespInv
    <2> QED BY <1>9, <2>2, <2>3
  <1>15. CASE e.kind = "error"
    <2>1. resp' = [resp EXCEPT !.err = e.why] /\ e.why = Blame /\ Blame # "none"
      BY <1>2, <1>7, <1>15 DEF SentIsSaid
    <2>2. Blame \in Errors \cup {"none", "ctx"}
      BY DEF Blame, Errors
    <2>3. /\ resp' \in Responses /\ resp'.err = Blame
          /\ resp'.text = resp.text /\ resp'.finish = resp.finish /\ resp'.usage = resp.usage
      BY <1>7, <2>1, <2>2, WithErr
    <2>4. RespInv'
      BY <1>1, <1>6, <1>10, <1>11, <1>12, <1>15, <2>3 DEF RespInv
    <2> QED BY <1>9, <2>3, <2>4
  <1>16. CASE e.kind = "end"
    <2>1. resp' = [resp EXCEPT !.finish = e.why] /\ e.why = finish /\ finish \in Finishes
      BY <1>2, <1>7, <1>16 DEF SentIsSaid, CodexInv, CodexTyped, CodexTypeOK
    <2>2. /\ resp' \in Responses /\ resp'.finish = finish
          /\ resp'.text = resp.text /\ resp'.err = resp.err /\ resp'.usage = resp.usage
      BY <1>7, <2>1, WithFinish
    <2>3. RespInv'
      BY <1>1, <1>6, <1>10, <1>11, <1>12, <1>16, <2>2 DEF RespInv
    <2> QED BY <1>9, <2>2, <2>3
  <1> QED BY <1>5, <1>13, <1>14, <1>15, <1>16 DEF Events

\* Complete returns what it has received, and looks at the context.
LEMMA ReturnKeeps ==
  ASSUME CodexInv, client = "codex", client' = client, CodexReturn
  PROVE  CodexInv'
  <1>1. /\ cpc = "draining" /\ ppc = "closed" /\ got = Len(out) /\ cpc' = "returned"
        /\ UNCHANGED <<ctx, ppc, said, sawDelta, finish, batch, out, got>>
    BY DEF CodexReturn, callVars
  <1>2. resp' = IF resp.err = "none" /\ ctx # "nil" THEN [resp EXCEPT !.err = "ctx"] ELSE resp
    BY DEF CodexReturn
  <1>3. resp \in Responses
    BY DEF CodexInv, CodexTyped, CodexTypeOK, Responses
  <1>4. /\ resp' \in Responses
        /\ resp'.text = resp.text /\ resp'.usage = resp.usage /\ resp'.finish = resp.finish
        /\ resp'.err = IF resp.err = "none" /\ ctx # "nil" THEN "ctx" ELSE resp.err
    BY <1>2, <1>3, WithErr
  <1>5. TextSaid' = TextSaid /\ Told' = Told /\ Last' = Last /\ Blame' = Blame
    BY <1>1, SaidStays
  <1>6. CodexTyped'
    <2>1. /\ out \in Seq(Events) /\ got \in 0..Len(out) /\ Len(out) - got \in 0..OutCap
          /\ said \in Seq(SaidKinds) /\ sawDelta \in BOOLEAN /\ finish \in Finishes
      BY DEF CodexInv, CodexTyped, CodexTypeOK
    <2>2. batch \in Seq([kind : {"text", "usage", "error"}, n : Nat, why : Errors \cup {""}])
      BY DEF CodexInv, CodexTyped, CodexTypeOK
    <2> QED BY <1>1, <1>4, <2>1, <2>2 DEF CodexTyped, CodexTypeOK, Responses
  <1>7. PlaceInv' /\ BatchInv'
    BY <1>1, <1>5 DEF CodexInv, PlaceInv, BatchInv
  <1>8. SaidInv'
    BY <1>1, <1>5 DEF CodexInv, SaidInv, FinishOf
  <1>9. OutInv' /\ WholeInv'
    BY <1>1, <1>5 DEF CodexInv, OutInv, SentIsSaid, ScanOver, WholeInv, SentKind
  <1>10. RespInv'
    <2>1. \A knd : GotKind(knd)' <=> GotKind(knd)
      BY <1>1 DEF GotKind
    <2>2. resp.err = IF GotKind("error") THEN Blame ELSE "none"
      BY <1>1 DEF CodexInv, RespInv
    <2>3. GotKind("error") => Blame # "none"
      <3>1. 1..got \subseteq 1..Len(out)
        BY <1>1
      <3> QED BY <3>1 DEF CodexInv, OutInv, SentIsSaid, GotKind
    <2>4. resp'.err = IF GotKind("error") THEN Blame ELSE IF ctx # "nil" THEN "ctx" ELSE "none"
      BY <1>4, <2>2, <2>3
    <2> QED BY <1>1, <1>4, <1>5, <2>1, <2>4 DEF CodexInv, RespInv
  <1> QED BY <1>6, <1>7, <1>8, <1>9, <1>10 DEF CodexInv

LEMMA CodexStep ==
  ASSUME HttpInv, CodexInv, Codex
  PROVE  CodexInv'
  <1>1. client = "codex" /\ client' = client
    BY DEF Codex, OnlyCodex
  <1>2. resp \in Responses
    BY DEF CodexInv, CodexTyped, CodexTypeOK, Responses
  <1>3. CASE CodexAsk
    <2>1. cpc = "idle" /\ UNCHANGED <<ppc, said, sawDelta, finish, batch, out, got>> /\ ctx' = ctx
      BY <1>3 DEF CodexAsk, callVars
    <2>2. ppc = "none"
      BY <2>1 DEF CodexInv, PlaceInv
    <2>3. CASE cpc' = "returned" /\ resp' = [resp EXCEPT !.err = "invalid"]
      <3>1. "invalid" \in Errors \cup {"none", "ctx"} /\ "invalid" # "none"
        BY DEF Errors
      <3>2. /\ resp' \in Responses /\ resp'.err # "none"
            /\ resp'.text = resp.text /\ resp'.usage = resp.usage /\ resp'.finish = resp.finish
        BY <1>2, <2>3, <3>1, WithErr
      <3> QED BY <1>1, <2>1, <2>2, <2>3, <3>2, NothingYet
    <2>4. CASE cpc' = "opening" /\ resp' = resp
      BY <1>1, <1>2, <2>1, <2>2, <2>4, NothingYet
    <2> QED BY <1>3, <2>3, <2>4 DEF CodexAsk
  <1>4. CASE CodexOpening
    <2>1. cpc = "opening"
      BY <1>4 DEF CodexOpening, CodexRequestFails, CodexTrying, CodexOpens, CodexAskFails
    <2>2. ppc = "none"
      BY <2>1 DEF CodexInv, PlaceInv
    <2>3. CASE CodexRequestFails \/ CodexTrying
      <3>1. UNCHANGED codexVars /\ ctx' = ctx
        BY <2>3 DEF CodexRequestFails, CodexTrying, Attempting, Refused
      <3> QED BY <1>1, <3>1, CodexStays
    <2>4. CASE CodexOpens
      BY <1>1, <1>2, <2>1, <2>2, <2>4, NothingYet DEF CodexOpens
    <2>5. CASE CodexAskFails
      <3>1. hRes \in Errors \cup {"none", "ctx"} /\ hRes # "none"
        BY <2>5 DEF CodexAskFails, GaveUp, HttpInv, CallTypeOK, Http!RetryTypeOK
      <3>2. resp' = [resp EXCEPT !.err = hRes]
        BY <2>5 DEF CodexAskFails
      <3>3. /\ resp' \in Responses /\ resp'.err # "none"
            /\ resp'.text = resp.text /\ resp'.usage = resp.usage /\ resp'.finish = resp.finish
        BY <1>2, <3>1, <3>2, WithErr
      <3>4. cpc' = "returned" /\ UNCHANGED <<ctx, ppc, said, sawDelta, finish, batch, out, got>>
        BY <2>5 DEF CodexAskFails, callVars
      <3> QED BY <1>1, <2>1, <2>2, <3>3, <3>4, NothingYet
    <2> QED BY <1>4, <2>3, <2>4, <2>5 DEF CodexOpening
  <1>5. CASE CodexReading
    BY <1>1, <1>5, ScanKeeps, CutKeeps DEF CodexReading
  <1>6. CASE CodexSending
    BY <1>1, <1>6, EmitKeeps, EndKeeps, CloseKeeps DEF CodexSending
  <1>7. CASE CodexDraining
    BY <1>1, <1>7, ReceiveKeeps, ReturnKeeps DEF CodexDraining
  <1> QED BY <1>3, <1>4, <1>5, <1>6, <1>7 DEF Codex, CodexNext

LEMMA CodexHolds == CallsSpec => []CodexInv
  <1>1. CallsInit => CodexInv
    <2> SUFFICES ASSUME CodexInit PROVE CodexInv
      BY DEF CallsInit
    <2>1. /\ cpc = "idle" /\ ppc = "none" /\ said = <<>> /\ ~sawDelta /\ sawDelta \in BOOLEAN /\ finish = ""
          /\ batch = <<>> /\ out = <<>> /\ got = 0
      BY DEF CodexInit
    <2>2. /\ resp \in Responses /\ resp.text = <<>> /\ ~resp.usage /\ resp.finish = "" /\ resp.err = "none"
      <3>1. <<>> \in Seq(Nat)
        BY EmptySeq
      <3>2. resp = [text |-> <<>>, usage |-> FALSE, finish |-> "", err |-> "none"]
        BY DEF CodexInit, NoResponse
      <3> HIDE DEF CodexInit
      <3> QED BY <3>1, <3>2 DEF Responses, Finishes
    <2>3. Len(out) = 0 /\ Len(said) = 0 /\ DOMAIN resp.text = {}
      BY <2>1, <2>2, EmptyIsEmpty
    <2>4. 1..Len(out) = {} /\ 1..Len(said) = {} /\ 1..got = {} /\ TextSaid = {}
      <3>1. 1..0 = {}
        OBVIOUS
      <3> QED BY <2>1, <2>3, <3>1, TextIsSaid
    <2>t. ~Told
      BY <2>1 DEF Told
    <2>y. CodexTyped
      <3>1. /\ out \in Seq(Events) /\ said \in Seq(SaidKinds)
            /\ batch \in Seq([kind : {"text", "usage", "error"}, n : Nat, why : Errors \cup {""}])
        BY <2>1, EmptySeq
      <3>2. got \in 0..Len(out) /\ Len(out) - got \in 0..OutCap
        <4>1. got = 0 /\ Len(out) = 0 /\ OutCap \in Nat
          BY <2>1, <2>3, CodexAssumption
        <4> HIDE DEF CodexInit
        <4> QED BY <4>1
      <3>3. finish \in Finishes
        BY <2>1 DEF Finishes
      <3> QED BY <2>1, <2>2, <3>1, <3>2, <3>3 DEF CodexTyped, CodexTypeOK, Responses
    <2>5. PlaceInv
      BY <2>1, <2>2 DEF PlaceInv
    <2>6. SaidInv /\ BatchInv /\ OutInv
      BY <2>1, <2>4, <2>t DEF SaidInv, BatchInv, OutInv
    <2>7. WholeInv
      BY <2>1, <2>4 DEF WholeInv, ScanOver
    <2>8. RespInv
      BY <2>1, <2>2, <2>3, <2>4 DEF RespInv, GotKind
    <2> QED BY <2>y, <2>5, <2>6, <2>7, <2>8 DEF CodexInv
  <1>2. HttpInv /\ CodexInv /\ [CallsNext]_callsVars => CodexInv'
    <2> SUFFICES ASSUME HttpInv, CodexInv, CallsNext \/ UNCHANGED callsVars PROVE CodexInv'
      OBVIOUS
    <2>1. CASE UNCHANGED callsVars
      BY <2>1, CodexStays DEF callsVars, callVars
    <2>2. CASE ContextEnds
      <3>1. ctx = "nil" /\ ctx' # "nil"
        BY <2>2, CallAssumption DEF ContextEnds, CtxOver
      <3>2. cpc # "returned"
        BY <2>2 DEF ContextEnds, Over, CodexInv, PlaceInv
      <3>3. UNCHANGED <<client, codexVars>>
        BY <2>2 DEF ContextEnds
      <3> QED BY <3>1, <3>2, <3>3, CodexStays
    <2>3. CASE Login \/ Video \/ Image \/ Shot \/ Stub
      <3>1. UNCHANGED <<client, codexVars>> /\ client # "codex"
        BY <2>3 DEF Login, Video, Image, Shot, Stub, OnlyLogin, OnlyVideo, OnlyImage, OnlyShot, OnlyStub
      <3>2. HttpStep
        BY <2>3, CallsAreHttpSteps DEF CallsNext
      <3>3. cpc # "returned"
        BY <3>1 DEF CodexInv, PlaceInv
      <3>4. ctx' = ctx \/ (ctx = "nil" /\ ctx' # "nil")
        BY <3>2, CallAssumption DEF HttpStep, callVars, CtxOver
      <3> QED BY <3>1, <3>3, <3>4, CodexStays
    <2> QED BY <2>1, <2>2, <2>3, CodexStep DEF CallsNext
  <1> QED BY <1>1, <1>2, HttpHolds, PTL DEF CallsSpec

LEMMA LastIsSaid == \A S : \A s \in Seq(S) : s = <<>> \/ s[Len(s)] \in S
  <1> SUFFICES ASSUME NEW S, NEW s \in Seq(S), s # <<>> PROVE s[Len(s)] \in S
    OBVIOUS
  <1>1. Len(s) \in Nat \ {0}
    BY EmptySeq
  <1> QED BY <1>1, ElementOfSeq

\* Without an error Complete returns the whole answer of the backend, its price and
\* why it stopped, and a failure comes back as what it is (client.go:110-137,
\* 329-331).
THEOREM RepliesAreWhole == CallsSpec => []CompleteIsWhole
  <1>1. CodexInv => CompleteIsWhole
    <2> SUFFICES ASSUME CodexInv, cpc = "returned" PROVE CompleteIsWhole
      BY DEF CompleteIsWhole
    <2>1. CASE ppc = "none"
      BY <2>1 DEF CodexInv, PlaceInv, CompleteIsWhole
    <2>2. CASE ppc = "closed" /\ got = Len(out)
      <3>1. \A knd : GotKind(knd) <=> SentKind(knd)
        BY <2>2 DEF GotKind, SentKind
      <3>2. SentKind("usage") => Told /\ Last \in Priced
        BY DEF CodexInv, OutInv, SentIsSaid, SentKind
      <3>3. SentKind("error") => Blame # "none"
        BY DEF CodexInv, OutInv, SentIsSaid, SentKind
      <3>4. resp.err = IF SentKind("error") THEN Blame ELSE IF ctx # "nil" THEN "ctx" ELSE "none"
        BY <2>2, <3>1 DEF CodexInv, RespInv
      <3>5. ctx = "nil" => /\ Told /\ Last \in Priced => SentKind("usage")
                           /\ Blame # "none" => SentKind("error")
                           /\ SentKind("end")
        BY <2>2 DEF CodexInv, WholeInv, ScanOver
      <3>6. Last \in SaidKinds \/ said = <<>>
        <4>1. said \in Seq(SaidKinds)
          BY DEF CodexInv, CodexTyped, CodexTypeOK
        <4> QED BY <4>1, LastIsSaid DEF Last
      <3>7. ASSUME resp.err = "none"
            PROVE  /\ said # <<>> /\ Settles(Last)
                   /\ IsTextSaid(resp.text)
                   /\ resp.usage = (Last \in Priced)
                   /\ resp.finish = IF Last \in Incomplete THEN "reason" ELSE "stop"
        <4>1. ctx = "nil" /\ Blame = "none"
          BY <3>3, <3>4, <3>5, <3>7
        <4>2. Told /\ Last \notin {"unsafe", "failed"} /\ said # <<>> /\ Settles(Last)
          BY <4>1 DEF Blame, Told
        <4>3. resp.usage = (Last \in Priced)
          <5>1. resp.usage <=> GotKind("usage")
            BY DEF CodexInv, RespInv
          <5>2. resp.usage \in BOOLEAN
            BY DEF CodexInv, CodexTyped, CodexTypeOK
          <5>3. resp.usage <=> Last \in Priced
            BY <3>1, <3>2, <3>5, <4>1, <4>2, <5>1
          <5> QED BY <5>2, <5>3
        <4>4. resp.finish = FinishOf(Last)
          BY <3>1, <3>5, <4>1, <4>2 DEF CodexInv, RespInv, SaidInv
        <4>5. resp.finish = IF Last \in Incomplete THEN "reason" ELSE "stop"
          BY <3>6, <4>2, <4>4 DEF FinishOf, SaidKinds, Incomplete, Priced, Settles
        <4>6. IsTextSaid(resp.text)
          <5>1. \A n \in TextSaid : \E j \in 1..got : out[j].kind = "text" /\ out[j].n = n
            BY <2>2, <4>1 DEF CodexInv, WholeInv
          <5>2. \A n \in TextSaid : \E i \in DOMAIN resp.text : resp.text[i] = n
            BY <5>1 DEF CodexInv, RespInv
          <5>3. \A i \in DOMAIN resp.text : resp.text[i] \in TextSaid
            BY <2>2 DEF CodexInv, RespInv, OutInv, SentIsSaid
          <5>4. \A i, j \in DOMAIN resp.text : i < j => resp.text[i] < resp.text[j]
            BY DEF CodexInv, RespInv
          <5> QED BY <5>2, <5>3, <5>4 DEF IsTextSaid
        <4> QED BY <4>2, <4>3, <4>5, <4>6
      <3>8. ctx = "nil" => resp.err = Blame
        BY <3>3, <3>4, <3>5
      <3>9. Blame = IF said = <<>> \/ ~Settles(Last) \/ Last = "failed"
                      THEN "server" ELSE IF Last = "unsafe" THEN "filtered" ELSE "none"
        <4>1. CASE said = <<>>
          BY <4>1 DEF Blame, Told
        <4>2. CASE said # <<>> /\ Settles(Last)
          BY <4>2 DEF Blame, Told
        <4>3. CASE said # <<>> /\ ~Settles(Last)
          BY <4>3 DEF Blame, Told, Settles
        <4> QED BY <4>1, <4>2, <4>3
      <3> QED BY <3>7, <3>8, <3>9 DEF CompleteIsWhole, Last
    <2> QED BY <2>1, <2>2 DEF CodexInv, PlaceInv
  <1> QED BY <1>1, CodexHolds, PTL

\* Whatever the client, what its caller takes for success is all that was asked for,
\* paid for and answered, by the script meant for it where a test scripts the answers
\* (image.go:188-207, speech.go:44-54, decision.go:70-74, stub_client.go:87-99).
THEOREM SuccessIsComplete == CallsSpec => []AnswersAreComplete
  <1>1. /\ HttpInv /\ CodexInv /\ LoginInv /\ VideoInv /\ ImageInv /\ ShotInv /\ StubInv
        => AnswersAreComplete
    <2> SUFFICES ASSUME HttpInv, CodexInv, LoginInv, VideoInv, ImageInv, ShotInv, StubInv
                 PROVE  AnswersAreComplete
      OBVIOUS
    <2>1. CallTypeOK /\ CodexTypeOK /\ DeviceTypeOK /\ VideoTypeOK
      BY DEF HttpInv, CodexInv, CodexTyped, LoginInv, VideoInv
    <2>2. ImageTypeOK /\ OneShotTypeOK /\ StubTypeOK
      BY DEF ImageInv, ShotInv, StubInv
    <2>3. FlagsAreServed /\ AnswerIsComplete /\ ScriptsPlayInOrder
      BY DEF ImageInv, ShotInv, StubInv
    <2> QED BY <2>1, <2>2, <2>3 DEF AnswersAreComplete, CallsTypeOK
  <1> QED BY <1>1, HttpHolds, CodexHolds, LoginHolds, VideoHolds, ImageHolds, ShotHolds, StubHolds, PTL

\* A frame in pixels is within the limits of the endpoint and has the ratio and the
\* tier asked for, whatever they are, and a ratio is never sent as such to an
\* endpoint that rejects it (image.go:40-50, 141-160, 243-289).
THEOREM FramesAreTaken == CallsSpec => []FrameFits
  BY ImageHolds, FramesAreChosen, PTL

-----------------------------------------------------------------------------
(* Codex's stream is what llm.Client promises. *)

KindsOf(q) == [i \in DOMAIN q |-> q[i].kind]

LEMMA KindsOfAppend ==
  ASSUME NEW q \in Seq(Events), NEW e \in Events
  PROVE  KindsOf(Append(q, e)) = Append(KindsOf(q), e.kind)
  <1>1. /\ Len(Append(q, e)) = Len(q) + 1 /\ Append(q, e)[Len(q) + 1] = e
        /\ \A i \in 1..Len(q) : Append(q, e)[i] = q[i]
        /\ DOMAIN Append(q, e) = 1..(Len(q) + 1) /\ DOMAIN q = 1..Len(q) /\ Len(q) \in Nat
    BY AppendProperties
  <1>2. KindsOf(q) \in Seq({e1.kind : e1 \in Events}) /\ Len(KindsOf(q)) = Len(q)
    BY <1>1 DEF KindsOf
  <1> QED BY <1>1, <1>2 DEF KindsOf

\* What the channel says of itself.
Shown == <<KindsOf(out), ppc = "closed", ctx # "nil">>

LEMMA StreamStays ==
  ASSUME UNCHANGED <<out, ctx>>, (ppc' = "closed") <=> (ppc = "closed")
  PROVE  UNCHANGED Shown
  BY DEF Shown, KindsOf

\* What is sent is what may be sent next.
LEMMA SendingIsOfStream ==
  ASSUME CodexInv, NEW e \in Events, Deliver(e), ppc # "closed", ppc' # "closed", ctx' = ctx,
         \A i \in 1..Len(out) : out[i].kind # "end",
         \A i \in 1..Len(out) : out[i].kind = "error" => e.kind \in {"usage", "end"},
         \A i \in 1..Len(out) : ~(out[i].kind = "usage" /\ e.kind = "usage")
  PROVE  OfCodex!Send(e.kind) /\ e.kind \in {"text", "usage", "error", "end"}
  <1>1. out \in Seq(Events) /\ out' = Append(out, e)
    BY DEF Deliver, CodexInv, CodexTyped
  <1>2. DOMAIN KindsOf(out) = 1..Len(out) /\ \A i \in 1..Len(out) : KindsOf(out)[i] = out[i].kind
    BY <1>1 DEF KindsOf
  <1>3. KindsOf(out') = Append(KindsOf(out), e.kind)
    BY <1>1, KindsOfAppend
  <1>4. \A k : OfCodex!Sent(k) <=> \E i \in 1..Len(out) : out[i].kind = k
    BY <1>2 DEF OfCodex!Sent, KindsOf
  <1>5. /\ ~OfCodex!Sent("end")
        /\ OfCodex!Sent("error") => e.kind \in {"usage", "end"}
        /\ e.kind = "usage" => ~OfCodex!Sent("usage")
    BY <1>4
  <1>6. e.kind \in {"text", "usage", "error", "end"}
    BY DEF Events
  <1> QED BY <1>3, <1>5, <1>6 DEF OfCodex!Send, KindsOf

LEMMA CodexStepIsOfStream ==
  ASSUME HttpInv, CodexInv, CodexNext
  PROVE  OfCodex!StreamNext \/ UNCHANGED Shown
  <1>1. CASE CodexAsk \/ CodexOpening \/ CodexReading \/ CodexDraining
    <2>1. UNCHANGED <<out, ctx>> /\ ((ppc' = "closed") <=> (ppc = "closed"))
      BY <1>1 DEF CodexAsk, CodexOpening, CodexRequestFails, CodexTrying, CodexOpens, CodexAskFails, Attempting,
                  Refused, CodexReading, CodexScan, CodexCut, CodexDraining, CodexReceive, CodexReturn,
                  callVars, codexVars, CodexInv, PlaceInv
    <2> QED BY <2>1, StreamStays
  <1>2. CASE CodexEmit
    <2>1. ppc = "emitting" /\ ppc' # "closed" /\ ctx' = ctx
      BY <1>2 DEF CodexEmit, callVars
    <2>2. CASE out' = out
      BY <2>1, <2>2, StreamStays
    <2>3. CASE Deliver(batch[1])
      <3>1. \A i \in 1..Len(out) : out[i].kind \notin {"usage", "error", "end"}
        BY <2>1 DEF CodexInv, OutInv, SentIsSaid, ScanOver
      <3>2. batch[1] \in Events
        BY <2>1, BatchIsEvents
      <3> QED BY <2>1, <2>3, <3>1, <3>2, SendingIsOfStream DEF OfCodex!StreamNext
    <2> QED BY <1>2, <2>2, <2>3 DEF CodexEmit, Drop
  <1>3. CASE CodexEnd
    <2>1. ppc = "ending" /\ ppc' = "closing" /\ ctx' = ctx
      BY <1>3 DEF CodexEnd, callVars
    <2>2. CASE out' = out
      BY <2>1, <2>2, StreamStays
    <2>3. CASE Deliver(Ev("end", 0, finish))
      <3>1. \A i \in 1..Len(out) : out[i].kind # "end"
        BY <2>1 DEF CodexInv, OutInv, SentIsSaid
      <3>2. Ev("end", 0, finish) \in Events /\ Ev("end", 0, finish).kind = "end"
        <4>1. finish \in Finishes
          BY DEF CodexInv, CodexTyped, CodexTypeOK
        <4> QED BY <4>1 DEF Ev, Events
      <3> QED BY <2>1, <2>3, <3>1, <3>2, SendingIsOfStream DEF OfCodex!StreamNext
    <2> QED BY <1>3, <2>2, <2>3 DEF CodexEnd, Drop
  <1>4. CASE CodexClose
    <2>1. ppc = "closing" /\ ppc' = "closed" /\ UNCHANGED <<ctx, out>>
      BY <1>4 DEF CodexClose, callVars
    <2>2. ctx # "nil" \/ SentKind("end")
      BY <2>1 DEF CodexInv, WholeInv
    <2>3. SentKind("end") => OfCodex!Sent("end")
      <3>1. out \in Seq(Events)
        BY DEF CodexInv, CodexTyped
      <3>2. DOMAIN out = 1..Len(out)
        BY <3>1
      <3> QED BY <3>2 DEF SentKind, OfCodex!Sent
    <2> QED BY <2>1, <2>2, <2>3 DEF OfCodex!StreamNext, OfCodex!Close
  <1> QED BY <1>1, <1>2, <1>3, <1>4 DEF CodexNext, CodexSending

\* Every behaviour of the clients is, on Codex's channel, one of the stream that
\* llm.Client promises (codex/client.go:139-169, 329-344).
THEOREM CodexStreamsAsPromised == CallsSpec => OfCodex!StreamSpec
  <1>1. CallsInit => OfCodex!StreamInit
    <2> SUFFICES ASSUME CallInit, CodexInit PROVE OfCodex!StreamInit
      BY DEF CallsInit
    <2>1. out = <<>> /\ ppc = "none" /\ ctx = "nil"
      BY DEF CallInit, CodexInit
    <2>2. KindsOf(out) = <<>>
      BY <2>1 DEF KindsOf
    <2> QED BY <2>1, <2>2 DEF OfCodex!StreamInit, KindsOf
  <1>2. HttpInv /\ CodexInv /\ [CallsNext]_callsVars => [OfCodex!StreamNext]_Shown
    <2> SUFFICES ASSUME HttpInv, CodexInv, CallsNext \/ UNCHANGED callsVars
                 PROVE  OfCodex!StreamNext \/ UNCHANGED Shown
      OBVIOUS
    <2>1. CASE Codex
      BY <2>1, CodexStepIsOfStream DEF Codex
    <2>2. CASE CallsNext /\ ~Codex
      <3>1. UNCHANGED codexVars
        BY <2>2 DEF CallsNext, Login, Video, Image, Shot, Stub, OnlyLogin, OnlyVideo, OnlyImage, OnlyShot,
                    OnlyStub, ContextEnds
      <3>2. ctx' = ctx \/ (ctx = "nil" /\ ctx' # "nil")
        BY <2>2, CallsAreHttpSteps, CallAssumption DEF HttpStep, callVars, CtxOver
      <3>3. CASE ctx' = ctx
        BY <3>1, <3>3, StreamStays DEF codexVars
      <3>4. CASE ctx = "nil" /\ ctx' # "nil"
        BY <3>1, <3>4 DEF OfCodex!StreamNext, OfCodex!Cut, codexVars
      <3> QED BY <3>2, <3>3, <3>4
    <2>3. CASE UNCHANGED callsVars
      BY <2>3, StreamStays DEF callsVars, callVars, codexVars
    <2> QED BY <2>1, <2>2, <2>3
  <1>3. [][OfCodex!StreamNext]_Shown <=> [][OfCodex!StreamNext]_<<KindsOf(out), ppc = "closed", ctx # "nil">>
    BY DEF Shown
  <1> QED BY <1>1, <1>2, <1>3, HttpHolds, CodexHolds, PTL DEF CallsSpec, OfCodex!StreamSpec, KindsOf

-----------------------------------------------------------------------------
(* The stream of the test double is what llm.Client promises, if its scripts are. *)

\* What one step does to the call d.
Rests(d) == spc'[d] = spc[d] /\ mine'[d] = mine[d] /\ schan'[d] = schan[d]
Plays(d) ==
  /\ sctx' = sctx
  /\ \/ spc[d] = "idle" /\ spc'[d] \in {"streaming", "completing", "returned"} /\ schan'[d] = schan[d]
     \/ spc[d] = "streaming" /\ spc'[d] = "sending" /\ mine'[d] = mine[d] /\ schan'[d] = schan[d]
     \/ /\ spc[d] = "sending" /\ spc'[d] = "sending" /\ mine'[d] = mine[d]
        /\ Len(schan[d]) < Len(Turn(d).events)
        /\ schan'[d] = Append(schan[d], Turn(d).events[Len(schan[d]) + 1])
     \/ /\ spc[d] \in {"streaming", "sending"} /\ spc'[d] = "closed" /\ schan'[d] = schan[d]
        /\ sctx # "nil" \/ (spc[d] = "sending" /\ Len(schan[d]) = Len(Turn(d).events))
     \/ spc[d] = "completing" /\ spc'[d] = "returned" /\ schan'[d] = schan[d]

LEMMA CallsPlay ==
  ASSUME StubInv, StubNext, NEW d \in Callers
  PROVE  Rests(d) \/ Plays(d)
  <1>t. /\ spc \in [Callers -> {"idle", "streaming", "sending", "completing", "closed", "returned"}]
        /\ schan \in [Callers -> Seq({"text", "usage", "error", "end"})]
        /\ mine \in [Callers -> (Kinds \cup {"none"}) \X Nat]
    BY DEF StubInv, StubTypeOK
  <1>1. ASSUME NEW c \in Callers, StubStream(c) \/ StubComplete(c) \/ \E k \in Endpoints : StubCall(c, k)
        PROVE  Rests(d) \/ Plays(d)
    <2>1. /\ spc[c] = "idle" /\ sctx' = sctx /\ schan' = schan
          /\ \E p \in {"streaming", "completing", "returned"} : spc' = [spc EXCEPT ![c] = p]
          /\ \E m : mine' = [mine EXCEPT ![c] = m]
      BY <1>1 DEF StubStream, StubComplete, StubCall, Consume
    <2> QED BY <1>t, <2>1 DEF Rests, Plays
  <1>2. ASSUME NEW c \in Callers, NEW k \in Kinds, Exhausted(c, k)
        PROVE  Rests(d) \/ Plays(d)
    BY <1>t, <1>2 DEF Exhausted, Rests, Plays
  <1>3. ASSUME NEW c \in Callers, StubUnblocked(c)
        PROVE  Rests(d) \/ Plays(d)
    BY <1>t, <1>3 DEF StubUnblocked, Rests, Plays
  <1>4. ASSUME NEW c \in Callers, StubSend(c)
        PROVE  Rests(d) \/ Plays(d)
    <2>1. /\ spc[c] = "sending" /\ Len(schan[c]) < Len(Turn(c).events)
          /\ schan' = [schan EXCEPT ![c] = Append(schan[c], Turn(c).events[Len(schan[c]) + 1])]
          /\ spc' = spc /\ mine' = mine /\ sctx' = sctx
      BY <1>4 DEF StubSend
    <2>2. CASE d = c
      BY <1>t, <2>1, <2>2 DEF Plays
    <2>3. CASE d # c
      BY <1>t, <2>1, <2>3 DEF Rests
    <2> QED BY <2>2, <2>3
  <1>5. ASSUME NEW c \in Callers, StubClose(c)
        PROVE  Rests(d) \/ Plays(d)
    BY <1>t, <1>5 DEF StubClose, Rests, Plays
  <1>6. ASSUME NEW c \in Callers, StubFold(c)
        PROVE  Rests(d) \/ Plays(d)
    BY <1>t, <1>6 DEF StubFold, Rests, Plays
  <1>7. ASSUME (\E k \in Endpoints : AddScript(k)) \/ Release \/ StubCtxOver
        PROVE  Rests(d)
    BY <1>7 DEF AddScript, Release, StubCtxOver, Rests
  <1> QED BY <1>1, <1>2, <1>3, <1>4, <1>5, <1>6, <1>7 DEF StubNext, StubWork

\* What was sent is the beginning of the script.
Begun(c) ==
  /\ Len(schan[c]) <= Len(Turn(c).events)
  /\ \A i \in 1..Len(schan[c]) : schan[c][i] = Turn(c).events[i]
PlayedInv ==
  \A c \in Callers :
    /\ spc[c] \in {"idle", "streaming", "completing"} => schan[c] = <<>>
    /\ spc[c] = "sending" => Begun(c)

LEMMA PlayedStep ==
  ASSUME StubInv, PlayedInv, StubNext
  PROVE  PlayedInv'
  <1> SUFFICES ASSUME NEW d \in Callers
               PROVE  /\ spc'[d] \in {"idle", "streaming", "completing"} => schan'[d] = <<>>
                      /\ spc'[d] = "sending" => Begun(d)'
    BY DEF PlayedInv
  <1>1. CASE Rests(d)
    BY <1>1 DEF Rests, PlayedInv, Begun, Turn
  <1>2. CASE Plays(d)
    <2>1. CASE spc[d] = "sending" /\ spc'[d] = "sending"
      <3>1. /\ schan[d] \in Seq({"text", "usage", "error", "end"})
            /\ Turn(d).events \in Seq({"text", "usage", "error", "end"})
        BY <2>1, TurnIsTyped DEF StubInv, StubTypeOK
      <3> SUFFICES ASSUME NEW s, s = schan[d], NEW q, q = Turn(d).events, s \in Seq({"text", "usage", "error", "end"}),
                          q \in Seq({"text", "usage", "error", "end"}), NEW r, r = schan'[d]
                   PROVE  Begun(d)'
        BY <2>1, <3>1
      <3>2. /\ Len(s) < Len(q) /\ r = Append(s, q[Len(s) + 1]) /\ Turn(d)' = Turn(d)
            /\ \A i \in 1..Len(s) : s[i] = q[i]
        BY <1>2, <2>1 DEF Plays, PlayedInv, Begun, Turn
      <3>3. /\ Len(r) = Len(s) + 1 /\ r[Len(s) + 1] = q[Len(s) + 1] /\ Len(s) \in Nat /\ Len(q) \in Nat
            /\ \A i \in 1..Len(s) : r[i] = s[i]
        <4>1. q[Len(s) + 1] \in {"text", "usage", "error", "end"}
          BY <3>2, ElementOfSeq
        <4> QED BY <3>2, <4>1, AppendProperties
      <3>4. Len(r) <= Len(q) /\ \A i \in 1..Len(r) : r[i] = q[i]
        BY <3>2, <3>3
      <3> QED BY <3>2, <3>4 DEF Begun
    <2>2. CASE spc[d] = "streaming" /\ spc'[d] = "sending"
      <3>1. schan'[d] = <<>> /\ Len(schan'[d]) = 0
        BY <1>2, <2>2, EmptyIsEmpty DEF Plays, PlayedInv
      <3>2. Turn(d).events \in Seq({"text", "usage", "error", "end"}) /\ Turn(d)' = Turn(d)
        BY <1>2, <2>2, TurnIsTyped DEF Plays, Turn
      <3>3. Len(Turn(d).events) \in Nat
        BY <3>2
      <3>4. 1..Len(schan'[d]) = {}
        BY <3>1
      <3> QED BY <2>2, <3>1, <3>2, <3>3, <3>4 DEF Begun
    <2>3. CASE spc'[d] # "sending"
      BY <1>2, <2>3 DEF Plays, PlayedInv
    <2> QED BY <1>2, <2>1, <2>2, <2>3 DEF Plays
  <1> QED BY <1>1, <1>2, CallsPlay

LEMMA PlayedHolds == CallsSpec => []PlayedInv
  <1>1. CallsInit => PlayedInv
    BY DEF CallsInit, StubInit, PlayedInv
  <1>2. StubInv /\ PlayedInv /\ [CallsNext]_callsVars => PlayedInv'
    <2> SUFFICES ASSUME StubInv, PlayedInv, CallsNext \/ UNCHANGED callsVars PROVE PlayedInv'
      OBVIOUS
    <2>1. CASE UNCHANGED stubVars
      BY <2>1 DEF stubVars, PlayedInv, Begun, Turn
    <2> QED BY <2>1, PlayedStep DEF CallsNext, Codex, Login, Video, Image, Shot, Stub, OnlyCodex, OnlyLogin,
                                    OnlyVideo, OnlyImage, OnlyShot, ContextEnds, callsVars
  <1> QED BY <1>1, <1>2, StubHolds, PTL DEF CallsSpec

\* A script that is a whole stream: its end is last, nothing but its usage comes
\* between an error and the end, and one usage at most.
IsStream(q) ==
  /\ q # <<>> /\ q[Len(q)] = "end"
  /\ \A i, j \in 1..Len(q) : i < j => /\ q[i] # "end"
                                      /\ q[i] = "error" => q[j] \in {"usage", "end"}
                                      /\ ~(q[i] = "usage" /\ q[j] = "usage")

LEMMA NextMayBeSent ==
  ASSUME NEW d \in Callers, NEW q, q = Turn(d).events, spc[d] = "sending", spc'[d] = "sending", sctx' = sctx,
         q \in Seq({"text", "usage", "error", "end"}),
         schan[d] \in Seq({"text", "usage", "error", "end"}), IsStream(q), Len(schan[d]) < Len(q),
         \A i \in 1..Len(schan[d]) : schan[d][i] = q[i],
         schan'[d] = Append(schan[d], q[Len(schan[d]) + 1])
  PROVE  OfStub(d)!StreamNext
  <1>1. PICK k : k = q[Len(schan[d]) + 1]
    OBVIOUS
  <1>2. Len(schan[d]) \in Nat /\ Len(q) \in Nat /\ DOMAIN schan[d] = 1..Len(schan[d])
    OBVIOUS
  <1>3. Len(schan[d]) + 1 \in 1..Len(q) /\ \A i \in 1..Len(schan[d]) : i \in 1..Len(q) /\ i < Len(schan[d]) + 1
    BY <1>2
  <1>4. k \in {"text", "usage", "error", "end"}
    BY <1>1, <1>3, ElementOfSeq
  <1>5. \A i \in 1..Len(schan[d]) : /\ schan[d][i] # "end"
                                    /\ schan[d][i] = "error" => k \in {"usage", "end"}
                                    /\ ~(schan[d][i] = "usage" /\ k = "usage")
    BY <1>1, <1>3 DEF IsStream
  <1>6. /\ ~OfStub(d)!Sent("end")
        /\ OfStub(d)!Sent("error") => k \in {"usage", "end"}
        /\ k = "usage" => ~OfStub(d)!Sent("usage")
    <2>1. \A knd : OfStub(d)!Sent(knd) <=> \E i \in DOMAIN schan[d] : schan[d][i] = knd
      BY DEF OfStub!Sent
    <2> QED BY <1>2, <1>5, <2>1
  <1>7. OfStub(d)!Send(k)
    BY <1>1, <1>6 DEF OfStub!Send
  <1> QED BY <1>4, <1>7 DEF OfStub!StreamNext

LEMMA PlayIsOfStream ==
  ASSUME StubInv, PlayedInv, StubNext, NEW d \in Callers,
         \A n \in 1..Len(Scripts) : IsStream(Scripts[n].events)
  PROVE  [OfStub(d)!StreamNext]_<<schan[d], spc[d], sctx>>
  <1> SUFFICES ASSUME ~UNCHANGED <<schan[d], spc[d], sctx>> PROVE OfStub(d)!StreamNext
    OBVIOUS
  <1>1. CASE Rests(d)
    <2>1. sctx' = sctx \/ StubCtxOver
      BY DEF StubNext, StubStream, StubComplete, StubWork, StubUnblocked, StubSend, StubClose, StubFold,
             StubCall, Exhausted, AddScript, Release
    <2>2. OfStub(d)!Cut
      BY <1>1, <2>1 DEF Rests, StubCtxOver, OfStub!Cut
    <2> QED BY <2>2 DEF OfStub!StreamNext
  <1>2. CASE Plays(d)
    <2>1. CASE spc[d] \in {"idle", "streaming", "completing"}
      <3>1. schan'[d] = <<>> /\ schan[d] = <<>> /\ sctx' = sctx
        BY <1>2, <2>1 DEF Plays, PlayedInv
      <3>2. CASE spc'[d] = "closed"
        BY <1>2, <2>1, <3>1, <3>2 DEF Plays, OfStub!StreamNext, OfStub!Close
      <3>3. CASE spc'[d] # "closed"
        BY <3>1, <3>3 DEF OfStub!StreamNext, OfStub!Open
      <3> QED BY <3>2, <3>3
    <2>2. CASE spc[d] = "sending"
      <3>1. PICK m \in 1..Len(Scripts) : mine[d] = <<"turns", m>>
        BY <2>2 DEF StubInv
      <3>2. /\ schan[d] \in Seq({"text", "usage", "error", "end"})
            /\ Turn(d).events \in Seq({"text", "usage", "error", "end"})
            /\ IsStream(Turn(d).events) /\ Begun(d)
        BY <2>2, <3>1, TurnIsTyped DEF StubInv, StubTypeOK, Turn, PlayedInv
      <3>3. CASE /\ spc'[d] = "sending" /\ Len(schan[d]) < Len(Turn(d).events)
                 /\ schan'[d] = Append(schan[d], Turn(d).events[Len(schan[d]) + 1])
        BY <1>2, <2>2, <3>2, <3>3, NextMayBeSent DEF Plays, Begun
      <3>4. CASE spc'[d] = "closed" /\ schan'[d] = schan[d]
        <4>1. sctx # "nil" \/ Len(schan[d]) = Len(Turn(d).events)
          BY <1>2, <3>4 DEF Plays
        <4>2. Len(schan[d]) = Len(Turn(d).events) => OfStub(d)!Sent("end")
          <5> SUFFICES ASSUME NEW s, s = schan[d], NEW q, q = Turn(d).events, Len(s) = Len(q)
                       PROVE  \E i \in DOMAIN s : s[i] = "end"
            BY DEF OfStub!Sent
          <5>1. s \in Seq({"text", "usage", "error", "end"}) /\ q \in Seq({"text", "usage", "error", "end"})
            BY <3>2
          <5>2. q # <<>> /\ q[Len(q)] = "end" /\ \A i \in 1..Len(s) : s[i] = q[i]
            BY <3>2 DEF IsStream, Begun
          <5>3. Len(q) \in 1..Len(q) /\ DOMAIN s = 1..Len(s)
            BY <5>1, <5>2, EmptySeq
          <5> QED BY <5>2, <5>3
        <4> QED BY <1>2, <2>2, <3>4, <4>1, <4>2 DEF Plays, OfStub!StreamNext, OfStub!Close
      <3> QED BY <1>2, <2>2, <3>3, <3>4 DEF Plays
    <2> QED BY <1>2, <2>1, <2>2 DEF Plays
  <1> QED BY <1>1, <1>2, CallsPlay

\* Scripts that are whole streams are played as such: what every channel of the
\* clients carries is what llm.Client promises (codex/client.go:139-169, 329-344,
\* stub_client.go:105-130).
THEOREM StreamsAsPromised ==
  ASSUME \A n \in 1..Len(Scripts) : IsStream(Scripts[n].events)
  PROVE  CallsSpec => StreamContract
  <1>1. CallsInit => \A c \in Callers : OfStub(c)!StreamInit
    BY DEF CallsInit, StubInit, OfStub!StreamInit
  <1>2. StubInv /\ PlayedInv /\ [CallsNext]_callsVars
        => [\A c \in Callers : [OfStub(c)!StreamNext]_<<schan[c], spc[c], sctx>>]_stubVars
    <2> SUFFICES ASSUME StubInv, PlayedInv, CallsNext, ~UNCHANGED stubVars, NEW c \in Callers
                 PROVE  [OfStub(c)!StreamNext]_<<schan[c], spc[c], sctx>>
      BY DEF callsVars
    <2>1. StubNext
      BY DEF CallsNext, Codex, Login, Video, Image, Shot, Stub, OnlyCodex, OnlyLogin, OnlyVideo, OnlyImage,
             OnlyShot, ContextEnds
    <2> QED BY <2>1, PlayIsOfStream
  <1> QED BY <1>1, <1>2, StubHolds, PlayedHolds, CodexStreamsAsPromised, PTL DEF CallsSpec, StreamContract
=============================================================================
