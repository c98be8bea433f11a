------------------------------ MODULE VideoJob ------------------------------
(***************************************************************************)
(* openrouter.Client.GenerateVideo (llm/openrouter/video.go): a job is     *)
(* submitted, polled until it settles, and its clip downloaded.  Every     *)
(* poll is decoded over the job as it was: a field an answer leaves out    *)
(* keeps its value.                                                        *)
(***************************************************************************)
EXTENDS ApiCall

CONSTANT Answers  \* bound: what the provider says of a job

VARIABLES
  vpc,      \* where GenerateVideo is
  job,      \* the job as decoded so far
  known,    \* whether the provider has told the id of a job (history variable)
  vres      \* what was returned

videoVars == <<vpc, job, known, vres>>

\* The fields of an answer; "" is one left out, and status "pending" any that
\* awaitVideo does not know.
JobAnswer == [status : {"", "pending", "completed", "failed"}, urls : {"", "none", "some"},
              cost : {"", "priced"}, error : {"", "plain", "refusal"}]
NoJob == [status |-> "", urls |-> "", cost |-> "", error |-> ""]
VideoResult == [err : Errors \cup {"none", "ctx"}, id : BOOLEAN, clip : BOOLEAN, cost : BOOLEAN]
NoClip == [err |-> "none", id |-> FALSE, clip |-> FALSE, cost |-> FALSE]

ASSUME VideoAssumption == Answers \subseteq JobAnswer

VideoTypeOK ==
  /\ vpc \in {"idle", "submitting", "waiting", "polling", "downloading", "returned"}
  /\ job \in JobAnswer /\ known \in BOOLEAN /\ vres \in VideoResult

VideoInit == vpc = "idle" /\ job = NoJob /\ known = FALSE /\ vres = NoClip

-----------------------------------------------------------------------------
\* buildVideoBody: a model and a prompt, no size beside a tier, and every image
\* with a URL or bytes.
VideoRequest == [model : BOOLEAN, prompt : BOOLEAN, size : BOOLEAN, tier : BOOLEAN,
                 images : SUBSET {"url", "data", "empty"}]
VideoBodyFails(r) ==
  ~r.model \/ ~r.prompt \/ (r.size /\ r.tier) \/ "empty" \in r.images

VideoReturn(r) == vpc' = "returned" /\ vres' = r

\* As if an error of the job were returned without its id.
VideoFailsBare(e) == VideoReturn([NoClip EXCEPT !.err = e])

VideoFails(e) == VideoReturn([NoClip EXCEPT !.err = e, !.id = known'])

VideoSubmit ==
  /\ vpc = "idle"
  /\ UNCHANGED <<job, known>>
  /\ \E r \in VideoRequest :
       IF VideoBodyFails(r)
         THEN VideoFails("invalid") /\ UNCHANGED callVars
         ELSE vpc' = "submitting" /\ Http!Do /\ UNCHANGED <<ctx, vres>>

\* awaitVideo, up to its select: a settled job is returned, or its clip is
\* asked for.
Merged(old, new) == [f \in DOMAIN new |-> IF new[f] = "" THEN old[f] ELSE new[f]]

\* refusal, on the message of the job, and otherwise an error of the server.
Cause(j) == IF j.error = "refusal" THEN "filtered" ELSE "server"

Look(j) ==
  CASE j.status = "completed" /\ j.urls = "some" ->
         vpc' = "downloading" /\ Http!Do /\ UNCHANGED <<ctx, vres>>
    [] j.status = "completed" /\ j.urls # "some" ->
         VideoFails("filtered") /\ UNCHANGED callVars
    [] j.status = "failed" ->
         VideoFails(Cause(j)) /\ UNCHANGED callVars
    [] OTHER ->
         vpc' = "waiting" /\ UNCHANGED <<callVars, vres>>

\* 202, with a job or without an id.
VideoSubmitted ==
  /\ vpc = "submitting" /\ Answered
  /\ \/ known' = TRUE /\ \E a \in Answers : job' = Merged(job, a) /\ Look(job')
     \/ UNCHANGED <<known, job, callVars>> /\ VideoFails("server")

\* 200, with what has become of the job, or unreadable.
VideoPolled ==
  /\ vpc = "polling" /\ Answered
  /\ UNCHANGED known
  /\ \/ \E a \in Answers : job' = Merged(job, a) /\ Look(job')
     \/ UNCHANGED <<job, callVars>> /\ VideoFails("server")

\* The select between the ticker and the context.
VideoTick ==
  /\ vpc = "waiting"
  /\ UNCHANGED <<job, known, ctx>>
  /\ \/ vpc' = "polling" /\ Http!Do /\ UNCHANGED vres
     \/ ctx # "nil" /\ VideoFails("ctx") /\ UNCHANGED httpVars

\* do failed: a 400 to the submit may read like moderation; a download that
\* failed comes with the job and its price.
VideoGaveUp ==
  /\ vpc \in {"submitting", "polling", "downloading"} /\ GaveUp
  /\ UNCHANGED <<callVars, job, known>>
  /\ \/ VideoReturn([NoClip EXCEPT !.err = hRes, !.id = known,
                                   !.cost = (vpc = "downloading" /\ job.cost = "priced")])
     \/ vpc = "submitting" /\ hRes = "invalid" /\ VideoFails("filtered")

VideoDownloaded ==
  /\ vpc = "downloading" /\ Answered
  /\ UNCHANGED <<callVars, job, known>>
  /\ \E e \in {"none", "server"} :
       VideoReturn([err |-> e, id |-> TRUE, clip |-> e = "none", cost |-> job.cost = "priced"])

Wanted == IF vpc = "submitting" THEN 202 ELSE 200

VideoTrying ==
  /\ vpc \in {"submitting", "polling", "downloading"}
  /\ \/ Attempting
     \/ Refused(Wanted, ClassifySentinel)
     \/ Http!Succeed /\ UNCHANGED ctx
  /\ UNCHANGED videoVars

VideoNext == VideoSubmit \/ VideoTrying \/ VideoSubmitted \/ VideoPolled
             \/ VideoTick \/ VideoGaveUp \/ VideoDownloaded

-----------------------------------------------------------------------------
\* Once the provider has told the id of a job, which is running and may be
\* billed, it is returned whatever happens later, "to re-download the clip"
\* (llm/video.go), and there is a clip exactly if there is no error, of a job
\* that some answer called completed; one whose clip was asked for keeps its
\* price (video.go:48-65).
JobIsNotLost ==
  vpc = "returned" =>
    /\ known = vres.id
    /\ vres.clip = (vres.err = "none")
    /\ vres.clip => known /\ job.status = "completed" /\ job.urls = "some"
    /\ known /\ job.status = "completed" /\ job.urls = "some" => vres.cost = (job.cost = "priced")
=============================================================================
