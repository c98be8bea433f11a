---------------------------- MODULE ImageCommand ----------------------------
(***************************************************************************)
(* "aikido image" (internal/cli/image.go) on the OpenRouter client: the    *)
(* reference images are read within a budget, the frame asked for is       *)
(* turned into pixels or the model is replaced by one that can render it,  *)
(* one request goes to /images (images.go) or to chat completions          *)
(* (complete.go), and the images it answers with are written to disk.      *)
(* Images and messages are known by what is done with them.                *)
(***************************************************************************)
EXTENDS ApiCall, ImageFrame, FiniteSets

CONSTANTS Aspects,    \* bound: the ratios W:H, as pairs of numbers
          RefSizes,   \* bound: the sizes of reference images
          MaxRefs,    \* bound: how many there are
          Budget,     \* maxReferenceBytes, in units of a file's size
          MaxImages   \* bound: images of one answer

ASSUME ImageAssumption ==
  /\ Aspects \subseteq (Nat \ {0}) \X (Nat \ {0})
  /\ RefSizes \subseteq Nat /\ MaxRefs \in Nat
  /\ Budget \in Nat /\ MaxImages \in Nat

VARIABLES
  ipc,      \* where runImage is
  opts,     \* imageOpts: what the user asked for
  model,    \* o.model: "images", "chat", or the "fallback" that stands in
  pixels,   \* o.pixelSize: <<short, long>> edge; or NoPixels
  refs,     \* how many references were read, and the bytes of all
  answer,   \* the images received, by their places in the provider's answer
  written,  \* how many files were written
  ires      \* what was returned

imageVars == <<ipc, opts, model, pixels, refs, answer, written, ires>>

NoPixels == <<0, 0>>
NoAspect == <<0, 0>>

\* A datum comes as bytes, which may be broken, as a URL, or as neither.
Data == {"data", "badData", "url", "none"}

\* What the flags say; aspect may also be "auto", and an unreadable one is "bad".
ImageOpts == [explicit : BOOLEAN, model : {"images", "chat"}, kind : {"none", "auto", "ratio", "bad"},
              aspect : Aspects \cup {NoAspect}, tier : {"", "1K", "2K", "4K", "0.5K"},
              quality : BOOLEAN]

ImageTypeOK ==
  /\ ipc \in {"loading", "framing", "asking", "trying", "writing", "returned"}
  /\ opts \in ImageOpts /\ model \in {"images", "chat", "fallback"}
  /\ pixels \in Nat \X Nat /\ refs \in (0..MaxRefs) \X Nat
  /\ DOMAIN answer \subseteq 1..MaxImages /\ answer \in [DOMAIN answer -> {"data", "url"}]
  /\ written \in Nat
  /\ ires \in Errors \cup {"none", "ok", "ctx", "frame", "quality", "refs", "empty", "disk"}

\* A command line with a prompt.
ImageInit ==
  /\ ipc = "loading"
  /\ opts \in {o \in ImageOpts : (o.kind = "ratio") = (o.aspect # NoAspect)}
  /\ model = opts.model
  /\ pixels = NoPixels /\ refs = <<0, 0>> /\ answer = <<>> /\ written = 0 /\ ires = "none"

ImageReturn(r) == ipc' = "returned" /\ ires' = r

-----------------------------------------------------------------------------
\* loadReferenceImages, readReferenceFile: the files of --ref one by one, with
\* what is left of the budget.  A file may have grown since its size was looked
\* at; one that does not open, is no regular file or no image ends it.
WithRef(size) == <<refs[1] + 1, refs[2] + size>>

Load(size) ==
  \/ /\ refs[2] + size <= Budget
     /\ \E grown \in {0, 1} :
          /\ refs[2] + size + grown <= Budget
          /\ refs' = WithRef(size + grown)
     /\ UNCHANGED <<ipc, ires>>
  \/ ImageReturn("refs") /\ UNCHANGED refs

LoadRefs ==
  /\ ipc = "loading"
  /\ \/ refs[1] < MaxRefs /\ \E size \in RefSizes : Load(size)
     \/ ipc' = "framing" /\ UNCHANGED <<refs, ires>>
  /\ UNCHANGED <<callVars, opts, model, pixels, answer, written>>

-----------------------------------------------------------------------------
\* runImage up to the request: with a ratio, a model of /images gets pixels; one
\* that cannot render them is replaced unless the user named it.
ChooseFrame ==
  /\ ipc = "framing"
  /\ UNCHANGED <<callVars, opts, refs, answer, written>>
  /\ IF model # "images" \/ opts.kind \in {"none", "auto"}
       THEN ipc' = "asking" /\ UNCHANGED <<model, pixels, ires>>
     ELSE IF opts.kind = "bad"
       THEN ImageReturn("frame") /\ UNCHANGED <<model, pixels>>
     ELSE IF Renderable(opts.aspect, opts.tier)
       THEN ipc' = "asking" /\ pixels' = Frame(opts.aspect, opts.tier) /\ UNCHANGED <<model, ires>>
     ELSE IF opts.explicit
       THEN ImageReturn("frame") /\ UNCHANGED <<model, pixels>>
     ELSE ipc' = "asking" /\ model' = "fallback" /\ UNCHANGED <<pixels, ires>>

-----------------------------------------------------------------------------
\* What generateViaImagesAPI and buildImagesBody put into the request; a frame
\* in pixels takes the place of ratio and tier.
SizeMatches(p) == \A e \in {p[1], p[2]} : e \in 100..9999
Sent == [size |-> pixels # NoPixels,
         ratio |-> pixels = NoPixels /\ opts.kind # "none",
         tier |-> pixels = NoPixels /\ opts.tier # ""]
ImagesBodyFails == Sent.size /\ (~SizeMatches(pixels) \/ Sent.ratio \/ Sent.tier)

\* The quality is dropped with the model; generateViaChat knows none.
Quality == opts.quality /\ model # "fallback"

AskForImages ==
  /\ ipc = "asking"
  /\ UNCHANGED <<opts, model, pixels, refs, answer, written>>
  /\ CASE model = "images" /\ ImagesBodyFails -> ImageReturn("invalid") /\ UNCHANGED callVars
       [] model # "images" /\ Quality         -> ImageReturn("quality") /\ UNCHANGED callVars
       [] OTHER -> ipc' = "trying" /\ Http!Do /\ UNCHANGED <<ctx, ires>>

ImageTrying ==
  /\ ipc = "trying"
  /\ Attempting \/ Refused(200, ClassifySentinel) \/ (Http!Succeed /\ UNCHANGED ctx)
  /\ UNCHANGED imageVars

\* Only bytes and URLs are images.
ImagesIn(data) == [i \in {j \in DOMAIN data : data[j] \in {"data", "url"}} |-> data[i]]

\* parseImagesResponse: one datum that cannot be decoded fails the whole answer;
\* parseCompleteResponse, absorbDelta: such a part is no image.
Unreadable(data) == model = "images" /\ \E i \in DOMAIN data : data[i] = "badData"

\* The answer holds data, or an error envelope, or is not readable; that of chat
\* completions may have been stopped by moderation.
ImagesArrive ==
  /\ ipc = "trying" /\ Answered
  /\ UNCHANGED <<callVars, opts, model, pixels, refs, written>>
  /\ \/ /\ \E e \in {"server", "filtered"} : ImageReturn(e)
        /\ UNCHANGED answer
     \/ \E data \in UNION {[1..n -> Data] : n \in 0..MaxImages} :
          IF Unreadable(data) THEN ImageReturn("server") /\ UNCHANGED answer
          ELSE IF ImagesIn(data) = <<>> THEN ImageReturn("empty") /\ UNCHANGED answer
          ELSE ipc' = "writing" /\ answer' = ImagesIn(data) /\ UNCHANGED ires

ImageGaveUp ==
  /\ ipc = "trying" /\ GaveUp
  /\ ImageReturn(hRes)
  /\ UNCHANGED <<callVars, opts, model, pixels, refs, answer, written>>

\* The directory is made, and a file for every image that came as bytes; the
\* first that fails ends it, and those written before it stay.
DataIn(images) == Cardinality({i \in DOMAIN images : images[i] = "data"})

WriteImages ==
  /\ ipc = "writing"
  /\ UNCHANGED <<callVars, opts, model, pixels, refs, answer>>
  /\ \/ \E n \in 0..DataIn(answer) :
          /\ written' = n
          /\ IF n < DataIn(answer) THEN ImageReturn("disk") ELSE ImageReturn("ok")
     \/ ImageReturn("disk") /\ UNCHANGED written

ImageNext == LoadRefs \/ ChooseFrame \/ AskForImages \/ ImageTrying \/ ImagesArrive
             \/ ImageGaveUp \/ WriteImages

-----------------------------------------------------------------------------
\* A frame in pixels is one the endpoint takes, of the ratio and the tier asked
\* for, however they are rounded (image.go:44-50, 243-289); a ratio goes to
\* /images as nothing else; and only one beyond 3:1, a tier the endpoint lacks, or
\* a ratio that cannot be read makes the command stop or ask the fallback
\* (image.go:40-42).
FrameFits ==
  /\ pixels # NoPixels => Fits(pixels, opts.aspect, opts.tier)
  /\ ipc \in {"asking", "trying", "writing"} /\ model = "images" /\ opts.kind = "ratio" =>
       pixels # NoPixels
  /\ ires = "frame" \/ model = "fallback" =>
       opts.kind = "bad" \/ opts.tier \notin Tiers \/ Hi(opts.aspect) > 3 * Lo(opts.aspect)

\* What runImage makes of the flags is never refused by the client's own checks,
\* and the model that the user named is the one that is asked (image.go:128,
\* 232-235; images.go:64-71); nothing is sent with references beyond the budget;
\* and the command succeeds only with a file for every image that came as bytes,
\* and at least one image (image.go:188-207).
FlagsAreServed ==
  /\ ires # "invalid" \/ hRes = "invalid"
  /\ opts.explicit => model = opts.model
  /\ refs[2] <= Budget
  /\ ires = "ok" => answer # <<>> /\ written = DataIn(answer)
=============================================================================
