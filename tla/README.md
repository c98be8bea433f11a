# aikido in TLA+

A verification project for [aikido](../src/README.md), a Go library for LLM agents: sessions
that run a model and its tools in turns, providers that stream the model's reply, and a voice
pipeline around both.  The modules here model the parts of it that are concurrent, or that have
to survive failures, timeouts and cancellations, and the pure algorithms whose inputs are too many
to test; TLC checks them on small instances, and TLAPS proves their safety properties for
instances of every size.

## 1. The system

| part | source | state | operations | hard because |
|---|---|---|---|---|
| session lock | `agent/locker.go` | a map of mutexes, their holders, one or two goroutines per `Lock` | `Lock`, its unlock function, `Forget` | a mutex cannot be waited for together with a context; cancelled waiters still take it |
| agent run | `agent/run.go`, `agent/session.go`, `agent/event.go` | the goroutine's position, three nested contexts, the turn so far, the event channel | `Run`, `RunWithOptions`, `RunWithMessages` | two runs on one session, a provider and tools that stall, a consumer that stalls, three deadlines, every step may fail |
| history | `agent/history.go`, `agent/history/memory` | the transcript of each session | `Read`, `Append` | shared by all runs of a session |
| drain | `agent/drain.go` | the message being put together | `Drain` | the event stream has no turn marks |
| built-in tools | `agent/tools_builtin.go`, `agent/tools_grep.go`, `agent/tools_register.go`, `tools/` | the registry; files through `vfs` | `Register`, `Dispatch`; read, write, edit, delete, search, grep | read-modify-write on files shared by sessions |
| LLM contract and helpers | `llm/client.go`, `llm/helpers.go` | a stream being collected | `Stream`, `Complete`, `Collect`, `CollectWithRetry`, `CompleteWithRetry` | producer, channel and consumer end each other through one context |
| retry | `retry/retry.go`, `llm/openrouter/retry.go` | attempt number, last error | `Do`, the length of a sleep | bounds, server-given delays, overflow, cancellation while sleeping |
| OpenRouter stream | `llm/openrouter/client.go`, `sse.go` | the HTTP stream, its decoder, buffered tool calls | `Stream` | tool calls arrive in fragments, errors arrive inside a 200 stream |
| OpenRouter video | `llm/openrouter/video.go` | the job as decoded so far | `GenerateVideo` | polling, a job that is billed whatever fails later |
| OpenRouter calls answered at once | `llm/openrouter/complete.go`, `speech.go`, `images.go`, `decision.go`, `llm/audio.go` | none | `Complete`, `Speak`, `GenerateImage`, `Decide`, `TranscribeDetailed` | an answer with status 200 that is an error, or misses a part, and has a price |
| Codex client | `llm/codex/client.go` | the stream, its decoder | `Stream`, `Complete` | text comes as deltas or as a whole, the context cuts it |
| Codex login | `llm/codex/auth.go` | OAuth tokens, in memory and in a file; a device code | `Token`, `Refresh`, `StartDeviceLogin`, `PollDeviceLogin` | rotating refresh tokens, concurrent refreshes, crash between rotation and save, a code that expires |
| vocabulary | `llm/vocabulary.go` | none | `Correct`, the terms of a prompt | rules that overlap, edit distances with thresholds |
| voice pipeline | `voice/voice.go`, `voice/speakable.go`, `voice/http.go` | the turn, the speaker's queue, semaphore and goroutines | `Run`, `Handler.ServeHTTP` | parallel synthesis emitted in order, cancellation, a consumer that stops reading |
| virtual file system | `vfs`, `vfs/memory`, `vfs/osfs`, `vfs/embedfs` | files | `ReadFile`, `WriteFile`, `DeleteFile`, `ListFiles`, `HashState` | temp file and rename, concurrent writers |
| image command | `internal/cli/image.go` | references read, frame, model, files written | `runImage` | a budget of bytes, frames in pixels under three limits, a model that stands in |
| test double | `llm/llmtest/stub_client.go` | scripts, cursors, recorded requests | all of `llm.Client` and its optional interfaces | concurrent callers |
| other | `llm/decision.go`, `llm/thinking.go`, the rest of `internal/cli`, `cmd/aikido`, `examples` | none | formats, command line | sequential |

How they interact: a caller (a program, the CLI, the voice pipeline) starts a run; the run takes
the session's lock from the `Locker`, reads the `History`, opens a provider stream with
`llm.Client.Stream`, forwards its events on the channel it returned, dispatches tool calls to the
`tools.Registry`, and appends the turn.  The voice pipeline consumes that channel, feeds sentences
to its speaker, and sends its own events on.  Providers send on a channel of 16 events from a
goroutine of their own; everything is cut short by the context passed down.

## 2. Modules

**SessionMutex** is the contract of `agent.Locker`: calls ask, are granted the lock of their id
when nobody else holds it, or are refused, and release.  **LocalLocker** is `LocalLocker.Lock`,
unlock and `Forget` with the acquiring and the releasing goroutine as processes; a mutex is named
by the call that created it, so that the map can forget one that is still in use.  `Forget` is
used as its comment allows.  LocalLocker refines SessionMutex.

**LockedRuns** composes the runs of a session with the LocalLocker they use: calling `Lock`, its
return, a context that ends meanwhile and the unlock are steps of a run and the locker together;
the goroutines, `Forget` and users of other ids are steps of the locker alone.  Its refinement
mapping has as AgentRun's `holder` the run that `Lock` has given an unlock function it has not
called; under it the composition refines AgentRun.

**TurnLog** says what a transcript promises: a run reads it once and adds a whole turn right
behind what it read, or nothing.  It has no lock.  **AgentRun** is `runLoop` with everything it
calls in the package: the lock (as SessionMutex promises it), `History.Read`, the loop of model
calls, `drainProviderStream` branch by branch, the tool loop, `History.Append`, `emitErrEnd` with
`resolveEndReason` as a step of its own between its two sends (the reason is fixed before the second
of them waits for room), the deferred unlock and close.  Each run has the caller's context, `runCtx`
and `callCtx`; the clock and the caller end them at any moment.  A send is guarded by room in the
channel.  Messages and events are records of what the properties tell apart: who, which model
call, which tool of it.  `whole` marks an assistant message whose stream was not cut.

| run() state | variable |
|---|---|
| position in `runLoop` | `pc` |
| `userCtx.Err()`, `runCtx.Err()`, `callCtx.Err()` | `userErr`, `runErr`, `callErr` |
| `useHistoryStore` | `stored` |
| the transcript in History; its length when read | `hist`, `base` |
| `turn`, `text`/`images`, `calls`, `usage`, `err` of the drain | `turn`, `deltas`, `calls`, `usage`, `sErr` |
| `appended` | `pending` |
| what `resolveEndReason` returned, while it waits to be sent | `why` |
| the event channel: sent, received | `out`, `got` |

**Drain** is `agent.Drain` over the events of an AgentRun run, a recursive function with its four
locals and one branch per kind of event.  A message names its text, its calls and its answers by
the places of the events that told them, so "everything once and in order" can be stated.

**Runner** is what the consumer of a run may rely on, as an automaton over what was said last: text,
usage and calls in any order, the result right behind its call, the end behind an error exactly if
its reason is that of a failure, the close right behind the end.  AgentRun's `RunnerContract` is
that every run keeps it; VoiceTurn's agent is any Runner.

**CodexToken** is `TokenSource.Token`: the early return, the mutex, the second look at the token,
the request to the issuer, the new token in memory, `onRefresh`.  The issuer is external: it hands
out refresh tokens that work once and revokes the login when one is replayed, as the comments in
`auth.go` say.  Its answer may get lost on the way; the process may crash at any step and come
back with the login that was stored last.

| code | model |
|---|---|
| `s.mu` | `holder` |
| `s.tok`, and whether it expires within `refreshSkew` | `tok`, `stale` |
| the refresh token in the request, and in the answer | `asked`, `answer` |
| what `Token` returned | `given` |
| what `onRefresh` saved | `stored` |
| the issuer: the token it expects, whether the login is revoked | `current`, `revoked` |

**Retry** is `retry.Do`, as steps for others to take: it is instantiated for the request of every
client and for the attempts of `CollectWithRetry`.  **EventStream** is what `llm.Client` promises of
the channel that `Stream` returns: one usage, an error followed by nothing but the usage and the
end, the end last and the channel closed behind it, unless the context cuts it.  **ChatStream** is
`openrouter.Client.Stream`, its goroutine `processStream` with the decoder, and `llm.Collect` on
the other side of the channel; its streams, CodexStream's and StubClient's refine EventStream.  A
chunk of the stream is a record of what it holds (text, a fragment of a tool call, a finish reason,
an error, usage) and its place in the stream is what its text says, so "the answer is the whole
answer" can be stated.  **CollectRetry** puts `CollectWithRetry` around it.

| code | model |
|---|---|
| `retry.Do` around the request, and around `Collect` | `hAt`, `hTry`, `hErr`, `hRes`; `aAt`, ... |
| `processStream`: position, fragments per index, `sawError`, `usageSent`, `endFinishReason` | `ppc`, `asm`, `sawError`, `usageSent`, `finish` |
| the events one chunk gives rise to, not sent yet | `batch` |
| the channel: sent, received | `out`, `got` |
| `Collect`: position, what it returned | `cpc`, `res` |

**ApiCall** is a request of either client that is not a stream of OpenRouter's: `do` under
`retry.Do`, and what a status is classified as.  The modules on it have one call each, with what it
checks before the request, what it makes of the answer, and what it returns:

| module | code | state |
|---|---|---|
| **CodexStream** | `codex.Client`: `Stream`, `processStream`, `Complete` | `cpc` and `ppc`, where the caller and the goroutine are; `sawDelta`, `finish`, `batch`, `out`, `got`, `resp` as in the code; `said`, the backend's events read so far |
| **DeviceLogin** | `StartDeviceLogin`, `PollDeviceLogin`, the exchange of a code | `lpc`, a clock `now` with the timer `wake`, when the user `confirmed`, the `code`; `askedAt` is history: when it was last asked for |
| **VideoJob** | `GenerateVideo`, `awaitVideo` | `vpc`, the `job` as decoded over its earlier answers, whether an id is `known` |
| **OneShot** | `Complete`, `Speak`, `Decide`, `TranscribeDetailed` | `opc`, which of them (`op`), what was `asked`, whether it was `paid` |
| **ImageCommand** | `runImage` with `GenerateImage` and the chat completion it may use instead | `ipc`, the options, the `model` asked, `pixels`, `refs`, the `answer`, the files `written` |

**StubClient** is `llmtest.StubClient`, with any number of callers, each of them a call or the
goroutine of a stream.  **ClientCalls** composes the six: a behaviour is a call of one of them under
a context that may end at any time.

**Sentences** is `feed`, `flush` and `splitSentences`: a reply arrives in deltas that are cut
anywhere, a rune is what the cutter tells apart.  **Vocabulary** is `Correct`, word by word, with
`matchAt`, `levenshtein` and the terms of `promptLine`, and the replacements by nothing that it
ignores; the reference for the edit distance is the
set of words that one or two edits lead to, over the letters of `Alphabet`.  A term is the letters
of its key, which count as its bytes in the prompt, too.  **Backoff** is `computeBackoff`, the cap
of `Do` and `parseRetryAfter` with durations of a given width; a `float64` too large for one becomes
the least integer or the largest, as on amd64 and arm64.  **Algorithms** feeds each of the three
with every input within its bounds.  **ImageFrame** is `imagesAPISize` in exact numbers, with
roundings where the code has them; ImageCommand asks it for the pixels of the ratio and the tier its
flags name.

**VoiceTurn** is `Pipeline.Run` and `run` with its speaker: the goroutine of the turn, one goroutine
per sentence, the emitter.  The agent and the two speech services are the environment; the agent is
any Runner, told and heard in one step.  A sentence is its number.  **VoiceHandler** adds
`Handler.ServeHTTP`: `readInput` and what it refuses, the detached context with the timeout, and the
loop that writes lines until a write fails and then only drains.

| code | model |
|---|---|
| where `run` is, "idle" before `Run` | `pc`; sentences `feed` has cut off and not handed over yet: `toSpeak` |
| what the agent has said | `agent` |
| `speaker.buf` holds something | `rest` |
| `speaker.seq`, and each synthesis | `chunk` (its length, its elements) |
| `speaker.queue`, what the emitter holds | `queue`, `emits` |
| `speaker.sem` | the number of `chunk`s being "speaking" |
| `usage.SpeechChars` | `booked` |
| the answer to the client: its status, a failed write, the handler's return | `status`, `gone`, `returned` |

**Storage** is the contract of `vfs.Storage`: a call on a file takes effect in one step or not at
all.  **DiskStorage** is `osfs.Storage` with one system call per step: stat before read and before
remove; create, fill, rename, and the removal of the temporary file when filling or renaming fails;
the names of the directory and then a look at each of them.  Any of them may fail, and the process
may end between any two.  It refines Storage as far as files are concerned; a listing has no place
in the contract, because on a disk it is not atomic (section 6).  **FileTools** puts the tools on
it: which are registered under which options, the path policy, the size limit, `edit_file` as a
read and a write, `grep` as a listing and a read per visible file up to its budget.

| code | model |
|---|---|
| the directory; a name `<<p, 0>>` is file p, `<<p, n>>` its n-th temporary file | `disk` |
| where a storage call is, its arguments, its answer | `pc`, `req`, `ans` |
| `tmp` in `WriteFile` | `tmp` |
| `VFSToolOptions` | `opts`, `Hidden`, `Foreign` |
| the tool call a session is in; grep's loop | `tool`; `todo`, `scanned`, `shown` |

Configurations, and modules called `MC...` where there are any, give the constants values; modules called `...Proofs` prove theorems about
the component they are named for (section 4).  Operators with a comment "As if ..." are not
part of the specifications: each is the named definition with a plausible mistake, and serves to
show that a property notices it.

## 3. What the runs check

| run | instance | what it asks |
|---|---|---|
| `locker` | 3 calls, 2 ids | one holder per id, no mutex left locked or unlocked twice, every `Lock` answers, the contract SessionMutex |
| `locked_runs` | 2 runs that share a LocalLocker, 1 model call each, channel of 1 | every step is one of AgentRun, where the lock is just who has it; no run appends behind messages it has not read; the runs are serial (TurnLog); every channel is closed |
| `agent_one` | 1 run, 2 model calls, 2 tools each, channel of 2 | one end, last; the events tell the transcript; the end reason fits; recorded exactly if good; what `Drain` makes of the events is a transcript; every event is one a Runner may send then |
| `codex_token` | 4 calls, 4 logins, 2 crashes | the shared login is not revoked, memory keeps up with the issuer, an unsaved login is reported, every call returns |
| `collect_retry` | 2 attempts of 2 requests, every mix of 3 chunks, 2 interleaved tool calls, channel of 2 | the answer is whole and of the last attempt; every stream keeps EventStream; only transient errors are retried, and within the bounds; every call returns and no goroutine is left behind |
| `voice` | 3 sentences, 1 at a time, queue of 1, 1 delta, a tool call (4 of these parts together), channel of 1, a handler and its client | events in order, one done event, last; it tells all, the bill included; a done event that finds room is delivered, context over or not; no circular wait, every turn ends |
| `client_calls` | 1 call; 3 attempts; 3 events on a channel of 1; a code for 6 units of time, polled every 2; 6 ratios in every tier; 3 callers of 2 scripts | a Codex answer is whole; a login is polled at its interval and given up neither early nor late; a video job is not lost; no answer passes for more than it is; frames fit the endpoint; every call returns; the streams keep EventStream |
| `algorithms` | replies of 5 runes; 3 words, up to 3 terms for a prompt of 2, or 4 replacements; durations of 10 bits, 6 attempts | sentences do not depend on the deltas and lose nothing; corrections are those the rules allow, strongest and longest first; a prompt names as many terms as both caps allow; sleeps are bounded |
| `files` | 2 sessions, 2 tool calls, 2 files, a crash, 5 sets of options | calls on files are atomic; errors change nothing and leave no litter; the policy holds |
| `agent_cut`, `stream_cut` | 1 run, 1 stream | violated: section 6 |
| `correct_map` | as `algorithms` | violated: section 6 |

**Bounds and why they are enough.**  Two runs are enough to lose an update, two calls of an id and
one of another to confuse two mutexes, and three calls let one be cancelled while one holds and one
waits.  Channels are as small as they can be and still have both states, full and with room, and
the runs fill each of them: a channel of the code's size only delays the same waits.  The one place where the size is what matters
is the second half of `RetryReturns`: after the error at which `Collect` stops reading, the producer
may send a usage event and the end, and a channel of two events is just enough; the code has 16.
`voice` has three sentences for a queue of one and one place of synthesis.  The emitter can hold the
first, the queue the second, and the turn waits with the third for the queue: while the first waits
for the place that the second has, all of the voice pipeline's waits come together, and only because
a result goes into the buffer of its channel do they end (the mutant of `ServedTurnEnds` takes that
buffer away, and TLC shows the circle).  To keep the instance small, deltas, calls and sentences are
bounded together, too (`MaxParts`): three sentences come without a tool call, two with one.  Four logins let a login
expire three times, so that a call can meet the refresh of another one, fail and try again after a
crash.  In `files`, 2 calls let any two tools meet, and let one run after the crash; contents of at
most two words let `edit_file` find 0, 1 or 2 matches, and just reach `MaxFileBytes`.

In `locked_runs` the locker has no other users, whose steps only the proof covers, and no caller
ends a context, since `RunTimeout` already does so at every moment of a run.  The runs are as short
as they can be, one model call without tools; `agent_one` has all of a run's other steps.

In `client_calls`, three events are enough for a delta, a done event and the end of an answer in
any order; a code of six units that is polled every two, with requests of one, has polls before,
at and behind its last chance.  The answers about a video job leave out each of their fields in
some order, so that what is kept of an earlier answer matters.  That `CallReturns` notices a poll that does not look at the time
needs the clock's bound not to stop it: the mutant goes on asking there.  The ratios are a square, some whose
frame is cut at the edge, at the area and once more behind the rounding, the limit of 3:1 and one
beyond it; `FramesFit` covers all the others.  In `algorithms` the thresholds are
scaled down with the words (3 and 5 letters for one and two edits, 2 for a short word), keys lie on
both sides of each, prompts reach either cap first (two terms, or eight bytes with the comma and the
space between terms), one replacement replaces by nothing, and a text of five runes over the four classes has two sentences with every way
to cut it into deltas; durations of ten bits overflow within six attempts and within the hints.

The type invariants of the modules are conjuncts of the properties that need them: `TypeOK` of
`LockedIffOwned`, `EndsOnceAndLast`, `MemoryIsCurrent` and `FailureLeavesNothing`, `RTypeOK` of
`NothingIsRetriedInVain`, `HTypeOK` of `DoneIsNotDropped`, `CallsTypeOK` of
`AnswersAreComplete`, and one for each of the algorithms (`SentencesTypeOK`, `VocabularyTypeOK`,
`BackoffTypeOK`) of its property.

`CHECK_DEADLOCK FALSE` is in every configuration, since every instance stops when its bounded
number of calls has come back.

**Fairness.**  Weak fairness of each goroutine: a step it can take again and again is taken.  In
`locked_runs` one condition stands for all of them, which is the same for steps that cannot be taken
for ever, and much quicker to check.  Of the
environment only what the code relies on: mutexes are given to somebody who waits, HTTP calls and
synthesis come back (their context, or the server, ends them), timers fire.  The model provider
owes AgentRun nothing: a run ends by its `RunTimeout`.  That the consumer receives is assumed only
where the code's documentation demands it: in `LockedFairness`, and as the premise `Watched`
of the first half of `TurnEnds`; its second half, the rest of `ServedTurnEnds` and the end of the
streams' goroutines in `RetryReturns` do without it.  In `client_calls` a user need never confirm a
code, a provider never finish a video job and a test never release a script: `CallReturns` promises
an end of the job and of the script only once the context, or the test, ends it.

## 4. What is proved

Every safety property of the runs that pass is a theorem: it holds for every value of the constants
that satisfies the modules' assumptions, any number of calls, runs, events, files, sentences and
crashes.  Each proof is an induction over the steps: an invariant of all the states, shown for
`Init` and for each action of `Next` by itself. The properties are seldom inductive by themselves;
what had to be added is, component by component:

**LocalLockerProofs.**  The invariant says of every mutex who owes it an unlock: the call that
holds the lock, or the goroutine that a cancelled call has left behind (`LockedIffOwned`).
`MutualExclusion` needs more than that, since `Forget` lets two mutexes exist for one id: a call
that waits or holds uses the mutex the map has for its id (`Coupling`), as `Forget` does not run
meanwhile; only goroutines left behind may still be busy with a forgotten one.  The refinement
`LockerContract` follows: every step is a step of SessionMutex or changes none of its variables.

For LockedRuns, `RunsWorkWithLocalLocker` is the refinement of AgentRun (`RunsAreLocked`), step by
step.  Its invariant joins the locker's, the runs' (`LockInv`) and that the calls for the session
are those of the runs (`IdsInv`).  By `MutualExclusion` at most one run holds the lock, so `Holder`
is well defined; `Lock` returns only when it is nobody; and nothing that a goroutine or another
user does changes it.  `LockedRunsKeepTheirPromises` carries what is proved of AgentRun and Drain
over to runs with the real locker, as `LockedRunsLoseNothing` and `LockedRunsAreSerial` do for the
two properties that are about several runs.

**AgentRunProofs.**  Three layers, and what the consumer sees:

- `LockInv` ties the position of a run to the lock: between taking and giving it back the run is
  `holder`, so no two runs are inside.  Only a run inside changes `hist`, so what a run has read
  stays the whole transcript until it appends (`NoStaleAppend`).
- `TurnInv` follows one run from its start to its end: the end is the last event and an error comes
  just before it (`OutInv`); what its contexts say of the reason that was chosen (`BlameInv`); the turn to be appended begins
  with the user's message and all its calls but those whose tools are still running are answered
  (`PendingInv`, `AnswersInv`); the loop goes on exactly while there are calls (`LoopInv`); results
  are sent in the order of the calls and are those to be appended (`ResultsInv`, `ToolsInv`,
  `ToldInv`); the transcript has the turn where the run has appended it, and nowhere else
  (`HistInv`).  `EndsOnceAndLast`, `RecordedIffGood`, and
  `EventsTellTranscript` follow from it, and so does the refinement `RunsAreSerial`: a read is
  TurnLog's Read, an append its Commit, a failure its Abort, and everything else a stutter.
- `FailureIsBlamedOnContext` speaks of a moment and of all that follow: a context that is over while
  the reason is still to be chosen is the one the end names.  `SettledNotPlain` and `SettledCancelled`
  say what no step then changes (`SettledStep`): the context is still over, and the reason names it
  once it is chosen and once it is sent.  PTL makes the `[]` of it.
- `CallsInv` says of the events that each call is followed by its result.  Over such a sequence
  `Draining`, an induction over its length, says what `Drain` has put together of a prefix: which
  places are in finished messages, which still in the locals, and that the answers are a prefix of
  the calls.  At the end event nothing is left in the locals, which is `DrainIsTranscript`.

`RunnerContract` needs one invariant more, `SaidInv`: what the last event says is what the position
of the run says (behind a call exactly between its call and its result, behind an error exactly in
the middle of `emitErrEnd`).  A step then sends an event its position allows, or none.

**CodexTokenProofs.**  `MutexInv` and `AnswerInv` say who may have a request or an answer under
way; `RefreshInv` says that, unless a new token has been lost, the token in memory is the one the
issuer expects, or the answer with the next one is in the hands of the call that holds the mutex.
Hence a token is never replayed (`LoginSurvives`), also when saving fails, and memory is never
behind (`MemoryIsCurrent`).  `UnsavedIsReported` needs that logins only get newer from the store
over the memory to the issuer (`OrderInv`), and that one newer than the store is being persisted
or was reported to somebody (`UnsavedInv`).

**ClientCallsProofs.**  The request under `retry.Do` first (`HttpInv`), which all clients but the
double share; then an invariant per client: a job is known wherever it can be polled (`VideoInv`);
no timer is overdue where a code may be asked for (`LoginInv`); what was asked for is what an answer
has to have (`ShotInv`, `ImageInv`); a scripted stream sends its script from the front (`StubInv`,
`PlayedInv`).  For a Codex stream the answer read so far, the batch, the channel and the response
are related pair by pair (`SaidInv`, `BatchInv`, `OutInv`, `WholeInv`, `RespInv`), and only the last
two depend on the context.  The streams of both clients implement EventStream step by step; for
the double under the hypothesis that the scripts a test hands in are streams themselves (MC's are).
`FramesFit` is arithmetic: for every ratio that is not beyond 3:1 and every tier, the frame of
`imagesAPISize` is within the limits, one lemma for each branch of the function.  `FramesAreTaken`
(`FrameFits`) puts it into the command: `ChoiceInv` keeps why the frame or the fallback was chosen
until the answer is written.

**VoiceProofs.**  The thread is the number of a sentence.  The queue holds the last of them in
order, the emitter the one before these, and all before that one are spoken or failed and, unless
the context was over first, told (`PlaceInv`, `QueueInv`, `ChunksInv`).  With counts of what the
agent said and what was told of it (`AgentInv`, `CountInv`, `StopInv`, `BookInv`) these give
`EventsInOrder` and `DoneTellsAll`, also for a pipeline without a handler (`TurnIsSafe`); `ServeInv`
adds the client.  `DoneIsNotDropped` is shown as `FailureIsBlamedOnContext` is: `EndHasRoom`, that
the done event has room or is sent, is kept by every step (`RoomIsKept`), since behind the close the
emitter has nothing to send that could take the room.

**FileToolsProofs.**  `SessionInv` says of each session what its storage call and its tool may be
about, what it may have been shown and that a call that changed a file answers "done"; `TmpInv`
that a temporary file belongs to one write under way, or was left behind by a failed removal or a
crash.  From these `FailureLeavesNothing`, and, since no step changes a file but the rename and
the removal of a checked call, `PolicyGuardsFiles`.  `DiskIsAtomic` maps each call to the step at
which it takes effect (the rename, the removal, the read of a file once it is open, or the failure)
and needs `FilledInv`: what is renamed is the whole content.  Its hypothesis, that `Storage`'s
`Contents` have all sequences of words, is about a constant that only bounds TLC's enumeration.

**CollectRetryProofs.**  `RetryInv` counts the attempts of the two nested loops and keeps why the
last one failed (`NothingIsRetriedInVain`).  `OrderInv` says what may still be sent behind what has
been, over the channel and the batch together; `StreamIsOrderly` is that every step then is one of
EventStream.  For `CollectIsWhole`, `SaidInv` says which fragments of each call are on the channel
and which still in the buffer, each side in ascending order and the former before the latter, and
`GotInv` what `Collect` has made of the events it received.

**AlgorithmsProofs.**  `BackoffInv` is that the last sleep is one the failed attempt could give; the
rest is about where durations wrap: nowhere below the limits that `SleepsAreBounded` names.  Powers
are beyond the provers' arithmetic, so `PowersAssumption` states the three facts that are used, all
true of every power and evaluated by TLC.  `SentencesInv` is `SentencesAreStable` with the bound of
what has been cut off; its core is that a place where a sentence may end stays one, and no other
place before it becomes one, when more of the reply arrives.

`CorrectionInv` adds to `CorrectionIsSound` that what has been replaced lies before `at` (else the
next span could overlap it).  A step then needs only what `matchAt` returns (`MatchIsBest`): each of
its three rules finds exactly what the reference allows (`FitIsHeard`, `TermsAreSpelt`,
`NearIsMissed`), and the widest and strongest of it.  `NearIsMissed` rests on `LevenshteinIsEdits`:
the last entry of the table is at most one, or two, exactly if one edit, or two, lead from one word
to the other.  In one direction an edit costs at most one (`EditCostsOne`): dropping, changing or
adding a letter shifts the table by a row, and neighbouring entries differ by at most one.  In the
other, an entry of at most two is made of such an entry before it (`TableIsNear`).  That the code
compares lengths first loses nothing (`NearIsAsLong`).  `PromptStaysFull` goes along the terms with
two functions at once, the line and the terms that are not blank: the line is the latter until a cap
stops it (`Fills`).

Recursive functions (the scan for a boundary, `Sorted`, `Drain`, the concatenation of a sequence)
are handled by their defining equation and the least number at which a claim would fail, since
the induction theorems of the library cannot be applied by the installed provers.

**Only model-checked** are:

- all liveness properties (`LockAnswers`, `RunEnds`, `RetryReturns`, `CallReturns`, `TokenReturns`,
  `ServedTurnEnds`): the prover does not handle fairness;
- the three properties that are violated (section 6).

## 5. Simplifications

Actions are the code between two points at which others can notice it: a lock, a send, a receive, a
system call, a request.  A send that blocks is a step that is not enabled.  Where Go's `select` has
several ready cases the model takes any.  Contexts are their `Err()`.  Times are not modelled, but
for the lifetime of a device code: elsewhere a timer may fire at any moment it runs.  Text is
abstracted to what a property compares. In AgentRun the lock is just who has it; that its runs do
the same with LocalLocker is proved of LockedRuns.  VoiceTurn has any Runner for an agent; that
AgentRun is one is proved, too, but the channel between the two is left out: an event is told and
heard in one step.

## 6. Where code and documentation differ

Three differences have a run of their own, whose property TLC finds violated:

- `agent_cut`: when the `LLMCallTimeout` cuts a stream, the run may take the closed channel before
  it looks at the context, and records the cut reply as a complete one.
- `stream_cut`: the same race in `llm.Collect`, which then returns a cut answer without an error.
- `correct_map`: of two `Replacements` that are the same up to their case, the order of a map decides
  (`vocabulary.go:114-129`): the sort that follows compares only the words as heard, in lower case,
  though its comment says "a map never decides".  `CorrectionIsSound` holds for either choice.

The models show these, too, but no run is spent on them:

- A run that gives up waiting for the lock because a context is over ends as cancelled or timed out
  (`run.go:272-295`); the decision record has every lock failure, "including acquire-timeout", end
  with `EndReasonError` (`docs/DECISIONS.md:368`).
- A run that blocks in a send is not ended by its `RunTimeout` (`docs/SECURITY.md:84` promises an
  upper bound): AgentRun's `RunEnds` needs the consumer.
- `Collect` returns "final Usage if the provider emitted one, and the first error encountered"
  (`helpers.go:124-127`), but it returns at the error, and the usage comes after it.
- `retry.Do` returns "ctx.Err() if context cancelled during a sleep" (`retry.go:76-77`); when the
  timer fires as well, it may go on to the next attempt and return the last error instead.
- `onRefresh` "receives every rotated login" (`auth.go:240-241`), except one whose answer got lost.
- Voice events may be delivered after the context is over (`voice.go:200` says they are dropped);
  a client that is connected but reads nothing all through the grace never gets the done line that is
  "always the last one ... as long as the client is still connected" (`http.go:65-66`), as
  `voice.go:202-204` discloses: `DoneIsNotDropped` has that exception and no other.
- `osfs.ListFiles` is not atomic (`vfs/storage.go:20`): it shows the temporary files of writes
  under way and fails when one of them is renamed meanwhile, and with it `list_files`, `glob` and
  `grep`.
- `Drain` puts the tool calls of consecutive model calls without text into a single assistant
  message, their results behind it: its events have no mark between model calls (`drain.go:10-12`
  promises "the order they were produced").
- `Speakable` drops code blocks (README, "strips markdown, code and URLs before synthesis"), but the
  pipeline applies it to one sentence at a time (`voice.go:415`) and a line break ends a sentence: a
  block of several lines arrives without its fences and is spoken.
- "Only 429 and 5xx retry" (`openrouter/client.go:229`): a 408 and any status outside 4xx and 5xx,
  a redirect for one, are classified as `ErrServerError`, too, and are retried.
- `PollDeviceLogin` "waits until the user confirmed the code (or it expired ...)" (`auth.go:188`):
  it gives up once a pause would reach beyond the expiry, up to an Interval before it.

## 7. Not modelled, and why

What is left is code without a state or a decision that the properties could tell apart: encodings
of requests and answers (`api_types.go` most of all), the conversion of images and audio, routing
options and the list of models, the regular expressions of `Speakable` and of `glob`, the cutting of
a text into words, JWTs and the `auth.json` of another program, path rules and content types of the
file systems, and the commands of the CLI that pass flags to one call of the library (all but
`image`), with the examples.  `CompleteWithRetry` is the loop of `CollectWithRetry` around a call
without a stream.  `vfs/memory` does under one mutex what Storage says; `vfs/embedfs` is read-only.
Nothing is said of how long anything takes, except of sleeps and device codes.

That a `POST /videos` whose answer is lost is sent again, so that two jobs may run, is in VideoJob
but no property can exclude it: the client cannot know.

What the properties leave open of the hazards is noted at each of them in `PROJECT.json`.  `RunEnds`
has runs without tools and assumes that tools come back.  CodexToken has no caller's context, since
the refresh runs without it (`auth.go:257`), and excuses a login whose rotation was lost in an answer
or a crash.  A poll's answer is taken to carry the id of its job.  Sleeps are bounded by their cap;
a product that does not fit an integer is a hypothesis of `SleepsAreBounded`.  `DiskStorage` puts
all files into one directory, so what `MkdirAll` may leave behind (`osfs/storage.go:109-113`) is not
spoken of.

## 8. Plan

What could follow: listings, with a contract of their own; `globToRegexp` as an operator checked
against a definition; the channel between AgentRun and VoiceTurn.
