# Verification of the LLM proxy

TLA+ modules, TLC configurations and TLAPS proofs about the proxy in this
repository: an HTTP server that accepts OpenAI-style requests, resolves a model
name or alias into provider/model candidates, calls them one after the other
until one answers, and relays the answer, complete or as an event stream. Line
numbers below refer to the source files of the repository.

## The system

| part | state it keeps | operations | talks to |
| --- | --- | --- | --- |
| availability tracker, `internal/router/availability.go` | per provider/model pair: health, exhaustion window, last code, failure count; one RW mutex | MarkSuccess, MarkFailure, Get, States, Restore, IsAvailable | called by the router |
| router, `internal/router/router.go` | configuration (models of a provider may be discovered later), providers, tracker | Resolve (alias, `provider:model`, direct name), Models, marks, RestoreAvailability | adapters (discovery), tracker |
| request handlers, `internal/api/chat.go`, `responses.go` | per request: candidate list and position, whether anything was emitted, log record | the complete and the streaming candidate loop of both endpoints | router, adapters, log, client |
| runtime manager, `internal/runtime/manager.go` | atomic pointer to the current snapshot; a mutex around reloads | Reload (load, build, reconcile, swap), Resolve, marks, Models | router, configuration, adapters |
| process, `cmd/llm-proxy/main.go` | signal channels, the listening server | SIGHUP loop, graceful shutdown | manager, HTTP server |
| provider adapters, `internal/provider` | HTTP client, discovered models; a goroutine and a channel per stream | Complete, Stream, Models; classification of errors | upstream, token source |
| token sources, `internal/auth` | cached token of the token command, one mutex | Token | external command, environment, file |
| SSE, `internal/sse` | reader buffer | Read, WriteData | handlers, adapters |
| Responses stream translator, `internal/openai/responses_stream.go` | opened flag, text so far, finish reason, usage | WriteOpening, Translate, WriteClosing, WriteError | Responses handler |
| API types, `internal/openai/*_types.go`, `internal/ir` | none | conversion between JSON documents and the internal form | handlers, adapters |
| configuration, `internal/config` | none | Load, comment stripping, Validate | process, manager |
| metrics, `internal/metrics`, `internal/api/metrics.go` | counters and latency rings per bucket, one mutex | RecordRequest, RecordError, Snapshot | middleware |
| request log, `internal/logging` | an append-only file, one mutex | LogRequest (drops records of cancelled requests, writes none when logging is off, and may fail, which the handlers ignore), redaction | handlers |
| log viewer, `internal/api/ui.go` | identity and generation of the log file, one mutex | read lines since a cursor | browser |
| client authentication, request ids, server assembly, `internal/api` | none | one decision per request | every request |

What is hard in this program:

* Requests run concurrently and share the tracker. A mark overwrites the whole
  record of a pair, so the order of marks decides what is remembered.
* Availability is read when the list is resolved and used when a candidate is
  called, which may be minutes later.
* A reload copies the tracker and swaps the snapshot while requests keep
  marking through whatever pointer they have loaded.
* After the first event a stream must not switch candidates, and a write, the
  upstream or the client may fail at any point.
* The handler learns of the end of a stream by a closed channel, whatever the
  reason was.
* Nothing bounds how long an upstream may take: `http.DefaultClient` has no
  timeout.
* A conversation is rebuilt twice on its way to an upstream, and each adapter
  has a form of its own for it.
* Configuration, constructors and router each decide what a name means.
* A stop signal may come before it is caught, while the listener binds, or with
  streams in flight that never end.
* Cached and discovered data (tokens, models, log cursors) are used after the
  thing they describe may have changed.

What makes each part correct: the tracker's records are coherent, its windows
are bounded and escalate; a handler reports every outcome once, logs once
and shows its client one answer; a reload loses no mark that does not race with
it and no signal; the router's list contains exactly the usable candidates, in
order, and its error code tells why there is none; a token is never used past
its refresh window; a stream's goroutine never outlives its request for ever;
the translator's events nest; a cursor never skips or repeats lines without
saying so; the ring reports the latest samples; a request says upstream what its
document says; a configuration that is accepted works; a stop signal ends the
process, and its exit status tells whether anything was cut off.

## Modules

| module | models |
| --- | --- |
| `Tracker` | the tracker's data type as operators: one tracker is a function from the pairs seen to records. Used by every module below, so each of them runs the same `MarkFailure`, windows included |
| `BackoffSchedule` | `exponentialBackoff`, with its early return, and the capped doubling it should be |
| `Availability` | the tracker as a component: marks of any request, restores of any part, a clock; the schedule is a constant, and `WindowLength` compares it with the one of the code |
| `ClientSession` | abstract: what the client of one request may see |
| `Dispatch` | the candidate loops of both endpoints over a shared tracker: resolution candidate by candidate, calls, failover, streaming, write failures, client cancellation, request log |
| `Runtime` | the manager and the SIGHUP loop: load, build, reconcile and swap as separate steps, interleaved with resolution, lazy discovery and marks through a pointer read earlier |
| `Resolution` | `Resolve`: an alias, `provider:model` or a bare name becomes a list of candidates, reference by reference, while other requests discover models and availability changes |
| `ProviderErrors` | what the adapters make of a failure, as operators: the classification of statuses, error objects, `Retry-After` and network errors, and what a client is told |
| `Conversation` | the conversions of a conversation as operators: client document, neutral form, both upstream forms, and the answer's status |
| `BufferedAnswer` | one request without a stream, from the client's document to the answer or the error: the parse of the handler, and `Complete` of both adapters with the reader of events, line by line |
| `ResponseEvents` | the events of a stream as operators: what they carry and what a client knows after each |
| `ResponseLifecycle` | abstract: what a client of the Responses API may observe of one stream |
| `StreamPipe` | one streaming attempt: upstream, the adapter's goroutine, its unbuffered channel, handler, translator, request context |
| `TokenCache` | the token command, its cache and its lock, with calls that wait, share a token or are cancelled |
| `LogTail` | the log viewer: polling pages, the reader with its cursors and generations, and a file that grows, is truncated, moved, deleted and created again |
| `Metrics` | counters, latency summaries, rings and percentiles, fed by concurrent requests |
| `Jsonc` | `stripJSONComments`, and what its comment says as a scanner that never looks ahead |
| `Configuration` | `Validate`, and what the constructors and the router make of the same configuration, as operators |
| `Process` | the life of the process: start-up, signals, listener, grace window, requests in flight, exit status |
| `AttemptProofs`, `DispatchProofs`, `RuntimeProofs`, `ResolutionProofs`, `StreamPipeProofs`, `StalenessProofs`, `MetricsProofs`, `ProcessProofs` | theorems about ten components: `AttemptProofs` is about `Availability` and `BufferedAnswer`, `StalenessProofs` about `TokenCache` and `LogTail`; their definitions have different names for that reason (`Spec`, `AnswerSpec` and `LogSpec`) |
| `MCAvailability`, `MCDispatch`, `MCRuntime`, `MCResolution`, `MCStreamPipe`, `MCTokenCache`, `MCLogTail`, `MCMetrics`, `MCBufferedAnswer`, `MCProcess` | instances for TLC |

How state and actions correspond to the code:

* `Tracker`: a missing pair reads as the zero record, as a Go map does
  (`Unseen`); a window is an instant or `NoWindow` for a nil pointer. The mutex
  makes each method one step.
* `Dispatch`: `pc[r]` is the place of the handler, `pos[r]` the loop variable,
  `cands[r]` the list Resolve returned, `view[r]` the bytes the client has
  received. `Finish` is the end of every path: the response, then `LogRequest`.
  `logging` is the kind of logger `NewWithLogger` made, fixed for a run of the
  system: a `NoopLogger` writes nothing. A `JSONLLogger` writes nothing for a
  cancelled context, and otherwise its record is appended to `logged[r]` or lost
  (`json.Marshal`, `os.OpenFile` or `Write` fails, `jsonl.go:119-140`; `lost` is
  history). The handlers ignore the error (`README.md:291` of the repository:
  "logger failures do not fail requests"). Of a record the candidate, the retries
  and the kind of status are kept; `retries[r]` is the handlers' `retryCount`,
  which they count apart from the index of the loop. `Consider` is one turn of the loop
  in `resolveSyntheticModel`: availability is read there, under the read lock,
  one candidate at a time. `CallFails` covers the error of `Complete` and of
  `Stream`; both handlers mark first and decide afterwards. `StreamErrors` is
  an error event, which only the Codex adapter sends; its code always permits a
  fallback before the first event. `StreamCloses` is the closed channel: the
  real end, a read error of the OpenAI-compatible adapter
  (`openai_compatible.go:135`) or a cancelled context, which the handler treats
  alike. `WriteFails` is a failed write of any event of the candidate. The two
  endpoints have the same control; their opening and closing events are part of
  the data and closing step. `marks` and `cause` are history variables.
* `ProviderErrors`: a code stands for all spellings its family has in
  `codeFromErrorPayload`; an empty body and one that is not JSON are
  `NoErrorObject`. To `Dispatch` only two things matter in an error, whether its
  code opens a window and whether it permits another candidate, so `Failures`
  has one member for each of the four combinations; `Retry-After` is in
  `Availability`.
* `Conversation`: a part is the place it stands at in the client's document, its
  type in the neutral form, and whether it is empty; that is all the conversions
  look at. A plain string is one part. What is not about roles, parts, images and
  instructions is left out; the code itself drops some of it: names, tool calls
  and refusals of messages have no place in the neutral form (`ir/types.go`), and
  the codex adapter sends neither `max_tokens`, `stop`, `seed` nor the penalties
  (`codex_responses.go:216`), although `docs/spec.md:20` lists them as forwarded.
  An image of a Responses request has the type `input_image`, for which the
  OpenAI-compatible adapter has no form (`chat_types.go:105`): the request ends
  with an error that allows no other candidate, although `README.md:327` calls
  the endpoint one for text and images. `ConversationCarried` states this
  exception.
* `BufferedAnswer`: `document` is the request as parsed, `request` what the
  adapter has made of it, `response` what the upstream answers. The codex upstream
  answers with a stream, which the adapter reads to its end, also behind a
  completed response. A line of it is an item, a blank line, or anything the
  reader skips; `pending` holds the lines of the event being read, and three
  actions distinguish where the stream ends, since only an end behind a whole line
  delivers the pending event as it was meant (`sse.go:46`, `66`, `80`). Several
  lines of data in one event are no JSON any more. A document that is not a chat
  completion is an error without a class, and so is any body of the other
  adapter that breaks off, even that of a 429: its window is lost, and no other
  candidate is tried (`openai_compatible.go:82`). Permission to go on comes from
  the status alone (`errors.go:67`): a quota error object on a 403 opens a window
  but ends the request, although `docs/spec.md:257` counts a "provider-specific
  subscription exhaustion error" among the retryable ones.
* `Runtime`: a snapshot is an entry of `gens` with its tracker in `trackers`;
  `current` is the atomic pointer. A mark is two steps, loading the pointer and
  updating the tracker it leads to. `disk` is the configuration file;
  `asked`, `loaded`, `ideal` and `raced` are history. `ideal` is the tracker
  one would have if it were never swapped; `raced` holds the pairs marked
  through an old pointer or between `Reconcile` and `Swap`.

* `Resolution`: the three functions behind `Resolve` are one loop over
  references; they differ in what an unlisted model and an open window lead to,
  and each action says so. `seen[r]` is the local copy `providerCfg`, `catalog`
  the shared map it is read from under the lock; the upstream request of
  `refreshProviderModels` runs between `Refresh` and `Store` with no lock held.
  The counters of the loops matter only above zero: `skipped[r]` is the set of
  the reasons counted. `closed` stands for the tracker: the pairs for which
  `IsAvailable` answers no. `Discover` may return any list, so nothing rests on
  the adapter's own cache of discovered models. Discovered models have no image
  modality (`openai_compatible.go:304`). `buildProviders` makes an adapter for
  every configured provider or fails, so the arms for a missing adapter cannot
  be reached. A cancelled context is part of `Dispatch`. An alias all of whose
  candidates are in a window is answered with `unsupported_modality` when one of
  them also lacks the modality (`router.go:309`), although `README.md:286` says
  `no_available_model`; `ErrorCodesTell` states what the code keeps. `known`, `always` and
  `ever` are history: the catalog when the request arrived, and the pairs that
  have been out of every window all the time, or at some time, since.
* `StreamPipe`: `pump`, `queue` and `ending` are the goroutine: where it is, what
  it has to send for the event it has read, and whether it returns then. The
  channel has no buffer, so sending and receiving are one step, `Pass`, which is
  also the handler's reaction to the event: it decides what to write (`plan`)
  and then writes event by event, each of which may fail. `ctx` tells a client
  that has left from a request that is over, since both cancel the context but
  only the first can happen while the handler runs. A piece of text is the
  number of the upstream event that brought it. The translator's `opened` flag
  is `emitted`: both become true with the first event. Token usage is left out.
  Adapter and endpoint are chosen in `Init`, so one run covers all four
  pairings. The model ends at the write: in the proxy the writer a handler has
  cannot flush, because `statusRecorder` (`internal/api/metrics.go:44`) hides
  `http.Flusher` from `WriteData` (`internal/sse/sse.go:123`), so when the client
  receives a written event is up to the server's buffer, although
  `docs/spec.md:195` asks for a flush after every event.
* `TokenCache`: every call of `Token` is made once; a request that calls again
  is another caller. The mutex is `holder`. The context is looked at before it
  is acquired and not while waiting, so a cancelled caller keeps waiting.
  `RunCommand` starts the command and `CommandSucceeds` or `CommandFails` ends
  it; time passes in between. `runs` and `issued` are history. Expiries are
  instants or the zero time for a token without one, which is not cached.
* `LogTail`: every creation or truncation begins a new content with a number of
  its own, and a line is its content and its place there, so lines of different
  contents never compare equal. Byte offsets become counts of lines, since the
  reader stops at ends of lines only, and a fingerprint becomes the content and
  the offset: the hash covers the first bytes of the file, and a record begins
  with a time and a request id. An inode may be used again unless a request has
  it open. The mutex is held from `OpenLog` to the response; the file changes
  between the steps in between. A response with an error status and one that is
  lost are alike: `fetch` throws and the page keeps what it has (`Lose`).
  Cursors of the first version, which no page of this version sends, and errors
  of the file system other than a missing file are left out. `raced` is history.
* `Metrics`: the collector's mutex makes each call one step, and the middleware
  records a request when its handler has returned, so its latency is chosen
  then. A bucket without entry reads as zero (`NoSummary`, `NewRing`), and only
  buckets with an entry are in a snapshot. `AnswerError` writes the status and
  counts the code in one step, since the request is recorded after both. Percentiles
  are in percent; `math.Ceil` of the code's floating-point product is the exact
  ceiling for 50, 95 and 99 and every number of samples a ring can hold.
  Redirects, which the proxy does not send, and handlers that panic, which
  record nothing, are left out. `history` is history.
* `Jsonc`: a text is a sequence of the characters the code tells apart.
  `WithoutComments` is the comment of the function as a scanner with one state
  per kind of text; both agree also on texts that end within a string or comment,
  so an unterminated comment behind a complete document is accepted. Positions do
  not stay stable, as `jsonc.go:7` has it: a comment of any length becomes one
  space.
* `Configuration`: a name is one of six shapes, which the code tells apart by
  trimming, by comparing with the empty string, and by cutting at a colon. Both
  older names of the logging mode `invasive` are one. Modalities, numbers and the
  wording of problems are left out; `server` says whether the former are in their
  ranges. `AcceptedServes` lists what `Validate` accepts and start-up or the router
  refuses: a name of a variable or file that is blank but not empty, tokens that
  are only commas or not set, an alias with a colon or a blank around it, which
  no request can name, and the strategy `least_cost_available`, which
  `README.md:260` offers and `router.go:224` always answers with
  `no_available_model`.
* `Process`: `main` is the place in `main` and `serve`; each step of start-up that
  can fail ends the process or goes on. `caught` is what `signal.Notify` has been
  called for: a signal before that kills the process, also a SIGHUP, which later
  reloads. `stop` is the one slot of the channel, `listener` and `listenErr` the
  goroutine in `ListenAndServe` and its channel. `phase[r]` is one connection with
  its request: `Shutdown` waits for those in flight, drops one that has sent
  nothing, and `GraceElapses` is its timeout, after which `Close` and the exit cut
  the rest. What a handler does between `Admit` and `Respond` is `Dispatch`. The
  moment between a connection being accepted and the server counting it, in which
  `Shutdown` may overlook it, belongs to `net/http` and is left out. The file is
  read twice at start (`main.go:56` and `62`), which is taken to give the same
  twice; client authentication and the request log keep what the first read said,
  also through reloads: `bearer` and `logs` are what is left of the configuration.
  `Record` is `LogRequest` as in `Dispatch`, with its three outcomes. `told` and
  `lost` are history.

The operators introduced by a comment "Mutant of ..." are plausible bugs of the
definition after them; the project's bookkeeping file names the property each
of them breaks. They are part of no specification.

## Runs

| run | shows | bounds |
| --- | --- | --- |
| `availability` | `RecordCoherent`, `WindowBounded`, `WindowNeverRetreats`, `WindowLength` | two pairs; time in units of 30 s, so base 1 and cap 10 as in the code; five failures in a row (the fifth reaches the cap); marks at instants 0 to 2, Retry-After at 0 (past) and 3; the clock runs until the last window has ended |
| `dispatch` | `OutcomesReported`, `LogTellsTruth`, `ClientSeesOneAnswer`, `Answered` | two requests, two candidates, the first behind Codex, two events per stream, three instants; logging on and off, any record lost |
| `runtime` | `UnracedMarksKept`, `HupServed` | two pairs, one of a provider with discovered models; two requests, one edit of the file, two SIGHUPs |
| `resolution` | `CandidatesUsable`, `NoneOverlooked`, `ErrorCodesTell`, `CatalogStable` | two providers, the alias prefers the one whose models are discovered; two models, one not in the alias; one provider name that is not configured; two requests for anything, two openings or endings of windows; requests are interchangeable |
| `stream_pipe` | `TextFlows`, `SuccessIsWhole`, `NothingAbandoned`, `LifecycleKept`, `NothingLeftRunning` | both adapters behind both endpoints, four upstream events |
| `token_cache` | `NeverStale`, `RefreshShared`, `EveryCallEnds` | three calls, a refresh window of 1, instants 0 to 3 |
| `log_tail` | `ShownIsBeginning`, `ResetsForAReason`, `CatchesUp` | one page, contents of two lines, one line per response, two inodes, two truncations or removals, one restart |
| `buffered_answer` | `ConversationCarried`, `WholeAnswer`, `RejectionUnderstood` | documents of two messages, the first of up to two parts, over six roles and six kinds of part; eleven statuses, error objects with five words as code and as type, five `Retry-After` headers; five lines of the codex upstream |
| `metrics` | `RingHoldsLatest`, `PercentilesRight`, `CountedOnce` | five requests, a ring of three, three latencies, nine percentiles; requests are interchangeable |
| `process` | `CommentsStripped`, `AcceptedServes`, `CleanExit`, `StopsWhenTold` | texts of five characters, configurations that vary one part of a good one, some with logging on; two requests, any record lost |

Two requests are enough for a race on one pair: a mark touches one pair and
reads nothing else. Two candidates give first, next and last; two events give
first and later. Two SIGHUPs give one that starts a reload and one that arrives
while it runs; with one edit the second reload may read the same file or a new
one. In `resolution` one discovered provider is enough for two discoveries at
once; two changes of windows open one behind the loop and end it, or open one
behind and one ahead. Four upstream events give text, more text or its
repetition, a finish reason and a failure in any order. Of three calls for a
token one refreshes, one shares or waits, and one comes when the window has been
reached; expiries range from inside the window to beyond the end of the clock.
Five lines give two events and an end within a third, or an event of two lines
behind one that completes. Two messages of two parts and one give texts to join
and instructions before, behind and between what is said. Five characters give a
comment that opens, a star or an escape that deceives, and a close; the parts of
a configuration are checked apart from each other by the code too, except for
aliases and providers, which vary together. Of two requests one drains and one
stays. In
`log_tail` a second page would only move the reader's generation behind the back
of the first, and a lost response does that too; two upsets give a file that is
replaced and then truncated, and one replaced twice, with the first inode back.
In `metrics` five latencies fill a ring of three and overwrite two of them, and the
percentiles lie on, just below and just above the ranks of one, two and three
samples; what is true of size three the theorem says of 128.
Time is discrete; the code compares instants only by order, so units of
the backoff base lose nothing but the interleaving inside a unit, which marks
at one instant cover.

Runs that find a statement of the documentation violated:

| run | statement | what happens |
| --- | --- | --- |
| `dispatch_broken` | `docs/spec.md:199`, an upstream failure mid-stream is shown as an error event | the OpenAI-compatible adapter closes the channel on a read error, the client sees a normal end and the candidate is marked as healthy |
| `runtime_race` | `manager.go:201`, unchanged pairs keep windows and counts | a mark between the copy and the swap goes to the old tracker |

One more disagreement is on record without a run: `docs/spec.md:539` says "Mark
candidate unavailable until backoff expiry", but the failure of a request that
was already calling the candidate, with an error that opens no window,
overwrites the window by none (`availability.go:78`). `RecordCoherent` and
`WindowNeverRetreats` state what is kept instead.

Deadlock checking is off in all runs: the clocks and counters are bounded, and a
proxy whose requests are all answered has nothing to do.

## Fairness

* `Dispatch`: weak fairness of each request's handler. A goroutine that can run
  is scheduled; that an upstream eventually answers, closes or fails is an
  assumption about the environment, since the code sets no timeout
  (`docs/spec.md:198` asks for one). `Answered` says nothing of a request whose
  upstream stays silent: it waits until its client leaves. Clients, and the clock,
  owe nothing.
* `Runtime`: weak fairness of the reload loop, with the same assumption about
  the discovery requests of a build. Marks, edits and signals owe nothing.
* `StreamPipe`: weak fairness of the goroutine's and the handler's own steps,
  and of a failing read once the context is cancelled: the upstream request is
  made with that context (`http.NewRequestWithContext`), so the transport ends
  the read. An upstream with a live context owes nothing, not even an end, and
  neither does the client. `RequestEnds` is fair: a handler that is done with
  this attempt answers eventually, which is what `Answered` of `Dispatch` says.
* `Process`: weak fairness of `main`, of the listener's goroutine except for its
  failures, and of the grace window, which is a timer. Clients owe nothing, and
  neither do handlers: `StopsWhenTold` holds with a stream that never ends.
* `TokenCache`: weak fairness of each call's steps, which include the end of a
  command that runs; the code sets no limit. That a waiting call gets the mutex
  is what `sync.Mutex` promises, and follows here because a call takes it once.
* `LogTail`: the timer of a page keeps asking, the reader's steps are fair
  (strongly, since a file that disappears and returns disables them), and a page
  that keeps asking gets a response now and then. The file and the user owe
  nothing; `CatchesUp` assumes that nobody presses the button for ever.

## Proofs

`AttemptProofs` proves of the tracker, for every set of pairs, every set of Retry-After
instants and every schedule that satisfies `BackoffAssumption` (durations
bounded by `MaxWindow` and monotone in the number of failures):

* `TypeCorrect`, `Coherent`, `Bounded`: the three invariants of the run.
* `NeverRetreats`: the action property `WindowNeverRetreats`.
* `ScheduleFits`: `exponentialBackoff`, for every positive base and every even cap
  not below it (`BackoffDurations`; the code has 30 seconds and 5 minutes), is within
  the cap and monotone for any number of failures, so the schedule of the code
  satisfies `BackoffAssumption` and the three others apply to it.
* `WindowsDouble`: with that schedule every window has the length
  `WindowLength` states, the capped doubling.

The inductive invariant is `IInv == TypeOK /\ RecordCoherent /\ WindowBounded`.
`WindowBounded` is not inductive alone: a tick adds one to the clock and keeps
the window, so the bound has to be known to be a number, which needs a failure
count of at least one, which `RecordCoherent` gives for a record with a window.
A mark replaces one record by one described in `FailureRecord` or
`SuccessRecord`, and `PutKeepsIInv` says that storing a good record keeps the
invariant. `NeverRetreats` follows because the old window is within the backoff
of the old count, the new one adds the backoff of a larger count to the same
instant, and the schedule is monotone. The schedule itself is a loop, a function
defined by recursion: `ScheduleIs` shows that it satisfies its equation and that the
early return at half of the cap yields what multiplying and cutting off would
(`Doubling`, `PowerDoubles`).

And of `BufferedAnswer`, for every set of documents and rejections and any number of
lines from the codex upstream:

* `AnswersWhole` (`WholeAnswer`) and `RejectionsUnderstood`
  (`RejectionUnderstood`);
* `ConversationsCarried` (`ConversationCarried`), for conversations of any length.

`BufferedAssumption` only types what clients and upstreams may send. `WholeAnswer`
speaks of a request that has returned, the adapter reads line by line, so the
invariant says what it has understood so far. `Absorbed` says of a set of lines that
each was an event of its own and no failure (`Clean`), that a text is their pieces in
order (`Gathered`), and that `final` is the text at their last completion. While the
stream runs it holds of the lines that a blank line has closed, and `pending` is the
lines that are still open (`PendingOpen`); behind the end it holds of the lines
heard, which include the open ones or not depending on where the end fell
(`HeardAtEnd`). `Takes` adds one event, and needs that an open line comes behind all
closed ones with a blank line between (`OpenBehind`). Lines joined into one event are
why an attempt may fail without a failure sent: `UnusableEnds` finds them.
`RejectionsUnderstood` needs that no other way to end looks like a rejection with its
body (`Untouched`, `Asking`); the rest is `RejectionClassified`, from the status and
the words of a rejection through the classification to the tracker's window and to the
client's status. For `ConversationsCarried` the invariant, `Carrying`, only says where
the request comes from; the argument is about the conversions. They filter messages and
parts and put them one behind the other, so the lemmas say what `SelectSeq` and
`FlattenSeq` yield for sequences of any length: what is selected is there once and in
order, and each part of the result comes from one part of one message.

`DispatchProofs` proves, for every set of requests, every candidate list,
adapter assignment and schedule, and every bound on events and instants:

* `TypeCorrect`, `AllReported` (`OutcomesReported`), `AllRecorded`
  (`LogTellsTruth`): the invariants of the run. The last is proved for a log that
  is off, and for every choice of records that are lost.
* `ImplementsSession`: each request's handler implements `ClientSession`, the
  property `ClientSeesOneAnswer`. The refinement mapping is `view[r]`, the bytes
  the client has received; every step of `Dispatch` is a step of the session or
  leaves it alone.

What a handler has done follows from where it is, so the inductive invariant
is the type invariant and a conjunction `Local(r)` per request: `ViewAgrees`
(nothing has been sent before a stream begins, and a stream that began is one of
the candidate at `pos[r]`), `Reported` (as many failures as candidates left
behind), `Recorded` (nothing is logged or lost before the handler returns, and
`retryCount` is one less than the position in the list) and `ListAgrees` (`Resolve` adds at most one candidate per
turn). `OutcomesReported` alone is not inductive: a handler at its last step
must know that no earlier report was a success, and whether a write has begun.
A step moves one handler, and `FrameIInv` says once that the others keep their
conjunct; each lemma about an action then shows `Local` of the handler that
moved.

`RuntimeProofs` proves, for every set of pairs, requests and discovered pairs,
every schedule and any number of edits, signals and reloads:

* `TypeCorrect`: every pointer a request holds leads to a snapshot, and a
  snapshot knows nothing its configuration lacks.
* `MarksSurviveReloads`: the invariant `UnracedMarksKept`.

`UnracedMarksKept` compares the tracker in use with `ideal`, one that is never
swapped. Between `Reconcile` and `Swap` the new tracker exists only in the
loop's hands, so the inductive invariant adds `KeptAgrees`: what the loop
carries is `ideal` cut down to the pairs the new snapshot knows, for every pair
not marked meanwhile. `NewestServed` adds that the pointer leads to the last
snapshot built, without which the index of the new tracker is unknown.
`SuccessIsLocal` and `FailureIsLocal` carry the argument for marks: they change
the record of one pair only, and make equal records out of equal records.

`ResolutionProofs` proves, for every set of requests and models, every sequence
of providers, every alias and every initial catalog:

* `TypeCorrect`, and `FirstDiscoveryStays` (`CatalogStable`);
* `Usable`, `NoneMissed`, `CodesTell` (`CandidatesUsable`, `NoneOverlooked`,
  `ErrorCodesTell`), which assume that the strategy is `first_available`. The
  other one the configuration accepts, `least_cost_available`, makes `Resolve`
  answer `no_available_model` whatever is available (`router.go:224`), and the
  second property false.

What a resolution decided about an earlier reference may be false by the time
it ends, so the invariant talks about history. `Bracketed`: what is in
`known[r]` is still in the catalog, and what is available now is in `ever[r]`
and, if it has been available all along, in `always[r]`. `Collected` describes
the candidates so far, `NothingMissed` the references passed over: each was in
a window at some time, unsuitable, or not in the catalog on arrival.
`ReasonsHold` justifies every member of `skipped[r]`, and `Kept` and `Told`
carry these facts to the end. A step moves one request; `OthersKeep` says that
growth of the catalog preserves the facts of the others.

`StalenessProofs` proves of the token cache, for every set of calls, every refresh
window and every expiry a command may give:

* `TypeCorrect`, with the mutual exclusion of the calls behind the mutex;
* `OneRefresh` (`RefreshShared`) and `TokensFresh` (`NeverStale`).

`NeverStale` speaks of what a call returned, the code decides by what is cached:
`CacheAgrees` ties the two, the cache holds the newest token and its expiry.
`RefreshShared` needs to know why a command runs. `RunsForAReason` says that
while one runs no token is outside its window; only the call that runs it could
issue one, so this lasts until it ends, however long that takes.

And of the log viewer, for every set of pages and inodes, every page limit and any
number of lines, truncations, moves, deletions and restarts:

* `LogTypeCorrect` (`LogTypeOK`): one request reads at a time, and closes the file;
* `PageShowsBeginning` (`ShownIsBeginning`) and `StartsOverForAReason`
  (`ResetsForAReason`), an action property.

A page and its cursor agree (`CursorFits`), and the lines of a request in flight
continue what the page shows, or begin anew (`LinesFit`), unless the file was
truncated under it (`overtaken`). What makes the check of the fingerprint enough is
that a content once gone from the path never returns, whatever inode comes next:
`Onwards` says so of every step but a restart, and `GoneStaysGone` draws the
conclusion. `Known` is what a cursor then guarantees as long as its content is at the
path: the file holds all its lines, and a cursor of this reader has its generation,
since the reader has observed nothing else meanwhile. So each of the ways to start
over (`OpenLog`, `CheckFingerprint`, `StatPath`, `Close`, a missing file) is possible
only without that content (`ResetJustified`). A restart is not `Onwards`: it forgets
generations, and the new reader's name is what keeps old cursors from being trusted.

`MetricsProofs` proves, for every size of the rings, any finite number of requests
and any latencies:

* `TypeCorrect`, by which no position leaves its ring;
* `LatestHeld` (`RingHoldsLatest`);
* `CountsAgree` (`CountedOnce`);
* `PercentilesNearest` (`PercentilesRight`).

What a ring reports says nothing of the slots beyond `next` while it is not full,
and depends on `next` once it is. `Placed` says for each slot which latency is in
it: slots before `next` hold those of this lap, the others, once the ring is
full, those of the lap before. `AddKeepsPlaced` is the step, with the wrap as a
case of its own, and `LatestHeld` follows by reading the slots in order.
`CountsAgree` rests on `Counted`: the counter of a bucket is the number of requests
that ended in it, an error counter is at most the number of requests answered with
its class, and a summary is that of the latencies recorded (`Summed`), its sum
between their number times the least and times the greatest. Each step adds one
request to one of the sets counted or none, and the bound on the sum puts the mean,
an integer division, between the extremes.
`PercentilesNearest` is about the place of a latency among the sorted ones, which the
model states as a count of those not above it. That a latency of the rank asked for
exists is shown without induction over the count: the latencies whose rank is high
enough are a finite set that is not empty, and a finite set of numbers has a least
member because the order by strict inclusion of its subsets is well-founded
(`Least`, `Greatest`). `RankBetween` is the arithmetic of the rank, rounded up.

`StreamPipeProofs` proves, for either adapter behind either endpoint and any
number of upstream events:

* `TypeCorrect`, `TextInOrder` (`TextFlows`), `SuccessWhole` (`SuccessIsWhole`)
  and `NoneAbandoned` (`NothingAbandoned`);
* `ImplementsLifecycle` (`LifecycleKept`): what a client of the Responses API
  observes is a behaviour of `ResponseLifecycle`. The refinement mapping is what
  the client knows after the last event written.

A piece of text is in one of four places, and the invariant says which: written,
in the handler's plan, in the goroutine's queue, or still upstream. `QueueOK` and
`PlanOK` describe the two in the middle, each of which may hold one delta, as
the last event of the plan and the first of the queue. `Flow` says that what was
written, and the translator's copy, is a beginning of the text; `Sync` that
nothing lies outside the four places as long as both sides run. `Ends` says how a
codex stream may end, without which a closed channel could not tell a finish from
a failure, and `Outcome` ties the report to the end. The refinement needs one
more invariant, `Order`: the plan, read behind what the client has seen, is a
chain in which each event fits the one before. `ChainJoined` makes such a chain
out of two, and the handler's step appends closing events to opening ones.

`ProcessProofs` proves, for every set of requests, files and configurations:

* `TypeCorrect` and `ExitsClean` (`CleanExit`);
* `AcceptedWorks` (`AcceptedServes`);
* `CommentsGone` (`CommentsStripped`), for texts of any length.

`CleanExit` says nothing of a running process, so the invariant adds what leads
there. `ServesPrepared`: whoever serves catches stop signals, and before that there is no
listener and no request. `ClosesOnDemand`: a listener closes in order only behind a
stop signal. `RequestsSettled`: nothing is cut while the process lives, a request that
has returned while logging is on is recorded, its client gone or its record lost, and behind `Drained` nothing is in
flight, which no later step undoes because the listener is closed. For
`AcceptedWorks` the invariant is `StartsSound`: a process that has a configuration
was refused only for a reason `Validate` cannot see, since each constructor asks for
no more than `Validate` did (`ProvidersBuild`, `AuthBuilds`, `LoggersBuild`), and its
catalog lists the models configured, if any are. From there `AliasServes` follows the
router through an alias: the verdict is that of its first rejected candidate, and the
only rejection left is a model that the upstream did not list. `ProcessAssumption`
says that the candidates of an alias are a sequence, `FilesAssumption` that a file is a
sequence of the characters `stripJSONComments` tells apart. For `CommentsGone` the
invariant is that the text was stripped from the file (`TextRead`); the rest is
`StripsComments`, an equivalence of two algorithms. The code strips a text by looking
ahead: at a quote for the end of the string, at a comment for the end of the comment.
The scan reads one character at a time and remembers its mode. Along a string both write
what they read (`StringScanned`, whose invariant holds of every position within one);
along a comment the scan writes nothing (`LineScanned`, `BlockScanned`) and leaves it
exactly where the code has found its end. So from each position that is in no string and
no comment on both write the same, by induction from the end of the text.

Induction is not to be had from a theorem that takes an operator, which none of the
provers can instantiate. It comes from the well-foundedness of the numbers instead, for a
property given as the set of the numbers that have it: the set of those up to `n` that
have it not would have a least or greatest member (`LeastNatural`, `InductionTo`,
`Downward`). What a function defined by recursion, a fold or a `FlattenSeq` is, is shown
in the same way: there is a function that satisfies the equation, hence the one chosen
does, and from there on only the equation is used (`ScheduleIs`, `Scanned`,
`StringEnds`, `StripRules`).

TLC only: `Answered`, `HupServed`, `NothingLeftRunning`, `EveryCallEnds`,
`CatchesUp` and `StopsWhenTold`, since liveness takes fairness and `ENABLED`, about which
the provers know nothing.

## Not modelled

* Sampling parameters, tools, usage and the fields of a document that are passed
  on unread: field by field copies without a decision.
* Redaction, transcripts and images in the request log, request ids, the list
  of models, the health endpoints, the browser page: stateless, and one value at a
  time.
* Parsing of flags, and the wording of errors and problems.
* The iteration over the providers in `Models` behind a released lock
  (`router.go:136`), a data race on which any outcome is possible.
* The bytes between a written event and the client, see `StreamPipe` above.
* A log file truncated in place while a response is read from it, which may mix
  two contents (`ui.go:539`): `ShownIsBeginning` leaves such pages out.
* A candidate whose window opened after it was resolved is called nevertheless
  (`router.go:288`): the handlers do not look at availability again, and the
  documentation only says that resolution skips. A discovery that fails during a
  reload drops the availability of its provider's pairs (`manager.go:180`);
  `UnracedMarksKept` follows the code there.

## Plan

What remains worth stating: that `Resolution` implements the resolution step of
`Dispatch`; the redaction of the request log.
