# Verification of the GHCP pool gateway

The gateway (`internal/gateway`, Go) pools several GitHub Copilot accounts and
serves OpenAI-, Anthropic- and Gemini-style HTTP requests from them. This
directory models it in TLA+, checks the models with TLC and proves their most
important safety properties with TLAPS.

## 1. Inventory of the system

| Component | State it keeps | Operations | Interacts with |
|---|---|---|---|
| Account pool (`pool.go`) | per account: enabled, cooldown, failures, slots in flight, RPM bucket; global bucket; id map | TryAcquire, Release, RecordSuccess/Failure, ClearError, AddAccount, RemoveAccount, SetEnabled, ConfigureRateLimits, RebuildBackend | router, gateway, admin endpoints, registry |
| Router (`routing.go`) | route table, round-robin counter | CandidateAccounts, Select, SelectExcluding, pick | pool, registry |
| Gateway (`gateway.go`) | per request: plan, excluded ids | Prepare(WithWait), CompleteResult, CreateEmbeddings, StreamChat/Responses/Anthropic, Startup, Shutdown | everything |
| HTTP server (`server.go`) | none beyond Go's `net/http` | request handlers, admin handlers, writeStream | gateway, pool, login |
| Copilot backend (`copilot_http.go`) | SDK client, ready flag | Start, Close, ListModels, Chat with retries and repair, ChatStream | SDK process |
| SDK stream (`copilot_sdk_stream.go`) | reducer, timers, pending tools | streamSDKSession, applyStreamOutputConstraints | SDK callbacks, gateway |
| Structured output (`structured_output.go`) | schema cache | synthetic tool, parse, validate, repair | backend |
| Response cache (`cache.go`) | LRU + TTL map, counters | MakeKey, Lookup, Store, Clear | gateway |
| Response store (`response_store.go`) | stored responses by id | Store, Get, Update, Delete | server |
| Model registry (`registry.go`) | model to account index | Refresh, RefreshAccount, RefreshLoop | backends, router |
| Usage (`usage.go`) | SQLite/in-memory rows, counters | Observe, Record, summaries | gateway |
| Usage sink (`usage_sink.go`, `usage_sink_azuremonitor.go`) | bounded buffer, batch, dropped counter | Emit, Close, worker | Azure Monitor |
| Login (`login.go`) | device flows | Start, Poll, SetToken, Logout | pool, GitHub, Key Vault |
| Persistence (`model_map.go`, `homes.go`, `keyvault.go`) | files, secrets, vault clients | save, load, resolve, forget | login, admin |
| Debug capture (`debug.go`) | ring of HTTP exchanges | record, Entries, Clear | server |
| Conversions (`openai.go`, `gemini.go`, `attachments.go`, `types.go`, `util.go`) | none | translation of requests, answers and streams | handlers |
| Configuration (`config.go`), authentication (`auth.go`), endpoints | settings | load, validate, authenticate | startup |

What is hard in it: every HTTP request is a goroutine, the account's state is
under one small mutex per account and every look at it is a critical section of
its own; a stream outlives the handler's interest in it when the client leaves;
SDK callbacks race with timers and cancellation; administrative calls replace
accounts, backends and buckets under running requests; usage events are queued
without blocking; files are written without a lock; and one conversation has
four spellings, each with a streamed and an unstreamed answer.

What makes each part correct:

- pool, router, gateway: a slot taken is given back exactly once on every path;
  no account serves more than `max_concurrency`; a failover never returns to an
  account id that has failed the request; every request is answered, also through
  the busy wait; an account that is withdrawn drains.
- streams: the slot is freed however the stream ends; what is recorded, stored
  and cached describes what was delivered; streaming does not change the answer.
- streamed turn: one terminal item, each tool call once, no blocked callback, no
  send on a closed channel, and an end.
- collected turn: no answer that breaks its format, no call lost or doubled,
  the usage of a rejected answer billed with that of the one passed on, and an end
  once the session is open.
- administration: an account of the pool can always serve, no client process is
  left behind, a logout takes the token away, the index follows the pool.
- usage: no event lost without a trace or posted twice; Close flushes.
- cache: a hit belongs to the caller, is fresh, and answers the same question;
  the least recently used entry goes.
- files and stores: what memory says is what a restart finds; a home that was
  deleted stays away.
- conversions: the model is shown the whole conversation, the system's words first
  and the rest in order, with results joined to their calls.

## 2. Plan and state

| Modules | Model | State |
|---|---|---|
| `SlotPool` (abstract), `AccountPool`, `RequestServing`, `RequestServingProofs` | admission, failover, membership | done; safety and refinement proved |
| `StreamServing` over `AccountPool`, `StreamServingProofs` | streams and disconnects | done; safety proved |
| `UsageSink`, `UsageSinkProofs` | metering, sink, shutdown | done; safety proved |
| `ItemStream` (abstract), `SDKStream`, `SDKStreamProofs` | the SDK's streamed turn | done; panic freedom and the refinement proved, the end model-checked |
| `SessionTools`, `CollectedTurn`, `AnswerProofs` | collected answers, structured output | done; format, billing and calls proved, the end model-checked |
| `Administration`, `AdministrationProofs` | client life cycle, registry, login, administrators | done; safety proved, convergence of the index model-checked |
| `ResponseCache`, `StoreProofs` | LRU with TTL | done; safety proved |
| `ModelAliases`, `HomeRegistry`, `DebugRecorder`, `KeyVaultClients`, `StoreProofs` | files and stores | done; safety proved |
| `AnswerStream`, `AnswerProofs` | the four protocols' streams | done; that they agree with the unstreamed answers proved |
| `Conversation`, `AnswerProofs` | conversations to prompt and images | done; the whole conversion proved |
| `SequenceLemmas` | folds, flattening, least elements, removals and suffixes of sequences | done; what the proofs share |

Every safety property of the passing runs is a theorem; what is left to TLC is
liveness, as the end of section 6 says.

## 3. Modules and the code

**SlotPool** is the promise of the pool in a few lines: clients hold slots of
accounts, an account never has more holders than its `MaxConcurrency`, and a held
slot is given back.

**AccountPool** (`pool.go`) has one object per `Account`; an id may be carried by
several objects over time (an account removed and added again), because running
requests keep the object they acquired. Every critical section under
`Account.mu` or `PoolManager.mu` is one step: `Admit`/`Refuse` (TryAcquire),
`ReleaseSlot`, `RecordSuccess`, `RecordFailure`, `ClearError`, `SetEnabled`,
`RemoveAccount`, `AddCheck`/`AddInstall`/`AddStarted`/`AddStartFails`
(AddAccount is not atomic in the code), `ConfigureAccount` and `ConfigureGlobal`
(ConfigureRateLimits goes bucket by bucket). Cooldown is counted in ticks up to
`MaxBackoff`; token buckets are counted in whole tokens that refill one at a time.

**RequestServing** (`routing.go`, `gateway.go`, `errors.go`) has one goroutine
per `Request`. `pc` follows PrepareWithWait, Prepare, Select, the global bucket,
TryAcquire, the backend call, CompleteResult's release and failover, and the poll
every 200 ms. Which candidate a strategy picks is a free choice, so the results
hold for each strategy. Backend errors are the classes that
`isNonRetryableBackendError` (`errors.go:27`) and `isRateLimitError`/`RecordFailure`
(`pool.go:583`) tell apart; the two are separate lists of strings, and an error that
is on one of them only is not represented. A client may leave a chat that waits;
embeddings do not wait. `EveryRequestAnswered` needs the deadline of the busy wait,
which is counted in polls.

**StreamServing** (`gateway.go` StreamChat, StreamResponses, StreamAnthropic,
consumeStream, emitSSE; `server.go` writeStream) has for each stream the producer,
the handler, the backend's channel and the client. `left` counts the chunks of a
phase, so that a disconnect can come between any two of them. A backend's channel
ends with a terminal item, or breaks off without one: after the client left, or when
Send fails after the SDK raised the end of the turn (`copilot_sdk_stream.go:113`), in
which case the producer completes and caches what it has. An account is selected in
one step here; the details are in `RequestServing`.

**ItemStream** states what `Backend.ChatStream` promises. **SDKStream**
(`copilot_sdk_stream.go`, `chatStreamSDK`) has the SDK's callback goroutine, the
session goroutine, the settling goroutine and the filter
(`applyStreamOutputConstraints`) with the two unbuffered channels between them.
Texts are abstracted to whether a delta is passed or cut (stop sequence,
max_tokens). A send on the closed `raw` sets `panicked`.

**SessionTools** and **CollectedTurn** (`copilot_http.go`, `structured_output.go`)
are an answer that is collected before it is passed on. `SessionTools` decides
which tools a session declares, allows and talks about; `CollectedTurn` has the
SDK's callbacks, the select of `sendSDKAndCollect` over idle, tool call, error and
timer, the settling after a tool call, the retries of `retryTransientChat`, the one
repair of `chatSDKStructured`, and the usage arithmetic. A text is the class that
`extractJSONPayload` and the validator put it in. A call has an id and a tool, so two
calls of one tool are two calls, and one without a ToolCallID goes by its tool's name.

**AnswerStream** (`gateway.go`, `openai.go`, `gemini.go`) makes the events of each
protocol from a backend's items or from a cached record, and a client that builds
an answer from them; the reference is the protocol's answer without `stream` for the
same text, calls and finish. (That a backend may end a stream and a collected answer
at different places of the same text, `applySDKOutputConstraints` against
`applyStreamOutputConstraints`, is not part of it: the first is in `CollectedTurn`,
the second in `SDKStream`.) `ReplayOutput` is built beside the events, as the code
appends to `output`, and a channel may be closed without a done item, which the
gateway completes. **Conversation** (`openai.go`, `gemini.go`, `types.go`, `backend.go`,
`attachments.go`) takes the messages of each protocol to chat messages, neutral
messages, the prompt and the attached images; a piece of a conversation is its
place and its kind, and for calls and results the id and the tool's name. System
messages may come at any turn; `renderPrompt` puts them first. A Gemini call without
an id goes by the name of its tool, which several calls may share.

**Administration** (`pool.go`, `registry.go`, `login.go`, `copilot_http.go`,
`server.go`) has a goroutine per administrator, one for the refresh loop, and
requests that start a client on demand. Each handler is a list of steps, `todo`,
written once beside its code; a step is one critical section or one external
call. Accounts, backends and device flows are numbered objects, since goroutines
keep using them after they left the maps. `PooledBackendUsable` is about the
`Start` that marks a backend ready after it let go of the lock; `raced`, `cleared`
and `crossed` are history that only properties read. The token of a backend comes,
in this order, from memory, from `Token`/`TokenEnv` of the configuration, from the
Key Vault, or from the environment (`ResolveToken`); a vault without the secret is an
error. A creation stores its token before it finds the id taken and is refused.

**UsageSink** (`usage.go`, `usage_sink.go`, `usage_sink_azuremonitor.go`,
`main.go`) has requests that record a row, which any store may refuse, and then emit
an event whether or not it did, the worker's select, and the shutdown order of
`main`. **ResponseCache** (`cache.go`) has the
list and the map under one lock, used by clients that look up, compute and store.

**ModelAliases** (`model_map.go`, `gateway.go`, `config.go`) writes the alias file
inode by inode: every writer truncates the same temporary file, writes, and renames
it; a restart merges the file into the configured aliases. **HomeRegistry**
(`homes.go`) is an index saved whole under one lock, with failing saves and
restarts. **DebugRecorder** (`debug.go`) and **KeyVaultClients** (`keyvault.go`) are the
stores with their callers, which read, compute and write in separate steps.

**MCRequestServing**, **MCStreamServing** and **MCAdministration** are the
instances for TLC. **MCParts** puts parts that share no state into one
specification: `part` says in which of them a behaviour plays, and the others
stand still in one initial state, so the state spaces add up and do not multiply.

## 4. Runs

| Run | Question | Instance |
|---|---|---|
| `serving_failover` | Are slots accounted on every path of calls, failover and busy wait? | 2 accounts with one slot and one token each, a chat and an embeddings request, a global bucket, cooldowns of one tick, refills, reconfigured limits |
| `serving_members` | Under disabling, removal and re-adding: is the bound kept, does a failover move on, is every request answered, does a withdrawn account drain, is `SlotPool` implemented? | 3 objects for 2 ids, a chat and an embeddings request, one poll of the busy wait |
| `stream_serving` | Where can a slot leak, is what is recorded what was delivered, does a client that leaves free its slot? | a chat and a Responses stream, one account with 2 slots, a shared cache key, 1 delta |
| `stream_leak` (violated) | Is the slot free when the stream has ended? | as `stream_serving` |
| `turn` | Are the items what ChatStream promises; can a turn panic; does anyone stay blocked? | 2 events of any kind with up to 2 requests for tools, 2 tools and an internal one |
| `turn_timeout` (violated) | Does a turn end that waits for the SDK? | one event |
| `usage_events` | Are events conserved, posted at most once and only after their row was offered to the store, flushed by Close; does the process end? | 4 events, buffer and batch of 2 |
| `administration` | Can every pooled backend start; do clients leak; does a logout hold; is the vault ahead of memory; does the index converge? | six scenes, one user, one failure |
| `parts` | The cache, the alias file, homes, the debug ring, vault clients, collected turns, answer streams and conversations, each on its own | below |
| `cache_exact` (violated) | Does a hit answer the same question? | two questions that differ in the rest of their messages |
| `schema_prompt` (violated) | Does a caller's schema reach the model? | the collected turn of `parts` |
| `image_dropped` (violated) | Is every image forwarded or refused? | the conversations of `parts` |

The scenes of `administration`: two handlers that do three token operations or
completions between them; two that enable, disable, create and delete; two that
create, delete, set one of two tokens and log out while the token is in a Key Vault;
two that set a token and log out while the environment has one; one that does so
while the configuration gives one beside the vault; and one beside the refresh loop.
The parts of `parts`: two clients sharing a cache of two
entries; two alias updates, a failing write and one restart; two homes with one
failing save and restarts; a ring of two records; three callers of one vault; five
requests that differ in format and tools, collected over three events a session with
two calls of one tool, one of the reserved tool and one of an internal one; every
answer of up to three runes and two calls in four protocols, live, from the cache and
broken off; every conversation of up to three turns and five pieces. It has 1.35
million states and takes two and a half minutes.

**Bounds.** Two contenders for one slot are enough for every race between two
critical sections; a third object is needed only to re-add an id
(`serving_members`). One token per bucket makes every second admission hit the
limit. `MaxBackoff` of one tick distinguishes cooling from not cooling;
`serving_members` and `stream_serving`, whose questions are not the cooldown, have
`MaxBackoff = 0`. `MaxPolls` of one gives a request that is told to wait one more try
and then the deadline. One delta gives a disconnect before, at and after each chunk. Two SDK events cover two
calls in every order and repetition, in one message or two, an end after a text
with calls, and an end followed by a late event; in a collected turn three events
cover a message, its usage and its end in any order, and each session of a retry
or repair has its own three. With a buffer of two, four events fill it while a
batch is being posted. Two cache entries force an eviction whose victim is not the
newest. `MaxRunes` of three with a `ChunkSize` of two (24 in the code) gives an
empty text, a full chunk and a rest. Three turns and five pieces are a call, its
result and a message after it, with a piece of another kind on each side, or two
calls that share a name and the results of both. Three operations in a scene allow a login, the token operation that overlaps it, and one
that comes later.

The constants `MaxBackoff`, `MaxPolls`, `MaxDeltas`, `MaxEvents`, `MaxTools`,
`MaxTurnEvents`, `MaxRunes`, `MaxCalls`, `MaxTurns`, `MaxPieces`, `MaxHomes`,
`MaxHomeFaults`, `MaxRestarts`, `MaxFaults` and the `ops` of a scene are bounds of
the model; the others are settings of the program.

**Fairness.** A goroutine that can take a step eventually does (`WF` per request,
per producer, per administrator, for the sink's worker, for main and for the
refresh loop): Go's scheduler promises no less, and the loop's ticker never stops.
Backend calls of `RequestServing` are assumed to return and uploads to end, because
they have time limits (`sendSDKAndCollect`, the 30 s HTTP client of the sink); the
opening of a session has none (`copilot_http.go:438`), so for a backend call the
assumption includes that CreateSession and Start return. `CollectedTurnEnds` does not
assume that: it says that timer, retries and repair come to an end without any event
of the SDK, so that the turn has ended or waits for a session that is never opened. `IndexConverges` assumes that Start and ListModels return, which have no time
limit in the refresh loop, and `ShutdownEnds` that stopping a client does
(`pool.go:461`). For the streamed turn no such limit exists and none is assumed:
`turn_timeout` is the consequence. `GoneClientFreesSlot` assumes that a backend
whose context is done closes its channel, and that one does so after its terminal
item; `NobodyStaysBlocked` of run `turn` is what justifies it. No fairness is
assumed of clients, of administrators' requests, of the clock, of the SDK's events
or of interrupts.

`CHECK_DEADLOCK FALSE` stands only where the modelled process really stops: a
turn that is over, a process that has exited, administrators with nothing left to
do, a part whose operations are used up.

## 5. Disagreements with the documents

1. `stream_leak`: StreamResponses sends two events before it defers the release
   of its account (`gateway.go:373` and `:407`). A client that leaves during them
   keeps the slot taken for ever; StreamChat and StreamAnthropic defer first.
   `LeakOnlyWhileOpening` shows that this is the only window.
2. `cache_exact`: `MakeKey` (`cache.go:106`) hashes role and content of messages
   only, so chat requests that differ in attachments or tool calls share an
   entry, while `README.md:23` of the repository promises an exact-match cache.
3. `turn_timeout`: `streamSDKSession` waits for the end of the turn or the
   client's departure (`copilot_sdk_stream.go:118`); `docs/fix-sdk-timeout-hang.md:95`
   promises a maximum timeout for all SDK requests and names `chatStreamSDK`.
   (The client option `SessionIdleTimeoutSeconds` of `copilot_http.go:324` lets the
   SDK's server drop idle sessions; whether it then raises an event is outside the
   repository.)
4. `schema_prompt`: with a tool_choice that constrains the tools, the synthetic
   tool is withheld, but `sdkPrompt` (`copilot_http.go:817`) takes it for declared:
   the prompt asks for a call of it and leaves the schema out. `README.md:292`
   promises prompt and validation in its place.
5. `image_dropped`: images in a tool result (`openai.go:308`, `:147`) and Gemini
   parts with `fileData` are neither forwarded nor counted as declared, so the
   request goes on without them; `README.md:341` says that images are never
   silently dropped.

Observations that contradict no document, or that the properties allow for:

- `handleEvent` may send on `raw` after it was closed, when the client leaves or
  when Send fails after events have come; `PanicOnlyAfterCancelOrSendError` says
  that an ordinary turn never does. If Send fails after the SDK has raised the end
  of the turn, the channel may also be closed without a terminal item: the stream
  then completes, and its truncated answer is cached without any disconnect.
  `TruncatedOnlyWhenBrokenOff` allows this and nothing else.
- `Record` ignores a row that cannot be inserted (`usage.go:227`) and emits the event
  all the same, so Azure may have an event that SQLite does not.
- The usage of a session that failed and was retried is not billed
  (`copilot_http.go:426`); `BillsBothAnswers` is about answers that were rejected.
- A creation that is refused because the id is taken has overwritten the account's
  secret in the vault by then (`server.go:894`). `VaultAheadOfMemory` excepts it.
- After a logout an account may go on with the token of the configuration or of the
  environment; `LogoutTakesTheToken` says so.
- `Emit` does not look at `done`: an event of a request that outlives the shutdown
  may stay in the closed sink, neither uploaded nor counted, although the comment
  at `usage_sink.go:118` says that Close stops accepting events. `CloseFlushes`
  therefore speaks of what Close found.
- Overlapping alias updates share one temporary file, so the file may end up
  empty, torn, or with the other update; and a restart merges the file into the
  configured aliases, so one that was removed through the API comes back
  (`config.go:396`). `AliasFileMatches` is about updates that do not overlap.
- A SetToken and a Logout that overlap may leave the account's backend with the
  token, and no later logout takes it away. `LogoutTakesTheToken` is about logouts
  that overlap no other token operation.
- A request for a plain JSON object may have a tool of its own under the reserved
  name; its calls are swallowed. In the mode `cli` a session allows caller tools
  it does not declare.
- A reported total may exceed the sum of its parts; it is billed as reported.
- The texts of an Anthropic message come before its tool results in the prompt,
  whatever their order was, and what the system says in the middle of a conversation
  comes first; `ModelIsShownTheTalk` asks for the order within a kind and among the
  turns of the same side.
- Two Gemini calls of one tool without ids, and their results, cannot be told apart by
  the model except by their order.
- A client that gives up makes its backend call fail with its context's error,
  which the failover counts against one account after the other (`pool.go:198`).

## 6. What is proved

All proofs are for every value of the constants under the named assumptions, and
TLC has checked each invariant first.

`RequestServingProofs`, for any accounts, ids, limits, cooldowns and finite set of
requests, from `PoolAssumption` and `RequestAssumption`:

- `TypeCorrect` and `FailoverProgress` from the invariant
  `IInv == TypeOK /\ Attached /\ Fresh`. `FailoverMovesOn` is not inductive: the
  next account comes from the candidates computed earlier, so `Fresh` also says
  that no candidate has an excluded id, and `Attached` ties what a goroutine holds
  to where it is.
- `SlotAccounting` and `ConcurrencyBound` from `SlotInv`. Every step of the
  system is first shown to be a `SlotStep` (a request takes a slot of an account
  that has one free, gives its own back, or touches neither), and only then is
  the counting done, with the cardinality lemmas for adding and removing one
  holder.
- `Refinement`: the goroutines implement the safety part of `SlotPool`.

`StreamServingProofs`, for any finite set of streams, accounts, keys and number of
deltas, from `StreamAssumption` and `PoolAssumption`: `Delivery`,
`LeaksNowhereElse`, `StreamSlots`, `CacheOnlyWhole`. The invariant has three parts
for every stream. `Sent` is the arithmetic of chunks: in each phase, what the
handler has taken and what is left of the phase add up to what the answer has had
so far; without it nothing can be said about the chunks at the end. `Accounted`
ties the slot to the phase, and `Ended` says that an answer recorded incomplete is
one whose client left or whose channel broke off. A step touches one stream, so the proof is made for that
stream, and one lemma carries the others over.

`AnswerProofs` on collected answers, for any requests, texts, usages of natural
numbers and number of events, from `TurnAssumption`: `NonConformingIsWithheld`,
`RejectedTurnIsBilled` and `CallsArePassedOn`. The invariant `TInv` adds `Spending`:
before the answer, what was spent is the normalized usage of the rejected answer,
and nothing if none was rejected. That the caller's sum is the sum of the two answers
needs that normalizing leaves a sound usage alone. For the calls, `CInv` adds that
the calls collected so far are the distinct ones the session's events announced, and
two folds are followed element by element: the one that merges announcements, and
the one that takes the synthetic tool and the internal ones out.

On streamed answers, for any texts, calls, cutting into deltas and chunk size, from
`AnswerAssumption` (sizes are natural numbers, a chunk holds at least one rune, and
the value for "no open block" is no block): `StreamsAndAnswersAgree`.
`Runs(protocol, answer, c, events, d)` says that a client that is at `c` and takes the
events one by one finds that each fits, is complete on the way only with the unstreamed
answer and without a failure, and ends at `d`. Runs are composed: a run of `s`
followed by a run of `t` is a run of `s \o t`, and runs of each part of a flattened
sequence make a run of the whole. So the proof goes up from single events to blocks
(`charChunks` cuts a text into pieces that add up to it, by division), from blocks to
the replays of the protocols, where the index of a call is what came before it plus
its place, its list `output` is followed beside the items that were sent
(`ReplayRuns`), and from there to `StreamInv`: what was read and what is left make up
the answer, and the events on their way bring the client to what was read, or after
that to the end.

On conversations, for any number of turns and pieces and without an assumption on the
constants: `TalksAreShownWhole`. The conversion is written with one operator,
`Flat(g, s)`, what `g` makes of each element of `s`, in one sequence. Selecting is a
`Flat`, and a `Flat` of a `Flat` is a `Flat` (`FlatFlat`), so what the prompt shows of
the messages of the pieces of the turns becomes what is shown of each piece.
`Split`, which gathers texts and images until a piece that stands alone, is a fold:
its messages and what it has gathered together make what the pieces so far make
(`GatherHeld`), and then one lemma for each protocol and speaker says what becomes of
a turn (`EveryTurn`). Some protocols keep the pieces of a turn in their order and
some put texts before calls before results; either way pieces of a kind keep their
order (`TurnOrdered`), and turns keep theirs among the system's, which the prompt has
first, and among the others (`TalkOrdered`, with `Hoisted` for the order). The ids that
the conversion gives are followed as one more step on the pieces (`Wired`), and that a
result is shown under its call's id needs that it was sent with the call's id and name
(`AnswersCall`). The state's part is small: `TalkInv` says that pieces are addressed by
their place, that speakers say only what they may, that results answer calls, and that
prompt and images are those of the messages.

`SDKStreamProofs`, for any events and finite set of tools, from `StreamAssumption`:
`OrdinaryTurnNeverPanics` and `TurnImplementsItemStream`. `OrdinaryTurn` says for a
turn that was not interrupted where a callback may be when the end was signalled
(`Quiet`): no callback holds items any more, and one that comes late finds the turn
terminated. This is lost when the client leaves or Send fails, which is why the
property excepts them. For the refinement of `ItemStream` the invariant `TurnInv`
follows an item from the SDK's event to the client: `HandlingInv` says what the
reducer has left to send, `OrderInv` that what was delivered, what the filter
carries and what the callback still holds are numbered one after the other,
`FilterInv` what the filter may have let through when it cut the text, and
`WholeInv`, for turns without interruption, that no call is missing when the
terminal item passes. `ForwardDelivers` is the one step that the channel sees; every
other step is shown to be a stutter.

`AdministrationProofs`, for any ids, tokens, administrators, scenes and failures,
from `AdministrationAssumption`. A handler is a list of steps, so what it may rely
on is said of the list: `Shaped` gives the order that every list keeps (a backend
is built, then the old one closed, then swapped in; the vault is written before the
memory; a start follows an unlisting), and it is kept by taking a step, by
dropping the steps of a failed rebuild and by adding a start.

- `GoroutinesStayInStep` from `BaseInv == TypeOK /\ BackendsMade /\ GoroutinesOK`:
  what a handler looked up is still there, at whatever step it is.
- `VaultIsAheadOfMemory` from `IdsInv /\ UseInv /\ LoopIsNoHandler /\ VaultInv`, where
  `IdsInv == BaseInv /\ IdsMatch`: of every id whose token operations never crossed,
  `VaultInv` says that only one of them is at work (`Alone`), that its steps are due in
  their order (`Orderly`), and that the token in memory is in the vault or about to be
  replaced by it (`InVault`).
- `PooledBackendsAreUsable` from `IdsInv /\ UseInv /\ LoopIsNoHandler`: `UseInv`
  says that no two accounts share a backend, that only its builder can reach one
  that is not installed yet (`Private`), and that a backend of the pool that has no
  client and is ready, or about to be marked so by a start that a close overtook
  (`Doomed`), has a goroutine about to replace it.
- `LeaksNeedOverlap` adds `LeakInv == raced \/ Reached`: as long as no backend was
  given up beside another goroutine, every running process is the client of a
  backend that an account of the pool has, and so is every one about to be started.
- `LogoutsTakeTheToken` adds `LogoutInv == LogoutsAlone /\ ClearedStay`: how far a
  logout has come that runs alone (`Stage`, from the token in memory to the backend
  in use), and that the operations of an id that is logged out have nothing left
  but steps that bring no token (`Spent`).

`StoreProofs`: `NewestAreKept` and `HitsAreOwnAndFresh` (`CacheAssumption`;
`CacheInv` says that the list is the end of the history of uses, without duplicates,
with the entries of the map, and that an entry is filed under its own key with its
age), `SharedClient` (`VaultAssumption`), `HomesAreKept` (`HomeAssumption`; a home given out once is below `given`, and two
ids never have the same one), `AliasesAreKept` (`AliasAssumption`; `Undisturbed`
says, as long as no updates overlapped, what the temporary file holds at each point
of the one update under way) and `RingIsTheNewest` (`DebugAssumption`; the lemma
`TrimmedIsTheEnd` says what is left of the ring).

`UsageSinkProofs`, for any finite set of events and any buffer and batch size, from
`UsageAssumption`: `TypeCorrect`, `Conservation`, `AtMostOnce`, `OfferedBeforePosted` and
`CloseFlushesAll`. The invariant adds to `EventsConserved` that buffer and batch
have no duplicates (otherwise the move of an event to the batch could leave a
second copy behind), that the store is closed after the worker has stopped with
an empty batch, that an event comes after its row was inserted or refused, and that
what Close found is accounted for and no longer in the buffer once the worker has
drained. The dropped counter is compared with the cardinality of the events in no
place.

`SequenceLemmas` is what these proofs share about sequences. The library's induction
theorems take an operator as their parameter and cannot be used, so induction is
done with the least counterexample: a set of numbers that is not empty has a least
element (`LeastElement`, from the well-foundedness of `<` on the naturals).
Over sequences it becomes induction by appending (`Extending`), which the facts about
`Flat` rest on. `FoldingExists` shows that the results of the steps of a fold exist as a
sequence, and `FoldingSteps` that the last of them is what the community modules'
fold returns.

Only model-checked:

- all liveness: fairness and ENABLED are outside the prover's reach. These are
  `EveryRequestAnswered`, `WithdrawnAccountDrains`, `GoneClientFreesSlot`,
  `NobodyStaysBlocked`, `CollectedTurnEnds`, `IndexConverges`, `ShutdownEnds` and the
  fairness of `SlotPool`, that every slot is given back.

## 7. What is not modelled

- Configuration, authentication, the endpoint table, HTTP decoding and
  authorisation: constants after the start, or pure functions.
- Glob matching of routes and models, selection strategies and the request history
  behind `quota_aware`: any candidate may be picked.
- The response store as such: one lock around a map; what streams store in it is in
  `StreamServing`.
- Of the administration: a deletion (and a failed creation) takes the account out of
  the map and closes its backend in one step of the model; the temporary CLI client
  for web search (`copilot_http.go:304`); why `install` fails, for want of a home or
  because of an invalid mode, which is one failing step. `AddAccount` in `AccountPool`
  likewise has one step for a start that fails, and one for the undoing.
- The helpers for Anthropic and Responses payloads in the second half of
  `copilot_http.go`, which the SDK path does not use; the web search and fetch
  handlers, which are external calls without state.
- Sampling parameters, tool schemas, embeddings input, and the rendering of JSON
  values: forwarded unchanged or covered by the repository's tests.
- The summaries of usage, the Prometheus counters, the status views: read-only.
- The fake backend, which serves tests; deployment and scripts.

Run a model with `tlc -workers 2 -config serving_failover.cfg MCRequestServing.tla`
(the module and configuration of each run are in `PROJECT.json`), and check the
proofs with `tlapm RequestServingProofs.tla` and the other `*Proofs.tla`.
