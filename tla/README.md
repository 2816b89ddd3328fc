# Verification of moaray in TLA+

moaray is an LLM gateway: it forwards OpenAI-style requests to upstream models
("passthrough"), or fans one request out to several models and has another one
fuse their answers ("MoA"). Around every upstream call stand a circuit breaker,
a token bucket and a concurrency cap; configuration is reloaded without a
restart; every upstream call is accounted for in SQLite. This directory holds
TLA+ modules for the parts of it whose behaviour depends on interleavings,
cancellation, timers, failures and restarts, with TLC configurations and proofs.

All paths below are relative to the repository; `crates/` is left out where the
crate is clear (`governed.rs` is `crates/moaray/src/governed.rs`).

## 1. Inventory

| Component | State | Operations | What makes it correct |
| --- | --- | --- | --- |
| Circuit breaker, `breaker.rs` | state, two streaks, `opened_at`, `probe_in_flight`, behind a mutex | `check_at`, `on_success_at`, `on_failure_at`, `release_probe` | leaves Open only through one probe at a time; only consecutive probe successes close it; an outcome reported late changes nothing it should not |
| Governance of a call, `governed.rs`, `limit.rs` | bucket, semaphore with a FIFO queue; per call: admission token, permit, attempt, two guards | `admit`, attempt loops of `passthrough`, `chat`, `passthrough_stream`, `Drop` of both guards, `attach_permit` | neither the probe slot nor a permit leaks or is freed twice, wherever the future is dropped; a call ends although the upstream hangs; the breaker recovers |
| Hot reload, `reload.rs` | live `Runtime` (ArcSwap), previous build, reload lock, sleeping collectors | `reload`, `apply` (ensure, build, install, publish, retain), collector task | no moment without protection, state of unchanged upstreams survives, orphans are collected and nothing else |
| Surviving state, `runtime.rs` | slot per upstream identity, limiter per inbound key | `ensure_for_config`, `install_key_limiters`, `retain_for_config`, `retain_key_limiters` | one slot per identity, governed as configured |
| Provider registry, `registry.rs` | provider per model, its signature | `build_providers_with` | a reused provider is bound to the slot it should be |
| MoA orchestrator, `moaray-moa/src/orchestrator.rs` | arms in flight, their timers, outcomes | `fan_out`, `run_arm`, `run` | fails closed without quorum, keeps the deadline, recipe order whatever the completion order, no outcome is lost on any return |
| MoA handler, `app.rs` `run_moa`, `book_moa_arm` | the request's future | booking, reply | one row per arm, status and cost agree, reply and ledger agree |
| Usage store, `moaray-store/src/lib.rs` | bounded channel, batch, SQLite table, deadline | `record`, `writer_loop`, `flush_batch`, `flush_and_join` | a request never waits; each row has one known fate; shutdown is bounded |
| Front door, `app.rs`, `auth.rs`, `http_error.rs`, `observe.rs` | per request: the pinned `Runtime`, the caller's key, the call, the reply | authenticate, key limit, body, allowlist, route, `passthrough`, `run_moa` | one configuration serves a request from end to end; every reply is counted once |
| Start and shutdown, `main.rs` | the phase of the process | startup wiring, SIGHUP loop, drain, final flush | rows are flushed after the drain; a drain ends |
| Configuration, `moaray-config` | none | parse, `validate` | what every other part assumes of a configuration |
| Adapters, `moaray-providers` | per stream: an SSE parser and a translator | translate requests, send, map status and errors, tap usage, translate streams | one generation per call; just blame; usage booked as measured; a faithful stream |
| Core types, `error.rs`, `router.rs`, `usage.rs` | none | `envelope`, `counts_against_breaker`, `is_retryable`, `route`, `compute_cost` | the breaker, the retry loop and the ledger rely on them |
| Prompts, `strategy.rs`; `tools/mock-upstream` | none | | |

How they interact. A handler pins one `Runtime`, reads the inbound key's
limiter, and calls a provider of that `Runtime`. Every provider is a
`GovernedProvider` bound for life to an `Arc<UpstreamState>`; aliases of one
upstream identity, passthrough calls and MoA arms share that slot. A reload
changes the map of slots and the map of limiters in place, then swaps the
`Runtime`; requests in flight keep the old one. A MoA run calls the same
providers inside its own future. Handlers hand rows to the store through a
bounded channel; the writer is an OS thread; `main()` stops it.

What is hard here: futures that can be dropped at every await, whose guards
then run in whatever state the breaker is by now; answers that come after the
state they were asked in; reloads, collectors and requests that interleave
between any two map operations; timers that race answers; arms of one request
that queue behind each other; event streams cut anywhere by the network; a
writer thread that fails or stalls while the process shuts down. `PROJECT.json`
lists each hazard at its line with the properties that watch it.

## 2. Modules

| Module | Models | Remarks |
| --- | --- | --- |
| `CircuitBreaker` | the breaker's value and, per method, the value it leaves | operators; each is one atomic step, as the mutex makes it |
| `BreakerContract` | abstract: what callers are promised of a breaker | refined by `GovernedUpstream` |
| `GovernedUpstream` | any number of calls that share one `UpstreamState` | `MCGovernedUpstream` adds symmetry, `GovernedUpstream_proofs` the proofs |
| `UpstreamRecovery` | the same, in an environment that heals | for one liveness property |
| `HotReload` | reload steps, collectors, requests | `MCHotReload` gives seven configurations |
| `UsageLedger` | abstract: accepted rows reach the table in order, at most once | refined by `UsageStore` |
| `UsageStore` | handlers, channel, writer, `flush_and_join`, restarts | |
| `MoaRun` | one MoA request from fan-out to reply | `MCMoaRun` gives usage objects, `MoaRun_proofs` the proofs |
| `MoaUpstream` | `MoaRun` over `GovernedUpstream`: the arms of a run as calls of one upstream | refines both; `MCMoaUpstream` gives its calls, `MoaUpstream_proofs` the proofs |
| `ConfigValidation` | the typed document, `validate()`, the `RuntimeConfig` it builds | operators; `FrontDoor_proofs` |
| `FrontDoor` | requests, reloads as a whole, signals, drain and flush | extends `ConfigValidation`; `MCFrontDoor` gives documents and bodies, `FrontDoor_proofs` the proofs |
| `UsageAccounting` | usage taps, status and cost of a row | operators |
| `AnthropicStream` | the SSE parser and the translator of a stream | operators |
| `ProviderCall` | one admitted call: attempt loop, adapter, network, stream | extends the two above; `MCProviderCall` gives values, `ProviderCall_proofs` the proofs |
| `Ordering` | the enumeration of a set of numbers in increasing order | an operator of `MoaRun` and `ProviderCall` |
| `DataLemmas` | none: induction, enumerations, lists and sums | lemmas of the proof modules |

The modules meet at the parts of the code they share. `FrontDoor` takes a call as
one step between "called" and "answered"; `GovernedUpstream` opens it on the side
of the shared upstream, `ProviderCall` on the side of the wire, `MoaRun` for a
recipe. `FrontDoor` takes a reload as one swap, `HotReload` shows its steps; it
takes the flush as one phase, `UsageStore` shows that. `HotReload` and `MoaRun`
assume of a configuration what `ConfigValidation!Trusted` says.

Operators whose comment begins with "Mutant of" are not part of the models. Each
is a plausible mistake in the operator that follows it, kept to show that the
property named for it in `PROJECT.json` depends on the code.

### GovernedUpstream

`pc[c]` says at which await or in which guard call `c` is. `Admit` is
`breaker.check()`; `TakeToken`/`RateLimited` is `check_limit()`; `Acquire`,
`Enqueue`, `Granted` are the first poll of `acquire_owned()`, its queue, and the
hand-over of a permit; `Answer`, `RetryLater`, `BackoffElapsed` are the attempt
loop. `Timeout` and `Disconnect` drop the future at any of its awaits:
`CancelWaiting` inside `admit`, whose `ProbeReleaseGuard` then drops (`Unadmit`),
and `Cancel` in the attempt loop, whose `BreakerGuard` then drops (`Finalize`).
The guard drops before the permit (`ReleasePermit`), as Rust drops locals in
reverse order of declaration; the permit of a stream moves into its body
(`pc = "streaming"`). A slot of `Calls` is reused, so that its size bounds the
calls in flight, not the calls.

Time is kept only where the code compares: `open_for` is the time since
`opened_at`, and saturates at `open_ms`. A token of the bucket may come back at
any time (`Refill`). Gates that refuse a call without touching shared state
(`CircuitOpen`) are not steps.

### HotReload

The reload that holds the lock is `reload`, and its phases are the steps of
`apply` in publish order; `InstallKeyLimiter` and `RetainKeyLimiter` work one map
entry at a time because requests read between two entries. `Ensure` is one step:
nobody reads the map of slots but reloads and collectors, and both hold the
lock. A collector task is a number in `gc`, by the ticks it still sleeps. Slots
and limiters carry a serial number, which stands for the identity of the `Arc`.
A configuration is reduced to what a reload tells apart: the identity of each
model, the governance of each identity, the other inputs of a provider
signature, the limit of each key. Validation rejects aliases that disagree on
governance, which is why governance belongs to the identity. `absent` and
`serial` are the only additions to the code's state.

### UsageStore

Rows are numbered in the order of the calls of `record()`. `Take` is one message
read from the channel, `Recv` and `Drain` are the blocking and the greedy read,
`Commit` and `FailBatch` the two results of `flush_batch`. `main` is where
`main()` is inside `flush_and_join`; every wait there ends with its event or,
once `expired`, without it. `Restart` ends the process at any point and starts
it on the same table. `dropped`, `failed` and `lost` record the fate of rows
that never reach the table; `flushed` what had been recorded when the Flush was
sent.

### MoaRun

The arms of a run are futures inside the handler's own future, so that whatever
the code does between two awaits is one step: `CallAggregator`, `QuorumFails` and
`AggregatorEnds` each stand for everything from the last poll to the next await
or to the reply, booking included. A timer may fire late only as far as the
clock (`Tick`) lets it: time stops at the next due timer, and an answer may still
win the race at that instant, as `tokio::time::timeout` polls the call first.
`completed` is the order in which the arms end; `Candidates` sorts the successful
ones by their place in the recipe, as `run` does. An answer carries a usage object with either token count missing or not.

### MoaUpstream

`MoaRun` is instantiated with the calls of `GovernedUpstream` under its arms: the
call of arm `i` is call `i`, the aggregator's is call 0, and every other call is
somebody else's. `Begin` to `Returns` are one call from the first poll of
`chat()` to the end of `run_arm`. All futures of a run live in one task, so that at
most one of them is between two awaits (`Polls`), while other requests
interleave anywhere. `result` remembers what a call has come to while its guards
run: the future is a temporary of the statement that awaits it, so that guards
and permit are gone before `run` looks at the outcome. An arm whose timer fires
in the queue for a permit is dropped there, and one that is cut short on the
upstream reports to the breaker. The composition implements both modules
(`CallsImplementUpstream`, `ArmsImplementRun`), so that what holds of calls and of
runs holds of runs over a shared upstream.

### ConfigValidation and FrontDoor

`ConfigValidation` has no state. A document is what serde would type; `Accepts` is
`validate()`, `RuntimeConfig` what it builds, `Trusted` what the rest of the code
relies on without asking again. Names are numbers because the maps of the code
are ordered by name, and a price is an amount in nano-USD per million tokens.

`request[r]` in `FrontDoor` is what the handler of connection `r` holds; `pc` is the
await it is at. `Authenticate` pins the `Runtime` (`load_full`); `KeyPasses` and
`KeyRefused` are the bucket of the key, which is looked up in the map of now;
`OpenBody` reads the cap of the live configuration, not of the pinned one, as the
code does. `BodyArrives` is everything from the last byte of the body to the
first await of the call: the remaining gates, the route and the start of the
arms, which nothing can interleave with. `CallAnswered`, `CallFailed` and
`MoaEnds` are the outcome, with metrics and rows; `Disconnect` drops the future at
any await. `Reload` is a reload as a whole, with the frozen `usage_store` of the
running process. `phase` is where `main()` is: `Signal`, `Drained` and `Flushed`
are the end of `axum::serve`, and the flush.

### ProviderCall, AnthropicStream and UsageAccounting

`ProviderCall` is one call after admission. `Translated` to `Body` are the provider
from its translation of the request to the last byte of the answer, with every
early return; `Fail` is the attempt loop around it and `Return` the drop of the
guard, which reports `verdict`. `generated` and `upstream` are not program state:
they say what really happened at the other end, so that properties can compare.

`AnthropicStream` is the value a stream keeps between two polls and what a chunk,
an error and the end of the stream do to it. Bytes are half lines, the smallest
unit with which a chunk can end inside a line, between two lines of one event,
or between two events; `Push` goes through a chunk half line by half line. What
an upstream sends is a finite sequence of lines, and nothing else is taken of
it: events may be unnamed, misnamed, repeated, out of order or no JSON. What
such a sequence means is defined in `ProviderCall` on its lines (`EventName`,
`EventData`, `Says`, `Gives`, `Frames`), by quantification over them and without
chunks, parser or translator; `StreamIsTranslation` compares the two.
`UsageAccounting` holds the three usage taps, which differ
on purpose or not, the status of a row, and its cost.

## 3. Runs

Distinct states are those of the configurations as committed.

| Run | States | Shows |
| --- | --- | --- |
| `governed_safety` | 74,109 | neither probe slot nor permits leak or are stolen; the breaker implements its contract |
| `governed_liveness` | 90,388 | `CallsFinish`, the return of the probe slot included, under timeouts alone |
| `upstream_recovery` | 181,000 | `RecoversAfterOutage` |
| `hot_reload` | 179,696 | four invariants and two action properties of a reload, and `OrphansCollected` |
| `usage_store` | 52,560 | accounting of rows, flush, clean exit, the ledger, `ShutdownBounded` with a stuck writer, `RowsSettle` with a working one |
| `moa_run` | 18,222 | quorum, order, booking, cost, reply and deadline of a run |
| `moa_upstream` | 273,510 | a run never waits for a permit of its own, and ends although the upstream never answers |
| `front_door` | 215,174 | trusted configurations only, one configuration per request, one count per reply, no row after the flush, `DrainEnds` |
| `provider_call` | 17,228 | one generation, just blame, accurate booking, a faithful stream |

Bounds and why they are enough.

- Three calls: one that probes, one admitted in an earlier Closed period, one
  that contends with either. Two permits in the safety run so that a stream and
  a unary call hold one each; one permit and one token in the liveness runs, so
  that every call queues. `half_open_successes = 2` so that a half-open period
  has an inner step. Symmetry of the calls is used for safety only.
- Seven configurations: an upstream added, renamed, aliased, moved, tightened,
  its secret rotated, and its key's limit changed and removed. Three reloads
  reach add, remove and add again with a collector of the first removal still
  asleep. `MaxReloads` bounds the behaviour, nothing in the code does.
- Channel 3 and batch 2: a batch smaller than the channel, and five rows so that
  both overflow. One restart. `MaxRows` and `MaxRestarts` are bounds of the model.
- Three proposers and a quorum of two: below, at and above the quorum. An arm
  timeout of 2 under a deadline of 3, so that the aggregator gets less than its
  budget. One arm has no price; usage objects are full, half and absent.
- `moa_upstream`: two proposers and a quorum of one, so that a run that went on at
  the quorum would meet its own second arm; one permit, one token, one retry;
  one other caller, which may hold the permit with a stream for ever.
- `front_door`: two connections, so that one is in flight while the other comes
  or goes. Two sound documents that differ in all a request can notice (key,
  allowlist, limit, upstream, price, recipe, body cap, store), and sixteen
  that are refused, each for another reason. Nine bodies: each gate has one that
  stops there. Reloads are not counted, so their number is unbounded.
- `provider_call`: two retries, so that a retry follows a retry. Seven
  messages: named and unnamed events with a keepalive, two stop reasons and no
  `message_start`, a block and a delta with no translation, a line that is not
  UTF-8, an error without a `message_stop`, and one that no Anthropic server
  sends: two payloads in an event, two blank lines, a text without its value and
  a text named `message_stop` behind the stop. `MaxChunk`, eight half lines, is
  longer than most events, so that a chunk may hold one and parts of its
  neighbours. `Mtok = 10` and `MaxI64 = 50` so that rounding and saturation both
  happen.

Deadlock is checked except where the program really ends: a process that has
shut down (`UsageStore.cfg`, `FrontDoor.cfg`, `UnboundedDrain.cfg`), a run that has
replied (`MoaRun.cfg`, `MoaUpstream.cfg`), and a call that has returned
(`ProviderCall.cfg`, `HalfUsage.cfg`).

### Where a document and the code disagree

Each of these runs is expected to fail; the counterexample is the finding.

| Run | The text | The code |
| --- | --- | --- |
| `early_collection` | `reload.rs:78`, `docs/DEPLOY.md:126`: collected only after a drain window | a collector of an earlier removal takes it at once (`reload.rs:260`) |
| `unbounded_drain` | `docs/DEPLOY.md:86-91`: a bounded window, after which pending requests are cancelled | nothing bounds the drain (`main.rs:101-104`); `shutdown_grace_ms` is parsed and never read |
| `half_usage` | `usage.rs:60-61`: unmeasured is never recorded as zero | a count that is missing beside the other is booked as 0 (`common.rs:96`, `anthropic_map.rs:168`) |

### Observed divergences

Met while modelling, and not given a run of their own. The model has the
behaviour of the code in every case.

Breaker and governance:
- `breaker.rs:12` speaks of a single probe in flight, so that a recovering upstream
  is not stampeded. Calls admitted while Closed that were queued
  (`governed.rs:74`) or backing off (`:228`) send their attempts all the same.
- `breaker.rs:63,78`: a Normal outcome only advances the Closed streak, and
  `opened_at` is when the breaker opened. A late failure while Open moves
  `opened_at` (`:208`), and so prolongs the cooldown.
- `breaker.rs:22`: only an upstream failure counts. A future that is dropped
  during an attempt counts too (`governed.rs:196`): a client that leaves, or an arm
  that has spent most of its time in the gateway's own queue.

Reload:
- `config.example.yaml:52`: models of one identity share one bucket. A change of
  limits and back, with requests in flight, leaves two slots with the same
  limits in use (`runtime.rs:196`).
- `docs/DEPLOY.md:117`: the state of unchanged upstreams is kept. One whose limits
  change gets a new slot, hence a new breaker too.
- The identity of an upstream is made from the spelling of its URL: two
  spellings of one host are two upstreams.

Usage:
- `moaray-store/src/lib.rs:64`: an acknowledged flush says that the database is
  durable. A failed transaction is acknowledged too (`:224`).
- `app.rs:462`: rows are booked per arm unconditionally. Nothing is booked when the
  client leaves first (`:490`); nor for an answer that was generated and has no
  translation (`Unsupported`).
- `usage.rs:142-144` says that a missing side of a price or count is 0;
  `compute_cost` gives no cost then. That token counts are not negative is
  assumed there and checked nowhere; `anthropic_map.rs` casts `u64` to `i64`.
- `usage: null` is unmeasured for one adapter and zero for the other.

MoA:
- `config.example.yaml:73`: a quorum of proposers must succeed. The run awaits every
  arm although the quorum stands (`orchestrator.rs:459`); `NothingHeldBehind` shows
  what that is good for.

Front door:
- A body that `pre_route` takes and `run_moa` cannot parse is answered with 400 and
  counted nowhere (`app.rs:478`, against `:174`). `CountedOnce` names the exception.
- Any error of `to_bytes`, a broken connection included, is "payload too large".
- A model that is named `moa/...` passes validation and can never be reached.

Streams:
- An `error` event of Anthropic is ignored, and a stream that is truncated ends in
  `"stop"` and `[DONE]` like a complete one. A transport error after `message_stop`
  puts an error behind the `[DONE]`.
- A frame is emitted as soon as its event is parsed (`anthropic_sse.rs:10-11`);
  events that stand in one chunk before a line that is not UTF-8 are lost.
- Every `message_stop` ends the stream once more: a repeated one gives a second
  finish frame and a second `[DONE]`. `Frames` says so of any message.

## 4. Fairness

- `GovernedUpstream!Fairness`: the executor polls a future that can run (weak
  fairness of the steps that need nothing from outside), guards run, and no call
  outlives its timeout: `app.rs:351` and `orchestrator.rs:216` wrap every call in
  one. Nothing is assumed of the upstream, of clients, of streams or of permits:
  `CallsFinish` holds although none ever answers.
- `UpstreamRecovery!RecoveryFairness` assumes more, because recovery needs it:
  after `Heal` the upstream answers without a fault, streams end, callers keep
  coming, clock and bucket run. This is the environment of the claim that an
  outage ends, not something the code guarantees.
- `HotReload!Fairness`: a reload has no await once it holds the lock (`WF` of
  its steps); tokio's mutex is a FIFO queue, so that a collector gets it in the
  end although reloads keep taking it (`SF_vars(Collect)`); timers fire.
- `UsageStore`: the specification itself is not fair; each liveness property
  names what it assumes. `ShutdownBounded` assumes `MainRuns`, that `main()` runs and
  its clock advances, and nothing of the writer. `RowsSettle` assumes `WriterRuns`,
  that the writer runs and SQLite answers, with or without an error.
- `MoaUpstream!MoaFairness`: the task of the request is polled and its timers fire.
  Nothing is assumed of the upstream or of any other call.
- `FrontDoor!GatewayRuns`: handlers are polled, answers are sent, and no call or run
  outlives its timeout, which `CallsFinish` and `RunSettles` show. That clients send
  their bodies and streams end (`ClientsFinish`) is a hypothesis of `DrainEnds` alone;
  without it a drain need not end, which is the finding of `unbounded_drain`.
- `MoaRun` and `ProviderCall` have safety properties only.

## 5. Proofs

All theorems hold for every value of the constants that satisfies the named
assumptions of the modules: `BreakerAssumption` (thresholds are natural numbers),
`GovernanceAssumption` (finitely many calls), `RecipeAssumption` (what `validate.rs`
checks of a recipe), `CompositionAssumption` (the calls of a run are calls, and
its constants are as `RecipeAssumption` has them),
`ReloadAssumption` and `EntryAssumption` (the shape of a reduced configuration),
`StoreAssumption` (sizes are positive), `ValidationAssumption` and
`FrontDoorAssumption` (documents are as serde types them), `AccountingAssumption`
(the constants of the arithmetic), `ProviderAssumption` (prices and counts are not
negative), `StreamAssumption` (a stream has finitely many lines, and the mark of
an absent value is no word of the protocol).

Every invariant and every action property that a passing run checks is stated
by a theorem below, and so is each refinement.

| Theorem | Statement | Argument |
| --- | --- | --- |
| `TypeCorrect` | `Spec => []TypeOK` | `TypeOK` is inductive; `BreakerTypes` and `RemoveAtType` are its lemmas |
| `ProbeSlotSafe` | `Spec => []ProbeSlotOwned` | by `ProbeInv`, below |
| `ContractImplemented` | `Spec => ImplementsContract` | every step maps to a step of `BreakerContract` or a stutter, given `ProbeInv` |
| `PermitsSafe` | `Spec => []PermitsConserved` | inductive with `TypeOK`; each action either moves a call within, into or out of the places that hold a permit |
| `DeadlineKept` | `Spec => []WithinDeadline` | by `ClockInv`: a running timer is due before the deadline |
| `QuorumKept` | `Spec => []FailsClosed` | by `PhaseInv`: what each phase knows of the arms |
| `ArmsBooked`, `CostsAgree` | `[]EveryArmBooked`, `[]CostOnlyIfOk` | by `BookInv`: what has been booked at each phase |
| `RunTyped` | `Spec => []TypeOK` | by `ArmTypes`, below; the rows are typed because they are rows of typed arms |
| `CandidatesOrdered` | `[]CandidatesInRecipeOrder` | `ArmTypes` and `CandidatesInv`: once the aggregator is called its candidates are the successful arms |
| `LedgerMatched` | `[]ReplyMatchesLedger` | `TotalsAgree`: reply and rows sum one number per arm, in two orders |
| `CallsImplementUpstream` | `MoaSpec => Spec` of `GovernedUpstream` | each step of a run is one step of one of its calls, or none |
| `ArmsImplementRun` | `MoaSpec => Run!Spec` | each step of a call is a step of its arm, or none |
| `UpstreamSafeUnderRuns`, `RunSafeOverUpstream` | the invariants of both hold in `MoaUpstream` | by the refinements, from the theorems about each |
| `NeverBehindItself` | `MoaSpec => []NothingHeldBehind` | by `AwaitedInv`: a call that is not idle belongs to an arm that still runs |
| `ReloadTypeCorrect` | `Spec => []TypeOK` | inductive |
| `GovernanceHolds`, `MapIsUsed`, `BuildNeverFails`, `StateSurvives` | `RuntimesGoverned`, `ProvidersUseMappedSlots`, `BuildFindsItsSlots`, `StatePreserved` | by `ReloadInv`: per phase of a reload, what holds of the map, of the build and of the live `Runtime` |
| `LimitersInPlace`, `LimitersSurvive` | `LimitedKeysHaveLimiters`, `LimitersPreserved` | by `LimiterInv`, the same for the limiters of keys |
| `StoreTypeCorrect` | `Spec => []TypeOK` | inductive; rows stand before a Flush and a Stop |
| `EveryRowHasOneFate`, `FlushIsComplete`, `CleanExitIsComplete`, `LedgerImplemented` | `RowsAccountedFor`, `FlushCovers`, `CleanExitDrains`, `ImplementsLedger` | by `StoreInv` (`TypeOK`, `Protocol`, `Accounts`) |
| `ValidationSound` | an accepted document yields a `Trusted` configuration | no induction: each model is compared with the first of its identity, so that any two agree |
| `ConfigIsTrusted`, `RequestsServedAsAuthorised`, `RepliesCountedOnce`, `NoRowBehindTheFlush` | `ConfigTrusted`, `ServedAsAuthorised`, `CountedOnce`, `RowsBeforeFlush` | by `Good`, what a handler holds at each of its awaits; the first by `ValidationSound` |
| `FrontDoorTyped` | `Spec => []TypeOK` | by `TypeInv`: the live configuration and all that handlers hold come from an accepted document |
| `CostIsAccurate` | the cost is within a nano-dollar of the exact amount, or saturated | each side is off by half a unit at most |
| `GeneratedOnce`, `BlameIsDeserved`, `BookingIsRight` | `AtMostOneGeneration`, `BlameIsJust`, `BookedAsMeasured` | by `IInv`: before each attempt nothing has reached the upstream |
| `StreamIsTranslated` | `[]StreamIsTranslation` | by `StreamInv`: a translator is up to date, cut short or closed, below |

`ProbeSlotOwned` is not inductive: it does not say that a call whose place is
outside `admit` and the attempt loop has no token left. `TokensGuarded` adds
that, and `ProbeInv` is their conjunction. The heart of the argument is
`OutcomeFacts`: reporting a Normal token leaves a half-open breaker alone, and
reporting the probe's frees the slot or closes the breaker. With a token that is
ignored (`OnSuccessIgnoringToken`) the step fails.

`FailsClosed` is not inductive either: that the aggregator has not been called
while arms are out, that they have all ended once it is, and that an outcome is
only set by `Respond`, has to be carried along (`PhaseInv`).

`RuntimesGoverned` needs to know why a reload may reuse a provider: its signature
is that of the previous build, whose slots are governed as the previous
configuration says, and the identity is in both. `BuildFindsItsSlots` needs that
the lock keeps collectors out between `ensure` and `build`. Both are clauses of
`ReloadInv`.

The accounts of the usage store rest on the protocol of its channel: that an
acknowledged flush covers every earlier row, and that a joined writer has left
none, need to know that rows stand before a Flush and nothing behind a Stop
(`TypeOK`, `Protocol`). `Unsettling` is what any step can do to the rows, and
`Accounts` is shown to survive each of its cases.

`MoaRun`'s `TypeOK` is not inductive as it stands: `completed` lists each arm that
has ended, once, and only with that (`ArmTypes`) is an arm that ends new in it. From
there `Candidates` is the enumeration of a set whatever the completion order,
which is what `CandidatesOrdered` says. `LedgerMatched` is about two sums, over
arms in the reply and over places in the ledger. The arms with a number and the
rows with one correspond by `RowsOneByOne`, so that one sum is taken apart along
the other.

The refinements of `MoaUpstream` go step by step. A step of the composition is a
step of one of its calls, of somebody else's call, or of the run alone; the first
two are steps of `GovernedUpstream`, the third stutters there. Seen from the run,
a call that has not come to its result stutters, and the step that has it
(`Returns`) ends the arm. The theorems about both then hold in the composition.

`StreamIsTranslated` holds for every set of finite sequences of lines and for all
ways to cut them. `UpToDate(t, m, n)` says that translator `t` has yielded, and
remembers, what the lines up to `n` of message `m` ask for; `CutShort` that an
error has ended it at some earlier line; `Closed` that the stream has ended. Three
steps lead there:
1. of lines: what `EventName`, `EventData`, `Id`, `Finish` and `Frames` are at line
   `n + 1`, given what they are at `n`;
2. of events: `Translate` takes an up-to-date translator past a blank line, or
   cuts it;
3. of half lines: `ParsedTo`, an invariant of the loop of `Push`, says that a parser
   has the open event and the open half line, and that its events, once
   translated, bring the translator up to date. It is carried over a chunk by
   induction on the half lines, and over the polls of a stream by `StreamInv`.

A chunk that holds a line that is not UTF-8 is the reason for "a part of it" in
the property: its events are lost, so that a cut stream shows the frames of some
earlier line and not of the line of the error.

`DataLemmas` has the induction that these proofs need. A theorem of the library
that takes a predicate as a parameter cannot be instantiated here, but one can
do induction on a set in its place (`NatInduct`, from the well-foundedness of `<`;
`SubsetInduct`, on the subsets of a finite set). With these follow that the
enumeration of a finite set of numbers exists and is unique (`Enumeration`,
`OneOrder`), what a new largest number does to it (`InOrderAdd`), and that a sum
does not depend on the order in which it is formed (`SumUnfold`, `SumRemove`).
`SelectSeq` and `SortSeq` are opaque to the provers, and so the models say
`InOrder`, and loops are functions on `0..n`. No module here declares a RECURSIVE
operator.

Left to TLC are the liveness properties alone, since fairness involves ENABLED:
`CallsFinish`, `RecoversAfterOutage`, `OrphansCollected`, `ShutdownBounded`,
`RowsSettle`, `RunSettles`, `DrainEnds`. They are checked for the bounds of §3 and
no others.

## 6. What is not modelled, and why

- The rate of a token bucket: `governor` is a library, and no property here is
  about rates.
- The clock read before the breaker's lock (`breaker.rs:148`): two calls may
  store `opened_at` out of order by as much as the wait for a mutex.
- The backoff shift (`governed.rs:227`) beyond 63 retries.
- Restart-frozen fields other than `usage_store`: copied over when a reload
  publishes (`reload.rs:216`), inert data.
- A JSON value that is spread over several `data:` lines of one event: a payload
  stands in one line, and an event with two has none that parses.
- Keys with equal ids, between which a reload would not tell; validation admits
  them.
- Configuration files that are not YAML: `reload` returns and changes nothing.
- Token sums beyond 64 bits (`orchestrator.rs:159`), and counts beyond an `i64`.
- Several runs of a recipe at once on one upstream: in `MoaUpstream` the other
  traffic is made of calls of any kind, which may do all that an arm may.
- `GET /v1/models`, `/healthz` and `/metrics`, which read state and change none;
  labels and histograms of metrics, which nothing reads back.
- The drain of open connections at shutdown is axum's, and modelled as it is
  used: it ends when the last connection has.
- Prompts (`strategy.rs`), headers, the text of messages and errors, the mock
  upstream.

## 7. Plan

Done in this order, the most important behaviour first: governance of calls and
breaker with its contract and proofs; hot reload; usage store with its ledger;
MoA run; its composition with a governed upstream; configuration; front door
and shutdown; adapters, streams and accounting; proofs for each.

With every safety property proved, what is left is: two runs side by side in
`MoaUpstream`; a composition of `FrontDoor` with `UsageStore`, where the rows of
handlers meet the flush; and the safety half of the liveness arguments, such as
that a call which is waiting has a timer that is not yet due.
