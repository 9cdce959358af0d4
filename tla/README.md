# A TLA+ development of st0x-oracle-server

The oracle server answers orders of a trading strategy with signed price
contexts. It takes prices for tokenized equities from a pricing service over a
websocket, resolves the tokens of an order against a registry kept in a bucket,
picks the rate of the order's direction and signs it, with a publish time, a
market session and an expiry, through a KMS key. The contract that consumes the
context trusts what is signed, so what matters is what a signature may state,
and for how long, while prices, halts, reloads, expiries and slow signatures
happen at the same time.

## 1. Inventory

| part | source | state | operations | correct when |
|---|---|---|---|---|
| request handlers, batch pipeline | `lib.rs` | per request: resolved slots, two snapshots, built responses | decode, resolve, snapshot, build, second snapshot, final pass, reply; client disconnects | what is served is executable, current, bound to the order's tokens; strict batches are all or nothing; every request ends |
| quote cache | `pricing_client.rs` | latest quote per (chain, symbol), its generation and the `live` flag | price, halt, stale-source, forget, snapshot | a live generation is the cached, never disowned one |
| websocket session | `pricing_client.rs` | subscribed list, what was sent, read deadline, backoff | connect, subscribe/unsubscribe, read, pong, reconnect | the service's view follows the list; a dead wire is noticed and a healthy one kept; prices enter in the producer's order |
| signature reuse | `reuse.rs` | last response per (schema, symbol, direction, tokens) | lookup, store | only the same statement of the same live generation, within both horizons |
| signature cache, signer | `sign.rs` | entry per context hash, sign tasks, waiters | join, start, retry, broadcast, evict, sweep, time out | one sign per context at a time; failures are not cached; callers are answered |
| running token set, reloader | `tokens.rs`, `reload.rs` | current set, refused generation, watch channel | poll, reject, keep, replace/send/forget | the set is never ambiguous; the latest copy settles; retired symbols leave the cache |
| token file | `token_file.rs` | none; access token of the bucket | project, merge, candidate, change, read, boot | a copy is either run or refused as a whole; what runs is exactly the priced slots of the copy last accepted |
| registry, configuration | `registry.rs`, `config.rs` | none after boot | resolve, validate | an order resolves to at most one pair |
| time and session arithmetic | `lib.rs`, `session.rs` | none | expiry, publish time, liveness, session | the signed seconds say no more than the wire's milliseconds |
| context layout | `oracle.rs` | none | build_context_v1..v7 | each schema signs the quantity it names |
| start-up, command line | `main.rs` | where boot is, its retries | read the config, boot, choose the signer, listen; exit, restart; `validate` | nothing listens without a checked, current set |
| status endpoint | `lib.rs` | a `/status` request under way | take the set, wait for the cache, set the gauges | what operators see is the running set |
| metrics | `metrics.rs`, `reload.rs`, `lib.rs` | process-wide recorder, gauges, counters | set gauges, count, render | a gauge says what is running |

The parts run as tokio tasks. The websocket task writes the quote cache under
its write lock; handlers read it under the read lock and keep clones of quotes
over their awaits; the reload loop replaces the token set behind an `Arc`, then
the watch channel, then evicts from the cache; sign tasks outlive the requests
that started them. What is hard here is what happens between two steps of one
of them: `hazards` in `PROJECT.json` lists these places with the properties that
watch them.

## 2. Modules

| module | models | extends |
|---|---|---|
| `QuoteTime` | expiry, publish time, liveness and session arithmetic | |
| `SignedContext` | what each schema signs; `same_statement` | `QuoteTime` |
| `QuoteCache` | the cache, frames, generations, the clock | |
| `Reloader` | token set, poll loop, the three steps of `apply` | `QuoteCache` |
| `ReuseCache` | `lookup` and `store` | `QuoteCache`, `SignedContext` |
| `OracleServer` | the handlers, composed with all of the above | `Reloader`, `ReuseCache` |
| `SignatureCache` | `sign.rs` | |
| `SigningService` | abstract: what the signer promises; implemented by `SignatureCache` | |
| `PricingSession` | `run_loop`, `connect_and_run`, `run_session`, the pricing service and the network | |
| `PriceFeed` | abstract: what the cache promises its readers; implemented by `PricingSession` | |
| `TokenFile` | the token file slot by slot, the configuration, `decide`, `validate` | |
| `Bucket` | one read of the bucket: access token and request | |
| `Startup` | the life of a process: boot, listen, reload, exit, restart | `Reloader`, `Bucket` |
| `Telemetry` | the gauges of the reload loop and of `/status` | `Reloader` |
| `MC*` | instances for TLC | |
| `*Proofs` | theorems (section 4) | |

### OracleServer

`pc[r]` is where the handler's future is; `slot[r]` its batch, one record per
item. One action per stretch of code in which a concurrent step can make a
difference:

| action | code |
|---|---|
| `Receive` | decoding, `resolve` for every item against one `Tokens::current()`, the early returns |
| `Snapshot` | `snapshot_many` under one read lock |
| `Admit` | the checks and the context at the head of `build_response_from_quote_pair_bound` |
| `LookupReuse`, `ReturnReused` | reuse lookup, then the second liveness and expiry check |
| `StartSign`, `FinishSign`, `Store` | pre-sign checks; the signer's answer with the post-sign checks; `ReuseCache::store` |
| `Recheck`, `TakeFinal` | second snapshot; token set and common timestamp |
| `Revalidate`, `Finish`, `Respond` | `revalidate_batch` slot by slot, `finish` |
| `Disconnect` | the future is dropped at an await |

Choices of granularity:

- The futures of one batch are polled by one task, so two slots of a request
  never run between two awaits of each other (`TaskAt`); other handlers, frames,
  reloads and the clock do.
- Within one synchronous stretch the read of the `live` flag and of the clock is
  one step. The flag only ever goes down and the clock only up, and every stretch
  re-reads both, so splitting them yields no response the merged step could not
  produce a moment earlier.
- `TakeFinal` reads token set and clock together; no await lies between, and the
  set it took is what `Revalidate` judges by.
- `Evict` of several keys is one step: it runs under the cache's write lock.
  `ApplyPrice` checks the subscription and inserts in one step; the watch channel
  may change between, but then `forget` is still to come and waits for the lock.
- The clock is monotone (the code uses wall time; a clock set back is not modelled).
- A rate is a fraction, an address or a symbol a model value, a NAV ratio an
  integer whose negative value stands for one that cannot be packed.
- The v1 route and v4 refuse to sign: a legacy item that resolves fails with the
  legacy error, in an envelope in its place.
- Signing is abstract (it answers or fails, at any time); `SignatureCache`
  is the signer's own model and shows that it answers.

### QuoteCache

A generation is a number; `live` is the set whose flag is still set. `evictions`
and an entry's `epoch` are history: they count how often a key was disowned and
exist only so that properties can say "disowned since its frame arrived".
Resume, ping and the other error frames change nothing and are stutters.

### Reloader

A poll reads a copy unless its generation is `rejected.or(current)`; the
decision is then `RejectCopy`, `KeepRows` or `ReplaceTokens`, `SendAssets`,
`ForgetRetired`. `Decision::Unchanged` cannot arise: the read excludes the
running generation and a refused one is older than any later copy. A fetch error
and an unchanged read change nothing. The file is keyed by symbol, so rows are a
function from symbols to addresses; parsing, the schema version and the
projection of pricing states are one outcome, `Projects`.

### SignatureCache

`sign[e]` is the e-th sign task with its watch channel, `map` the cache,
`caller[c]` a future awaiting `sign_context`. Time is a discrete clock that does
not pass a timer that is due, except by `Lag` units for an attempt: with
`Lag = 0` timers fire on time, with `Lag = 1` a busy runtime polls late.

`SigningService` keeps, per context, whether a sign is under way and, per caller,
what it waits for. `ImplementsService` is its specification, fairness included,
under the mapping that counts the tasks in their attempts and the callers that
are waiting: sweeps, evictions, retries and timeouts are stutters or answers.

### PricingSession

`pc` is where the client task is: `waiting` for a list, `starting`, `connecting`,
in a session (`opening`, `reading`, or between the two sends of a list change,
`removing`) or in `backoff`. `up` and `down` are the frames on their way, `subs`
the service's view of the subscription, `link` the path between them.

| action | code |
|---|---|
| `ListNotEmpty`, `TaskEnds` | the wait at the head of `run_loop` |
| `StartConnect`, `Connected`, `ConnectFails` | `connect_and_run`; the ID token and the handshake end one way or the other |
| `Open` | the head of `run_session`: the list as it is now, the first Subscribe, the deadline |
| `Follow`, `Followed`, `SendFails` | the `changed()` branch; between the two sends the list may change again |
| `DeadlineFires` | the deadline branch |
| `ReadPrice`, `ReadHalt`, `ReadPing`, `ReadOther`, `ReadEnd` | the `socket.next()` branch by frame; only an inbound frame resets the deadline |
| `EndOk`, `EndErr`, `Wake` | the two arms of `run_loop` and its sleep |

The service, marked external, reads what it is sent, prices its subscribers,
disowns a symbol with a halt to a subscriber, and heartbeats. The network loses
everything on its way when a path breaks (`LoseLink`) and delivers in order
otherwise. A list change in a session that has seen the latest list is `unseen`,
which is what `watch::Receiver::changed` waits for. A price is its number in the
producer's order. `PriceFeed` is the cache as its readers may think of it:
`KeepsFeedPromise` is its specification, with no mapping beyond the names.

### TokenFile

A file has two chains with a slot per equity; an operator edits one field at a
time into any shape the code tells apart. An address is a record of its bytes
and its spelling (lower case, capitals, without `0x`, not an address, absent),
because the rows are compared as lower-cased texts (`rows`, `same_as`) and
resolved by bytes (`TokenRegistry`); the parser accepts a text without `0x`
(external), so an edit that adds or drops it is a move to the code although the
token is the same, and `UnmovedKeepQuotes` leaves that case out. A check of the
reload loop is one step here; `Reloader` has the steps inside it, with files by
their outcome and addresses by value. `Price` caches a frame of any symbol of the
running set, whatever address the frame names, as `apply_server_frame` does; what
is kept of the quote is the address its symbol had when it came, which is what
`forget` is about (`NoQuoteFromBeforeMove`). A late frame that names the old
address is cached too, and it is the handler that refuses it: `PriceBoundToToken`
of `OracleServer`, checked by `server_race` with such frames.
`static_field_changed`, a backstop in `decide` that compares keys no token file can
set, is left out.

### Bucket and Startup

A read is a token (given, cached or fetched) and a request. Time is relative:
`left` is how long the cached token will be used, `life` how long it is good.
`Startup` drives the same client from `boot` and from the reload loop: `BootRead`,
`BootCall`, `BootRetries`, `TakeCopy`, then `ChooseSigner`, which ends with the
reload loop spawned, then `Listen`; the loop, `TickerFires`, `LoopCall`, `LoopRead`,
`Decide` over `Reloader`'s actions, does not wait for the port. A process exits on
every `?` of `main`, or crashes anywhere; `Restart` starts another with nothing
kept. Two histories say how new its set has to be: `oldest`, the latest copy when the process started,
and `served`, the latest generation any process has had in use while it listened;
`ServesCheckedCopy` compares the running set with both. No prices flow here.

### Telemetry

`Telemetry` adds to each decision of `Reloader` what it records, and the
`/status` handler in three steps: it takes the running set, waits for the cache
lock, and sets the coverage gauges from the set it took. Gauges nobody else
writes (freshness, the time of the last reload) and all counters are left out.

## 3. Runs

| run | instance | shows |
|---|---|---|
| `server_batch` | one handler, batches of two items, two generations, frames of two prices with horizons of 3.5 s and 1.5 s, three half-second ticks, halts, reuse with a margin of 2 s | `SignedExpiryHonest`, `ReplyNeverCrossed`, `StrictAllOrNothing`, `ReuseLagBounded` |
| `server_race` | two handlers, two generations, two uploads that move a token and move it back, frames for both addresses, halts | `LiveHoldersCurrent`, `PriceBoundToToken`, `RetiredTokenRefused`, `NoDisownedPrice` |
| `server_ends` | seven bodies, six frames: every error code | `TypeOK`, `RequestsEnd` |
| `registry` | two symbols, two chains, nine files, two uploads, any number of `/status` requests, halts | `RetiredSymbolsStayOut`, `RunningSetUnambiguous`, `RegistryGaugesHonest`, `LatestCopySettles`, `ConfiguredGaugeSettles` |
| `quote_time` | one quote over instants around the epoch and two second boundaries | `GateMatchesAssert`, `SignedBoundWithinHorizon`, `PublishInSession` |
| `sign_flight` | two contexts, two callers, three signs, cap 1, sweep every 2, late timers | `TypeOK`, `SingleFlight`, `FailureNeverCached`, `OverCapOnlyInFlight` |
| `sign_wait` | one context, two callers, timers on time | `BudgetCoversRetry`, `ImplementsService` |
| `session` | two symbols, two list changes, two prices, one fault, two frames each way | `NoEmptySubscribe`, `ServiceFollowsSession`, `SilenceEndsSession`, `HealthyWireKept`, `DisownedIsAnnounced`, `KeepsFeedPromise` |
| `session_converge` | two list changes, two faults, a backoff that doubles to its cap, under fairness | `SubscriptionConverges` |
| `startup` | all eight configurations, two uploads out of three files, three faults, boot of three reads, under fairness | `ServesCheckedCopy`, `BootBounded`, `TokenOutlivesRequest`, `SettlesAcrossRestarts` |
| `token_file` | two equities, two chains, five addresses, nine configurations, two edits | `ServesAcceptedSlots`, `NoQuoteFromBeforeMove`, `RunsWhatValidates`, `UnmovedKeepQuotes` |
| `server_margin` | the instance of a reused slot in a batch that signs slowly; expects a violation | `ReuseMarginAtReply` |

Every property is stated in words where it is defined. Some remarks:

- *Bounds.* `MaxGens` 2 gives a key a generation, an eviction and a
  re-pricing (the ABA case). Ticks are half seconds so that instants inside a
  second occur; in `server_batch` they take the clock past the horizon of the
  shorter-lived frame, so that a quote dies, by its signed second first, between
  the build and the final pass, and to the last instant at which the longer-lived
  one may be reused. In the other server runs a quote is past its bound only
  where the frame says so (`server_ends`). Two
  uploads after boot suffice for refuse-then-repair and move-and-restore. Two
  callers and three signs suffice for a sign, its failed predecessor and a
  successor of one hash. In the session runs a heartbeat is one tick and the
  deadline two (the code has 15 s and 60 s: a deadline of several heartbeats);
  two list changes let the list change while the delta of the first is being
  sent, and two faults let a reconnection fail. In `startup` a request takes up
  to one tick and the token margin is three (the code has 20 s and 60 s), lives
  of three and five ticks are a token not worth caching and one that is; three
  faults exhaust the three reads (the code has four). Two edits are enough to
  change a spelling and then an address, or to break a file and repair it.
- *Symmetry* is used where no liveness is checked and the values are
  interchangeable: the symbols of `session`, the handlers of `server_race`, the
  callers of `sign_flight`.
- *Crossed replies.* The slots of one reply may carry different publish times,
  since one may be reused; `ReplyNeverCrossed` says that their prices still come
  from statements that agree, given that each frame carries a spread.
- *Reuse lag.* The bound is the one the README of the repository gives: the
  horizon of the reused quote minus the margin.
- *Deadlock* is checked in the server runs: a handler can always receive a
  request. The other instances stop at their bounds.

*Fairness.* `server_ends` assumes that a handler that can move does
(`WF` of its own steps): its task is polled, locks are held only for synchronous
stretches, and the signer's answer is bounded by `WAIT_TIMEOUT`. It assumes
nothing of clients, frames, uploads or the clock. `registry` assumes that the
loop takes its steps: the ticker keeps firing and a read that can succeed in the
end does. `sign_wait` assumes that a task whose timer fired or whose channel
settled is polled.

`session_converge` assumes that the task is polled, that time passes, that the
service reads and heartbeats, and that an attempt to connect ends: the code has
no deadline for the last, only TCP has. A list change needs strong fairness:
frames may make the other branch of `select!` ready again and again, and
`tokio::select!` picks among the ready branches at random. `startup`
assumes that a process that can go on does and that one that ended is started
again, which is the platform's restart policy; failures are finitely many.
`registry` also assumes that `/status` is asked again, because it "is already on
the obs scrape path" (comment in `lib.rs`).

### What the violation says

`server_margin`: `README.md` and `reuse.rs` say a signature is served again
while at least `reuse_min_remaining_secs` remain. The lookup checks it; the final
pass checks only that the signed expiry lies ahead. In a batch whose later slot
signs for a while, a reused slot goes out with less.

### Remarks on comments in the code

Met while modelling, and kept here because each is a matter of wording:

- `expiry_from_quote` says a negative value is rejected. The division comes
  first, so -999 to -1 ms become second 0; `validate_quote_expiry` has refused
  such a quote before, so no response is affected.
- `LiveClient` "auto-reconnects with exponential backoff": after a session that
  ended without an error, a proper close by the service included, `run_loop`
  reconnects at once.
- `Retry::BOOT` adds up the waits, half a minute. A read that times out takes
  longer (token and request, 20 s each), so boot may try for up to 188 s;
  `BootBounded` is the bound that holds.
- A config with inline tokens passes `validate` and is refused by `serve_source`.
- A `/status` that waited for the cache while a reload was applied sets
  `oracle_configured_symbols` back to the size of the previous set, until the
  next `/status`: `ConfiguredGaugeSettles` shows that it does not last.

### Mutants

Each property has a mutant in the module of the definition it changes, marked
"Mutant": the final pass without the second bound (and, for the same property, the
gate by milliseconds alone), a reuse comparison that skips
the price, an eviction that does not revoke, a failed sign left in the map, and
so on. TLC finds the property violated with the definition so replaced.

## 4. Proofs

TLAPS proves, for every value of the constants that satisfies the named
assumptions:

| module | theorem | property |
|---|---|---|
| `OracleServerProofs` | `HoldersCurrent` | `LiveHoldersCurrent` |
| | `DisownedNeverServed` | `NoDisownedPrice` |
| | `RetiredStayOut` | `RetiredSymbolsStayOut` |
| | `RunningSetSound` | `RunningSetUnambiguous` |
| | `ServerTypes` | `TypeOK` |
| | `PricesBound` | `PriceBoundToToken` |
| | `ExpiryHonest` | `SignedExpiryHonest` |
| | `RetiredRefused` | `RetiredTokenRefused` |
| | `StrictWhole` | `StrictAllOrNothing` |
| | `NeverCrossed` (given `FramesHaveSpread`) | `ReplyNeverCrossed` |
| | `LagBounded` (given `SourceNotAhead`) | `ReuseLagBounded` |
| `TelemetryProofs` | `GaugesHonest` | `RegistryGaugesHonest` |
| | `RegistrySound` | the two properties of `Reloader`, under these steps |
| `SignatureCacheProofs` | `SignTypes` | `TypeOK` |
| | `OneFlightPerContext` | `SingleFlight` |
| | `FailuresNeverServed` | `FailureNeverCached` |
| | `CapHolds` | `OverCapOnlyInFlight` |
| | `BudgetCovers` (given `BudgetOfTwo`) | `BudgetCoversRetry` |
| | `ServiceSafety` | the safety part of `ImplementsService` |
| `PricingSessionProofs` | `EmptyNeverSent` | `NoEmptySubscribe` |
| | `ServiceFollows` | `ServiceFollowsSession` |
| | `SilenceEnds` | `SilenceEndsSession` |
| | `HealthyKept` | `HealthyWireKept` |
| | `DisownedAnnounced` | `DisownedIsAnnounced` |
| | `FeedPromiseKept` | `KeepsFeedPromise` |
| `StartupProofs` | `CheckedCopyServed` | `ServesCheckedCopy` |
| | `TokenOutlives` | `TokenOutlivesRequest` |
| | `BootIsBounded` (given `PowersDouble`) | `BootBounded` |
| `TokenFileProofs` | `SlotsServed` | `ServesAcceptedSlots` |
| | `OldQuotesGone` | `NoQuoteFromBeforeMove` |
| | `RunsValidated` | `RunsWhatValidates` |
| | `UnmovedKept` | `UnmovedKeepQuotes` |
| `QuoteTimeProofs` | `GateIsTheAssert` | `GateMatchesAssert` |
| | `SecondsNeverExtend` | `SignedBoundWithinHorizon` |
| | `SessionContainsPublish` | `PublishInSession` |

`RegistryProofs` holds what the operations of the cache and of the reload loop
preserve; the server, telemetry and start-up build on it. With the theorems every
safety property that a passing run checks is also proved.

### The inductive invariants

*Cache and reload loop* (`RegistryProofs`). `CacheInv` has the part the properties
do not mention: live generations have been handed out, and no two keys share
one. Without it an eviction of one key could revoke, or a fresh insert revive,
what a holder for another key relies on. `RegistryInv` says where `apply` is:
`ReloadProgress` ties the cached symbols to the list, the running set and what is
still to be forgotten after each of the three steps, which is what makes
`RetiredSymbolsStayOut` hold again at the end; `GenerationsGrow` orders the
running, refused, read and latest generations, and gives that
`Decision::Unchanged` cannot arise.

*The server, first part.* `ServerInv` is `CacheInv` and what each holder of a
generation knows. `Shape` ties the slots to the bodies, `NothingBuilt` says that
before the build no slot has a response, `QuoteInSnapshot` that a slot past
admission has its quote in the snapshot, and `SnapshotsCurrent`, `StoredCurrent`,
`AnswersCurrent` say `Current` of the snapshots, the stored signatures and the
responses. `Current` is preserved by inserts and evictions, so every frame, reload
and clock step preserves all three at once; the handler's steps copy entries from
cache to snapshot to response to store. `NoDisownedPrice` follows because the
final pass requires the snapshot's generation to be live.

*The server, second part.* `BatchInv` says what one request holds as a predicate
over values, `RequestOK`: the phases its slots may be in at each place, the token,
direction and price of an answer relative to the quote of the first snapshot, and
that its validity is the signed second. The reused answer is where the work is:
`StoredOK` keeps with each stored response the token it was priced for and its
expiry, so that `same_statement` at the lookup gives the price of the current
quote. `StrictOK` adds that slots of a strict batch are built in turn, `SetsKnown`
that a generation has one set of rows, which `RetiredTokenRefused` needs when the
set changes after the final pass took it.

*Telemetry.* `OpsInv` is the registry's invariant and the property itself: the loop
has a copy to decide on only between two swaps, and `/status` writes two other
gauges.

*The signature cache.* `SignInv` adds to the types that an entry not yet started
is pristine, that a result is pending until its task ends, that the map holds an
entry under its own hash, that a task in its attempts is the registered entry of
its hash, and that a task that has failed is not in the map. The last two are
what an eviction by identity (`Arc::ptr_eq`) and evict-before-broadcast give;
neither `SingleFlight` nor `FailureNeverCached` is inductive without them.
`TimerInv` counts a caller's budget and both attempts from the start of the sign.
The refinement maps a context to the number of its tasks in their attempts;
`OneFlightPerContext` makes that number 0 or 1, so every step is a step of
`SigningService` or a stutter.

*The session.* `SessionInv` has four parts. `Wire`: there are frames only where
there is a connection. `Clocks`: deadline and silence add up to the read deadline,
and a connection that is up is never silent for longer than a heartbeat. `Views`:
the subscription frames on their way, applied to the service's view, give what
the session believes it subscribed to; between the two sends of a change that is
the old list and the new one. `Prices`: prices on their way come in the
producer's order and are newer than anything cached before, and behind a disowned
one comes its halt unless the subscription was interrupted. The last two are what
`KeepsFeedPromise` and `DisownedIsAnnounced` rest on.

*Start-up.* `StartInv`: what `main` can be doing where (`Phases`), generations
(`Numbered`), that a copy is as new as it has to be from when it is read until it
is run (`Fresh`), and that a token that may still be used has
the margin left (`TokenFresh`). `BootTime` bounds the time by the attempts so far.

*The token file.* A file taken to hold the same rows is accepted and the running
set kept, so the set is not the projection of the accepted file. `RunInv` says that
the two have the same rows once texts are lower-cased, that the running rows
validate and give each symbol one address; the registry can be read off the
lower-cased rows (`RegistryOfRows`), so it is that of the accepted file. A quote
survives a reload only if its row has the same lower-cased text before and after,
hence the same bytes.

*Time.* The state carries an arbitrary quote; the theorems are the arithmetic of
floor and truncation, from `Grid \subseteq Int` alone.

`SessionInv`, `StartInv`, `RunInv` and `OpsInv` were also checked by TLC on the
instances of `session`, `startup`, `token_file` and `registry`.

### Assumptions

Of the constants, each named in the module that declares them and evaluated by TLC
on every run: frames name keys of the cache and have integer times
(`FrameAssumption`); the clock starts after 1970 and moves (`ClockAssumption`);
rows of a file name known symbols and addresses (`FileAssumption`); boot has
checked the boot file, and the settlement token is no row's address
(`ServerAssumption`, `BootAssumption`); the read deadline exceeds the heartbeat
(`SessionAssumption`; 60 s and 15 s); the token margin exceeds two timeouts and
tokens live longer than that (`BucketAssumption`; 60 s and 20 s); a file is a
table of the modelled shapes with finitely many chains (`TokenFileAssumption`,
`FirstFileAssumption`).

Four theorems have a hypothesis of their own:

- `FramesHaveSpread`: the two rates of a frame do not cross. The producer's
  promise; the server does not check it.
- `SourceNotAhead`: no frame is stamped ahead of this server's clock. The server
  accepts such frames; a reuse may then trail by more.
- `BudgetOfTwo`: `WAIT_TIMEOUT` is above two `SIGN_TIMEOUT`s, as in `sign.rs`, and
  timers fire when they are due. A runtime that polls late can break it.
- `PowersDouble`: `2^(n+1) = 2 * 2^n` for the exponents in use. A fact of
  arithmetic that none of the provers has.

### Only model-checked

Liveness under fairness is beyond the prover: `RequestsEnd`, `LatestCopySettles`,
`ConfiguredGaugeSettles`, `SubscriptionConverges`, `SettlesAcrossRestarts`, and the
part of `ImplementsService` that says every call is answered.

## 5. Not modelled

- Pure conversions: HTTP and ABI decoding, CBOR, TOML, byte layouts, Rain Float,
  EIP-191 hashing, the audience of an ID token, percent-encoding of object names.
  What they refuse is kept as a refusal.
- The KMS, bucket and metadata clients below one request: it succeeds, fails or
  takes its time.
- `/health`, `/metrics`, counters and logging: nothing reads them back.
- Installing the metrics recorder (`MetricsHandle::install`): `main` does it once,
  before any other task exists.
- Argument parsing (`clap`, `validate_args`), and `deploy`, `observability`,
  `strategy` and `examples`, which hold no logic of the server.
- Clock steps backwards.
- `static_field_changed` in `decide`: the candidate is built from the static
  table, so no file can make it answer.
- Deadlines the code does not have: a handshake, an ID token request or a send
  that never ends (listed as a hazard).

## 6. Plan

Done: the modules above, in the order `QuoteTime`, `QuoteCache`, `Reloader`,
`ReuseCache`, `OracleServer`, `SignatureCache` with their proofs; then
`PricingSession` with `PriceFeed`, `SigningService`, `Bucket` and `Startup`,
`TokenFile`, `Telemetry`.

Then the proofs: the cache and the reload loop, the server, the signature cache,
the session, start-up, the token file, telemetry.

Next:

1. Facts a fairness argument would rest on, without fairness: that the step which
   has to happen is the only one that can move the state it waits for (a refused
   generation in `Reloader`, a waiting caller in `SignatureCache`).
2. `BootIsBounded` without `PowersDouble`, with the waits as a recursive function.
3. That a file `Reloader` calls valid is one `TokenFile` accepts: the abstraction
   between the two, which is argued in section 2, as a refinement.
