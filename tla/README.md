# Noeracle in TLA+

Models, model-checking runs and machine-checked proofs for the Noeracle price
oracle: the Soroban contract `oracle_v0`, the consumer contract that calls it,
the attestation service ("keeper") whose signatures it verifies, the SDK's
subscription to that service and its pull path to the contract, and the monitors
that watch the service.

    tlc -workers 2 -config MCOracleTime.cfg MCOracle     # one run
    tlapm OracleProofs.tla                               # one proof module

`PROJECT.json` lists the runs, the lines of code every definition stands for,
the hazards, the mutants and the theorems. Line numbers below are relative to
the repository root.

## 1. The system

Prices travel from exchanges to a contract's storage on the pull path:

    venues --HTTP--> keeper --/v1/latest, /v1/stream--> SDK --transaction--> consumer contract
                       |  ^                                                       | same transaction
                    signs |  watchdog, host restarts                         oracle_v0 (verify, store)
                              monitor --/health--> alert                          | views
                                                                               readers

### Inventory

| component | source | state | operations | what makes it correct | status |
|---|---|---|---|---|---|
| Oracle contract: update and admin entrypoints | `oracle_v0/src/lib.rs` | publishers, quorum, temporary price with a TTL, persistent price, history ring; the ledger's time | constructor, `set_publishers`, `set_quorum`, `update_batch_ed25519_args`, `update_batch_ed25519_persistent`, `update_quorum_ed25519_persistent` | every stored price is signed, in the window and newer; quorum prices are medians of distinct registered keys; latest price and ring agree; a failed call leaves no trace | partly: all but `upgrade`; `__constructor` as Init |
| history views | `oracle_v0/src/lib.rs` | reads the ring | `prices`, `twap` | agree with the latest price; mean defined and between the extremes | modelled |
| median | `oracle_v0/src/lib.rs` | a local vector | insertion sort, middle | is the order statistic, ties and even counts included | modelled |
| Consumer contract | `examples/consumer_v0/src/lib.rs` | the oracle's address (set once, by whoever calls `init` first, to whatever it passes), positions | `init`, `open_position`, `get_position` | if the address is the oracle's, a position's price was signed by a publisher registered then, in the window | modelled |
| Keeper: poll loop, signing, watchdog | `scripts/keeper/index.mjs`, `keeper.mjs`, `config.mjs` | samples, attestations, poll in progress, process life | `pollOnce`, `loop`, watchdog, exit, restart | signs only fresh quotes, in time; stamps coherent across restarts; a stalled process ends | partly: all but a poll that throws while signing |
| Keeper: venue requests | `scripts/keeper/exchanges.mjs` | all-tickers mode per venue, requests in flight | `fetchAll`, per-venue requests, fallback | one venue's failure costs only its own samples | modelled (JSON formats left out) |
| Keeper: aggregation | `scripts/keeper/aggregate.mjs` | none | `aggregate` | price between fresh quotes, no venue beyond its weight | modelled |
| Keeper: HTTP surface | `scripts/keeper/server.mjs` | set of SSE clients | `/health`, `/v1/latest`, `/v1/stream`, broadcast | status follows the age of what is served; every client is told of every round, and forgotten when it goes | modelled (`/health` in `Watch`, the stream in `Stream`) |
| Message format | `scripts/keeper/message.mjs`, `build_msg` in `lib.rs` | none | `assetTag8`, `buildMessage`, `build_msg` | both sides build the same bytes and they mean one price only | modelled (Ed25519 is the pair of key and message) |
| SDK: subscription | `sdk/src/client.ts`, `sdk/src/stream.ts` | the reader's connection and buffer, the abort signal | `subscribe`, `close`, reconnection | updates never go back, none is lost while connected, half frames are never joined, it recovers, close releases everything | modelled |
| SDK: fetch and arguments | `sdk/src/client.ts`, `types.ts`, `errors.ts` | none | `fetchLatest`, `price`, `updateArgs`, `toUpdateOp` | what it hands out, the contract accepts while the transaction may land | modelled |
| Demo and e2e scripts | `examples/consumer_v0/demo.mjs`, `sdk/examples/e2e.mjs` | one transaction in flight | fetch, build, simulate, send, poll, read back | a give-up is final; the read-back sees the update or a newer one | partly: `read-price.mjs` and `subscribe.mjs` only print |
| Monitor, SLA check | `scripts/keeper-monitor.mjs`, `scripts/sla_check.mjs` | one check in progress | probe, retry, alert, digest; per-asset check | lasting trouble is reported in time, messages are true, an asset left behind is found | modelled (wording left out) |
| Benchmark entrypoints and harness, deploy script, ledger-limit fetcher | `bench/`, `bench` feature of `lib.rs`, `scripts/run_oracle_bench.mjs`, `scripts/fetch_ledger_limits.mjs`, `scripts/deploy_oracle_v0.sh` | none of the system's | one-shot scripts and cost measurements | - | not modelled: see *Not modelled* |

### Interactions and hard behaviours

* **Contract calls.** The Soroban host runs one call at a time and commits or
  drops its writes as a whole. What is hard is inside a call (verification and
  writes are interleaved asset by asset, so a late bad signature must undo
  earlier writes) and between calls (rounds of independent consumers in any
  order, an admin rotating keys and quorum, two entrypoints writing the same
  persistent price, temporary entries that expire and with them the memory of
  the last round).
* **Consumer to oracle.** A synchronous call inside one transaction: an error of
  the oracle traps the consumer. The consumer prices the position from its own
  arguments, not from what the oracle stored.
* **Keeper.** Single-threaded Node: poll loop, watchdog and HTTP handlers
  interleave only at awaits. Venues hang, fail, reject a symbol, omit an asset;
  the process exits (watchdog, crash guard, SIGTERM) and comes back with nothing
  but its key; time is read twice from one clock and floored two ways.
* **Keeper to subscriber.** One long HTTP response per connection, cut into chunks
  anywhere. It is lost with the network, with the keeper's process (which comes
  back with an empty snapshot), with the user's `close()`, which may come during a
  fetch, a read, a backoff or from inside a handler with frames still buffered,
  and it is *not* lost when a handler throws: the reader reconnects and leaves
  the old connection open.
* **Client to contract.** A price is fetched, packed, simulated, submitted and applied
  seconds apart, by three clocks (service, client, ledger). It is checked for age
  at the fetch and again by the contract; between the two it ages, other users
  write the same entry, keys rotate, requests fail, and the script may stop waiting
  before its transaction is decided.
* **Watchers.** The watchdog and the host act on the service; the monitor and the SLA
  check only look at it, through a network that loses requests. What they see flips
  with age bounds, process ends and restarts.
* **Between keeper and contract.** The contract orders rounds by `round_id` and
  ages them by `timestamp`, and never compares the two. That this is sound is a
  property of the keeper: see *coherent signing* below.

## 2. Modules

| module | models | used by |
|---|---|---|
| `Median` | the median by rank | everything about quorum rounds |
| `Oracle` | the contract, one action per entrypoint, atomic; its properties | `OracleViews`, `OracleCall`, `Consumer`, proofs |
| `PriceFeed` | abstract specification of a price storage | `Oracle`: the persistent one (`FeedSpec`) and the temporary one (`TempFeedSpec`) |
| `Sums` | the sum of a function over a finite set | `Aggregate`, `OracleViews` |
| `OracleViews` | `prices()`, `twap()` | `MCOracleViews` (run `oracle_quorum`) |
| `OracleCall` | the update entrypoints loop iteration by loop iteration, with rollback | implements `Oracle` (`ImplementsOracle`) |
| `MedianSort` | the insertion sort of `median()` | `MCMedianSort`, compared with `Median` |
| `Consumer` | the consumer contract over the oracle it calls | `PullPath` |
| `PullPath` | the SDK's fetch and arguments, the demo and e2e scripts, RPC node and other users, composed with `Consumer` and `Oracle` | `MCPullPath` |
| `Config` | the table of assets, venues and weights | `MCAggregate` |
| `Aggregate` | `aggregate()` | `Keeper`, `Board` |
| `Message` | the signed bytes, as the service writes and the contract rebuilds them | `Board` |
| `Board` | one asset's row of samples, quoted by its venues, aggregated and signed at any moment | `MCAggregate` (run `attest`) |
| `AttestationService` | abstract specification of the service, as its readers see it | `Keeper` (`ServiceSpec`) |
| `Keeper` | poll loop, venues, watchdog, exits and restarts | `MCKeeper` |
| `Stream` | the SDK's subscription with the keeper's stream endpoint | run `stream` |
| `Watch` | watchdog, host restarts, monitor and SLA check, over ages instead of a clock | `MCWatch` |
| `StatisticsProofs` | lemmas about sums over finite sets, quotients and the median | the proof modules of the contract and the service |
| `OracleProofs` | the contract and its views: theorems and their lemmas | `OracleCallProofs`, `PullPathProofs` |
| `OracleCallProofs` | the loops implement the atomic entrypoints | - |
| `MedianSortProofs` | the insertion sort: theorems | - |
| `PullPathProofs` | the pull path and the consumer: theorems | - |
| `KeeperProofs` | the service: theorems about the aggregate, the keeper, the signed bytes and the board | - |
| `StreamProofs` | the subscription: theorems | - |
| `WatchProofs` | the watchers: theorems | - |
| `MC*` | constants for TLC | the runs |

### How the contract's code maps to `Oracle`

| code | model |
|---|---|
| `DataKey::Publishers`, `Quorum`, `PriceTemp`, `PricePers`, `PriceRing` | `publishers`, `storedQuorum` (0 = key absent), `priceTemp` + `tempTtl`, `pricePers`, `priceRing` |
| `env.ledger().timestamp()`, ledger sequence | `now`, and one TTL decrement per `CloseLedger`, which advances `now` by one to `MaxGap` seconds |
| early returns of an entrypoint, in order | `ArgsResult`, `PersistentResult`, `QuorumResult`: the name of the error, `"Trap"` for a failed verification, or `"Ok"`; a call that does not return Ok is no step |
| the window, price and round checks of the entrypoints, `is_publisher`, `quorum`, `push_ring`, `write_temp` | `Fresh`, `PriceOk`, `IsNewer`, `IsPublisher`, `Quorum`, `PushRing`, `TtlAfterWrite` |
| the per-asset loop of writes | `NewEntries`: the entries the loop leaves, including an asset listed twice (the second occurrence finds its own write and does nothing) |
| `ed25519_verify(build_msg(..))` | `Verifies`: a signature is the pair of its key and its message; `Signatures` is every signature some key holder produced |
| saturating u64 arithmetic | `SatSub`, `SatAdd` with `U64Max` |

The closed forms of `Oracle` (results and writes without loops) are not taken on
faith: `OracleCall` executes the loops, and is checked on the run and proved for
every call (`OracleCallProofs`) to return the same result and to implement `Oracle`
step by step.

`upgrade`, which replaces the code itself, and the `NotInitialized` returns are out:
admin calls are those the admin authorized, and the constructor runs once, before
any other call.

### How the keeper's code maps to `Keeper`

| code | model |
|---|---|
| `loop()` in `index.mjs` up to the await | `StartPoll` (`wake` is the pending `setTimeout`) |
| each venue's settled promise in `fetchAll` | one of `Fail`, `Reject`, `Answer` in `VenueStep` |
| the code of `pollOnce` after `await fetchAll`, the broadcast, and the scheduling of the next poll | `SignRound`, one step: nothing in it awaits |
| `AbortController` with `FETCH_TIMEOUT_MS` | `Deadline`: the clock does not pass it while a venue is awaited, so the venue fails at the latest then |
| `setInterval` watchdog | `Watchdog` at `nextWatch`; exits past the grace period when stalled |
| crash guards, SIGTERM | `Exit`, at any step; `Restart` is the host's |
| `state.samples`, `state.latest`, the `allMode` set of the adapters | `samples`, `latest`, `allMode`; all lost in `Down` |
| everything ever signed with the key | `signed`, a history variable no action reads |

A venue's answer is written when it arrives. The code collects the answers of a
poll and merges them after the await; nothing reads `samples` in between, and
the timestamp of a sample is taken when its venue answered, so the two are the
same to every other step. Prices are counted in units of the signed
precision (integers), which leaves floating point out; the standard deviation is
compared squared. A poll that throws while signing (a price no BigInt takes) is
not modelled.

`Board` is one row of `samples` (`board`, for the asset `ticker`) without the schedule:
`Quote` is a venue's answer as `pollOnce` stores it, `Pass` the time between two
answers, and what would be signed at a moment is `Aggregated(board, clock)`, encoded by
`Message`. `AttestationService` is the service from outside: its `Sign` is a poll that
has signed some assets, its `Forget` the end of a process.

### How the subscription's code maps to `Stream`

| code | model |
|---|---|
| `sseClients`, `keeper.getAll()` | `clients`, `snapshot` (the round it holds, 0 while empty) |
| `pollOnce` and `broadcast` | `Poll`: a new round, or the same snapshot sent again |
| the `/v1/stream` handler: headers, snapshot, `sseClients.add` | `Connect`, one callback |
| `req.on("close")` | `NoticeClose`, any time after this end or the network let go |
| `run()` between its awaits | `pc`: fetch, connect, read, deliver, backoff, ended |
| `buffer`, a local of one turn of the outer loop | `buffer`, emptied by `Connect` |
| a frame | two pieces, so that a chunk (`Read`: any number of pieces) may end inside one |
| the inner `while` over `\n\n` | `NextFrame`, one frame per step |
| `onUpdate`, the user's code | returns, calls `close()`, or throws (`HandlerReturns`, `HandlerCloses`, `HandlerThrows`) |
| `controller.abort()` | `aborted`, and `HangUp` of every connection |

The loop over buffered frames does not look at the signal: after `close()` from a
handler the frames already buffered are still delivered, in the model as in the
code. Assets and JSON are left out; a snapshot is the round it holds, because one
poll signs a snapshot's assets together and an asset left behind keeps its older
stamp. The `connect` step stands for the request's way to the server and back; a
request aborted on its way out never registers.

### How the pull path maps to `PullPath`

| code | model |
|---|---|
| the awaits of `demo.mjs` and `e2e.mjs` | `pc`: fetching, fetched (e2e awaits `getAccount` after the fetch, the demo before), built, prepared, polling, landed, ended |
| `GET /v1/latest` | `Serve`: each asset as signed in some poll up to now, not all in the same one, or absent; the response may arrive any time later |
| `fetchLatest`, `updateArgs`, `price()` | `FetchResult` (errors in the code's order), `SameRound` and `UpdateArgs`, `Fetched` |
| `prepareTransaction`, `sendTransaction`, the `getTransaction` loop | `Prepare` (throws what the contract refuses), `Send`, `Poll` |
| `setTimeout(30)` / `setTimeout(60)` of the transaction builder | `deadline`, by the client's clock; `InTime` compares it with the ledger's time |
| a rejected promise at any await | `RequestFails`; a submission that failed may still have reached the network |
| how often and how fast a script polls | `POLLS` and `POLL_DELAY`, of each script (the e2e script's 1.5 seconds are whole ticks here) |
| an RPC node behind the network | `Poll` may answer NOT_FOUND up to `MaxIngest` seconds after the transaction was decided (`decidedAt`); simulation and read-back are answered at the ledger's state of the moment, which trails the time by up to `MaxLag` |
| the contracts | `OpenPosition` of `Consumer` and `UpdateBatchArgs` of `Oracle`, unchanged |
| `init(oracle)` | `InitConsumer`: takes no authorization and stores any of `Addresses` for good; what `open_position` then gets from its call is `OracleReturns` and `Invoked`: the oracle's answer and step, or another contract's answer (`Obliging`: one that returns whatever it gets) |
| everybody else | `Others`: other traders open positions, and anybody updates the oracle, with any call of `BatchCalls` (`Submittable`: right or wrong, but for signatures the service has yet to make); the admin rotates keys |

`clock` is real time, the client's clock is off by `skew`, and a ledger applied now
closed at most `MaxLag` seconds ago (`Recent`). `Account` is the script's own trader;
nobody else opens its position, because `open_position` wants the trader's
authorization. What `PositionPricedBySignedRound` says is said of a consumer whose
stored address is the oracle's: with another one the position is priced by whatever that
contract lets pass, and which address is stored is in the hands of the first caller of
`init`. The service is
`Attestation`: a price per asset and second, two rounds per second of which one is
polled. With that, `Serve` may answer any snapshot `AttestationService` reaches, which by
the refinement `ServiceSpec` is all that `Keeper` serves, and mixes it does not reach:
attestations of any polls so far, with any of them absent. A behaviour follows one
script until it has ended and its transaction is decided (`Active`); then it stops,
which is why the two runs over it do not check deadlock.

### How the watchers map to `Watch`

A tick is `RETRY_DELAY_MS`, ten seconds. The keeper signs several times in one, so it
either has signed in a tick (its venues answer) or has not (`cutOff`); its ages are
counted in ticks.

| code | model |
|---|---|
| the watchdog, the crash guards, the host's restart policy | `Watchdog`, `Crash`, `Restart`: at most `MAX_RETRIES` restarts, each on a fresh address |
| `/health` | `Responses` over `Status`; a process that is down is answered for by the host's proxy, and any probe may be lost |
| `checkHealth`, `isHealthy`, the retry delay | `Probe`, `isHealthy`, `RetryDelay` |
| the heartbeat hour or a manual run | `heartbeat`, chosen by `StartCheck` |
| `problemMessage`, the digest, a failed Telegram call | `message`; a call that fails makes the scheduled run fail, which its owner is told of, so it counts as reported |
| `sla_check.mjs` | `Breaches` and `SlaCheck`, with every asset free to lose its quotes (`Supplies`) |

The two watchers share nothing, so a behaviour has one of them (`watcher`). Their
schedules are taken to be on time, and the monitor's two, the alert's and the daily
digest's, are one, each check with or without a heartbeat. A machine stopped with SIGTERM exits 0, which the
host's on-failure policy leaves down: an operator's act, left out. The model
counts the `max_retries` of `fly.toml` over the whole behaviour, the weakest reading.

### How the message maps to `Message`

A byte is a digit of `Base` and each field has a width, so that small instances wrap
where the real ones do. `PriceBytes` is `buildMessage`'s loop from the low byte up;
`build_msg` is the contract's, over `to_be_bytes`. `Meaning` decodes the layout.

### Seeded faults

An operator whose comment starts with *Fault* (`UncheckedSkew`, `PushRingLate`,
`StampOfPollStart`, ...) is no part of any specification. It is the plausible bug
that the property of a run must find when the definition after it is replaced by
it; `PROJECT.json` pairs them under `mutants`.

## 3. Runs

| run | bounds | shows |
|---|---|---|
| `oracle_time` | 2 assets, 1 registered key and a stranger, 3 signed rounds at seconds 1, 2, 8, time to 9, TTL 3/5 | every written price is signed and in the window (`TemporaryPriceBacked`); the temporary price never goes back, not across the expiry of its entry (`TemporaryPriceNeverRegresses`); a lagging caller reads a price still in the window (`SilentNoOpReadsFresh`); the persistent storage is a price feed (`FeedSpec`), and so is the temporary one (`TempFeedSpec`) |
| `oracle_quorum` | keys k1..k3 and a stranger, rosters of 0 to 3 rounds with repetitions, one key signing two prices for a round, publisher lists with a key listed twice, quorums 0..4, 3 rounds, a ring of 2, pages 0..3, an I128Max a full ring just reaches | the persistent price is always backed by `Quorum` distinct keys (`PersistentPriceBacked`), a minority cannot move it out of the others' range (`MinorityCannotMovePrice`); ring, latest price and the history views agree (`RingMatchesLatest`, `PagesAgreeWithLatest`), and the mean exists and is between the extremes (`TwapDefinedAndBetween`) |
| `median_sort` | every vector of up to 5 prices out of 4, an I128Max that two prices at the bound just reach | the sort is a sort, its middle is the median by rank, and the addition in it never traps |
| `oracle_call` | every way a call fails, all three entrypoints | `ReturnsFirstError`, `ImplementsOracle` |
| `pull` | the demo asks for 2 assets, e2e for one; a client clock a second off either way, a ledger and an RPC node up to a second late, two registered keys in turn, another trader, two addresses to initialise with, a round of the other key and a price nobody signed, TTL 5/6, time to 7 | what the client accepts the contract accepts until the transaction expires, whatever else happens (`ClientAcceptsWhatContractAccepts`); whoever opens a position, its price was signed by a key registered then, in the window (`PositionPricedBySignedRound`), and the script's is at most its freshness limit and timeout old (`PositionAgeBounded`); NOT_FOUND is final (`GiveUpIsFinal`); what e2e wrote or met can be read back, or a newer round (`ReadBackNotOlder`) |
| `attest` | one asset per set of listing venues, at the real weights, with absent, fresh and stale quotes of 3 prices in any order; base-4 bytes in fields of 3, 3, 2, 2 | `AggregateWithinFresh`, `NoVenueOutweighsItsShare`, `SignedBytesMeanThePrice` |
| `keeper_rounds` | 2 venues, 2 assets, half-window ticks, time 6: three polls, or one slow one and a restart | `SignedFromFreshQuotes`, `SigningIsCoherent`, `QuotesAreSignedInTime`, and the refinement `ServiceSpec` |
| `keeper_watchdog` | 1 venue, 1 asset, time 16: boot, stall, watchdog exit, reboot | `StallEndsTheProcess` |
| `stream` | 3 rounds, 2 faults (lost connection, restart, throwing handler), 6 pieces in flight, `close()` anywhere | `UpdatesNeverRegress`, `NoRoundSkipped`, `NeverGarbled`; under fairness `CatchesUp` and `CloseReleasesAll` |
| `watch` | bounds 1, 3 and 6 ticks for health, grace and serving, 3 probes, a monitor each 9 ticks or an SLA check each 12, 3 restarts, 2 assets | `AlertInTime`, `MessagesAreTrue`, `AssetOffSlaIsReported`; under fairness `SelfHeals` |

**Why the bounds are enough.** The contract compares rounds, timestamps and
prices only with each other and with its constants, so three rounds (older,
equal, newer), a time that passes both ends of the acceptance window and the
TTL, one price below, two inside and one above the bounds, and one more round
than the ring holds reach every branch; the MC constants keep the order of
the real ones (`STALENESS + SKEW <= TEMP_THRESHOLD < TEMP_EXTEND`). The faulty
publisher of `oracle_quorum` is one of three, the largest minority of its quorum.
The keeper's constants keep the order of `config.mjs`: poll interval = window <
second <= timeout <= sample staleness, watchdog period <= grace; a tick is half a
window, so a poll can start, hang and end on both sides of a window and a second.
`keeper_rounds` checks interleavings of venues in a short time and
`keeper_watchdog` a long time with one venue; the watchdog never looks at a venue.

In `stream` three rounds are an old, a skipped and a new one, two faults are one
that strikes while the reader recovers from another, and six pieces are three
frames, enough for a chunk to hold a whole frame and halves of its neighbours.

In `pull` the constants keep the order of the scripts' and the contract's: freshness
limit (2 s) <= demo timeout (30 s), together at most the staleness bound (60 s), which
is e2e's timeout; the demo's polling reaches past its timeout. `clock` runs past the
expiry of every transaction built early in a behaviour, and past the life of an entry
written early: a second more in `ReadBackTime` and the run finds a read-back that
meets an expired one. Of the two calls others submit, one is acceptable while its key is
registered and its round in the window, and the other never; beside a client's round
the first is older, the same or newer. The consumer has other users beside the demo
only (`Trading`; the theorems hold for every value of it): to the oracle, a position is
an update. The demo's margins are assumptions of the module, in terms of its constants
(`PullAssumption`): outside them the properties are not claimed, and e2e is outside.

In `watch` the ages keep the order of the code's, 10 s < 30 s < 60 s < the schedules;
the periods are long enough for a stall, a watchdog exit, a restart without a
signature and a second exit between two checks. Counters saturate one past the
largest value they are compared with (`Saturated`), so time itself is not bounded.

`MaxTime`, `MaxGap`, `Moments`, `MaxRounds`, `MaxDrops`, `MaxWire`, the finite sets of calls and
signatures, `Active`, `Trading`, `MAX_RETRIES`, and *one delisting* (`Delist`) are the
only bounds, each named where it is used. `pull`, `doc_consumer_lagging` and `median_sort`
turn deadlock checking off: a script and a sort really end.

**Fairness.** `Stream` and `Watch` state fairness, because their properties are about
what eventually happens. In `Watch` time passes, timers and schedules fire, the
watchdog looks, and the host restarts what it has promised to, all weakly fair;
the venues, the network and a ban owe nothing (`Ban` may cut off every machine), so
`SelfHeals` promises service or the end of the host's restarts. In `Stream` every step of the reader that is a continuation of its own
loop, a resolved promise or a fired timer is weakly fair (`Fetch`, `Read`, `Done`,
`NextFrame`, `NoFrameLeft`, `Backoff`), and so is the server's `close` callback:
that is what the event loops give. `Connect` is strongly fair: a request may fail
(`FetchFails`), and the reader tries again each second for ever, so the assumption is
that of endlessly many requests the service accepts endlessly many. Nothing obliges
the keeper to sign (`Poll`), the user to close, a handler to return normally or the
network to fail; `CatchesUp` therefore speaks of rounds already in the snapshot, and
excuses the process that ends and takes its snapshot with it.

That the keeper acts in time is a safety property here, because timers are modelled as
deadlines the clock cannot pass (`NothingDue`): Node fires them when the loop is
free, and no step of this program computes for long.

### Assumption: coherent signing

`TemporaryPriceNeverRegresses`, `SilentNoOpReadsFresh` and `TempFeedSpec` hold if publishers sign
timestamps that do not run backwards along the rounds (`CoherentSigning`). The
contract cannot enforce it and does not try: a key holder that signs round 10^6
with today's timestamp blocks every later round silently. The keeper's side of
the bargain is `SigningIsCoherent`, over everything one key has ever signed,
restarts included; it rests on a second holding a whole number of round
windows (`WindowsDivideSeconds`, 1000 % 500 in `config.mjs`) and on both stamps
being floors of one clock reading taken after the awaits (`keeper.mjs:49-50`).
Two keepers with one key on two clocks are outside the model.

## 4. Where documents and code disagree

The first two are runs: TLC finds the document's sentence violated.

| run | document | code |
|---|---|---|
| `doc_outlier` | aggregate.mjs: "Reject gross outliers (manipulation, fat-finger prints) before averaging" | with n samples no deviation exceeds sqrt(n - 1) population standard deviations, so at 3 (config.mjs) the filter drops nothing up to ten sources; there are five venues.  The theorem `FewSamplesAreAllKept` says so for every table of prices |
| `doc_consumer_lagging` | consumer_v0/src/lib.rs:8-10: if round monotonicity fails the transaction reverts | a lagging round is Ok to the oracle; the position opens at the older price |

Others met while modelling are visible in a definition and need no run:

* THREAT_MODEL.md:145, every stored price is a quorum median when quorum > 1:
  `UpdateBatchArgs` writes the temporary price on one signature and never reads the
  quorum (lib.rs:182).
* ARCHITECTURE.md:263 "Reject if incoming round_id <= currently-stored":
  `Replaced` leaves such an asset out, and the call returns Ok.
* oracle_v0/src/lib.rs:336-338, one key moves the stored price by at most one rank:
  `Median` of two rounds is their mean, which either key moves.
* oracle_v0/src/test.rs:367, a quorum that cannot be gathered is refused:
  `QuorumInRange` counts list entries, and a key listed twice counts twice.
* keeper-monitor.mjs:66-67, `/health` is 503 past HEALTH_STALENESS_S:
  `Status` of `Watch`, like server.mjs:66-68, is 503 only past SERVE_MAX_STALENESS_S.
* keeper-monitor.mjs:10-11, healthy means "4 assets live": `isHealthy` does not look at
  the number of assets.
* sla_check.mjs:4-5, every asset is under 60 s old: `Breaches` looks at what is served,
  and an asset not signed since the last restart is not (`Absent`); neither watcher
  reports it.
* e2e.mjs:73, the oracle's price equals the one fetched: `ReadBack` finds another
  when a newer round landed first, and `ReadBackNotOlder` is what does hold. Its
  60 s transaction may also land after its price has left the window, or after
  40 polls of 1.5 s have given up.
* sdk/src/client.ts:118-120, a multi-asset result shares one round: `SignRound`
  leaves an asset without a fresh sample its older attestation.
* sdk/src/client.ts:165-166, `onUpdate` fires each time the service signs a new
  round: `Poll` broadcasts after polls that sign nothing too, so a handler sees the
  same round again.
* sdk/src/types.ts:54, close() stops receiving updates: `NextFrame` goes on with
  the frames already buffered when close() is called from a handler.
* ARCHITECTURE.md:253-254, signed at most ~500 ms before the fetch: a hung venue
  delays the signature by up to its timeout (`Deadline`, `QuotesAreSignedInTime`).

## 5. Proofs

All theorems hold for every value of the constants that the named assumptions of the
modules allow: every set of assets, keys, venues, signatures, calls, publisher lists,
every window, capacity, interval and weight. Each rests on an inductive invariant;
the runs check the properties on small instances, and where the invariant is not
one of them its parts are stated over the same variables.

### The contract

| theorem | property | needs |
|---|---|---|
| `TypeCorrect` | `TypeOK` | `Inv` |
| `HistoryMatchesLatest` | `RingMatchesLatest` | `Inv` |
| `PersistentPricesAreBacked`, `TemporaryPricesAreBacked` | every written price is signed by enough registered keys, in the window, and newer | `Inv` |
| `MinoritiesAreOutvoted` | `MinorityCannotMovePrice` | `Inv` |
| `StorageIsPriceFeed` | the refinement `FeedSpec` | `Inv` |
| `PagesAgree`, `MeanIsDefined` | `PagesAgreeWithLatest`, `TwapDefinedAndBetween` | `Inv` |
| `FirstErrorReturned` | `ReturnsFirstError` | `CallInv` |
| `LoopsImplementOracle` | the refinement `ImplementsOracle` | `CallInv` |
| `TemporaryRoundsAdvance`, `NoOpsAreHarmless` | `TemporaryPriceNeverRegresses`, `SilentNoOpReadsFresh` | `TimeInv`, `TtlCoversWindow` |
| `TemporaryStorageIsPriceFeed` | the refinement `TempFeedSpec` | `TimeInv`, `TtlCoversWindow`, `CoherentSigning` |

`Inv` is `TypeOK /\ RingMatchesLatest`. The hard conjunct of `TypeOK` is that a stored
price is positive and at most `MAX_PRICE` also when the contract computed it: the
median of a non-empty tuple of bounded prices is bounded, from `KthSmallestExists`
(for 1 <= k <= n there is a k-th smallest element, the least number whose `AtMost`
has k elements) and `KthSmallestIs`. The ring stays ordered because `Replaced` admits
only rounds newer than `pricePers`, which the invariant says is the ring's last entry.

The backing of a price is a *panel*: quotes for one entry at positions `1..n`, of
distinct registered keys, whose median is the price. `NextKey` gives a roster's rows
distinct keys, so rows and signers are as many. For the minority, the median of a
panel has at least half of it at or below and half at or above; fewer than half of
the quorum are faulty, so each half holds an honest quote.

`TimeInv` adds two facts to `Inv`, neither of which is visible in the storage: under
`CoherentSigning` every stored entry carries a stamp that was signed
(`EntriesStamped`), and a temporary entry leaves the window before it expires
(`OutlivesWindow`). Without the second the expiry of an entry would let an earlier
round back in; it is an invariant because a write extends the entry's life past
`STALENESS_SECS + FUTURE_SKEW_SECS`, and a no-op does not need to.
`TemporaryStorageIsPriceFeed` is the sum of it: mapped with a history of one entry
(`lastWritten`), the temporary storage takes the same steps as the persistent one. The
code compares the round only with an entry that is alive; the refinement says that
this is as good as comparing it with the last one written.

`MedianSort`'s `SortedPrefix` and `ReturnsMedian` (theorems `PrefixIsSorted` and
`SortReturnsMedian`) follow from `SortInv`: the vector is ascending, and a bijection of its
positions (`Rearranged`) says which submitted price each holds. Counts alone do not do:
that a value occurs equally often in two vectors does not give, without induction over
the values, that equally many positions are below a bound. The bijection gives both, and
the k-th of an ascending vector is its k-th smallest element (`AscendingRank`). That the
checked addition of the two middle prices does not trap is `WidthAssumption`: prices are
accepted up to 10^30, and twice that is an i128.

`MeanIsDefined` rests on the bound of accepted prices in `Inv`: the sum of a page is at
most `RING_CAP * MAX_PRICE`, which `ViewsAssumption` puts inside an i128, so the checked
add never gives up; `MeanIsBetween` is the rest.

`CallInv` says what a running call has found out and done by the time it is at iteration
`at` of the loop at label `pc`: every check of the loops before has passed, this one's
has for the iterations that are over (`Before`: row by row, for the nested loops), and
its working copy is `WorkOf`, the storage with the writes of the assets passed so far.
An asset listed twice is written at its first position (`WrittenSteps`); when the second
comes, its entry is no longer older than the round. When a check fails, what `CallInv` knows of
the earlier ones makes the error the closed form's (for the roster, where two checks
interleave, `RosterStops`); at the end of the last loop the working copy is
what the atomic action writes (`CommitIsUpdate`). The storage itself does not change
while a call runs, so `CallInv` stays true of it. With `LoopsImplementOracle` every
theorem about `Spec` holds of `CallSpec`.

### The pull path

`ClientIsNoLaxer`, `PositionsAreYoung` and `GivingUpIsFinal` follow from `PullInv`:
`Inv`, what the client holds is what the service signed at one past moment
(`Fetches`), and `deadline` bounds the age of what was fetched, the moment the
transaction is decided (`decidedAt`), and, with the node's lag `MaxIngest`, the time the
script keeps polling (`Deadlines`); `PullAssumption` is used as stated.
`PositionsAreBacked` combines the contract's invariant with what one transaction does,
whichever trader sends it and with whatever arguments: it does not look at the client at
all, only at `OpenResult` and at the stored address. `ServiceAssumption` says that the
service's attestations are among the signatures.

`ReadBackIsNotOlder` holds of a contract of any age: entries may have expired any number
of times before. `HeldInv` is `PullInv`, the contract's `TimeInv` (so that a round is only
ever followed by a newer one, across expiries too), a lower bound for the life left in
every entry, counted from its own timestamp (`Lives`), and, once e2e's update has landed,
the entry it wrote or met and how old that was (`Held`). Together they leave the entry
alive for `ReadBackTime` seconds from the landing, 360 + 1 - 60 - 30 ledgers of a second
less the ledger's lag; no await of the script has a time limit, so a read-back that hangs
for longer may find nothing, and the property says nothing of it. `CoherentSigning` is a
condition inside the property.

### The service

Sums over sets are what `aggregate()` is made of, and the library's induction over
finite sets cannot be instantiated here. `StatisticsProofs` replaces it: a property of
all subsets that fails has a minimal failing subset (`MinimalSubset`, from the
library's well-founded facts about finite sets), and removing one element from it
(`TotalRemove`) contradicts minimality. That gives existence, monotonicity and
linearity of `Total` and, through them:

* `FewSamplesAreAllKept`: with at most `OUTLIER_STDDEV`^2 + 1 fresh samples, ten in
  `config.mjs`, the filter drops none. The square of one deviation is at most (n - 1)/n
  of the spread (`SquareOfSum`, an instance of Cauchy-Schwarz).
* `AggregatesStayWithinQuotes`: `WithinFresh` for every table, moment and weights. Not
  all samples can be further from their mean than the root of the mean square
  (`SomeSampleIsKept`), so one always survives a threshold of one or more.
* `FewSamplesAreDropped`: with any number of samples, fewer than one in
  `OUTLIER_STDDEV`^2 is dropped (Chebyshev's inequality): what is dropped has more than
  its share of the spread, and no part of the squares outweighs the whole
  (`TotalOfPart`).
* `InfluenceIsBounded`: `BoundedInfluence`, while the filter has nothing to drop.

`FewSamplesAreDropped` is what can be said of the filter where it does drop something.
`Board` puts aggregate and message together, one asset at a time, and the run `attest`
checks it for the real table of venues. `PricesStayWithinQuotes`, `VenuesKeepTheirShare`
and `SignedBytesSayThePrice` prove its three properties for every table of venues and
quotes, from `BoardInv`: every sample is a quote of a venue that lists the asset. They
take the size of the fields (`FieldsAreWideEnough`) and, for the share, the number of
venues per asset (`FewVenues`) from the assumptions of `Board`.

`MessagesMeanWhatIsSigned` is `MeansWhatIsSigned` for every base, widths and tag, and for
a price and stamps that fit their fields (a price and a timestamp that the contract
accepts do: 16 and 8 bytes). The three recursive functions of `Message` are shown to
exist by exhibiting them (`PowersExist`, `ShiftedExists`, `ReadExists`), and to have one
value by the least argument where two would differ (`LeastNatural`). Then: shifting
right by a byte again and again divides by the powers of the base (`DivideTwice`), so
the loop writes the big-endian bytes; each byte read back is the remainder the reader's
quotient lacks (`DigitAppended`); and the four fields stand where the layout says.
`MessagesAreDistinct` follows: `build_msg` is one-to-one, which is what lets `Oracle` take
a message to be the record of its arguments.

| theorem | property | invariant |
|---|---|---|
| `StampsAreCoherent` | `SigningIsCoherent` | `SignedInThePast`: every stamp ever signed is the stamp of some past moment; that stamps of moments are coherent is arithmetic over `WindowsDivideSeconds` |
| `StateIsTyped` | `TypeOK` | itself; that a signed price is a natural number is a theorem about sums |
| `SignaturesAreFresh` | `SignedFromFreshQuotes` | `TypeOK`, and `AggregatesStayWithinQuotes` |
| `QuotesAreNotHeldBack` | `QuotesAreSignedInTime` | `Deadlines`: a poll is not late, and every quote in the table is signed or was taken by the running poll |
| `KeeperIsAttestationService` | the refinement `ServiceSpec` | `TypeOK` and `Served`: every attestation served is one of the abstract service, its price positive and its sources between one and all the venues; `Sign` is `SignRound` over the assets with a fresh sample, `Forget` the end of the process |
| `StallsEndTheProcess` | `StallEndsTheProcess` | `Watched`: the watchdog is due within a period, and a process it let live past the grace period was serving when it looked |

`QuotesAreNotHeldBack` uses `SamplesOutliveAPoll`, and `StallsEndTheProcess` that the grace
period is at least one (`KeeperAssumption`): with none, the first look at a process
would come after the time the property allows.

### The subscription

`UpdatesAdvance`, `FramesStayWhole` and `NoRoundIsSkipped` follow from one invariant
(`StreamInv`): what was read and not yet split, followed by what is in flight, is one
stream. It begins with a whole frame, perhaps ends with half of one, its rounds go up
without a gap from the last round heard, and none but the empty snapshot's 0 is below
the last round the handler saw (`InOrder`). While the server reaches the reader the
stream ends with a whole frame that holds the server's snapshot (`UpToDate`). The
steps then are operations on one sequence: a chunk only moves the border between its
two parts, a frame delivered takes two pieces off its front, a lost connection cuts its
end, a broadcast appends a frame, a new connection starts another. `StreamInv` was
model-checked with the run's bounds before it was proved.

### The watchers

`TroubleIsReported`, `BreachIsReported` and `AlertsAreTrue` prove the three safety
properties of `Watch` from `WatchInv`: the probes of a check are a tick apart and the
check ends before the next is due (`Schedule`), unreported trouble is no older than
the schedule's position allows (`TroubleIsYoung`, `BreachIsYoung`), and during an
unbroken series of bad probes the service has been silent at least as long as the
series (`SilentSoFar`).

### Assumptions

Besides the shapes of the constants: a placeholder (`NoEntry`, `NoValue`, `NoSample`,
`NoPrice`, `NoAttestation`, `Never`, `Absent`) is none of the values it stands beside;
`TtlCoversWindow` (60 + 30 seconds against 360 ledgers), `WindowsDivideSeconds` (1000 %
500), `SamplesOutliveAPoll` (the fetch timeout against the sample staleness),
`FieldsAreWideEnough` (prices and stamps against 16 and 8 bytes), `WidthAssumption` (two
prices against an i128), `FewVenues` (five against ten), `ConsumerAssumption` (the oracle
is not one of the contracts that return whatever they get),
`OUTLIER_STDDEV` at least one, and the demo's margins in `PullAssumption`. TLC evaluates
each of them on the runs. `CoherentSigning` is a hypothesis inside the properties it
belongs to, and `SigningIsCoherent` is what discharges it for a key used by one keeper.

### What is only model-checked

* Liveness (`CatchesUp`, `CloseReleasesAll`, `SelfHeals`): ENABLED and fairness are out of
  this prover's reach.
* Nothing else: every safety property and every refinement a passing run checks is a
  theorem.

## 6. Not modelled

* **Benchmark entrypoints** (`bench` feature of `lib.rs`, `bench/`): unconditional writes
  to measure costs, never in a production build.
* **`run_oracle_bench.mjs`, `fetch_ledger_limits.mjs`, `deploy_oracle_v0.sh`**: one-shot
  scripts that submit transactions one after another and format reports; they keep no
  state and nothing runs beside them. They are a third of the JavaScript.
* **Persistent entries' time to live**: `write_pers` and `push_ring` extend it (lib.rs:727-729,
  751-753), by days; that an entry nobody writes for so long is archived is left out, and
  so is the consumer's for positions.
* **`upgrade`** replaces the code itself, and **`NotInitialized`** is out of reach after the
  constructor.
* **A poll that throws while signing** needs an average no finite double can scale.
* **Read-only routes, access log, page and digest wording**, `read-price.mjs`,
  `subscribe.mjs`: nothing depends on them.

## 7. Plan

Done: contract, views, median, consumer, aggregation, message, keeper, subscription,
pull path, watchers; the theorems of section 5. Left:

1. **One venue against a filter at work.** `InfluenceIsBounded` holds while the filter
   drops nothing. From eleven fresh samples on, at a threshold of three, it may, and then
   `FewSamplesAreDropped` and `AggregatesStayWithinQuotes` bound what is averaged, but no
   theorem bounds what one venue's quote can do to it.
2. **The open hazards**, listed in `PROJECT.json` without a property: what follows a
   round far in the future, a price that outlives its publishers, the first caller's
   choice in `init`, and a venue whose whole request fails for one delisted symbol.
