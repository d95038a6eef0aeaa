# Echo Protocol: TLA+ models and proofs

Echo sells predictions of quantitative models over HTTP, pays their authors a share of
the revenue in USDC, trades the same signals with its own capital, and keeps the market
data the models see. The hard part of the program is not in any single function: it is
state in Redis, in Postgres, on a chain and at a trading venue, changed by coroutines
that are suspended at every `await`, by webhooks that are delivered more than once, by
jobs that die half way and by locks that time out. These modules model that, TLC checks
them on small instances, and TLAPS proves the central results for every instance.

Paths below are relative to the repository's root; `api/` stands for
`apps/api/app/`, `allocator/` for `apps/capital-allocator/app/` and `data/` for
`packages/canonical-data/echo_data/`.

## 1. Inventory

| Component | Code | State | Operations |
|---|---|---|---|
| Prepaid balance | `api/core/balance.py` | `users.balance_usd_cents`; Redis `balance_lock:{u}`, `hold:{u}:{h}`, `idem:{k}`, `hold_confirmed:{u}:{h}` | `hold_balance`, `confirm_hold`, `release_hold`, `credit_balance` |
| Prediction endpoint | `api/routers/predict.py` | the `predictions` row | `predict`: hold, snapshot and inference, confirm, persist |
| Billing | `api/routers/billing.py` | `usdc_deposits`, unique (source, tx_hash) | Coinbase webhook, Alchemy webhook, charge creation, balance |
| Revenue and payouts | `api/services/payout_settlement.py`, `apps/payouts/weekly_settlement.py` | `revenue_ledger`, `quant_profiles.total_paid_cents`, `settlement_batches`, transactions on Base | `record_revenue_split`, `run_weekly_settlement` |
| Capital allocator | `allocator/` | positions, trades, attribution links, one row per day of PnL, positions at Hyperliquid | one task per signal, the mark refresher |
| Data writer | `data/writer.py` | rows in memory, the hypertables | `write`, the flush loop, `stop`, `heartbeat` |
| Snapshots and datasets | `data/snapshot.py`, `data/dataset.py` | Redis cache per minute, `snapshot_archive`, dataset folders | `live`, `historical`, `replay`, `export` |
| Data sources | `data/sources/` | websocket connections | candle, funding and order book streams, reconnects |
| First data layer | root `echo_data/` | Timescale tables, a bounded sorted set of bars in Redis | polls of four feeds, `write_source_record`, `push_bar`, reads as of a time |
| Marketplace | `api/routers/quant.py`, `api/services/model_review.py *.py`, `artifact_storage.py`, `echo_quant/packaging/`, `echo-cli package` and `submit` | quant profiles, submissions, models, certificates, the `./dist` of a quant, the bucket | register, package, upload URL, upload, submit, background review |
| Rate limiter | `api/core/ratelimit.py` | one sorted set per key | `check`, `enforce_rate_limit` |
| Backtest SDK | `echo_quant/backtest/`, `echo-cli backtest` and `dataset pull`, `data/dataset.py` | a dataset folder | export, pull, the walk of the runner, outcome resolution, metrics, thresholds |
| Authentication | `api/auth.py` | API keys, JWTs | lookup, verification |
| API shell, adapters, schema, web, CLI | the rest | none of their own | wiring and single calls |

How they interact. A prediction holds an amount under an idempotency key, asks for a
snapshot and the inference, and turns the hold into a debit; deposits credit the same
balance row under the same lock. The signals of predictions are meant to reach the
allocator through a Redis channel, and the revenue of predictions the ledger that the
weekly job settles. In this commit neither call happens: `predict.py:157-186`, which
would record the revenue split and publish the signal, stands after the handler's
`return`. The consumers are complete, and modelled from their own code as the rest of the
repository describes their use. Sources hand rows to a writer, the writer upserts them,
the snapshot builder reads them for live calls and for the datasets that backtests walk. A
quant backtests a model on such a dataset, packages it, uploads it to a bucket under the
handle it registered, and submits it; a background task of the API verifies the upload, has
the enclave evaluate it, issues a certificate and lists the model.

What is hard, and what makes each part correct:

- **Balance.** A request has some fifteen awaits; the idempotency record, the hold and the
  confirmation are three keys read by separate commands, partly outside the lock; the lock
  and the keys expire; the process may die between the debit and the deletion of the hold.
  Correct means: never a negative balance, no debit lost, a served call was paid by a hold
  of its user and key, nobody is debited without an answer, admission never promises more
  than the balance, and no lock or request hangs for ever.
- **Billing.** Deliveries are repeated and run at once, die between the credit and the row
  that remembers it, and compute the new balance from an object loaded before the lock.
  Correct means: no deposit row without a credit, an acknowledged delivery is complete, at
  most one acknowledged credit per transfer.
- **Payouts.** One database transaction spans many chain transactions; a transfer may
  revert, be mined after the timeout, or be the last thing a dying job did; two jobs may
  run. Correct means: a settled row was transferred, books never claim more than the chain
  shows, no row is settled twice, no part of a split is negative.
- **Allocator.** Every signal is its own task, no lock orders the check of the limits and
  the booking of the fill, and what a task read is stale when it writes. Correct means:
  no invented positions, exposure within the leverage limits, one row per (asset, side),
  counters that do not count what was not traded.
- **Market data.** Two flushes can be in flight; a batch that failed may have committed; the
  re-buffered rows meet newer ones; a snapshot is several statements; a cached one is
  shared. Correct means: no row vanishes, no bar goes back, bounded memory, nothing left
  behind by `stop`, a live snapshot takes in a bar only once it has closed and is as fresh as its
  minute, a dataset does not contradict itself.
- **Marketplace.** Registrations check and insert in separate statements; `package` and
  `submit` share a folder without a lock, in two processes; the review commits a listing, and
  the task that runs it the status, in two transactions, and nobody restarts a task that
  died; `submit_model` lets several quants in with one new model id. Correct means: nobody
  writes under another's handle, what is declared is what was uploaded, a model with an owner
  sells that owner's certificates only, a listing rests on a verified artifact and on the three
  thresholds the review compares, a quant is not told of an approval that has no listing, and a
  review ends.
- **Backtest.** A dataset folder is written over file by file and never emptied, by exports and
  pulls that may end anywhere, while a backtest reads its parts at different times; entry and
  exit snap to minutes. Correct means: files of an earlier period trade nothing, all trades of a
  run are filled from one state of the price file, a passing model has earned money.
- **First data layer.** Polls overlap, are late and are stored out of order; a bar is stored
  while it is open and again when it is closed; adding to the ring and trimming it are two
  commands. Correct means: a read as of a time looks less than a second beyond it,
  but for the bar open then, a past bar ends up with its final prices, the ring's last bars are
  the last bars, none left out.

`PROJECT.json` lists the hazards at their lines, with the properties that cover them; section 6
names the weak spots no property is about.

## 2. Plan

Order: money first, then what decides trades, then data, then the marketplace.

| # | Modules | What | State |
|---|---|---|---|
| 1 | `Ledger`, `Balance` | the paid call and the abstract ledger it implements | done |
| 2 | `BalanceProofs` | typing, balance, charges, admission, refinement for all constants | done |
| 3 | `Billing` (extends `Balance`); proved in `BalanceProofs` | webhooks next to paid calls; what a deposit row and an acknowledgement mean | done |
| 4 | `Payouts`, `Settlement`, `SettlementProofs` | payouts, the abstract book they implement, and their proofs | done |
| 5 | `Allocator`, `AllocatorProofs` | signals to booked positions | done |
| 6 | `DataWriter`, `Market` (extends it), `MarketProofs` | feed, writer, snapshots, datasets | done for `ohlcv` |
| 7 | `Marketplace`, `MarketplaceProofs` | registration, packaging, upload, submission, background review that may die, listing | done |
| 8 | `Backtest`, `BacktestProofs` | a dataset folder with its writers, the walk of the runner, outcomes, metrics and thresholds | done |
| 9 | `Warehouse`, `WarehouseProofs` | the first data layer: polls, upserts, reads as of a time, the Redis ring | done |
| 10 | `SumLemmas` | sums and extremes of finite sets, for all the proofs about amounts | done |
| 11 | `Market`, extended | the four other series with their staleness cutoffs; an abstract table that `DataWriter` implements | later |

Every safety property, action property and refinement that a passing run checks is also a theorem;
section 5 says along which argument, and what remains to TLC.

Abstract specifications worth having: `Ledger` and `Payouts` (done); a deposit book that
`Billing` implements up to duplicate credits; a monotone table for `DataWriter`.

## 3. Modules and the code

**Ledger.** What a prepaid user is promised: `Charge(h)` takes exactly the cost of a hold
and never more than there is, `Serve(r)` needs a debited hold of the same user and key.

**Balance.** One request is one coroutine; `pc[r]` names the await it is suspended at, and
each action is the code between two awaits. `lock`, `holds`, `idem`, `confirmed` are the
Redis keys; `balance` the column; `myHold`, `bal`, `view` the locals. `HoldBalance` is
lines 64-126 of `balance.py`, `Inference` and its failures lines 65-93 of `predict.py`,
`ConfirmHold` lines 129-170. A hold is identified with the request that made it. The keys'
expiry, the lock's timeout and the death of a process are actions. `SlowSections` says
whether a live critical section may outlast its lock. Four history variables (`answered`,
`debited`, `charged`, `unbacked`) exist for the properties only.

**Billing** extends `Balance`: a delivery is cut at its awaits, `deposits` is the committed
table, `pending` the rows in the session, `seen` the balance its session loaded. Deliveries
and requests share `lock` and `balance`.

**Payouts.** What the payout book promises: a `Transfer` pays a quant its share in some rows of
the ledger, at least the minimum and once per batch; a `Close` ends a batch, settles rows of the
quants it has paid and adds to their totals exactly what reached them. A transfer may arrive
after its batch was closed; then nothing is ever booked for it.

**Settlement.** A run is a process with one transaction: `rows` is what its SELECT summed,
`marks` and `paid` its uncommitted updates, which hold row locks. The chain is external:
transactions of one account, mined in nonce order, each succeeding or reverting.
`ImplementsPayouts` maps the successful transactions to `received` and the ended runs to `closed`.

**Allocator.** One `pc` per signal, cut at the database statements; `seen`, `target` and
`rowDay` are what a task has read and will write back. `position[s]` is the row inserted by
the task of `s`. The refresher, midnight and a restart run at any time. `fill` is what the
venue did; the answer may get lost. Kelly sizing is modelled with integers.

**DataWriter.** `buf` is `_buf`, `batch[f]` the rows that flusher `f` (a write, the loop,
`stop`) is inserting. The lock is never held over an await, so taking the buffer is one step;
`Commit` and `Fail` end the transaction, and a failed one may have committed. A row is a bar
and a version, because the feed can send a bar again. `heartbeat` and publishing, which
nothing in the repository uses, are left out.

**Market** extends `DataWriter` with a clock, the filter of the candle stream, the calls of
`live` (cache lookup, one statement per series, cache store, archive that may fail) and the
export of a dataset, cursor by cursor. A snapshot is its time and the versions of its bars;
its hash is a function of that. A `MinuteLength` of two ticks stands for a minute. Both
`ohlcv` series are there; the other four are the same query with a cutoff on other tables.

**Marketplace.** A submission is one run of `echo-cli submit` and, once the API has inserted its
row, that row and its review task; `client[s]` and `task[s]` are where the two are. `reg[r]`
is the await a registration is suspended at: two reads, then the commit, which the unique
constraints of `quant_profiles` may refuse. `dist` is the quant's folder: `Package` is
`packager.py` and the command around it, with the failure after the artifact and before the
manifest. An artifact is its hash. `Put` writes the key of handle and model; the review looks
the artifact up under the last part of the key alone, so what it sees is one of `RootArtifacts`,
whatever lies at the root of the bucket then. `Verify`, `Score`, `FlushCert`, `List` and `Save` are
the statements of `review_submission` and `_run_review_task`; `Unanswered` is the enclave that
fails or takes more than 600 seconds; `Die` is an exception or the end of the process. The
flush of the certificate obeys its foreign key, so a model that does not exist is refused
there. Profiles and owners never change once inserted.

**Backtest.** The folder is `snapshots`, `prices`, `hasPrices` and `manifest`; `exporter` is what
writes it: an export goes through `Begin`, `Snapshot` (one cursor each, skipped when it cannot
be built), `OpenPrices`, `PriceRow` and `WriteManifest`, a pull extracts the files of a published
archive in any order; both may fail at any step and leave what they wrote. A backtest is
`Load`, one `Predict` per snapshot (the model answers any signal) and `Finish` or `Abort`; the
prices are read with the first trade that needs them. The metrics are whole numbers: the
Sharpe ratio is compared squared, the drawdown multiplied out, both half a step of their rounding
beyond the threshold. A snapshot is its time.

**Warehouse.** `call[p]` is where a poller is with the worker behind it: asked, answered,
received, or pushing to Redis. `bars` is the table of bars with the version each holds, `rows`
the tables of readings, `ring` the sorted set. A version is the time the bar was observed,
capped at its close. A reading keeps when it was observed and what it was stamped with. No
worker in the repository connects sources and stores; the one modelled is what
`redis_cache.py` describes.

The `MC` modules give the constants values and define the bounds; `map` in `PROJECT.json`
relates each definition to its lines.

## 4. Runs

| Run | Instance | Shows |
|---|---|---|
| `balance` | two users, three calls, one shared idempotency key, a price that rose before the retry, sections within their lock | typing, `Conservation`, `HoldsCovered`, `ServedIsCharged`, and `ImplementsLedger` |
| `balance_live` | a retry and a free call on a balance of one, sections may outlast their lock, fairness | `BalanceNonNegative`, `ChargeJustified`; `RequestsEnd` and `LockFreed` |
| `billing` | one paid call dearer than the balance, one Alchemy payload of three transfers delivered twice | `DepositWasCredited`, `AckedIsRecorded` |
| `settlement` | two runs, two quants, four rows, one of the house | typing, `SplitWithinGross`, `SettledWasTransferred`, `BooksWithinChain`, `OneTransferPerRun`, `SettledForever`, and `ImplementsPayouts` |
| `allocator` | an open short and three long signals on one asset, one midnight, a loss that halts | `BooksWithinVenue`, `ExposureWithinLimits`, `OneRowPerSlot` |
| `market` | three bars of two intervals, up to two versions each, a buffer of two, two live calls or one export of two cursors | `NothingVanishes`, `NeverBack`, `MemoryBounded`, `StopStoresAll`, `LiveBarsHaveClosed`, `LiveIsFresh`, `ExportNeverForgets` |
| `marketplace` | three registrations of two quants for two handles; five submissions of a new model, an owned and an ownerless one; fairness | `UploadsKeptApart`, `DeclaredIsUploaded`, `OwnerKeepsModel`, `ListedOnEvidence`, `ApprovedIsListed`; `ReviewsEnd` |
| `backtest` | two overlapping exports and a pull, two of them into one folder, and a backtest of any model | `TradesInPeriod`, `OneHistory`, `PassedHasEarned` |
| `warehouse` | a stream and a backfill of bars, an upserted and an appended table of readings, outages, a ring of three | `LookaheadIsShort`, `HistoryIsFinal`, `RecentBarsAreLast` |

Three more runs end in a counterexample on purpose; each states a sentence of the repository
that the code does not keep, and is a finding in `PROJECT.json`:

| Run | Sentence | What happens |
|---|---|---|
| `billing_replay` | `billing.py:54`, replay-safe | the credit is committed before the row that the duplicate check reads |
| `billing_lost_update` | `billing.py:100`, atomic credit | the balance is computed from an object loaded before the lock |
| `settlement_underpaid` | `payout_settlement.py:103`, compute, submit, mark settled | rows that arrive during the transfer are marked too |

Eight more disagreements with the repository's own words can be seen at the lines named, so no run
is spent on them:

- `balance.py:132` says that confirming twice returns the same balance, but two requests with
  one hold both read it before the lock and both debit.
- `config.py:31` limits a model to 80% of its tested capacity, but the query at
  `risk_manager.py:85` that measures the capacity in use joins on nothing that matches.
- `db/models.py:13` of the allocator says "Current open position per (asset, side)", but two
  tasks that find no open row both insert one (`state.py:31`), and nothing in the table forbids it.
- `001_timescale_setup.sql:12` keys rows by their closing time, but `hyperliquid.py:78` of `data/`
  keys them by the opening time, so a past snapshot (`snapshot.py:168`), and with it every dataset,
  holds the future close of the bar that was open.
- `snapshot.py:5` says that one asset and time give one snapshot, but its statements read the
  table as it is at their moment, and two calls that miss the cache build two.
- The review (`model_review.py *.py:54`) looks for the last part of the key that `quant.py:131`
  gave out.
- `model_review.py *.py:14` names a fourth threshold, that the dataset is a known canonical one.
  Lines 81-95 never compare it: the hash the enclave reports goes into the certificate as it is.
- `model_review.py *.py:8` has a human decide below the thresholds, as `echo-cli backtest` also
  announces; line 91 rejects.

**Reservations in the properties.** `ExposureWithinLimits` and `OneRowPerSlot` hold only while
no two tasks are between their check and their booking (`overlapped`): the code has no lock
there, and the variable records exactly the overlap. `LiveIsFresh`, `ExportNeverForgets` and
`NeverBack` hold only until two flushes overlap (`raced`): then the older batch may commit
last. `DeclaredIsUploaded` excuses a submit that met a half written or newer package
(`hurried`), and `TradesInPeriod` a run during or after an unfinished write (`clean`). Without these
reservations the properties fail. `db/models.py:13` claims one row per (asset, side) without
one, which the code does not keep; for the others we found no sentence that claims more. What is left of `ExposureWithinLimits`, `OneRowPerSlot` and `DeclaredIsUploaded` is that the code is right
when these tasks, or `package` and `submit`, keep out of each other's way; the races themselves
are modelled and reachable, and `BooksWithinVenue` holds through them.

**How far the properties about time go.** None of them says that a model never sees the future.

- `LiveBarsHaveClosed` is about live calls, and about the clock: a bar may close after the time
  a live snapshot carries, which is the start of its minute, and before it is built. A snapshot of
  a past time, as exports write them, holds the bar open at that time with its later close, and a
  fill may well be at that price. `OneHistory` therefore says only that all fills of a run come
  from one reading of the price file, at the minute of their trade, in the order of the
  snapshots, however the file changes during the run.
- `LookaheadIsShort` says how far a read of the first data layer looks beyond the time asked
  for: a reading is stamped with the second that had begun (`hyperliquid.py:116`), so less than
  a second; `get_ohlcv` (`timescale.py:183`) finds bars by the time they open, so the bar open at
  that time has its later prices, and no other. The docs promise nothing here.
- `PassedHasEarned` takes the gate as it is: `metrics.py:74` and `:80` round the Sharpe ratio to
  three digits and the drawdown to four before `backtest.py:66` compares them, so 0.9995 and
  0.20005 pass as 1 and 0.2. What is guaranteed is a positive gain and a drawdown of
  at most 20.005% of the most the model ever had; `DD ≤ 20%` in the message of `backtest.py:69`
  speaks of the rounded value.

**Deadlock** is not checked: requests, deliveries, payout runs, signals, calls and the clock
are finite sets or bounded, and a behaviour in which all of them are over may stop.

### Bounds, and why they are enough

- Three requests are the least with a retry (two requests, one key) and a third that
  competes for the balance. A second user checks that keys and locks do not cross.
- Two deliveries of one payload are a redelivery; three transfers have a skipped, a
  middle and a last element.
- Two settlement runs race; 999 and 1437 cents are one row below and, with it, one above
  the minimum; 9000 basis points make the clamp act.
- Three signals on one asset: two may overlap and a third finds the slot they left.
  `LastDay = 1` gives one midnight. `FillErrors` is a fill short by one.
- `MaxBuffer = 2` lets a batch be cut and rows arrive behind it; `MaxRows = 2` gives every
  bar a correction; `LastTime = 2` has two minutes, and closes every bar. While a reader is
  active, `Scenario` (a CONSTRAINT) keeps the writer from stopping and racing and lets one
  bar be corrected, and the export and live calls do not run together: they only share the
  table. A writer without readers is unconstrained. Calls are symmetric, and so are the two
  equal signals.
- **Marketplace**: two quants ask for one handle, and the loser for another. Five submissions
  cover a new model of both quants, an owned model of the owner and of the other, and an
  ownerless one; `Scenario` (a CONSTRAINT) starts at most two of them, after the registrations,
  and packages one model a second time. Two concurrent reviews are what the properties relate;
  the theorems cover any number. `RootArtifacts = {0, 1}`: nothing is there, or what
  matches a first build and not a second one, so reviews raise, get through and are refused.
- **Backtest**: two periods that overlap, one not starting on a minute, one published dataset
  between them; `MaxWrites = 2`, each from a different source, is the least with something left
  behind. A minute is two ticks. Prices are a quarter apart, so all returns are whole numbers of
  fortieths. `SharpeUnit` and `DrawdownUnit` say how many parts of a whole the rounded metrics
  show: 10 here, 1000 and 10000 in the code, and with six trades a year there are logs that pass
  only because both are rounded, which 1000 would not give with prices so coarse. The four
  signals are one of each direction and one that the validator refuses.
- **Warehouse**: a window of five ticks spans two and a half bars; `MaxOutage + MaxDelay` is at most
  the window less a bar, which is the assumption under which the upsert repairs every bar
  (in the code: a window of 200 hours, bars of one). Backfill and readings poll early,
  so that the clock, to nine, shows what becomes of it. The ring keeps three bars. A second is
  two ticks (`Second`), so that readings are stamped early; `get_ohlcv` is asked for two bars (`Limit`).

### Fairness

`balance_live` and `marketplace` need it. In the first a coroutine that has started goes on (the
event loop runs whatever is ready), an inference call returns or times out (`httpx`), and Redis
expires what has a TTL: weak fairness of each started request, each hold's expiry, and each
lock's expiry once its owner is no longer inside. Nothing forces a request to arrive, an
inference to succeed, a process to die or a section to be slow. Weak fairness suffices for a
waiting request because acquiring polls until it gives up: one of the two is always enabled.
In the second the steps of a review task are weakly fair for the same reason, and so is its
giving up on the enclave, which `httpx` does after 600 seconds; the enclave need never answer.

## 5. Proofs

TLAPS checks, for all values of the constants under the named assumptions, every safety and
action property of the passing runs and both refinements. TLC checked each of them first on the
instances above.

**SumLemmas.** Balances, books, exposures and equity curves are sums over finite sets, and the
library defines a sum by recursion over subsets chosen with `CHOOSE`. The library's induction
theorems take an operator, which the provers cannot instantiate. `LeastSubset` takes their
place: of the subsets of a finite set that fail a fact, one includes no other, and with one
element less the fact holds. From it follow that the fold exists and is unique (`FoldExists`,
`FoldUnique`), and then the laws of sums the other modules cite: any element may be taken out
(`SumTake`), one term changes (`SumChange`), sums grow with their terms (`SumMonotone`), split
(`SumSplit`), and sums over disjoint parts make at most the whole (`SumOfParts`); and that the
greatest and least element of a finite set of integers are what they should be.

**BalanceProofs** (assumes `BalanceConstants` and, for webhooks, `BillingConstants`: a Coinbase
delivery has one charge, `billing.py:69`), any number of requests, users, keys and deliveries
- `TypeCorrect`: `TypeOK`.
- `NonNegative`: `BalanceNonNegative`, also when locks expire under live sections. The
  argument is local: the value written comes from a refresh after which the same coroutine
  checked that it covers the cost, so the strengthening only says what `bal` is in the
  states between the refresh and the write.
- `PaidCorrect`: `ServedIsCharged`. The strengthening follows the hold id: whatever puts an id
  into `idem` or `myHold` is a request of the same user and key, and a confirmed hold was debited.
- `Conserved`: `Conservation`, if `SlowSections` is false. It needs mutual exclusion: a request
  in a section owns the lock, so `bal` equals `balance` between refresh and write.
- `ChargesHaveAnswers`: `ChargeJustified`, with or without slow sections. `Justified` counts: a
  hold was debited at most as often as there are answered requests on it that are past the debit.
- `AdmissionSound`: `HoldsCovered`, if `SlowSections` is false. `Covered` says that the keys a
  scan has listed still include every live hold of the user (holds are only created under the
  lock, and may expire meanwhile), so that what a request about to create its hold adds
  still fits (`Admitted`).
- `Implements`: `Spec => L!Spec` under the same condition. Every step is a `Charge`, a
  `Serve` or a stutter, by the invariants above.
- `DepositsCredited`: `DepositWasCredited`; `AcksRecorded`: `AckedIsRecorded`, of `BillingSpec`.
  The invariant `Books` says: what a delivery has passed is recorded or in its session, unless
  it is on its way to an error (`Passed`); a row, and the step that adds one, come after a
  committed credit (`Credited`); and of the deliveries that credited one transfer, one inserts its row
  (`OneInserts`), since the unique constraint refuses the others, who then end in an error.
  The lock plays no part in the argument.

**SettlementProofs** (assumes `SettlementConstants`)
- `TypesCorrect`, the types of everything but the sums of cents; `TypeCorrect`: `TypeOK`, with them.
- `PaidOncePerRun`: `OneTransferPerRun`; `SettledCorrect`: `SettledWasTransferred`;
  `SettledStays`: `SettledForever`; `SplitCorrect`: `SplitWithinGross`, plain arithmetic
  over all amounts and shares.
- The inductive invariant `Inv` says: a quant that has been sent to is no longer in `todo`; a run
  awaiting a receipt has its transfer on chain, and one about to mark has seen it succeed;
  uncommitted marks stem from such a transfer and are rows still unsettled; no two runs have
  uncommitted totals of one quant. `SettledForever` needs the last two: they are what the
  row locks give.
- `BooksCorrect`: `BooksWithinChain`. A total is not just bounded by what was received: it is the
  sum over some of the received transfers, those of runs that have ended (`Booked`), so that a
  run that commits adds one that was not counted before.
- `ImplementsBook`: `Spec => Book!Spec`. `BookInv` adds to the invariant of the books that the rows a
  run has summed and marked are in the ledger and that what is due or sent reaches the
  minimum, since the rows of a run do not change once summed. Then `RecordRevenueSplit` is an
  `Append`, a `Mine` that succeeds a `Transfer`, and whatever ends a run a `Close`: of nothing
  (no quant is due, no key, a crash), or of the transfers behind `paid` and the rows in `marks`. The
  amounts agree because `OneTransferPerRun` leaves one transfer per quant to book.

**AllocatorProofs** (assumes `AllocatorConstants`: finitely many signals and fill errors; and
`StartWithinLimits`: what is booked at the start was admitted by the same limits)
- `BooksNeverInvent`: `BooksWithinVenue`. A row may be overwritten with a stale sum, so no
  equation between books and fills survives. `BooksBacked` says instead that there is a set of
  fills behind every row, of its slot and disjoint from the sets behind other rows, whose sum
  the row does not exceed, nor what a task that is about to write has read of it.
- `OneRowWithoutOverlap`: `OneRowPerSlot`. While one task at a time is in its booking, what it
  has read of its slot is still true when it writes (`Alone`).
- `LimitsWithoutOverlap`: `ExposureWithinLimits`, from `Alone`: the task between check and booking
  has room for its fill (`Limited`), and writing adds exactly that fill to its slot.

**MarketProofs** (assumes `WriterConstants` and `MarketConstants`: finitely many bars, and no call
named as the export is), any number of bars, versions, calls and cursors
- `MemoryIsBounded`: `MemoryBounded`; `StopLeavesNothing`: `StopStoresAll`. The bound is not
  inductive alone: `Sizes` adds that the buffer and the batches in flight, each counted up to the
  cap, make at most twice the cap.
- `TableNeverBack`: `NeverBack`, and `RowsNeverVanish`: `NothingVanishes`. Until two flushes overlap
  (`Ordered`), there is one batch in flight, the versions of a bar rise through it and then through
  the buffer, and the table is never ahead of the last of them: so storing a batch again, after
  a failure that had committed, takes no bar back.
- `LiveBarsClosed`: `LiveBarsHaveClosed`: the filter of the feed holds for every row in the buffer,
  in a batch and in the table, so a bar that a live call has read, or found in the cache, had
  closed by then.
- `LiveSeesItsMinute`: `LiveIsFresh`. The property compares with the table at the start of the
  call's minute, which a cache entry does not remember; `LiveFresh` says that there is a function
  from minutes to such tables that every cache entry and every call agree with. The lemma
  `WindowCovers` is about the query: a bar the most recent ones leave out is displaced by enough newer ones.
- `DatasetNeverForgets`: `ExportNeverForgets`: what the export has read for a cursor covers every
  snapshot it has written before (`ExportFresh`).

**MarketplaceProofs** (assumes `MarketplaceConstants`), any number of quants, handles, models and
submissions
- `TypesCorrect`: `TypeOK`, with manifests never ahead of artifacts. No run repeats it: the
  theorem holds for every instance.
- `UploadsSafe`: `UploadsKeptApart`. The invariant `Uploads`: a handle has one profile, and each
  writer of a key has the profile of its handle. `Unique` is needed at the commit, not before.
- `DeclarationsTrue`: `DeclaredIsUploaded`. The invariant `Packaged` says what holds of a folder
  that is not torn, before and while a submit reads it.
- `OwnersKeep`, `ListingsJustified`, `ApprovalsTrue`: `OwnerKeepsModel`, `ListedOnEvidence`,
  `ApprovedIsListed`. The invariant `Reviews`: the models that exist, and their owners, never
  change, because the foreign key refuses the certificate of a model that is not there; hence
  whoever `submit_model` let in is still the owner, or the model has none, when its certificate is
  listed. It also carries what a task has found so far (`Standing`): the certificate on sale belongs
  to a task that verified the artifact and missed at most the threshold nobody compares, and whose
  submission can then be called neither rejected nor waiting for a human.

**BacktestProofs** (assumes `BacktestConstants`), any periods, published datasets, prices, signals
and number of writes
- `OneHistoryFillsAll`: `OneHistory`. Every trade in the log was filled from the prices the run
  holds, and it never drops them; each was before all snapshots still to be seen (`HistoryInv`). The
  rest is the arithmetic of `Floor`.
- `StrayFilesTradeNothing`: `TradesInPeriod`. `FolderMatches` follows the writers: prices are within
  the window being exported or are those of the archive being extracted, so a completed folder
  has prices of the period of its manifest alone; `RunMatches`: a clean run has read no others.
- `PassingIsEarned`: `PassedHasEarned`. The verdict is that of a log nobody adds to; that the
  rounded metrics past the thresholds imply the property is a lemma (`PassingEarns`), over any log
  and for any units of rounding that are multiples of ten.

**WarehouseProofs** (assumes `WarehouseConstants`), any series, delays, outages and ring
- `ReadsLookAheadLittle`: `LookaheadIsShort`. The invariant `Stamped` follows a reading from its
  answer to its row: it was observed less than a second after its stamp, and reads go by the stamp.
  `Versions` says the same of bars: no version is from after the bar's close.
- `HistoryStaysFinal`: `HistoryIsFinal`. `Finished` says when a bar is final: once the stream has
  stored a poll that it sent `MaxDelay` after the bar closed, since then no older answer is
  under way in any poller. That the clock never outruns the stream by more than `MaxOutage`
  makes it so for all bars that left the window.
- `LastBarsAreWhole`: `RecentBarsAreLast`. `Cached` describes the ring within a push: it holds every
  bar from its lowest to the newest, but for one stray member below them between adding and
  trimming.

Only model-checked: liveness (`RequestsEnd`, `LockFreed`, `ReviewsEnd`), which needs fairness and
`ENABLED`; and the three runs that end in a counterexample. What a recursive definition computes
for every input is not proved either: the models have none but folds, of which the proofs use
the laws above. `Allocator`, `DataWriter`, `Market`, `Backtest`, `Billing` and `Warehouse` have no
type invariant among their runs' properties, since an ill-typed value would break the properties
they have; their proofs state one each (`Types`, `WriterTypes`, `ReaderTypes`, `Typed`, `Tables`,
`Stamped`).

## 6. Not modelled

- The model runtime and the enclave do not exist in the repository; the inference is an
  outcome. The web front end and the API shell keep no state. Of the command line tools,
  `init`, `validate` and `verify` print or write one fresh file.
- Rate limiter: each check is one pipeline on one key and decides alone. What is odd about it is
  arithmetic: the member of the sorted set is the second, so all requests of a second are one
  member, a limit above the window's 60 seconds is never reached, and refused calls count.
- Of the SDK's metrics only those that decide the thresholds are modelled, in whole numbers and with
  the rounding the gate compares; the noise of floating-point sums is left out, and so is the rest,
  which is display.
- Authentication reads; the login routes it serves are missing from the repository.
- `src/model_review.py` is an indented fragment of a later review step that signs certificates with
  a module (`cert_signer`) the repository does not have.
- KYC, geoip and Coinbase charge creation are one outgoing call each.
- Four of six series of a snapshot: the same query with a cutoff on other tables.
- Crashes of Redis or Postgres that lose acknowledged writes are outside every module; a
  failed statement is modelled where the code handles it.

Known weak spots that no property covers, because the code has no step that could be wrong
or the outcome follows from one line:

- `predict.py:158` is never reached, so no prediction writes a ledger row; `predict.py:129`
  commits the prediction after the debit, in a transaction of its own; `balance.py:126` projects
  a balance without the other holds, which the caller discards; `billing.py:82` converts through
  floating-point dollars.
- The allocator's refresher (`main.py:123`) never looks at the circuit breaker.
- A snapshot that could not be archived is served all the same (`snapshot.py:86`), and rows that
  arrive late change the snapshot of a past time (`snapshot.py:97`).
- A review that died leaves its submission in verification for ever (`quant.py:173`). It reads
  the metrics `max_drawdown` and `tested_capacity_usd`, which the SDK's `compute_metrics` does not
  return under these names; the command line announces a manual review where the review
  rejects. `db/models.py` has no classes for the tables of migration 004, and the file name
  `model_review.py *.py` cannot be imported.
- The folder of a dataset keeps the snapshots of earlier periods: a run predicts on them, although
  it trades nothing there, so its predictions can exceed the count in the manifest. An
  interrupted export leaves the old manifest next to new prices; `TradesInPeriod` therefore
  speaks of completed writes only.
- The drawdown does not count the starting equity as a peak and is divided by the last peak, not
  the one it fell from (`metrics.py:54`). `tests/test_backtest.py:54` expects trades for a start
  time that is 20 seconds past a minute, at which `resolve_outcome` finds no price.
- In the first data layer, spot prices (`spot_validation`) are dropped by `write_source_record`
  without a word, an on-chain record keeps its first metric only, and bars of one opening time
  are ordered in Redis by their bytes. Nothing in the repository runs its workers, calls
  `DatasetBuilder` or serves `/v1/datasets`.
