# BKN AI Capital in TLA+

Formal models of the BKN AI Capital platform (`src/backend/app`): an advisory
trading system with a FastAPI backend, one feed process, paper trading and an
"investment committee" of rule-based agents. The modules here state what the
concurrent and stateful parts promise, check it on small instances with TLC and,
where it matters most, prove it for every instance with TLAPS.

## 1. The system

Processes:

* **API workers** (any number): REST and WebSocket endpoints (`main.py`).
* **The feed process** (`python -m app.feed`, one leader, standbys behind a Redis
  lock): ingests quotes, builds bars, runs the paper-position manager, news,
  option chain and report loops.
* **Redis**: quote cache, leader lock, event stream, WebSocket tickets, rate limits.
* **Postgres** at READ COMMITTED; sessions are opened per request or per handler
  call, with `autoflush=False` and `expire_on_commit=False` (`core/database.py`).

### Inventory

| Component (source) | State | Operations | Talks to | Hard behaviour | Correct means |
|---|---|---|---|---|---|
| Paper trading (`modules/paper_trading`, `modules/journal/service.py`) | account, position, journal rows; the runner's set of active symbols | submit, close, tick, refresh | database, event bus | overlapping transactions, stale rows, rollbacks, feed restarts | books balance, each round trip settled and journalled once, no stop forgotten |
| Event bus (`shared/events/bus.py`) | queues, workers, counters, dead letters | subscribe, start, publish, worker, join, stop, reset | every component of a process | full queues, handlers that fail, hang or publish, cancellation | once, in order, isolated consumers, an honest join |
| Feed lock (`feed/lock.py`, `feed/app.py`) | Redis key with TTL; `is_leader`, renew loop | acquire, renew, release, expiry | Redis, feed service | pauses, lost answers, crashes, graceful stop | one ingester, failover |
| Candle pipeline (`feed/service.py`, `market_data/candle_builder.py`, `repository.py`) | working bars, closed bars, last volume, candle rows | quote, drain, upsert, publish | provider, database, bus | late quotes, bad prices, gaps, failed transactions, restarts | valid bars, stored before published, once, in order |
| Supervisor (`shared/supervision`) | task state, attempts, breaker, heartbeat | start, crash, back off, open, stop, watchdog | feed loops, health endpoint | backoff against breaker window, hung tasks | crashes stay rate limited, health is honest |
| Resilient WebSocket (`market_data/providers/resilient_ws.py`) | subscriptions, transport, queue | subscribe, run, receive, process, stop | provider socket | reconnect during subscribe, full queue, stop race | subscriptions survive, messages in order and freshest kept |
| Zerodha provider (`broker/provider.py`, `reconnect.py`) | ticker, connection state, token | connect, callbacks, reconnect | Kite SDK thread | callbacks of an old ticker, failed reconnect | a lost connection comes back, tickers do not multiply |
| Indicator engine (`market_data/indicator_engine.py`) | rolling state per instrument and timeframe | on candle closed | bus, cache, database | late bars, restarts | bars applied once and in order |
| Event stream, gateway (`shared/events/stream.py`, `websocket/gateway.py`) | stream position, connections, queues | forward, consume, broadcast | Redis, bus, sockets | entries lost at the first reads, slow clients | workers see the feed's events |
| Committee and CIO (`modules/committee`) | none (pure) | deliberate | scanner, portfolio | failing agents, vetoes, thresholds | a veto is never outvoted |
| Backtester (`modules/backtesting`) | equity, trades | run, simulate a trade | candles | stop and target in one bar, time stop | no look-ahead, trades do not overlap |
| Scanner, opportunities, portfolio (`modules/scanner`, `modules/portfolio`) | latest scan | scan, rank | committee, strategies | hostile regimes, limits | no-trade is said when nothing qualifies |
| Auth (`modules/auth`, `core/rate_limit.py`) | users, refresh tokens, tickets, failure counters | login, refresh, logout | database, Redis | concurrent rotation, counters and locks in two commands | one live token per chain, a lock-out holds |
| Reports (`workers/reports.py`) | report rows | tick | database | two schedulers | one report per period |
| News (`modules/news`) | article rows | poll, list | database, bus | repeated articles, overlapping pollers, events before the commit | a stored article was announced once |
| Strategies, scoring, calendar, indicators | none (pure), rolling indicator state | evaluate, score, update | scanner, backtester, indicator engine | boundaries of sessions and periods | stops protect, incremental equals batch |
| Validation (`modules/validation`, `paper_trading/costs.py`) | stored runs | run, list | backtester, database | many strategies tried at once, ties, remainders of folds | only discoveries survive, no look-ahead |
| Option maths, users, health, frontend | little or none | | | | numerics, CRUD and views |

`PROJECT.json` lists the components with their sources and status, and the hazards
each line is exposed to with the properties that watch it.

## 2. Modules

| Module | Models | Role |
|---|---|---|
| `PaperEngine` | `engine.py`, `models.py`, the arithmetic of `service.py` | pure operators: fills, levels, fees, P&L, postings |
| `PaperLedger` | what `PaperTradingService` promises | abstract specification: an order or a close is one step |
| `PaperTrading` | `service.py`, `repository.py`, `api.py`, `runner.py`, the journal entry | sessions, transactions, row locks, the runner; implements `PaperLedger` |
| `EventBus` | `shared/events/bus.py` | the bus, all of it |
| `FeedLock` | `feed/lock.py`, the lifespan of `feed/app.py` | leader election |
| `CandlePipeline` | `_handle_quote`, `_drain_closed`, the candle builder, `upsert_candle`, `broker/historical.py` | bars of one symbol |
| `Supervisor` | `shared/supervision/supervisor.py` | supervised tasks and their watchdog |
| `FeedProcess` | `feed/service.py` start, stop, quote and session loops; `broker/provider.py`, `reconnect.py`, `token_store.py` | extends `Supervisor`: a feed on a broker connection |
| `Signals` | `strategy/library/*`, `base.py`, `ta.py`, `registry.py` | the thirteen strategies as operators |
| `AlphaScan` | `scanner/regime.py`, `engine.py`, `opportunity.py`, `ai_engine/scoring.py`, `portfolio/awareness.py` | extends `Signals`: one scan |
| `Committee` | the seven agents, `committee.py`, `cio.py`, `config.py` | extends `AlphaScan`: one deliberation |
| `Decision` | `scanner/service.py`, `committee/service.py`, `admin/service.py`, `backtesting/stats.py` | the state around them: registry, configuration, requests |
| `Realtime` | `shared/events/stream.py`, `websocket/gateway.py`, `channels.py`, `main.py`, `auth/tickets.py` | from the feed's bus to a browser |
| `ResilientWS` | `providers/resilient_ws.py` | the reconnecting socket client |
| `Sessions` | `auth/service.py`, `repository.py`, `router.py`, `core/rate_limit.py` | refresh tokens and the login's guard |
| `Reports` | `workers/reports.py`, `analytics/reports.py`, `service.py`, `metrics.py` | performance reports |
| `News` | `modules/news`, the poll of `feed/service.py` | ingestion of articles |
| `Calendar`, `Indicators` | `market_calendar/calendar.py`, `shared/indicators/*` | sessions; batch and incremental indicators |
| `IndicatorEngine` | `indicator_engine.py` | extends `Indicators`: the engine on one series |
| `Backtest` | `modules/backtesting`, `scanner/context.py` for the comparison | extends `Indicators`: a walk over daily bars |
| `Validation` | `modules/validation` (service, folds, multiple testing, partitions), `paper_trading/costs.py` | what a validation run stores about the library |
| `Induction` | | lemmas on induction, iterated and flattened sequences, minima, maxima and sums over sets |
| `PaperTradingProofs`, `EventBusProofs`, `CandlePipelineProofs`, `FeedProcessProofs`, `DecisionProofs` | | theorems of these modules (section 5) |
| `MarketProofs` | | theorems of `FeedLock`, `IndicatorEngine` and `Backtest` |
| `ServicesProofs` | | theorems of `Realtime`, `ResilientWS`, `Sessions`, `Reports` and `News` |
| `MC...` | | instances for TLC |

### Paper trading

A session is one API request or the feed's tick handler; `pc` says where its
transaction is. Each table has its committed rows (`account`, `book`, `journal`),
their newest version (`...Tip`) and the owner of the row lock: this is READ
COMMITTED with write locks. A SELECT returns the committed row or the session's
own version; an UPDATE waits for the lock and writes the absolute values computed
from what was read earlier. `CloseRow` takes the position's and the account's lock
in one step: both are written by one flush and every writer of a position row
writes its account too, so taking them in one step hides no interleaving. The
three numbers of an account row are modelled by what each position has posted to
them, so an overwritten number is an overwritten decomposition and its loss shows.
`OnQuote` takes its price from the event, which may be older than the last
market price; `RefreshRead`/`RefreshApply` are the two halves of
`refresh_active_symbols` around its await; `FeedRestart` is a crash of the feed.
`Isolated` is a switch of the model: with TRUE no two transactions work on one
account at a time. `KeyLeft`, the set `Positions` and `Api` are bounds.

Left out: the Indian cost model as a fee model here (`Charge` models the default
`FeeModel`, rounded down to a unit; the model itself is in `Validation`), rows of `paper_orders`, metrics, queries,
manual journal notes.

### Event bus

Subscribers are positions in `_all_subs`, events their publication numbers, and
the counters of a subscription the sets of events they count. A step is what a
coroutine does between two awaits: `Take` is the return of `queue.get`,
`HandlerReturns`/`HandlerFails` the end of a handler, which publishes at its end
as the indicator engine does. `Stop` cancels all workers: a worker cancelled in
its handler calls `task_done` in `except CancelledError` and again in `finally`
(`TwiceDone`). `reset` happens while nobody joins (it is for tests).

### Feed lock

Time is counted in ticks. `timer` is the sleep of a renew loop, `ttl` the life
left to the key, `token` the uuid of a process's lock object. A renewal may
succeed, find no key, or raise before or after Redis executed it. `late` is a
history variable: a leader overslept a renewal, or more than `MaxFails` in a row
failed. `Release` follows Python: `cancel()` then `await` of the renew task
raises `CancelledError`, which `suppress(Exception)` lets through, so for a live
leader nothing after it runs. A request that was on its way when its process died
is not modelled.

### Candle pipeline

One symbol, several timeframes (`Width`, minutes per bar, in the builder's
order). `QuoteInHours` is `_handle_quote` up to the database: the quote closes
bars, fills gaps and opens bars timeframe after timeframe, and stops at the first
bar that `validate_candle` refuses (the refused bar stays, bars already closed
wait in `_closed`). `Store`, `StoreFails` and `Publish` are `_drain_closed`.
`Restart` loses the working bars: nothing calls `flush_all`. `Backfill` is the request
of `broker/historical.py`: chunks whose ends overlap, upserted into the same rows in
one transaction at any moment of the pipeline; the broker's bars themselves
(`History`) may be malformed, as nothing validates them (a missing price is a 0), and
`OnlyValidBars` names the rows they may spoil (`Spoilt`). A late quote may
carry an older cumulative volume, and `takenBack` is a history of how much; the reset of the cumulative volume between days
is not modelled, and the cache write of a quote swallows its errors and is left out.

### Supervisor and feed process

`Supervisor` keeps time as ages and as ticks left: `beat` is the age of a
heartbeat, `failures` the ages of the crashes the breaker counts, `wake` the rest
of a sleep. A timer that has run out waits for its action while time goes on, so
the event loop may be late. `crashed` is a history of its own, which the breaker
does not reset, so that `RateLimited` does not repeat `RecordFailure`.

`FeedProcess` adds the process around it: `EnsureProvider` chooses the provider
from the token row (a missing or expired row falls back to simulated data, an
unreadable one raises and the start fails), `Connect`, `Up`, `Stop`, `Disconnect`
and `Exit` are the lifespan. A ticker has its own thread: `OnConnect`, `OnClose`
and `OnTicks` are its callbacks, also of a ticker that was replaced. `Reconnect`
is a scheduled `_reconnect` whose `_open_ticker` may raise; it is logged and never
retried. `StreamEnters` opens a ticker whenever none is connected: also at an ordinary
first start, while the ticker of `connect` still shakes hands, and at a restart that
meets a scheduled reconnect; `StreamFails` may leave one behind. Two tickers may
then live, which the code does not prevent; `OnlyEntriesMultiply` says that nothing else adds to
the tickers alive and the reconnects scheduled. The loops of news, paper positions, option chain and reports look to the
supervisor as `quote_stream` does and are not repeated.

### From the market to a decision

`Signals`, `AlphaScan` and `Committee` are pure: integers in units fine enough for
the code's quotients (prices in 1/120, percentages in hundredths). A strategy's
context holds what strategies read of the bars (last bar, extremes, averages,
indicator values), not the bars; option and news inputs exist only for callers
that supply them, as in the code. Each strategy's operator has its guards and its
levels; `Scan` is candidates, scores, ranking, the NO-TRADE verdict and the
portfolio constraints. `Deliberate` is the seven reviews, the weighted vote, the
ladder of the CIO and the size; an agent that raises abstains.

`Decision` holds what requests share: the registry's enabled set (which an alpha
request rewrites from the allow-list, and a committee request uses as it is), the
stored configuration, proven statistics. A committee request is two steps, scan
and deliberation, with a configuration update possible between them.

### Event stream and gateway

`log` is every entry ever added, `trimmed` how far Redis has forgotten them,
`cursor` the bridge's `_last_id` with `None` for "$", `reading` the id a blocked
XREAD waits on. The gateway's handlers read one bus queue per event type
(`EventBus` is the bus itself); it holds `BusSize` events and a full one refuses the
next, as `EventBus.publish` does. A connection has its channels, bounded queue
(`put_nowait` on a full one drops) and sender task; `Vanish` is a peer that is
gone and `HangUp` the receive loop that learns of it; a message that is not JSON ends
that loop in the same way. Event kinds that are not
forwarded or have no handler are there.

### Socket client

`Connect` is the new transport on which all wanted symbols are subscribed again,
`Serve` the start of the tasks, `ServingFails` the end of `gather` (a drop, a heartbeat, an exception), `Stop`
closes the transport. A call of `subscribe` names a list, in which a symbol may stand
twice (`MaxNamed` bounds how often); it is filtered, then the set changes, then what is new is
sent as it is. A send that raises or is cancelled (`Sends`), on a dead link or a live
one, may have arrived or not; `unsure` remembers its symbols until the next link. After a
failed resubscription the transport stays set and its link may be alive, so a later
call reaches it. `server` counts how often the far end was sent a symbol.

### Sessions

A request is one transaction whose writes show at its commit; waiting for a row
lock is the order of the commits, and an UPDATE by condition reaches only rows
that were committed when it started (`seen`). `raced` collects logins whose token
was refreshed by two requests at once: both find it active and both add a
successor, so `OneActivePerLogin` is about the others. The failure counters and the
lock are set command by command against Redis, any of which may fail; what an attempt
begins with (count it, read the locks) is one step, with the failures in between; `endless`
are counters whose EXPIRE was lost. Registration, hashing, signatures, access
tokens and user rows are left out.

### Reports

A writer is the feed's scheduler, the command line or a request; `Generate` ends
with the upsert's flush (clock and journal stand still between its two reports), `CommitReports` may meet the unique key. A trade closes
at one instant and commits later. Trades are their positions in the journal, so that
the metrics are sums over sets. The metrics are the sums; averages and ratios
are quotients of these and the Sharpe ratio and the Markdown are left out.

### News

`Ingest` handles one article: `session.get` sees committed rows only (the session
does not flush by itself), and the event is published at once, before anything is
written. `FlushNews` needs all ids to be new; otherwise only `PollFails` is left,
which is also a lost connection, a crash, or a deadlock of two flushes.

### Indicators and the backtester

The incremental classes are records advanced by `Update`, the batch functions
recursive functions over all bars; a division is an integer one, in both the same,
so they must agree exactly. `IndicatorEngine` loses bars (a full bus queue), fails
at the cache or the database, and restarts with an empty state. `Backtest` walks
a strategy (`Evaluate`, a constant) over daily bars; the candle store grows by one
day per step and the symbol may be suspended, so every result is compared with
the results of the evenings before and with the scanner's context.

### Validation

`Validate` is a run of the service over the backtests found so far (`TradeFound`):
round-trip costs by segment, net series, folds by time of exit, p-values corrected for
the number of strategies. The p-value of a series is the constant `PValue`, as the
probabilistic Sharpe ratio is numerics. Python's stable sorts are modelled by the
`Rank` of a place; the reference of the correction, `StepUp`, counts and does not sort.
`OosSplit` and `Windows` are pure and checked over all small inputs.

### Composition

`FeedProcess` composes the supervisor with service and provider; `Decision` the
strategies, scanner and committee; `IndicatorEngine` and `Backtest` use the same
`Indicators`; `PaperTrading` implements `PaperLedger`. `MCServices` explores seven
parts that share no state one at a time (`scene`), `MCDecision` the decisions and the validation: the code keeps them in different
tables and processes, and their product would only multiply the states.

## 3. Runs

| Run | Shows |
|---|---|
| `paper_overlap` | two API sessions (workers) and the feed overlap on one account and two positions, one order that is filled and one that is rejected, the first order of a user submitted twice at once: `BookOfRecord`, `NoPhantomPostings`, `HistoryImmutable` |
| `paper_live` | `ExitsHappen`, `TransactionsEnd` under fairness |
| `paper_isolated` | two accounts, two API sessions and the feed, one transaction per account at a time: `CashNeverDrifts`, `JournalAgrees`, and `LedgerKept`: the service implements `PaperLedger` |
| `cash_drift` (violation) | without isolation an update of cash is lost |
| `event_bus` | three subscribers as in the feed, one publishes to another, one may hang: `OnceEach`, `InOrder`, `JoinDrains`, `Isolation` |
| `feed_lock` | two processes, four starts, a key that survives one failed renewal: `OneIngester`, `LeaderHoldsKey`, `NoTakeover`, `Failover` |
| `feed_lock_release` (violation) | a graceful stop leaves the key |
| `candle_pipeline` | timeframes of one and two minutes, four quotes, a minute between two sessions, a fault, a backfill with a malformed bar: `OnlyValidBars`, `PublishedAreStored`, `InTimeOrder`, `VolumeCountedOnce` |
| `decision` | nine markets in which each strategy fires in each direction: `BookCoherent`, `BreakerHolds`, `SizedWithinBudget`, `SilenceCreatesNoOrder`; three strategies validated: `SoundVerdict` |
| `feed_process` | a feed whose connection drops and whose tasks crash: `RateLimited`, `OnlyEntriesMultiply`, `Reported`, `LostComesBack` |
| `services` | seven scenes: `StreamInOrder`, `NothingSkipped` (stream), `OneActivePerLogin`, `LockHolds` (sessions), `ReportsAddUp`, `TickLeavesReport` (reports), `MatchesBatch` (indicators), `HonestReplay` (backtest), `AnnouncedAsStored` (news), `SubscriptionsAgree`, `HandledInOrder` (provider socket) |
| `report_gap` (violation) | a report made on demand hides that the day before has none |

**Bounds.** Two positions let two closes meet on one account and a tick meet a
manual close of another row; two rows of one symbol let the feed's loop hold a
stale row; rejections, reversed levels and both sides occur with the two orders.
Prices are chosen so that a fee is a whole unit and stop, target and neither all
happen. Three subscribers with queues of two and one let a queue fill while
another has room, and a handler publish into a full queue. Ttl = 5, Renew = 2 is the
smallest key that survives one failure and not two; four starts allow two crashes
and two successors. Four quotes suffice for a bar, a gap, a late quote and a bar
after it; one fault is enough to separate what was stored from what was taken; one
backfill, in two chunks over all minutes and of either timeframe, meets rows that
are missing, older and newer.

`decision`: the markets of `MCDecision` were built from the strategies' guards, one
for each regime branch; five portfolios (free, nearly full heat, small equity,
breached drawdown, crowded sector), six configurations (default, two agents
disabled, weights shifted, all weights zero, nobody enabled but by an earlier entry of a
role named twice, a high threshold), two sets of raising
strategies and four of raising agents; three strategies with four trades of three
kinds in all, two p-values tied below the second of three thresholds. `feed_process`: the breaker opens at two
crashes in four ticks, delays are one or two ticks, two tickers and one scheduled
reconnect: enough for a callback of a replaced ticker and for a crash loop.
`services`: three events in a stream of two entries, so that Redis trims unread
ones, one failure of Redis or a process, bus and connection queues of two; two requests, three attempts to log in, three
tokens, a limit of two and three, one Redis error; two writers over two midnights
with two past trades and one new; six bars across half day, weekend and Muhurat;
six days with periods of one and two; two pollers, two articles, batches of two,
three polls; four messages over three links with a queue of two, so that a full
queue and one that outlives its link occur, and two symbols, either of them named once or twice.

**Fairness.** Weak fairness of a session's steps: uvicorn and the event loop run
every task that can run. Strong fairness of `OnQuote`: quotes of a traded symbol keep
coming and a full bus queue sheds some of them, not all. Crashes and rollbacks end
eventually in `paper_live` (`<>[][Works]_vars`: from some point on only normal steps), as nothing could be promised otherwise. Bus:
only subscribers in `Healthy` are fair. Lock: time passes, standbys poll, a
process that lives completes its startup, renewals and release; starts and
crashes are not fair. Feed process: time, scheduled reconnects, loops and the steps of start and stop
are fair, callbacks and quotes are not: a silent stream is possible, and
`Reported` is about it. The scenes of `services` assume none: a sender that died stays until
`HangUp`, which the server's ping brings about and this code only awaits.

**Deadlock** is checked except where a bound ends the behaviour (`MaxTokens` of the
feed lock, `MaxQuotes` of the candle pipeline, the ends of the scenes of `services`)
and in `feed_process`, where a failed start or a stopped process has nothing left to do.

## 4. Findings

* Cash of an account drifts when two transactions overlap (`cash_drift`).
* `release()` of a live leader never deletes the key (`feed_lock_release`).
* A report of the current day, made on demand, keeps the scheduler from ever
  making yesterday's (`report_gap`). In the same way a report made in the middle of
  a period is not made again after its end: `due_reports` looks at its start only.

Seen while modelling, part of the models, without a run of their own
(paths under `src/backend/app/`):

* A renewal sets the key whoever owns it (`feed/lock.py:66`), against the comment above it: a late
  leader takes over its successor's key and both ingest; hence `late` in the lock's properties.
* A backfilled bar is stored without the validation that `SPRINT2_MARKET_INTELLIGENCE.md:49-52`
  promises of every candle (`modules/broker/historical.py:74`), and a price the broker leaves empty is a
  zero (`mappers.py:126-129`): `OnlyValidBars` keeps such a bar to its own row.
* The risk manager's cap reaches the percentage of a position and not its quantity, which risks up to
  one and a half times the per-trade limit (`modules/committee/cio.py:228-231`): the bound of
  `SizedWithinBudget`.
* News goes out before it is persisted (`modules/news/service.py:49`): a batch that holds one article
  twice fails its flush, the whole batch is lost, and its articles were announced and are announced
  again by a later poll (`undone` in `AnnouncedAsStored`). The simulated provider draws such batches.
* `subscribe` sends a symbol twice that one call names twice (`market_data/providers/resilient_ws.py:102`),
  although its module "never double-subscribes": `twice` in `SubscriptionsAgree`.
* A full queue keeps its oldest events (`shared/events/bus.py:125`); the docstring
  (lines 8-9) keeps the newest.
* `decide_order` compares the stop with the fill and not the target
  (`paper_trading/engine.py:147`): a target on the losing side is an exit at once.
* The gap fill makes flat bars for closed hours (`market_data/candle_builder.py:144`),
  although `feed/service.py:272` ignores quotes outside them.
* The feed keeps a broker connection whose token has expired; the fallback to
  simulated data is only considered at the next start.
* A reconnect that fails in `_open_ticker` is not tried again (`broker/provider.py:233`);
  `quote_stream` opens one only when it restarts. A restart that meets a scheduled reconnect, and an
  ordinary start whose first ticker still shakes hands (`feed/service.py:177`), leave two tickers.
* The committee scans with whatever the last alpha request enabled: before the
  first one, the operator's allow-list does not apply to it.
* A backtest's context differs from the live one: the index trend is set and minute,
  day open and sector are not, the benchmark's bar is chosen by place
  (`backtesting/engine.py:146`), and the scanner reads 400 candles at most.
  `LiveParity` is therefore about gapless symbols and the fields named in it.
* Two requests that refresh one token at once both get a pair (`auth/service.py:78`).
* An opening-range breakout takes the height of the range when there is no ATR yet
  (`strategy/library/breakout.py:54`). A range of one price then makes an idea whose stop is its entry, with no
  risk per share; it passes the scanner's gates, and the committee may recommend it
  with a quantity of zero. Only the paper engine rejects such a stop
  (`paper_trading/engine.py:149`).
* After a failed resubscription the client leaves the transport open and sends on it
  (`resilient_ws.py:161`), and a subscription whose send fails on a live link waits for the next one
  (`resilient_ws.py:105`).
* A late quote's volume is counted again by the next one (`feed/service.py:257`).

## 5. Proofs

The theorems hold for every value of the constants, from the assumptions the modules
name. Most only say what kind of value a constant is, or where the code's
configuration is bounded: `EngineConstants`, `Constants`, `BusConstants`, `LockConstants`,
`PipelineConstants`, `SupervisorConstants`, `FeedConstants`, `RealtimeConstants`, `ClientConstants`,
`SessionsConstants`, `ReportConstants`, `ReportTrades`, `NewsConstants`, `Constraints`, `NoneIsNoNumber`,
`ValidationConstants` (at most sixty strategies, so that a q-value in 60ths is exact enough to decide),
`PortfoliosAreAmounts`, `PayloadsAreNumbers`, `RatesAreNumbers`, `NeverIsNoNumber`, `IndicatorConstants` (periods
are positive, the bands' period fits in the window), `BarsAreNumbers`, `BacktestConstants` (the return's lookback, 20 bars,
fits in the history a strategy sees, 55), `DaysAreBars`. `BrokersBars` types
the broker's bars, malformed ones included. One says more: `MarketsAreData` (a scan has one context per symbol, closing prices are positive and
indicators numbers or missing; without it no strategy's levels mean anything). `Isolated`
is a hypothesis where it is stated and nowhere else; so are `PValuesAreLevels` (a p-value is
between 0 and 1) and `StrategySignals` (a strategy answers a context with a direction and
three numbers or with nothing), which quantify over all series and are out of TLC's reach. Each proof has the types first, then
one lemma per action, then the inductive invariant, and ends with PTL.

* `Induction`: what the others cite instead of an induction principle, which would
  take an operator as its parameter. `NatMin` is a least number and `SetInduction`,
  `BoundedInduction`, `SubsetInduction` follow from it for a set of numbers or of
  subsets that stands for the predicate. `Iteration` builds the function that a
  recursive definition over `0 .. n` denotes, `Flattened` describes `FlattenSeq`.
  `SumUp` adds a function up over a finite set (`AddsAnyOrder`: in any order): one value
  changes (`SumUpChanges`), all grow (`SumUpMonotone`), sums of sums (`SumUpPlus`), over
  two sequences in a row (`SumUpConcat`), over a part (`SumUpWithin`) and over the
  classes of a partition (`SumUpPartition`).
* `PaperTradingProofs`, without isolation: `TypeCorrect`, `JournalComplete` (`BookOfRecord`),
  `NothingOutOfThinAir` (`NoPhantomPostings`), `HistoryStands`
  (`HistoryImmutable`). The inductive invariant speaks of the newest versions as
  well as of the committed ones: who holds a row's lock, that a row without owner
  has one version, and that a closed newest version has its journal entry.
* `PaperTradingProofs`, with `Isolated`: `NoDrift` (`CashNeverDrifts`). `Isolation` adds that
  scopes are disjoint (`Scoped`), that what a session read is still so (`Fresh`), and that
  every version of an account holds exactly what the positions owe it (`Paid`).
  `RoundTrip` is the arithmetic: opening and closing postings add up to the net result.
  `JournalTellsTheStory` (`JournalAgrees`) adds `JournalKept`, each entry is its row's
  round trip, and sums. `ImplementsLedger` (`LedgerKept`) adds `AllWorked`, what a
  transaction has written so far: the one row its order opens, the one row a
  manual close ends, or the rows a tick took beyond their levels. Hence each commit
  is one step of `PaperLedger` and every other step a stutter.
* `MarketProofs`, the leader lock: `TypeCorrect`, `MutualExclusion` (`OneIngester`), `HonestLeader`
  (`LeaderHoldsKey`), `NeverTakenOver` (`NoTakeover`), for any `Ttl > Renew * (MaxFails
  + 1)`. `OneIngester` alone is not inductive: `Secure` adds that the key outlives the
  leader's sleep with one `Renew` in reserve per failure it may still have, and
  `OwnTokens` that running processes have different tokens.
* `MarketProofs`, the indicators: `IncrementalMatchesBatch` (`MatchesBatch`), for any bars, periods, multiplier
  and window, any bars lost and any restarts. The batch functions are recursive over all bars, the state has
  seen them one by one, so `MatchesBatch` says too little of the state to be inductive. `Tracks(s, bars)` adds
  it: each average of `s` is the last value of a series over all of `bars` or, before its seed, the values
  themselves (`Taken`), the direction and the bands of the last bar, the last `Window` bars (`Kept`), and the
  session's sums over the bars since its first (`Weighed`). A series of averages is described by `IsAverage`,
  place by place, so a bar at the end leaves what it says of earlier places alone
  (`AverageLonger`, `MacdLonger`, `TrendLonger`) and adds the step that the incremental form takes (`EmaTaken`,
  `WilderTaken`, `WeighedNext`); the signal line's series is over the defined part of another (`DefinedFacts`).
  `TracksNext` is that step for the whole state, `TracksMatches` reads the bundle and the VWAP off it.
* `MarketProofs`, the backtest: `ReplayIsHonest` (`HonestReplay`), and `ReplayIsCausal`, the four of its
  five parts that need nothing of the strategy. The walk is recursive towards the end of the bars; `Walks(w, m)` says
  place by place what it is there: nothing, the walk of the next place, or a trade and the walk of its exit. What
  holds at a place because it holds at all later ones holds everywhere (`DownInduction`): the trades of a walk
  are those of places with a signal (`WalkTrades`), one after the other (`OneByOne`), and no longer together than
  the bars (`HeldFits`). What was known on an evening is the market cut there (`UntilFacts`): a context is the same
  in the cut market, because it looks back only, and so is a trade that ends before the cut (`SameTrade`). So a
  trade of the whole market is in the walk of the evening of its exit (`WalkKnown`, for `NoLookAhead`) and a settled trade of
  a cut one is in the whole walk (`WalkFixed`, for `PastIsFixed`). `BacktestInv` has what the steps keep: each bundle is that
  of the indicators' state at its bar, and the days of the bars are in order. `LiveParity` compares that with the
  scanner's `Replay`. `DrawdownFacts`: no fall of the equity is deeper than its losses together, by induction over the trades.
* `EventBusProofs`: `CountsAreExact`, `OrderKept` (`InOrder`),
  `DeliveredOnce` (`OnceEach`), `JoinLeavesNothing` (`JoinDrains`), for any number of
  subscribers, any event types, handlers and queue bounds. `StepOfOne` cuts a step of
  the bus down to what one subscriber sees of it (an offer, the begin or end of
  a handler, a stop, a reset); `Placed` orders a subscriber's events by where they are:
  over, in the handler, waiting, each after the other, and the refused ones apart.
  `InOrder` and `OnceEach` follow; neither is inductive, as an event is only known to
  be new because all known ones are at most `published`. `JoinDrains` needs
  `Counted`: a queue that join has passed is empty because its count was exact.
* `CandlePipelineProofs`: `TypeCorrect`, `BarsAreValid` (`OnlyValidBars`),
  `StoredBeforePublished` (`PublishedAreStored`), `BarsInOrder` (`InTimeOrder`), for any
  timeframes, sessions, prices and gap bounds. `MergedFacts` is the upsert: a merge keeps a bar valid
  and only widens it. `GoodBars` follows bars from the builder to the bus and keeps apart the rows that a
  malformed bar of the broker may have spoilt, `KeptBars`
  says that a bar waiting to be published has its row already, and `Lined` puts
  published, pending and closed bars of a timeframe in one line that ends before the
  working bar and before the bar of the latest quote; `QuoteLine` shows that a quote
  appends to its end, gap bars included. `NoVolumeTwice` (`VolumeCountedOnce`):
  `Counted` keeps, per timeframe, the volume of the rows beyond the broker's count, of the bars waiting for
  their transaction and of the working bar within what the next quote is compared with and what late
  quotes took back. A broker's bar, malformed or fetched twice, adds nothing beyond its own count.
  Closing moves volume from one of these places to the next, gap bars have none, and an upsert
  makes of two volumes the larger one; a row is read and written in one transaction.
* `FeedProcessProofs`: `EntriesMultiply` (`OnlyEntriesMultiply`). `OpensOne` and `ClosesOne` count
  the tickers alive before and after a step; `Clean` says that a process starts with no ticker, `Ending` that a ticker
  closed by `disconnect` schedules nothing, `Busy` that tasks run in a started process
  only. `CrashesAreLimited` (`RateLimited`): while the breaker is closed a task's crashes in a
  row are a suffix of the failures it counts; while it is open it has forgotten them, but
  no crash comes, and when it closes all of them are a window old.
* `DecisionProofs`: `BooksAreCoherent` (`BookCoherent`), `BreakerAlwaysHolds`
  (`BreakerHolds`), `SizesStayWithinBudget` (`SizedWithinBudget`), `SilenceNeverOrders`
  (`SilenceCreatesNoOrder`), for any markets, portfolios and limits, any configuration
  the administration accepts. One lemma per strategy says that its stop protects (`VWAPBreakoutSound`
  to `GapFillSound`); `CardType` bounds the score, `BehindSorted` and `OrderFacts` are the stable
  sort, `AcceptedFacts` the portfolio constraints idea by idea. `Coherent` keeps of a
  request which market its book is from and which configuration was valid. `TotalMonotone`
  compares two votes: the silence of an agent that would not have objected only lowers the sum.
  `VerdictsAreSound` (`SoundVerdict`), for any strategies, trades, levels, folds and
  notional: the ranks of a stable sort are a permutation (`RankOrder`, `RankOnto`), so walking
  them down finds what counting finds (`StepUpFacts`), and so do the q-values
  (`QFacts`); costs are never negative (`NetFacts`); the folds, joined, are the trades
  in the order of their exits (`FoldsFacts`); partitions of any length do not look ahead
  (`SplitFacts`, `WindowFacts`).
* `ServicesProofs`:
  - `NoEntrySkipped` (`NothingSkipped`). `Follows`: a blocked read was
    asked with the last id; `Behind`: what lies between the last id and the trim was
    trimmed unread; `Complete`: what lies before it was dispatched, is unreadable or
    was trimmed.
  - `StreamKeepsOrder` (`StreamInOrder`). `Queued`: what waits for a handler ascends, and
    the consumer is past it; `Passed`: what a client has or is about to get is older than what still
    waits for the same handler; a channel belongs to one kind (`KindOf`), so to one handler.
  - `SubscriptionsSurvive` (`SubscriptionsAgree`) and `MessagesInOrder` (`HandledInOrder`). `Mirrored` is what
    is known of each symbol at the far end of a live link; `Lined` puts handled, waiting and coming
    messages in one order, through drops from a full queue and queues that outlive a link.
  - `OneTokenPerLogin` (`OneActivePerLogin`). `Single` (one active token) is not
    inductive, as a rotation adds a successor whatever became of its token since it
    was read: `Chained` says that no other token of the login is active by then, and
    `Alone` that no other request rotates for this login.
  - `LockedOut` (`LockHolds`). `Locks` is the property for one key; it is inductive
    because it names the request that has counted the last failure and not locked yet.
  - `TicksLeaveReports` (`TickLeavesReport`). `Promise` is what a tick holds between its
    look, its reports and its commit: yesterday's report is among what it makes, or that one or
    a later one was stored when it looked; `Proper` keeps periods apart, and a stored
    period is only ever replaced by itself.
  - `FiguresAddUp` (`ReportsAddUp`). Each figure is a sum of points, one per trade
    (`FigureFacts`), so any partition of the trades adds up. `Right`: a report, committed or
    not yet, sums up the trades of its period among the journal's first `asOf` entries, which
    never change. `EachDay`: as many daily reports of one week as it has days, no two of one
    day, are one of each day, so the week's trades are partitioned by them.
  - `NewsAnnouncedOnce` (`AnnouncedAsStored`). `Flushed`: a flushed transaction adds no
    article twice, none that is stored and none another flushed one adds. What was announced is
    then the sum of what is stored, what was undone and what open polls hold (`SumUpChanges`).

Only model-checked:

* liveness: `ExitsHappen`, `TransactionsEnd`, `Isolation` of the bus, `Failover`, `Reported`,
  `LostComesBack`: fairness and ENABLED are out of the prover's reach.

Every safety property, action property and refinement that a passing run checks is proved.

## 6. Not modelled

REST adapters and row mappings of the broker, the simulated market data and the
provider registry: I/O and test data. The option maths (Greeks, implied volatility, the
option chain) and the statistics of the validation (Sharpe ratios, bootstrap, Monte
Carlo, stability): floating-point numerics. Users, health views, logging, middleware
and the frontend: CRUD and views without a protocol. The text side of news
(sentiment, entities), reports (Markdown) and the committee (citations).

## 7. What is left

1. The option-chain loop and the cache of the feed process.
2. Two feed processes with their broker connections composed with `FeedLock`: what
   a late leader and its successor write to one candle row.
