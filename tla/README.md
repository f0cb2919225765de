# Verification of the quant trading dashboard

TLA+ models of the parts of this repository whose correctness depends on order,
failure and concurrency, the TLC configurations that check them, and proofs
that TLAPS checks. Every action is translated from the source; `PROJECT.json`
names the lines behind each definition.

    tlc -config BookSafety.cfg BookMaintainer.tla
    tlapm BookMaintainerProofs.tla

## 1. The system

Five processes share Postgres and Redis: the FastAPI server (`app/main.py`,
`app/api`), the ingestion worker (`app/ingestion/worker.py`), the paper trading
runner (`app/paper/runner.py`), the back-filler and nightly scheduler
(`app/ingestion/backfill.py`, `scheduler.py`) and the browser application
(`frontend/src`). Each Python process is one asyncio event loop: code between
two `await`s is atomic, everything else interleaves. Processes talk through
Redis pub/sub, which keeps nothing for a subscriber that is not there, and
through committed rows.

| Component | State | Operations | Interacts with |
|---|---|---|---|
| Order book maintainer (`ingestion/orderbook.py`, `book_maintainer.py`) | the book, `last_update_id`, `synced`; `buffer`, `syncing`; the `started` event | `apply_snapshot`, `apply_diff`, `resync`, `handle_diff_msg`, `publish` | depth stream, REST snapshots, the Redis key `book:<SYMBOL>` |
| Stream reader (`ingestion/ws_streams.py`) | the connection, the back-off attempt | `consume_stream`, `_messages_until` | Binance WebSockets, every handler |
| Stream handlers (`ingestion/worker.py`, `handlers.py`) | none besides a CVD window | one handler per stream | Redis topics, upserts |
| Paper runner and engine (`paper/runner.py`, `engine.py`, `executor.py`) | `paper_instances`, `paper_orders`, `paper_equity`; the session's objects for one cycle | one evaluation cycle per closed candle | candle topics, candles in the database, simulator or spot testnet |
| Paper API (`api/paper.py`) | the same rows | create, start, stop, read | the runner, through the database |
| Autopilot (`paper/autopilot.py`) | `params_json`, the time of the last retraining | `retrain` | walk-forward, the runner's cycle |
| Backfill (`ingestion/backfill.py`, `gaps.py`, `upserts.py`) | the candle table and other series | find the gaps, fetch in batches, upsert | REST client, the live worker's rows |
| REST client (`ingestion/binance_client.py`, `core/ratelimit.py`) | used weight, the minute, a lock | `acquire`, `update_from_headers`, retries | Binance |
| Alert engine (`alerts/`) | the cached rules and their memory, `last_fired` | `refresh_rules`, `handle`, `_persist_state`, `_deliver` | live topics, the regime sweep, the database |
| WebSocket hub (`api/ws.py`) | the subscribed set, the relay task, one pub/sub connection per client | subscribe, unsubscribe, ping | Redis, the browser |
| WebSocket manager (`frontend/src/ws/manager.ts`) | the socket, the handlers per topic, the reconnect timer | `connect`, `subscribe`, `close` | the hub, the pages |
| Analytics cache (`analytics/cache.py`, `api/analytics.py`) | Redis keys made of the last candle's time | `get_cached`, `set_cached`, the endpoints' reads | candles, funding rates |
| Backtesting (`backtest/`) | none (pure) | `run_backtest`, `run_walk_forward`, strategies | candles |
| Backtest jobs (`api/backtests.py`) | rows with a status, background tasks | submit, execute, poll | backtesting |
| Authentication, settings, market, export, health | tokens, a throttle window, one settings row | request handlers | database |

What makes each of them correct, and what is hard about it:

* **Order book.** The served book is at all times a book the exchange had. Hard:
  the snapshot is taken at an unknown point among the buffered diffs; two
  coroutines may be in `resync()`; reconnects lose diffs silently; snapshots are
  limited and may be outdated; requests and Redis calls fail half-way.
* **Paper trading.** Stops take effect within a cycle and are never undone; the
  guards hold for every order, across restarts; the records explain the
  position. Hard: the runner works on objects it has read at the start of the
  cycle, awaits between instances, and may fail or die between an order and
  the commit that records it; three processes write around it.
* **Backfill.** Every grid point of the range ends up stored, whatever was there
  and wherever it was interrupted; no unfinished candle is stored.
* **Rate limiter.** The weight a client spends in a minute stays within the
  threshold; every request ends. Hard: what is spent after a sleep is not
  checked, headers arrive late or not at all, clients do not know each other,
  and order-book snapshots and portfolio requests go past all of them
  (although "All REST access to Binance goes through this module",
  `binance_client.py:3`).
* **Alerts.** A crossing alerts once, cooldowns hold, a disabled rule falls
  silent. Hard: two callers that replace the list of rules under each other,
  memory that is saved after it is changed, failures and restarts in between.
* **Hub and manager.** The hub is subscribed to what the page wants, over one
  connection, and delivers again after any loss. Hard: sockets replaced before
  their close event, frames under way, relay tasks that end unnoticed.
* **Cache.** A dashboard never goes back in time, and a new candle shows. Hard:
  reads and the cache are steps of their own, and the tables move between them.
* **Backtesting.** No bar is traded on its own close; the list of trades agrees
  with the equity curve, one bar behind it; parameters are chosen before the
  bars they are tried on.
* **Backtest jobs.** A job ends, done or in error.

The hazards this list comes down to are in `PROJECT.json`, each at its line, with
the properties that cover it or the reason none does.

## 2. Plan

| # | Modules | Composes | State |
|---|---|---|---|
| 1 | `Exchange`, `OrderBook`, `BookFeed` (abstract), `BookMaintainer`, `BookMaintainerProofs` | the maintainer with the exchange, the connection and Redis | done, proved |
| 2 | `PaperTrading`, `PaperTradingProofs` | runner, executors, API, worker, database | single-asset and pairs instances done, proved |
| 3 | `AlertEngine`, `AlertEngineProofs` | two callers, the rules API, the database | done; safety proved |
| 4 | `LiveFeed`, `LiveFeedProofs` | browser, hub, Redis subscription | done; safety proved |
| 5 | `CandleTable` (abstract), `CandleStore`, `CandleStoreProofs` | back-fillers, live worker, tables | done; safety proved |
| 6 | `RestClient`, `MCRestClient`, `RestClientProofs`; `AnalyticsCache`, `MCAnalyticsCache`, `AnalyticsCacheProofs` | clients with the exchange's count; requests with the tables | done; safety proved |
| 7 | `Backtest` | the algorithms, as operators | done, proved with 8 |
| 8 | `BacktestJobs`, `MCBacktestJobs`, `BacktestProofs` | a job around the algorithms of `Backtest` | done; safety proved |

Still worth doing: a proof of `ServedMovesForward`, the one safety property without
one, and the CVD window of the trade handler.

## 3. The order book

### Modules

* `Exchange` is Binance's side: `log` and `books` give the level each update id
  changed and the book after it. A depth event carries the absolute quantities
  of the levels touched by the ids `first..final`. One side of the book is
  modelled; the code treats both alike.
* `OrderBook` is the class of that name: a book is a function from levels to
  quantities, 0 for a price that is not in the dict. `Snapshot` leaves out what
  lies behind the `SnapshotLimit`-th price present.
* `BookFeed` is the promise to readers of `book:<SYMBOL>`: what they find is a
  view of a book the exchange had, at the id it names. It does not say which
  of the levels are known, nor how recent the view is.
* `BookMaintainer` is the whole service for one symbol. Its variables are the
  fields of the two objects, the connection with its unread messages, the Redis
  key, and `phase`, which tells where in `resync()` the task and the reader are.

| Code | Action |
|---|---|
| handler, first message | `NotingStart` in each of the four reader actions |
| `handle_diff_msg` | `BufferDiff`, `SkipDiff`, `ApplyDiff`, `ResyncOnGap` |
| `publish` | `Publish`, in the step that applies: its payload is built before the first await |
| `resync` up to the request | `BeginFirstResync`, `ResyncOnGap`, `ReplayGap` |
| `fetch_snapshot` | `SnapshotTaken` (the exchange answers), `FetchFails` |
| `resync` after the answer | `InstallSnapshot`, then `ReplaySkips`, `ReplayApplies`, `ReplayGap`, `FinishResync` |
| `consume_stream` | `Disconnect`, `Reconnect` |
| worker restart, key expiry | `WorkerRestarts`, `KeyExpires` |

The replay loop has no `await`: its iterations are steps of their own, during which
`LoopFree` keeps the other coroutine from moving (the exchange and the
connection go on). `known` is a history variable: the levels the local book has
learnt of, so that "exact" can be said of a limited snapshot.

### Runs

* `book_safety`: two levels, quantities 0 and 1, four updates, snapshots limited
  to one price and up to one update old, failing requests, one restart. This
  is enough for a diff of several updates, a diff overlapping the snapshot, a
  gap in the buffer, a gap behind a reconnect and a deep level that the
  snapshot hides. `MirrorsExchange`: a synced book is the exchange's at
  `lastUpdateId` on every known level. `OneResync`: resyncs exclude each other
  and direct application. `ImplementsFeed`: the refinement of `BookFeed`.
* `book_liveness`: one level, four updates, one restart, snapshots that are
  up to date and always answered in the end. `ResyncEnds` and `CatchesUp` are
  the liveness of the algorithm; `ServedMovesForward` says that the served id
  never falls, also over a restart, as long as snapshots are up to date (with
  outdated ones it can, which is why the run sets `SnapshotLag` to 0).
* `book_fetch_fails`: the same specification when a snapshot request may fail.
  `ResyncEnds` is violated: `syncing` remains set, no code path starts another
  resync, and the buffer grows for the rest of the process. Python's event loop
  only logs the exception of the task; in the reader the exception reaches
  `consume_stream`, which reconnects and goes on buffering.

### Fairness

The event loop runs a coroutine that can run: weak fairness of
`BeginFirstResync`, of the reader as a whole, of `Reconnect` (the back-off is
bounded) and of a coroutine in `resync()` once its snapshot is there. A request
is answered if it is made again and again: strong fairness of `SnapshotTaken`.
Nothing is assumed of the exchange's updates, the stream, Redis, the connection
or restarts.

### Proofs

`BookMaintainerProofs` proves the four properties of `book_safety` for any
number of levels, updates and restarts, any quantities, limit and lag, from the
assumptions on the constants alone. `MirrorsExchange` is not inductive by
itself. `IInv` adds that

* between two books of the exchange only touched levels differ (`Untouched`);
* every message in the channel or the buffer reports ids the exchange has made
  (`MessagesGenuine`);
* the served book is a view at its id (`ServedGenuine`);
* a coroutine that replays has installed a snapshot, so the book is synced, and
  the task has not begun before the first message (`CoroutinesInStep`).

The heart is the lemma `MergeChains`: a diff with `first <= id + 1` and
`final > id` takes a view at `id` to a view at `final`, also if it overlaps what
the book has. `MaintainerImplementsFeed` maps `ApplyDiff` and `SkipDiff` to
`Serve` or a stutter, `KeyExpires` to `Withdraw`, `ExchangeUpdates` to
`FeedUpdate`, and everything else to a stutter.

## 4. Paper trading

### Modules

`PaperTrading` models the instances of one symbol and interval. The database is
`status`, `state` (the `state_json` columns), `traded` (the signed sum of
`paper_orders`) and `tradedB` (the same for the second symbol of a pair);
`paired` says which instances trade a pair; `stored` is the last candle of the candle table. `closing` is
the candle the worker has published but not yet committed. The runner is at one
of its awaits: `selected` (before `load_candles_df`), `evaluating` (between two
instances), `ordering` (in `market_order`), `committing` (in `session.commit`).
`loaded` are the ORM objects as they were selected; the session factory sets
`expire_on_commit=False`, so nothing refreshes them. `held` is what the testnet
account has bought for the instance.

| Code | Action |
|---|---|
| `handle_kline` | `CandleCloses` (publish), `CandleStored` (commit, or failure) |
| `start_instance`, `stop_instance` | `StartInstance`, `StopInstance` |
| `main` | `RunnerStarts`, `RunnerCrashes` |
| `evaluate_for_candle` | `SelectInstances`, `LoadCandles`, `CycleDone` |
| an exception before the order, or a pair that is skipped | `EvaluationFails` |
| `evaluate_pairs_instance` | `EvaluatePairs`, `Commit` or `CommitFails` |
| `evaluate_instance` | `Evaluate`, `OrderFilled`, `AnsweredEmpty` or `OrderFails`, `Commit` or `CommitFails` |

Amounts are whole numbers. The engine keeps `avg_entry` and `realized_pnl`; the
equity depends on `realized_pnl - position_qty * avg_entry` alone, which is the
field `cash`. The strategy is any of its three signals at each candle. An order
is filled at any price, in full by the simulator and in part or in full by the
testnet; a request may fail before or after it was executed. An answer of the
testnet without fills is recorded as the whole order at the close
(`executor.py:117-118`), while the account may have bought any part of it or
nothing (`AnsweredEmpty`). `EmptyAnswers` says whether the exchange gives such
answers; no other step depends on it. A failed commit
may have reached the database; since the failure expires the session's objects,
the logging in the `except` branch raises again and ends the cycle
(`CommitFails` goes to `idle`, not on to the next instance).

A pair is traded by the simulator only, whose fills are immediate, so both legs
are decided and filled in one step (`EvaluatePairs`) and recorded by one commit.
`LegQty` gives each leg half of the guarded size; the second leg has the sign of
the hedge ratio, against the first. The second symbol's close comes from its own
table and may be any. The code does not consult the daily-loss guard for pairs,
so neither does the model, although the repository's `README.md:138` says that
the guard halts "an instance". With it, nothing depends on a pair's cash, which
is left at 0. Local variables that
go out of scope are reset, which only merges states the code cannot tell apart.

### Runs

* `paper_trading`: one instance, of a single asset or of a pair, answers with and
  without fills, prices 1 and 2, a size of 6 above a position guard of 4 (so that a leg is one or two units), a
  loss guard of 1, both executors with a change at any restart, three candles and
  one midnight: candles enough to open a position, meet the loss and be halted,
  and trade again the next day. A reversal from short to long can be filled in
  part; a pair can be skipped when the executor has become the testnet's, or hold
  one leg and not the other when the hedge ratio is zero. `KillSwitch`: no order and no record in a cycle
  begun after a stop.
  `StopSticks`: commits of stale objects never restore a status.
  `OrdersExplainPosition`: order log and position agree whatever failed.
  `HaltHolds`: nothing is traded on a day the guard has tripped (for a pair it
  never does). `NeverAddsBeyondGuard`: a recorded position is within the guard at
  the price it was decided on, or smaller than before, and a leg within half of it. Several instances of a cycle are
  covered by the proofs, which hold for any set of them.
  The next two runs are without empty answers, so that what they find is not due
  to those.
* `paper_crash`: "restarts resume cleanly" (`paper/engine.py:3`) read as "between
  cycles the persisted position is what the account holds" is violated by a
  crash, or a lost answer, after the exchange has executed the order.
* `paper_stale_candle`: an evaluation sees the candle it was triggered by, as
  `paper/engine.py:157` says; violated, as `handle_kline` publishes first.

### Proofs

`PaperTradingProofs` proves the six properties of `paper_trading` for any set of
instances, prices, sizes and guards. `IInv` adds what they rest on: the loaded
state of every instance is the database's as long as the cycle lasts (nobody
else writes `state_json`), instances of the cycle were running when it began,
the draft is ahead of the database by exactly the row to be committed, no state
is dated in the future, no order is under way for an instance halted today, and
the order under way respects the guard. The arithmetic is in lemmas:
`TargetWithin` (the clamp), `PartialFill` (any part of an order within the guard
ends within it or reduces the position), `GuardedState` (the daily bookkeeping),
`LegWithin` (a leg gets no more than half the guard).

## 5. Requests to Binance

### Module

`RestClient` models `BinanceClient._get` with its `WeightLimiter`, for several
clients of one base URL, and `server`, the weight the exchange counts for their
address. Every client counts for itself: the back-filler, the scheduler's jobs
and the worker's poller each make one. (Spot and futures requests have separate
limiters, and separate counts at the exchange: the model is about one of them.)
`BookMaintainer.fetch_snapshot` (weight 50) and `api/portfolio.py` send theirs
with an httpx client of their own, which no limiter sees: `SentOutside`.
A client sends one request at a time, so that the limiter's lock is never
contended; it is left out.

The clock is a sequence of minutes: `MinuteBegins` empties the exchange's count
and marks every limiter's window as old (`fresh`).

| Code | Action |
|---|---|
| `acquire` | `Acquire`, or `Sleep` and `WakeUp` (which spends unchecked) |
| the request | `Arrives` (the exchange counts, and answers with or without the count), `TransportFails` (counted or not) |
| requests past the client | `SentOutside` |
| the response | `Receive`: `update_from_headers`, then return or back off |
| the loop of `_get` | `TryAgain`, `GiveUp` |

A header that is late is applied to the window the limiter is in, whichever
minute it belongs to; one that is missing leaves the limiter as it is. The
history variables `unheard` (in all) and `unheardOf` (per client) add up what
the exchange counted without telling the sender, `outside` what was sent past
the clients. A sleep is taken to reach the next minute: the code
sleeps for what is left of the present one, on the wall clock, and does not look
again. A sleep that ends early is therefore outside the model.

### Run

`rest_client`: two clients of weight 1, a threshold of 2, a limit of 3, one retry,
one request past the clients per minute: enough for a client that sleeps, a
request accounted for in one minute and counted in the next, a refusal, answers
that bring the other's weight and answers that do not. `SpendsWithin`: a client's
acquisitions of a minute stay within the threshold. `OvershootBounded`: the
weight the exchange counts exceeds it at most by one request carried over, by two of
every client but one, by what the others sent without being told the count, and by
what came past the clients. That is what the fifth of the limit that the threshold
leaves free has to take. The last two terms have no bound in the code: without
headers, every client may use up the threshold for itself.
`CallsReturn`: every request ends, under weak fairness of each client's steps
(tasks run, requests are answered or fail) and of `MinuteBegins` (time goes on).

### Proofs

`RestClientProofs` proves `TypeOK`, `SpendsWithin` and `OvershootBounded` for any
finite set of clients, any limit and number of retries, any weights up to the
threshold (the code's are 1, 5 and 10 against 80 % of some thousands), and any
answers with and without headers. That the threshold holds although
`WakeUp` does not check it needs two facts: a limiter in the present minute
counts at least what was spent in it (`CountsWhatIsSpent`; headers only raise the
count), and nothing is spent in a minute before its window is rolled.
`AttemptsLeft`, for the type of the attempts, says where one more may follow.

`OvershootBounded` is about all clients at once. Its invariant, `OvershootLeft`, looks
at one client, the last that found weight left. `Counted` is what the exchange has
counted apart from what this client cannot know of: what came past the clients
and what the others were not told. `InBoundsFor` adds what may still come: the
request this client has under way and the weight it thinks is left, one request of
every other client that may send in this minute, and another of one that carries a
request over. A step makes one client send or learn (or, untold, moves its
weight from one term to another); at the minute's end all sums start afresh. The
heaviest weight exists
because a set of naturals has a greatest element if it is bounded, which
`HasLeast` gives.

## 6. Alerts

### Module

`AlertEngine` models the engine with its two callers, the message loop and the
regime sweep, and the table of rules under it, which the API changes. `job` is
what a caller's `handle` has in hand: the list of rules it goes through, what is
left of it, the rules that have fired. `shared` tells whether its list is still
`self.rules`: the memory of a rule is in the rule object, so a caller whose list
was replaced changes objects nobody else will see. A message is abstracted to
what the rules make of it.

| Code | Action |
|---|---|
| `handle` up to the first await | `Handle` |
| `refresh_rules` | `Select`, `SelectFails`, `Install` |
| `evaluate_rule` and the loop | `Evaluate`, one rule at a time; no other task moves (`LoopFree`) |
| `_persist_state` | `Persist` (no row is updated when the rule is gone) |
| `_deliver` with `send_telegram` | `Deliver`; the call waits for it, for 10 s and more (`MaxStall`) |
| a failing statement | `StepFails`: the rest of the call is lost |
| `api/alerts.py` | `CreateRule`, `ToggleRule`, `DeleteRule` |
| worker restart | `WorkerRestarts`: rules and `last_fired` are gone |

### Run

`alerts`: one rule of any kind, a list that is good for one unit of time, calls
that stall for as long (the message to Telegram alone has a timeout of ten
seconds, as long as a list is used), a cooldown of six, eight units of time. One
rule is enough
for the two callers to disturb each other, since either replaces the whole
list; rules meet only in the order they are gone through, which the proofs
cover. `OneAlertPerCrossing`: between two alerts of a crossing or of a regime
something else was seen. `DisabledRuleStops`: a disabled or deleted rule alerts
at most `Stale + MaxStall` later, where `Stale` is how long a list may be in use:
until it is due for a refresh (`RefreshEvery`), until the loop, which may be stalled
by an earlier call, makes the one that finds it due (`MaxStall`), and until that
call has its answer (`MaxStall` again). A call that stalls for longer than a list
is used makes this `4 * MaxStall`: the other caller begins a refresh while the first
is under way, and the older answer may be put in place after the newer one.
`CooldownHolds`: two alerts in the life of an
engine are a cooldown apart.

Assumed of the times: `CooldownOutlastsLists`, for `OneAlertPerCrossing` only. A cooldown
is longer than a list is in use and a call waits, `Stale + MaxStall`. The default of 300 s
is, for stalls below a minute; the API also takes 10 s, and with it an alert may be
repeated. The other properties hold for all times. Assumed besides: tickers call
the loop all the time (`heard`), no call waits longer than `MaxStall`, whatever that
is, and rules have the parameters their kind needs. No delivery is
promised: an alert that is decided on and not delivered is lost, and the model
has the failures that do it.

### Proofs

`AlertEngineProofs` proves `TypeOK`, `CooldownHolds` and `DisabledRuleStops` for any
finite set of rules and any times, stalls longer than a list is used among them,
and `OneAlertPerCrossing` for those with `CooldownOutlastsLists`, a hypothesis of its
theorem. The cooldown is checked in one step and the alert noted in
another, after the rule's memory is saved (`HasWaited`); no other call can alert
of the rule meanwhile because every rule is the concern of one caller only
(`OwnRulesOnly`), and a caller is in one call at a time. The other two need more:

* `Timely`: no call waits longer than `MaxStall`; the last refresh was begun no longer ago
  than a list is used or a call waits, whichever is longer, and a stall (`Longest +
  MaxStall`); a refresh still under way began at most `Overlap` before the last one,
  which is 0 if stalls are shorter than a list is used, and `MaxStall` otherwise.
* `ListsAge`: a rule that is in a list, the shared one or a call's own, without being
  enabled was enabled when the list was read, which bounds how long ago; or the
  call that is to replace the shared list has begun in time (`RefreshBegunBy`).
* `Remembers`: as long as nothing else has been seen since a rule's last alert,
  the row and the lists remember what it alerted of. The one list that may not
  is from before the alert. It is too old to be used when the rule has cooled
  down (`OutdatedListsExpire`), which is where the cooldown's length enters.

`DisabledRuleStops` was first stated with `Stale == RefreshEvery + MaxStall`, which TLC
confirmed for some times and `ListsAge` did not: the call that refreshes may itself
be late, and with long stalls two refreshes overlap.

## 7. Live data in the browser

### Module

`LiveFeed` composes the manager, its sockets and the hub. `ready` is the state of
every socket as the browser sees it, `toHub` the frames under way, `hub`, `subs` and
`relay` what `ws_hub` holds for the connection.

| Code | Action |
|---|---|
| `subscribe`, and the function it returns | `Subscribe`, `Unsubscribe` |
| `connect` | `Connect`, inside `Subscribe` and `Reconnect` (the timer) |
| `onopen`, `onclose` | `OnOpen`, `OnClose` |
| `ws_hub`, first frame | `HubAuth`, `AuthTimesOut` |
| `ws_hub`, later frames | `HubSubscribe`, `HubUnsubscribe` |
| `_relay` | `RelayEnds` (nothing is subscribed), `RelayFails` |
| the connection ends | `Lost`, and `Ends` for what the hub drops |

`connect` replaces a socket that is closing, and `onclose` forgets `this.ws`
whichever socket it belongs to; both are in the model as they are in the code.
Not modelled: `MAX_TOPICS`, `ping`, `close()`, the status listeners, refused tokens.

### Run

`live_feed`: three sockets, two topics, a page at most one frame ahead of the hub,
two faults. Three sockets are what it takes for a replaced one to take the
reference to its successor and bring about a third. `HubAgrees`: a hub that has
read what it was sent is subscribed to what the page wants. `SingleConnection`:
only a socket that was replaced before its close event leads to two
connections; the condition is part of the property, because that case happens.
`FeedRestored`: a topic the page keeps is relayed in the end, unless the
connection's relay task has ended, which is the other thing the code does not
recover from. Fairness: the browser fires its events and the timer, the hub
reads on. Faults are bounded; nothing is assumed about when they happen.

### Proofs

`LiveFeedProofs` proves `TypeOK`, `HubAgrees` and `SingleConnection` for any number of
sockets, topics, frames and faults. `HubAgrees` follows from `WillAgree`: the
frames under way bring the hub's subscriptions to what the page wants, where
`Settles` says that the last frame about a topic decides. Two lemmas carry it,
`SentFrameDecides` for a frame that is appended and `ReadFrameSettles` for one that
is read. `OnlyOpenTalk` (hub and frames exist for open sockets only) and
`OneInUse` are the rest of the invariant.

## 8. Market data in the tables

### Modules

`CandleTable` is the promise to readers: a candle is final when it is stored, and
stays. `CandleStore` has the back-fillers (command line and scheduler), the worker
and two tables: candles of one interval, and a futures series. No step touches
both, so `Init` picks the one a behaviour is about. `exists` are the candles the
exchange has; in a downtime it has none.

| Code | Action or operator |
|---|---|
| `find_gaps` | `FindGaps` |
| `backfill_candles` | `BeginCandles`, from `TopUp` (the scheduler) or `RangeGiven` (the command line) |
| `_fill_gap` | `FetchCandles`, `CommitCandles` |
| `handle_kline` | `WorkerStores` |
| `backfill_funding` and the like, `_fetch_windows` | `BeginSeries`, `FetchSeries`, `CommitSeries` |
| an exception, a killed process | `JobFails`: what was committed stays |

### Run

`market_data`: an interval of two units, batches of two candles, windows of one
row, six units of time, two actors, one failure, every set of candles the
exchange may have. This gives full, short and empty batches, gaps at both ends
and inside a range, a candle that forms while it is fetched, and two jobs that
fill the same gap. `GapsExact`: gaps against their definition, at every state of
the table. `BackfillCompletes`: a job that ends has left nothing behind.
`ImplementsTable`: the refinement. `SeriesHasNoHoles`: no hole behind the latest
row, where a top-up would never look again, save what retention took.
`CandlesArrive`: what the worker missed is found in the end, as the scheduler's
jobs come round (weak fairness of its `TopUp` and of every job's steps).

What the bounds take for granted: ranges end in the past (`MaxAhead = 0`; with a
later end the code does store a forming candle), the back-fill reaches as far
back as the run lasts, the series has rows at the code's period, written on
time, and retention does not take rows between a job's start and its first
request.

### Proofs

`CandleStoreProofs` proves all the safety properties, for any interval, depth,
limits, retention, number of actors and failures.

`GapsExact` rests on `FindsGaps`: for any range on the grid and any set of stored times
on it, `FindGaps` returns ranges on the grid, in order, an interval and more apart,
which together are the missing points. The scan is a recursive function over sets
of times that takes the latest one at a time. `ScanExists` (the function is well
defined) and `ScanReaches` (it is right) argue by a least counterexample, the
smallest set of times for which it fails, and `ScanPasses` is the step.

`IInv` says of a job on candles (`FillsGaps`) that its gaps are what such a scan
returns, that its cursor is on the grid within the first of them, and that a batch
to be committed is of candles from the cursor on; of a top-up (`ToppingUp`), that the
series has all rows behind its cursor except expired ones, and that a fetched
window has all of its rows. The last is `WindowsHaveRoom`: rows of the period
that the code assumes fit into a window of `RowLimit` periods, by mapping each to
its slot. With it `SeriesHasNoHoles` is inductive.

`BackfillCompletes` and `ImplementsTable` hold, and are proved, for `MaxAhead = 0`: a
hypothesis of the two theorems, and a conjunct of their invariant `PastInv`. It adds
that no candle of a batch is forming, that a fetched batch leaves out none of the
exchange's candles before its last one (`Answers`), and `MissesNone`: each of
the exchange's candles in the job's range is in the table, or is ahead of the cursor
in a gap. Others may store candles of the range meanwhile, since tables only grow.
For the refinement, a committed candle is one that `clock \div Interval` counts as
closed (`ClosedSoFar`), and a tick closes one candle or none (`OneClosesAtATime`).
`CandlesArrive` is liveness and stays with TLC.

## 9. Cached analytics

### Module

`AnalyticsCache` models an endpoint with its requests: `Read` (once per symbol),
`LookUp`, for the regime `ReadFunding`, then `SetCached`. Each is a statement or a
Redis call of its own, and between them candles are stored (`Stores`), funding
rates arrive and results expire. A result is what it was computed from, and
`CacheKey` is what the code makes the key of: the time of the newest candle read.
For pairs and correlations this is the later of the symbols' last candles; the
regime's key does not mention funding. Endpoints have keys of their own, so one
is looked at, with any of the four ways of reading.

### Run

`analytics_cache`: two interchangeable requests (the symmetry is sound, all
properties are invariants), three candle times, two symbols, two candles per
read, four candles stored in any order. `NeverGoesBack`: no answer is older than
one shown before it was asked for. `ServesAsOfCandle`: an answer has what was in
the table read last (the only one, for an endpoint about one symbol), and the funding
rates there were, when its newest candle's time first appeared. This is what "any new
closed candle invalidates naturally" (`analytics/cache.py`) comes to. Until the next
candle, or until the entry expires, the answer may lack gaps filled behind that
candle, later funding rates and, of the tables read before the last, any number
of candles: two symbols' candles may be stored after the first was read and
before the second is.

### Proofs

`AnalyticsCacheProofs` proves `TypeOK`, `NeverGoesBack` and `ServesAsOfCandle` for any number of
requests, symbols' candles, candles per read and funding rates. The invariant
says what a result must be for its key to be good for it (`CacheIsGood`): it is made
of the newest candles of each table as it was at some moment (`FromTables`), its
key is the newest of them, and it covers what the last-read table had when that
time's first candle was stored (`Covers`). For a request that is still reading,
`StillFinds` says that a candle as new as the newest shown is read or is in a
table it has yet to read, so that its key comes out no older. `Covers` is about
the table read last because the newest candle may be another symbol's: a
table read before it may have been behind.

## 10. Backtests

### Modules

`Backtest` holds the algorithms as operators: seven strategies as machines over a
reading of their indicator (or `NoValue`, NaN), each the body of its loop, a step
from the state after the bar before (`Decide`); the pass over the bars (`Decided`,
`Targets`); the shift `Held`, `Turnover`, `ExtractTrades`, what a trade `Earns`, `Split`
and the choice of parameters. Prices are not needed to say which bars' returns a
position earns. The curve earns the return from `closes[i-1]` to `closes[i]` on the
side of `held[i]` (`engine.py:157,161`); a trade runs from `closes[entry]` to
`closes[exit]` (`engine.py:103,122`), so it earns the bars behind its first. The training
part of a window is `int(length * 0.7)` bars: `TrainBars` takes off one for the lengths
(`FallsShort`) whose product falls short in floating point, as 90 * 0.7 does, which
makes 62 and not 63. `BacktestJobs` is the row and
its background task (`Create`, `Start`, `Load`, `Compute`, `Finish`), with failing
statements and computations (`Fails`), the error that is written in a session of its own
(`WriteError`, which may fail too) and a restart of the API (`Restart`), which no
task survives.

A Sharpe ratio of exactly 0 counts as missing (`sharpe or -inf`); when no candidate
of a window has one, an assertion raises and the job ends in error.

### Run

`backtests`: every series of up to five readings out of four, both kinds of
backtests, two windows, two candidates, one fault. Five bars are enough for a
position, a flip, a gap in the readings, a second position and the holding
limit of two. `NoLookAhead`: what is held on a bar does not depend on it.
`TradesTrailCurve`: the list of trades earns each bar's return on the side on which the
curve earned the bar before's. The two are one bar apart, as the repository's own
`test_backtest_engine.py:100-110` shows, where the curve gains on the first bar of a
trade with a profit of 0; they differ in nothing else, and turnover charges for each
side (the trade cut by the last bar is charged for one side in the curve and for
two in the list: the property says so).
`HoldsAtMostMaxHold`, `WalkForwardIsHonest`: as their names say, with the windows
partitioning all bars. `JobsEnd`: a job ends unless the API restarts or cannot
write the error (`lost`), in which case the row stays as it is; weak fairness of
the task's steps. Deadlock is not checked: one job over a bounded number of
candles really comes to its end. Of the two scores but `NoValue`, 0 counts as
missing: which candidate is best among several is left to the proof.

### Proofs

`BacktestProofs` proves the five safety properties, for any series of readings of any
length, thresholds, periods, grid and number of windows.

The passes over the bars are recursive functions. `PassExists` shows that such a
function exists for any rule that stays within a set of states, and `HoldsUpTo` that
what holds at first and is kept by every bar holds up to the last; both look at
the first bar that does otherwise (`HasLeast`).

* `NoLookAhead`: a decision after bar i is the same for all series that agree up to i
  (`DecideSame`), so another bar leaves the pass as it was (`TargetsSame`), and what is
  held on a bar was wanted after the one before (`HeldIs`).
* `TradesTrailCurve`: `TradesRight` is what the pass keeps: ended trades are in order
  and on the side that was held (`ClosedRight`), the open one goes back to where the
  position was taken (`OpenRight`), and no bar with a position is left out
  (`AllTraded`), from which `TradesTrail` has that a trade earns the bars it is held
  on, moved by one. What trades cost is counted along with it (`TradesCost`).
* `HoldsAtMostMaxHold`: a position that the RSI strategy still wants has been wanted
  for as many bars as it has counted, and one more (`RsiCounts`), so no more than
  `MaxHold` in a row (`RsiRuns`), and a trade is such a run, moved by one bar.
* `WalkForwardIsHonest`: windows are in order (`WindowsInOrder`), the two parts of one
  are neither empty nor overlapping (`PartsOfWindow`), and the last window takes the
  bars that remain (`WindowsDivideBars`). This needs two bars per window, and that 0.7
  falls short only for multiples of ten (`LengthsAssumption`); the code
  asks for ten. That the chosen candidate is the best is `BestIsBest`.

The invariant is small, since the algorithms run within a step: `IInv` adds to the
types that only a task that is about to finish has chosen parameters, and that they
are the best of its scores (`Chosen`). `JobsEnd` is liveness and stays with TLC.

## 11. Variants

The specifications use none of these operators. Each is the definition that
comes after it with a plausible mistake in it, and `PROJECT.json` ("mutants") pairs
it with the property that finds it out.

* `OrderBook`, `BookMaintainer`: `LeavesGapAfterTwo`, `MergeKeepingZeros`, `IsStaleByOne`,
  `ResetKeepingCursor`, `NotingEveryMessage`, `FinishStillSyncing`, `BufferAndPublish`
* `PaperTrading`: `TargetUncapped`, `RolloverUnhalts`, `RolloverAhead`, `FillAsOrdered`,
  `IsRunningAny`, `WriteWholeRow`
* `RestClient`: `AcquireUnchecked`, `HeaderIgnored`, `RetriesForEver`, `TryAgainAlways`
* `AlertEngine`: `CoolsUntil`, `PersistUnlessFired`, `ListsDisabled`, `NeverCools`
* `LiveFeed`: `EndsButRelays`, `KeepsHubSubscribed`, `ReplacesOpen`, `NeverReconnects`
* `CandleStore`: `IsNotBehind`, `FindGapsInside`, `FindGapsBehindLatest`, `LastOpen`,
  `NextFetchSkipping`, `WindowTooLong`
* `AnalyticsCache`: `OldestLast`, `NoTime`
* `Backtest`, `BacktestJobs`: `HeldAtOnce`, `ReopenedOnlyFlat`, `HeldTooLongLate`,
  `SplitShort`, `NeverUnchosen`, `SwallowsError`

## 12. What is only model-checked, and what is not covered

* Liveness is checked by TLC only, being out of the prover's reach: `ResyncEnds`,
  `CatchesUp`, `CallsReturn`, `FeedRestored`, `CandlesArrive`, `JobsEnd`.
* Safety that is checked by TLC only: `ServedMovesForward`.
* Recursion: the library's induction theorems cannot be instantiated by the
  installed provers. Where a theorem needed one (`FindsGaps`, the greatest
  weight), the proof takes a least counterexample instead, which the
  well-foundedness of the naturals gives (`HasLeast`): the smallest table for
  which a scan goes wrong, the first bar at which a pass does. The modules that are
  proved about have recursive functions and no RECURSIVE operator.
* Floating-point rounding is not modelled: prices and quantities are whole
  numbers, and the flooring of a target stands for the exact quotient, which
  the guard allows just as well. The testnet executor formats an order's
  quantity to six decimals; that may exceed the guard by half a unit of the
  last place, which whole units hide.
* The published book holds the best `top_levels` of each side only. Levels that
  are left out are levels `BookFeed` allows to be unknown.
* Counters are bounded: `MaxUpdates`, `MaxRestarts`, `MaxCandles`, `MaxDays`, `MaxTime`,
  `MaxFailures`, `MaxFaults`, `MaxFrames`, `MaxStores`, `MaxFunding`, `MaxBars`,
  `MaxOutside`. The proofs
  hold for every value of those that occur in the modules they are about.
* Not modelled: the reported equity of a pairs instance, the autopilot's
  retraining (it changes signals, which are arbitrary in `PaperTrading`),
  statistics and metrics (floating-point arithmetic over series), the CVD window
  of the trade handler, the login throttle, settings, and the endpoints that
  only read. `PROJECT.json` gives the reason for each component.
