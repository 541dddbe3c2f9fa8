# Crypto trade engine: a TLA+ model

This directory models the trading engine of `crypto-trade-engine`: the process that takes
start/stop/update commands from a backend, runs one strategy task per bot against a crypto
exchange, and reports what it does on Redis. It is Python asyncio code: one thread, many
coroutines, so every interleaving happens at an `await`, and every `await` may fail or be
cancelled. That is the granularity of the models: **one action per stretch of code between two
awaits**, with the failure of the await as an action of its own.

## 1. The system

| part | source | state it keeps | operations |
|---|---|---|---|
| Command control plane | `infrastructure/command_listener.py`, `db_repositories.py` (`BotCommandRepository`), `db_models.py`, `application/events.py` | rows of `bot_commands` (`processed_at`), `bots.status`, dedup keys in Redis, pub/sub buffer, the stop flag | poll the pending rows, receive a message, claim (SET NX EX), dispatch, mark processed, stop |
| Orchestrator | `application/orchestrator.py` | `_running` (bot -> task, adapter, strategy), the lock | `start_strategy`, `stop_strategy`, `update_strategy`, `shutdown`, `iter_running` |
| Runner | `application/strategy_runner.py`, `domain/position_manager.py`, `application/order_executor.py`, `application/risk_manager.py` | the list of tracked positions, the strategy's own state | per candle: check exits, ask the strategy, check risk, create the order, publish, track |
| Exchange adapter | `infrastructure/ccxt_exchange_adapter.py` | the ccxt connection | orders, balances, positions, history, close |
| Market data | `infrastructure/ccxt_market_data.py` | last timestamp, backoff | an endless stream of candles |
| Historical data | `infrastructure/ccxt_historical.py`, `csv_market_data.py`, `backtest_main.py` (`_ensure_market_data`) | one file of candles per market | is the period covered, download page by page, merge, read |
| State manager | `infrastructure/state_manager.py` | cached balance adapters, stop flag, snapshot keys | heartbeat loop, balance loop, snapshot loop |
| Simulated exchange, backtest | `infrastructure/simulated_exchange.py`, `application/backtest_runner.py` | balances, open orders, fills, trades, equity curve | create order, fill on candle, run |
| Strategies | `strategies/*.py` | indicator windows, in-position flag, pending grid orders | `on_candle` |
| Engine process | `engine_main.py` | the tasks, the stop event | start, SIGTERM, shutdown |
| Model training | `ml/train.py`, `ml/features.py` | one model file per month | label, pair, split by month, train, load the nearest |
| Event buses, metrics, health check, settings | see `PROJECT.json` | little or none | I/O |

How they interact. The backend inserts a row *and* publishes the command; the listener takes it from
either source, claims it and **calls** the orchestrator. The orchestrator **creates a task** per bot
and, when it stops the bot, **cancels** and awaits it. The runner **calls** position manager, strategy,
risk manager and executor in turn, and the executor calls the exchange and then **publishes** the
trade. The state manager and the metrics server **read** `_running` through `iter_running`.

A backtest is a process of its own: it **reads or downloads** a file of candles that later backtests find
again, and drives strategy, risk manager, executor and a simulated exchange by **plain calls**, one candle after the other.
Training is another: it reads such a file and leaves models that the strategy `MlRsi` **loads** when it starts.

What is hard, and what has to hold:

* *control plane*: two sources of the same command, at-least-once rows, a claim that outlives the
  process that took it. A command must not be dispatched again while its key lives, must be retired only when it was handled,
  never forgotten, and a bot must end as its last command says.
* *orchestrator*: concurrent calls, starts that fail half-way, tasks that end by themselves. One runner
  per bot, reachable by a stop, and an adapter that is open exactly while somebody trades through it.
* *runner*: an order, its event and the position it opens are three steps, any of which may fail. A
  position must be exited at most once and watched until then, and the trade history must not have holes.
* *account*: the bots of a credential share one account, and each checks the balance in one await and orders in another. What passes the
  check must be payable and within the cap unless something else happened to the account, and an exit must sell what was bought.
* *state manager*: three loops that share a fate, each awaiting services that fail. A failing service must not
  end the loops, cached connections must not leak, a running bot must stay visible and a stopped one must vanish.
* *market data*: updates, gaps and repetitions around reconnections. No candle twice, none out of order, none lost without a reason.
* *historical data*: a cache that only knows its first and last candle, filled by pages, shared by successive processes that may be killed.
* *backtest*: orders that rest while money is not reserved. Money and orders must be accounted for, and a result must be that of its trades.
* *strategies*: queues and flags that run ahead of what was executed; a calibration that must replay what is traded.
* *training*: three lists cut to fit by offsets; nothing of the future may leak into a model.

## 2. Modules

| module | models | uses |
|---|---|---|
| `CommandDelivery` | abstract: a command is attempted, again only a life of its key later; each attempt delivers it once or is lost; retired only after one | |
| `CommandListener` | the listener task with Redis, Postgres, the backend, the clock and the process around it | implements `CommandDelivery` |
| `CommandListenerProofs` | type correctness, once per life of the key, the refinement, retired means handled, the latest command wins | TLAPS |
| `Orchestrator` | `EngineOrchestrator`, its lock, runner tasks and adapters | |
| `OrchestratorProofs` | every safety property of `Orchestrator` | TLAPS |
| `StrategyRunner` | one runner with position manager, risk check, executor and event bus | |
| `StrategyRunnerProofs` | every safety property of `StrategyRunner` | TLAPS |
| `StateManager` | the three loops, the TaskGroup around them, credentials, bots and the process | |
| `StateManagerProofs` | every safety property of `StateManager` | TLAPS |
| `Strategies` | `on_candle` of every strategy as an operator | |
| `Backtest` | runner, risk check and simulated exchange over any file of candles | extends `Strategies` |
| `BacktestProofs` | balances, the ledger, orders, aborts, pnl, the grid's queue | TLAPS |
| `Account` | several runners on one exchange account: balances, reservations, fills, late requests, restarts | |
| `AccountProofs` | the type invariant, what may spoil an approval, and that a position is sold once | TLAPS |
| `CandleFeed` | abstract: candles of ever later times | |
| `LiveCandles` | the live stream of one bot | implements `CandleFeed` |
| `LiveCandlesProofs` | the refinement, and what may be lost | TLAPS |
| `Ordering` | sorting by rank, which proofs can look into | |
| `CandleCache` | the file of historical candles over several backtests | extends `Ordering` |
| `AdaptiveRsi` | the calibrating strategy | |
| `WalkForward` | training and loading of models | extends `Ordering` |
| `HistoryProofs` | every safety property of `CandleCache`, `AdaptiveRsi` and `WalkForward` | TLAPS |
| `MCCandles` | the five programs that consume candles and the bots of an account, one per behaviour | extends all of them |
| `MCCommandListener`, `MCOrchestrator`, `MCStrategyRunner` | instances for TLC | |

Names follow the source: `Claim` is `_claim`, `Candle` is the arrival of a candle with
`PositionManager.check_exits`, and so on. `PROJECT.json` maps every definition to its lines. Each
module also holds some definitions marked *Seeded fault*: they are not part of the model. Each is the
mutated form of the definition after it, and putting it in that definition's place must violate the property
named in `PROJECT.json`, which shows that the property depends on that piece of code.

### CommandListener

State and code: `processed` is the set of rows with `processed_at`, `keys[c]` the expiry of the dedup
key of command c, `channel` the messages redis-py buffers for the subscription, `batch` the rest of the
`for` loop in `_process_pending_commands`, `cur`/`src` the command in hand and where it came from,
`pc` the await the task is at. `status` reduces `bots.status` to up (starting, running) and down
(stopping, stopped), the two groups the query of `list_pending` distinguishes. The orchestrator is the set
`running`; `HandleStart`, `HandleStop` and `HandleUpdate` over-approximate what its operations leave
(`Orchestrator` has the detail). `dispatched`, `via` and `applied` are ghosts.

The backend is not in the repository. It is modelled from how the engine uses it: it inserts the row
and sets the status in one transaction, publishes the command later, perhaps more than once, and perhaps
while nobody listens. Stray messages name no command; a message that names one but carries no usable
`bot_id` would be marked without being handled (`command_listener.py:112`), which the backend does not send.
A stray message that is JSON but not an object (`Poison`: a list, a number, null) is worse: `payload.get` raises `AttributeError` out of `run()` (`ReceiveRaises`), and the listener is
gone until the process is restarted.

`claims` counts, as a ghost, how often the key of a command was set. The dedup key lives `DedupTtl`; a copy of the command may travel longer, and with the default settings it does (86400 s both for
the key and for `max_age_sec`, and a listed or buffered copy is older still when it is claimed). So a command is not dispatched *at most once*. `OncePerKeyLife` says what the code does give, for any settings:
n + 1 dispatches take n lives of the key, and all within the time a copy may travel. A key that outlives the copies gives one dispatch, the defaults two at most, a day apart, and the smallest TTL the settings
admit, 60 s, many: for a row whose marking keeps failing, one a minute for a day.

`Linger` bounds how long after `MaxAge` a copy of a command may still be on its way: `list_pending`
filters by age when it lists, not when the batch is worked off, and pub/sub does not filter at all.

### Orchestrator

A call is a set of bots to stop and then a set of bots to start; `pc` is the await a caller is at while it
holds the lock. Adapter and task made by call number i have number i, so the model can tell a bot's
old runner from its new one. `Load` ends in warm-up or, because the constructor of the strategy may
raise, in failure with the adapter open: the leak is in the code. `engine_main` awaits the listener
before `shutdown`, which is the guard of `Shutdown`.

### StrategyRunner

The task begins with the strategy's `on_start`, and an exception of it ends the runner before its first candle (`OnStartRaises`), as nothing around it catches one.
The candle, the exit signals it triggers and the strategy's signal are chosen freely. Prices are levels,
`stop_loss_pct` and `take_profit_pct` are distances in levels (0 is None), each order has size 1. A position opens at whatever level the
exchange reports for its order.
`Approve`/`Reject` leave the verdict of `RiskManager` open. `tracked` is the list `_positions` as a set:
its order is the order of the positions' numbers. `acked`, `announced` and `placed` separate what
the executor knows, what the event bus has seen and what the exchange has. With INFO logging on, no position
outlives `open()`, so the same mistake in `check_exits` and `close` is never reached and not modelled.

None of the strategies in the repository accepts `stop_loss_pct` as a parameter, so exits happen only
for strategies that do or that put it into the metadata of a signal, as the tests of the position manager do.

### Account

Every bot has a runner, reduced to what it does to the account: a candle gives up some positions, their exits are tried one after the other, then the strategy may give
a signal; each signal is checked (`Approve`, `Reject`), ordered and, if it is a BUY, tracked. A position is the number of its order. `Funded` is both the condition of `RiskManager.check` and
that of the exchange: the same formula, evaluated at two times on balances that other bots change in between. `QuoteTotal` is free plus used,
as `_to_balances` computes it. `Restart` is a stop and a start of the bot at any await: the task is gone, its request may still arrive (`late`), and the new `PositionManager` is
empty, because `get_positions` knows no spot positions. `asOf` is a ghost: how many orders and which fills there were at the check.

The exchange is not in the repository. It is modelled from how the adapter uses it: a LIMIT order is accepted if what it needs is free, which is then reserved; it is filled later or
never, whole and at its price; a request without an answer may arrive later, one at a time. Fees, partial fills, cancellations, deposits and withdrawals by the user are left out, and prices and sizes are
multiples of the market's steps, so `price_to_precision` and `amount_to_precision` change nothing. All bots trade one symbol. INFO logging is off (finding 3). Failing balance calls and
publishes are in `StrategyRunner`, which has the verdict of the risk check open and its failures in full; `Account` has it the other way round.

### StateManager

`pc` is the await the balance loop is at; `todo` and `running` are what is left of the lists the pass took before
its awaits, and stay as they were while rows and bots change. `live` counts the adapters built and not closed,
as a ghost: the code knows only `cached`, which is `_balance_adapters`. `killer` names the
unguarded publish whose exception left the loop. `CancelSiblings` is the TaskGroup. A guarded call that fails does nothing the
model sees, so heartbeat and positions have no failure action; a poll that fails does (`Report`). Time is counted
for the snapshot keys only. The SETs of one snapshot pass are taken to be short beside its period.

### LiveCandles

A candle is its time. `Watch` answers with any ascending set of candles up to the current one: repeated updates, gaps and
old candles after a reconnection. `RowFails` is a row that `_to_candle` rejects; `last_ts_ms` has moved by then. `excused` collects, as
a ghost, the candles behind such a row and those that first came after a newer one had gone out.

### CandleCache

A line of the file is a time and whether the rest of it makes a candle. `Covered` looks at the first and last time only, as the code does,
so a file with a hole between two downloads covers a period it does not have: `ServedAsAsked` says how far that goes. `Merged` and `Provided` sort with `Ordering`.
A period has both dates, one or none (`NoDate`): without both, any file covers it and no download is possible. The exchange is taken to honour `since`, so `last_ts < since` is never the case.

A parquet file is written as a whole; a crash may damage it, and the next download begins it anew. The CSV file, the fallback without pandas, is appended to through a block buffer, and
`WrittenInPart` is what a killed save may leave of it. `next` says what becomes of the line appended then:

* an empty file (`next = "header"`): the next save finds it, opens it with mode `a` and writes no header (`ccxt_historical.py:128-132`). Every reader skips the first line, which is a candle.
  That candle is lost, `file_min` is past the start of the period, and the period just downloaded does not count as covered: it is downloaded again with every backtest.
* a header and some of the lines: a good file, which the next download completes.
* and part of a line (`next = "joined"`, `Begun`): its time cut short, its time and not all fields, or all but the line end. The next row is appended to it (`Joined`). Both candles are lost, and what the joined line says
  is read as a time all the same: a time cut short is a date in 1970 (`Torn`), two joined ones are past every date (`Beyond`, or too long for a date), so that `file_min` or `file_max` make periods count as covered that are not.
  A backtest whose period such a line falls in fails when it comes to it (`Usable`); others do not see it.

So what a backtest misses of the candles downloads asked for is bounded by two for each killed save of the CSV file. `kills` counts them as a ghost. `DownloadedIsCovered` is stated without killed saves, because the first case
breaks it.

`asking` is what a download asks for: from the start up to, and without, the end, the condition of the loop being `since < until_ms` (`ccxt_historical.py:58`). The candle at the end comes only if a page that begins before
the end reaches it; on a page boundary it is missed, although the docstring (`:42`) promises `[since_ms, until_ms]` and the reader filters inclusively (`csv_market_data.py:95`). No later backtest of the period asks for it, as
`Covered` grants one step at the end.

### Strategies and Backtest

`Strategies` gives each strategy's step as an operator of its state, the close and a *reading*: what the comparisons of its
indicator may come to. The model chooses the reading, so it covers every indicator. The grid and DCA need none and are exact, for
whole prices and sizes. `Backtest` makes one step per stage of the loop: `TakeCandle`, one `Match` per open order, `Signal` with the risk
check and the order, `Snapshot`. The trade is recorded with the order, because the event is published when the order is placed. Money is counted in units of 1/`FeeDen`, so
that fees are whole. An exception of a fill leaves `run()`: `MatchRaises`.
`Summary` (drawdown and wins) belongs to the step `Finish`; no property speaks of it.

### AdaptiveRsi

Averages are pairs of integers over a common scale and the RSI is compared without division, so the model is exact where the code rounds to 28 digits.
The three loops (`BestParams` searches, `Replayed` replays, `Trade` trades) are separate definitions, as in the code, because whether they agree is the question. The
pseudo-Sharpe is compared as a signed square. A tie is drawn at random: `OnStart` takes any of the best. When every
combination is skipped there is none, and `random.choice` raises out of `on_start` (`OnStartRaises`, `adaptive_rsi.py:99`), which ends the runner.

### WalkForward

A candle is its place in the file and its month, a label the pair of candles it compares, a model the set of its samples. Whether a model has seen
the future is then a question of places and months.

### MCCandles

Feed, cache, backtest, calibration, training and the account share no variable. A behaviour of `MCCandles` is of one of them, chosen at the start,
while the variables of the others keep their initial values; so each property is checked on everything its module can do.

## 3. Runs

| run | checks | result |
|---|---|---|
| `listener_faults` | `OncePerKeyLife`, `DeliveryRefined` with every fault on | pass, 4.5 M states |
| `listener_graceful` | `TypeOK`, `ProcessedWasHandled`, `ConvergesWhenPolled` without crashes and with a Redis that answers | pass, 8.6 M states |
| `listener_live` | `EventuallyHandled` under fairness | pass, 0.26 M states |
| `listener_lost` | `ProcessedWasHandled` with a crash | violated, finding 1 |
| `orchestrator_calls` | `TypeOK`, `EveryRunnerOwned`, `OpenWhileTrading`, `LaunchedAdaptersOwned`, `ShutdownIsComplete`, `StopIsComplete`, `CallsReturn` | pass, 0.24 M states |
| `orchestrator_zombie` | `ReportedIsAlive` | violated, finding 2 |
| `runner` | `TypeOK`, `OneExitPerPosition`, `WatchedOrExited`, `HistoryHasNoHole`, `ExitsTried` | pass, 0.71 M states |
| `runner_dies` | `LoopKeepsRunning` with default logging | violated, finding 3 |
| `runner_exit_dropped` | `OpenIsTracked` | violated, finding 4 |
| `state_manager` | `TypeOK`, `NoAdapterLeaks`, `OnlyReportsKill`, `SnapshotSurvives`, `StopEndsEngine`, `StaleKeysExpire` | pass, 0.29 M states |
| `candles` | of `LiveCandles`: `FeedSpec`, `LostOnlyByFailure`; of `CandleCache`: `ServedAsAsked`, `DownloadedIsCovered`; of `Backtest`: `BacktestTypeOK`, `FundsAccounted`, `OrdersAccounted`, `AbortNeedsOverlap`, `PnlOfAdjacentPair`, `GridTracksPrice`; of `AdaptiveRsi`: `CalibrationReplaysLive`, `CalibratedToTheBest`; of `WalkForward`: `TrainedOnThePast`; of `Account`: `ApprovalsHold`, `SoldOnce` | pass, 1.9 M states |
| `training_labels` | `LabelOfItsCandle` | violated, finding 5 |

Findings.

1. *A command may be retired unhandled.* The dedup key is set before the handler is called. A crash between the two
   makes the restarted engine skip the command as a duplicate and mark its row.
2. *A dead runner counts as live.* A runner that ended by itself stays in `_running`: it is counted by the gauge,
   and starting its bot again is ignored until it is stopped.
3. *The first executed BUY ends the runner.* `PositionManager.open` passes structlog-style keywords to a stdlib
   logger; at the default level INFO that raises TypeError out of the runner. Together with 2, the bot then looks alive.
4. *A failed stop-loss is not tried again.* The position is dropped from the list before its exit is executed.
5. *A model is trained on labels of earlier candles.* `offset` in `train_walk_forward` is `horizon` too small: the features of candle t are
   paired with the label of candle t - `horizon`, which compares the closes of t - `horizon` and t. With the default horizon 1 the model learns the move that
   has just ended. `TrainedOnThePast` holds because of it: labels of their own candles would reach `horizon` candles
   into the test month at the end of every training window.

### Bounds

Every bound is a constant and a guard of an action.

* `listener_faults`: two commands of one bot suffice for duplication, reordering and for a lost claim, as
  commands interact only through the bot; one publication each next to the poll gives two copies; the clock reaches 2, `MaxAge` is 0, `Linger` 1 and the TTL 1, so that
  rows go stale and a key expires while a copy of its command is still on its way: the second dispatch does occur. `BatchSize` 1 makes the limit bite. One stray message, which ends the task.
* `listener_graceful`: three commands, so a start, its reversal and the reversal of that, with the clock at 0, because nothing
  it checks depends on age.
* `listener_live`: two commands; `MaxAge` 0 and two ticks make a row go stale during the run.
* `orchestrator_calls`: two callers give every pairwise race; four calls give start, update, stop and shutdown in one run; two bots because
  `shutdown` works through several. The lock is global, so a third caller only waits.
* `runner`: four candles and four orders allow two positions, their two exits and an order between them; three price levels allow
  above, at and below an entry. The arbitrary initial candle is never read and fixed in `MCStrategyRunner`, as are the
  unread initial `bot` and `botOf` in `MCOrchestrator`.
* `state_manager`: two credentials, so that one comes, goes or fails while the pass is busy with the other; one bot, because the loops treat bots one by one and alike;
  a key that lives three periods, so one or two failed SETs do no harm and three do.
* `candles`, feed: four candles, so a gap, a rejected row and an old candle fit into one behaviour; backoff up to 3, to reach its cap.
* `candles`, cache: frames of two ticks and dates on and off them or missing, pages of two, three backtests (two that leave a hole and one that meets it; or a killed save, one that appends to what
  it left and one that reads it), a clock of 8 ticks, so that the market begins within a period and pages end on and off it. `Beyond` is the first time past every date.
* `candles`, backtest: every file of five candles over three prices, which is room for two buys, a sale and fills in between; sizes 2, a fee of 1/4 and a cap of 4/5, the largest
  `RatesAssumption` admits, so that an overlap is enough to abort; three grid levels; a curve point every second candle.
* `candles`, calibration: a minimal warm-up of 1 (the code's is 50; the constants are parameters) and periods of 2 and 3, so that warm-ups are too short to start, too short for every combination (`OnStartRaises`),
  for one of them, or for none; ranges that cross so that one combination is skipped, and five candles traded.
* `candles`, training: every file of up to seven candles in four months, in any order, a warm-up of 2, so that several windows are trained and some are too small.

* `candles`, account: two bots, because a race needs two and what a third does to an approval a second does as well (the proofs are for any number); bots are symmetric. Three orders
  in all, room for a position, its exit and an order that spoils one of them. A base of 1 and a quote of 2 against a price of 1 and a cap of 3/4: at first one order is within the cap, a second
  is payable as well, and after a fill the same order is above the cap.

Deadlock is not checked: with the bounded inputs used up, or the process stopped or the runner ended, the system rests.

### Fairness

* listener: weak fairness of the task, because the event loop runs a ready task and awaits return; strong fairness of the poll
  coming due (its interval passes while the loop goes round) and of the calls that may raise, which are retried with every poll. The
  supervisor that restarts the process is part of the task's fairness. No fairness of the backend, of crashes or of the clock.
* orchestrator: weak fairness of the steps under the lock and of a cancelled task ending (nothing in the runner
  swallows CancelledError); strong fairness of entering, because `asyncio.Lock` wakes its waiters in order.
* runner: weak fairness of everything but new candles and cancellation.
* state manager: weak fairness of the balance loop, the snapshot loop, the end of the heartbeat loop, of time, of the TaskGroup's cancellation and of the engine's shutdown:
  awaits return or raise, and a sleep ends with its timeout or with the stop event. No fairness of bots, credentials or the signal.
  `Shutdown` stands for the engine's gather over listener and state manager; the listener's part is `EventuallyHandled`'s module.
* The modules of `candles` state no liveness and no fairness: whether an order is filled is the market's affair.

`EventuallyHandled` is stated for a Redis that answers and without messages that are JSON but no object: an exception of `get_message` or of such a message ends the listener task and
nothing restarts it before the process is stopped (`command_listener.py:83`).
`ConvergesWhenPolled` is limited to bots whose commands all came by the poll and were claimed once: a key that expires early lets an old command be handled after a newer one, and a message buffered in pub/sub may be handled after
a newer command was taken from the database, and the code does not order the two.

## 4. Proofs

TLAPS checks the following for every value of the constants that meets the named assumptions of the modules: any number of bots,
callers, commands, candles and orders, and any bounds. Each theorem is an inductive invariant, proved with one step per action, and a
short argument from the invariant to the property.

| theorem | property | assumption |
|---|---|---|
| `CommandListenerProofs!TypeCorrect` | `TypeOK` | |
| `CommandListenerProofs!RepeatsAreKeyLivesApart` | `OncePerKeyLife` | |
| `CommandListenerProofs!ImplementsDelivery` | `DeliveryRefined` | |
| `CommandListenerProofs!RetiredWasHandled` | `ProcessedWasHandled` | no crash, Redis answers |
| `CommandListenerProofs!PolledBotsConverge` | `ConvergesWhenPolled` | Redis answers |
| `OrchestratorProofs!TypeCorrect` | `TypeOK` with `OneHolder` | |
| `OrchestratorProofs!RunnersAreOwned` | `EveryRunnerOwned` | |
| `OrchestratorProofs!AdaptersOutliveRunners` | `OpenWhileTrading` | |
| `OrchestratorProofs!AdaptersAreOwned` | `LaunchedAdaptersOwned` | |
| `OrchestratorProofs!NothingIsLeft` | `ShutdownIsComplete` | |
| `OrchestratorProofs!StopsAreComplete` | `StopIsComplete` | |
| `StrategyRunnerProofs!RunnerTypeCorrect` | `TypeOK` | |
| `StrategyRunnerProofs!HistoryIsWhole` | `HistoryHasNoHole` | |
| `StrategyRunnerProofs!ExitsAreUnique` | `OneExitPerPosition` | |
| `StrategyRunnerProofs!BuysAreWatched` | `WatchedOrExited` | |
| `StateManagerProofs!TypeCorrect` | `TypeOK` | `Period`, `Ttl` positive |
| `StateManagerProofs!AdaptersDoNotLeak` | `NoAdapterLeaks` | |
| `StateManagerProofs!OnlyReportsEndTheTask` | `OnlyReportsKill` | |
| `StateManagerProofs!SnapshotsSurvive` | `SnapshotSurvives` | `Period`, `Ttl` positive |
| `BacktestProofs!BalancesNeverNegative` | `BacktestTypeOK` | fee a share of the notional; cap and fee together at most 1 |
| `BacktestProofs!OnlyOverlapAborts` | `AbortNeedsOverlap` | the same |
| `BacktestProofs!NoOrderLost` | `OrdersAccounted` | |
| `BacktestProofs!ResultsAreOfPairs` | `PnlOfAdjacentPair` | |
| `BacktestProofs!FundsComeFromFills` | `FundsAccounted` | |
| `BacktestProofs!GridForgetsNoCell` | `GridTracksPrice` | at least one level, a positive step |
| `LiveCandlesProofs!LiveImplementsFeed` | `FeedSpec` | |
| `LiveCandlesProofs!NothingIsLostUnexcused` | `LostOnlyByFailure` | |
| `AccountProofs!TypeCorrect` | `AccountTypeOK`, in no run | |
| `AccountProofs!ApprovalsAreKept` | `ApprovalsHold` | |
| `AccountProofs!PositionsSoldOnce` | `SoldOnce` | |
| `HistoryProofs!NothingOfTheFuture` | `TrainedOnThePast` | |
| `HistoryProofs!BacktestsGetTheirCandles` | `ServedAsAsked` | |
| `HistoryProofs!DownloadedOnce` | `DownloadedIsCovered` | |
| `HistoryProofs!ReplayIsLive` | `CalibrationReplaysLive` | positive periods, whole thresholds |
| `HistoryProofs!BestIsChosen` | `CalibratedToTheBest` | the same |

* *Listener.* `OncePerKeyLife` is not inductive: a further copy may be in flight. `KeyInv` says that a command claimed n times has a key that expires no earlier than n lives after its creation, and that n - 1 of them have
  passed and fit into the time its copies travel, because who claims it finds its key expired; `FlightInv` that a copy in flight is no older than that. `DeliveryInv` joins the two with the types. `LivesAddUp` is the arithmetic.
  The refinement maps attempts to claims, but for one whose handler is about to be called (`Spent`): a raised or killed claim is an attempt that is lost. `HandledInv` carries `RetiredWasHandled`: a key means dispatched, or
  dispatched next.
  `ConvergesWhenPolled` speaks of the end only. `OrderInv` says why the latest command of a bot is the last to be handled: once it is at hand or done, each older one has been claimed or is too old to be
  listed. It holds because `list_pending` gives the older row first, also when its limit cuts the list (`ListedInOrder`). No key need outlive a row: the property speaks of bots whose commands were claimed once.
* *Orchestrator.* `OwnInv` says what each location under the lock knows: `HandInv` of the caller (the bot it stops is already off `_running`, the
  adapter it made is its call's), `IdsInv` of the call numbers (nothing was made with one before its `Load`), `TableInv` of `_running`,
  `ClosingInv` of a shutdown under way (what still runs is on somebody's list to stop). `EveryRunnerOwned` alone is not inductive: `Launch` keeps it
  only because `_running` has no entry for the bot, which is what the lock gives.
* *Runner.* `QueueInv` says a position is at one place at a time on its way from the list over the queue of exits and the signal in hand to an exit
  order; `CurInv` ties the signal in hand to the order it became; `WatchInv` says that nothing else takes a position off the list.
* *State manager.* Leaks: an adapter is built only for a credential that is not cached and closed only when it leaves the cache, so `live` and `cached` agree; at the end `stale`
  is all of `cached`, which `CloseOne` empties. Snapshots: `SnapshotSurvives` is not inductive, because it says nothing of a key between two SETs; `BudgetInv`
  says that the ticks a key has left, `Period` for each failed SET, and the ticks since the last pass add up to at least `Ttl`.
* *Backtest.* `SplitInv` adds to `OrdersAccounted` that no order is both queued and kept in a pass. `CoverInv` is the heart of `OnlyOverlapAborts`: an order that rests and
  was approved after the last fill is affordable, which a fill destroys for the others, and which the cap gives when the order is placed. `CostInv`
  ties `_last_buy_cost` to the last recorded trade. `FundsInv` carries the ledger through the run, one fill at a time: that there are balances after each fill, and that whatever they are the last are
  those held. `GridInv` adds to `GridTracksPrice` the types of the grid's state; the step counts a queue that gets a run of one side at its end and gives up its head (`CountAppended`, `CountTail`).
* *Live candles.* The refinement maps `newest` to the last candle delivered; the invariant says that it never exceeds `last_ts_ms`, which a rejected row moves alone. `SettledInv` says that each candle seen up to `last_ts_ms`
  was delivered or is excused, `RowsInv` that what is left of a batch ascends.
* *Account.* `ApprovalsHold` is `RefusedOnlyByRace` and `CapBrokenOnlyByFill`. The first speaks of the funds now and the orders at the check; `RaceInv` makes it inductive: while no order was accepted since, what the order needs is free, because fills,
  lost requests and restarts never lower a free balance. `CapInv` is its like for the cap: acceptance moves quote from free to used and leaves the total, only a fill changes it. `MineInv` says that the order a runner is about to track is the one
  it has placed, which `AccountTypeOK` needs for the positions. `SoldOnce` says nothing of an exit that has not reached the exchange; `SoldInv` adds that a position of a bot is at one place at a time: on its list, in
  the queue of exits, in the signal in hand, in a request nobody waits for, or sold.

* *Sorting and folding* (`HistoryProofs`). The library's induction over the natural numbers takes an operator as its parameter and cannot be cited; `NaturalInduction` states it of a set, and
  follows from the well-foundedness of `<`. On it rest `RanksAreOrder` and `InOrderFacts` (what `Ordering` gives is a line of all members, ascending, each once) and `Recursion`, `SameSoFar` and
  `AllTheWay` (a recursive function exists, and two that take the same turns are the same). So the modules proved about sort with `Ordering` and loop with recursive functions.
* *Training.* `PreparedInv` keeps the samples and the runs of months as they were cut; `SplitFacts` says that a run has one month and that in a file in order the runs ascend, so `TrainedBefore`: all samples
  of the months trained on are of candles before the month tested, with both ends of their labels.
* *Cache.* `FileSound` says that a row's time is in the file once, whatever spoilt lines there are, and what may become of the next line; `FileInv`, that of all that was asked of the downloads merged into a good file
  so many candles are missing that with those the next save will spoil (`Debt`) there are at most two per killed save; `FetchInv`, that the download under way has all it asks for below `since`. `PageFacts` (a page is a gapless
  piece of the exchange's candles), `MergedFacts` (a merge forgets no time and doubles none), `AppendedFacts` (an append keeps every time but those of its `Debt`) and `WrittenInPartKeeps` (a killed save) carry them.
  A damaged file is damaged parquet.
* *Calibration.* `AdaptiveInv` says that the state of `on_candle` is that of a replay of all closes traded (`Replayed(traded, params) = LiveReplay`), and that `_rsi_closes` is the end of those closes (`IsTail`);
  that one close more is one turn more (`ReplayedMore`) makes it inductive. For the best, `SpreadOfSums` shows that the variance of the trades is not negative and `NoBetter` that `Better` is a strict weak order, infinite scores included: then
  `BestFacts` can say that what the loop keeps is beaten by none it has tried.

Only model-checked: liveness (`EventuallyHandled`, `CallsReturn`, `ExitsTried`, `StopEndsEngine`, `StaleKeysExpire`), because liveness under fairness and ENABLED are out of the provers'
reach. Every other property of a passing run is proved.

## 5. Assumptions and limits

* No relation of the dedup TTL to the age of a row is assumed. That a copy of a command travels at most `MaxAge + Linger` is the definition of `Linger`, for which any value does.
* Redis keeps its keys over the engine's restarts, and commits of Postgres are durable.
* One engine process.
* Period and snapshot TTL are settings nothing relates; the defaults, 5 s and 30 s, leave room for four failed SETs in a row.
* Not modelled: formats and conversions (ccxt structures, JSON, Decimal rounding), the HTTP server, the arithmetic of
  indicators other than AdaptiveRsi's, return, Sharpe ratio and profit factor of a backtest, fitting and evaluation of models, partial fills and fees of live orders,
  logging except where finding 3 depends on it. `_poll_running_balances` and MARKET orders are never reached.
* Backtests run one after the other in `CandleCache`. Two at once on one market overwrite each other's merge, with nothing to prevent it.

What the models show beside the findings, where the code and its comments differ or a reader may expect otherwise:

* The docstring of the state manager (`state_manager.py:8-9`) says that a failed iteration never brings a loop down ("логируется, но не валит loop") and that an exception of one does not keep the others from being served ("остальные продолжают").
  Neither is so. A loop ends when the publish of `balance_poll_failed` fails as well (`:141`, `:250`), and then the TaskGroup ends all three until the engine is restarted; `OnlyReportsKill` is the exact form. And
  `list_decrypted` (`db_repositories.py:145`) decrypts all rows in one expression: one row that cannot be decrypted raises, and no credential at all is polled in that pass or in any other while the row is there (`ListCredentials`, `ListReport`).
  Only a failure after the listing stays with its credential (`Report`).
* `spot_grid.py:14-15` says that the runner catches the error of an order that cannot be paid and goes on. In a backtest a limit order is accepted unpaid and the error is raised by its *fill*, inside
  `on_candle` of the simulated exchange, where nothing catches it: it ends the run (`MatchRaises`). `AbortNeedsOverlap` says when that happens.
* In a backtest nothing feeds `AdaptiveRsi` before `on_start`, so it always trades with its defaults there: the phases of `adaptive_rsi.py:3-8` are not the same "in live and backtest".
* A backtest of `MlRsi` loads the model of the current month (`ml_rsi.py:147`), which was trained on data after the period tested.
* `_in_position` of a strategy is set with its signal, whether or not the order is approved or filled.
* A limit BUY becomes a position when it is accepted (`strategy_runner.py:77-90`), though it may never be filled: its stop may sell base that the account holds for another bot or for the user. `SoldOnce`
  says that it does so once.
* The cap of `max_position_pct` is a share of the quote total for sales and exits as well (`risk_manager.py:77-83`), and the purchase itself has lowered that total. With the engine's cap of 0.1, a
  position bought at the cap cannot be sold at its entry price, and by finding 4 the exit is not tried again.
* `reconcile` is given the positions that `get_positions` reports for the bot's symbol (`orchestrator.py:195-201`, `ccxt_exchange_adapter.py:211-215`); for a spot symbol there are none. A restarted bot watches
  nothing of what it bought before.
* The live stream passes on the first update of a candle and drops the later ones (`ccxt_market_data.py:52-55`); the docstring (`:23`) wants closed candles.
* The decorator that retries network errors has no effect on `create_order` (`ccxt_exchange_adapter.py:191`): they are turned into `OrderExecutionError` inside. So an order is not placed twice by a retry.

## 6. Plan

In order of importance; the first ten are in place.

1. `CommandDelivery`, `CommandListener`, their proofs.
2. `Orchestrator`, its proofs.
3. `StrategyRunner`, its proofs.
4. `StateManager`, its proofs.
5. `Strategies`, `Backtest`, its proofs.
6. `CandleFeed`, `LiveCandles`, its proofs.
7. `Ordering`, `CandleCache`.
8. `AdaptiveRsi`, `WalkForward`.
9. `Account`, its proofs.
10. Proofs about 7 and 8 (`HistoryProofs`), `ConvergesWhenPolled`, the ledger and the grid.
11. `Engine`: listener and orchestrator composed, in place of the set `running`.
