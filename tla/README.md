# A TLA+ model of QTR_AI2

QTR_AI2 is a trading bot for one symbol on Bybit. It reads completed candles,
looks for a break of market structure, places one resting limit entry with a
stop loss and a take profit, lets the entry live for a bounded number of
candles, and journals the trade that comes of it. The same engine also runs
over historical candles against a simulated broker.

This directory models the program's own logic, checks it with TLC on small
instances and proves the central parts for every value of the constants.
`PROJECT.json` holds the lines each definition stands for, the runs, the
mutants that show that each property can fail, the findings, the hazards and
the theorems.

## 1. The system

| Component | Source | State | Operations |
|---|---|---|---|
| Pending-entry values | `core/pending_entry.py`, `entry_order.py`, `pending_entry_event.py` | none | validated transitions |
| Live broker | `infrastructure/bybit/bybit_broker.py` | one slot, known orders, sent cancellations, last aged candle, event queue | submit, query, cancel, refresh, age, recover, drain |
| Pending-entry store | `bybit_pending_entry_store.py` | one file | load, save (atomic replace), clear |
| Bybit client and mappers | `bybit_client.py`, `*_mapper.py` | none | HTTP calls, error classes |
| Execution service | `core/execution.py` | setups submitted, orders recovered | submit, recover, refresh, age, drain |
| Trading engine | `engine/trading_engine.py` | none of its own | recover, poll, age, process, deliver events |
| Main loop | `main.py` | last candle done with, backoff, alert ages | recovery loop, trading loop |
| Position monitor, journal, statistics | `core/position_monitor.py`, `infrastructure/csv_trade_journal.py`, ... | last seen trade, baseline, CSV file, memory | update, add_trade, load |
| Market analysis | `core/*_engine.py`, `market_structure/`, `services/pivot_swing_detector.py` | `MarketStructureState` | analyze |
| Historical data | `backtesting/historical_data.py`, `bybit_historical_client.py`, `bybit_historical_mapper.py` | one cache file per request, shared by runs | download by pages, map, load, save |
| Preflight | `bybit_preflight.py` | none; reads file, positions, orders | one verdict |
| Simulated broker, backtest | `backtesting/` | entry, position, last trade, candle | update_market, submit, cancel, open, close; run |
| Collector, configuration, notifier | `bybit_collector.py`, `config/`, `telegram_notifier.py` | none that outlives a call | input, wiring, messages |

The main loop is one thread. Every iteration polls the engine (refresh the
pending entry, look at the position and the last closed trade, deliver the
queued events), collects the completed candles, ages the pending entry by them
and, on a new candle, analyses it and may submit an entry. An exception ends the
iteration; the next one starts over at the poll. What makes this hard is that
the exchange goes on by itself between any two calls, that a call can be carried
out and yet reported as failed, that a query can show the past, that the process
can die between a call and the file that should remember it, and that files can
refuse to be written. The preflight is a process of its own that reads what the
bot and the exchange change meanwhile, and two backtest runs may download and
cache the same range at once. The market analysis has a difficulty of its own: its state
outlives the sliding window that its indexes refer to.

What makes each component correct:

- **Broker**: never two active orders of the bot, none it does not know of and
  none beside a position it could have seen; the file, the memory and the events never claim what
  the exchange has not done; every end is reported; an expired or partly filled
  entry ends; nothing is told of an entry after its end; what it saves, it can load.
- **Preflight**: a bot that it calls ready is not refused by its recovery.
- **Historical data**: a history is exactly the candles that were over when it
  was asked for; the file is always one whole download.
- **Main loop and execution**: every candle is counted once and before it is
  processed, a setup is placed once, old candles are not traded on, the loop
  catches up, events are handed over, failures are survived and heard of.
- **Monitor and journal**: every trade journaled once, announced after it is
  durable, memory and statistics equal to the file.
- **Simulator and backtest**: an entry fills exactly when reached, no candle is
  read in the trade's favour, no trade is missing from the journal, nothing
  aborts the run.
- **Analysis**: nothing looks ahead and nothing is reclassified when the window
  slides, structures are broken in their order, every setup can be protected.

## 2. The modules

| Module | Models | Extends |
|---|---|---|
| `PendingEntry` | statuses, transition table, mapping of Bybit's statuses, stale snapshots | |
| `BybitPendingEntry` | the live broker, its file and the exchange | `PendingEntry` |
| `BybitPendingEntryProperties` | its properties and refinement mapping | `BybitPendingEntry` |
| `EntryLedger` | abstract specification: what the durable file promises | |
| `BybitPendingEntryProofs` | proofs: types, control, one active order, durable expiry | `...Properties` |
| `BybitPendingEntrySafety` | proofs: memory, file, events and exchange agree; the ledger | `...Proofs` |
| `Preflight` | the preflight beside the bot and the exchange | `...Properties` |
| `TradingRuntime` | main loop, engine and execution around the broker | `...Properties` |
| `TradingRuntimeProofs` | proofs about the programs around the broker, the loop and the preflight | `TradingRuntime`, `Preflight`, `...Safety` |
| `RuntimeFailures`, `RuntimeFailuresProofs` | backoff and alert throttling of the loop | |
| `PositionMonitor`, `PositionMonitorProofs` | monitor, CSV journal, statistics, restart | |
| `SimulatedBroker` | the backtest's broker | `PendingEntry` |
| `Backtest` | runner, engine, execution and monitor around it | `SimulatedBroker` |
| `BacktestProofs` | proofs about the simulated broker and the backtest | `Backtest` |
| `MarketAnalysis`, `MarketAnalysisProofs` | swings to setups | |
| `HistoricalData`, `HistoricalDataProofs` | paged downloads and their cache file | |
| `MC*` | instances for TLC: symmetry, requests, candle shapes | |

### BybitPendingEntry

A broker operation is split where the code talks to the exchange, and only
there: `pc` is the next step, `op` the operation. `submit_entry` is
`Submit`, `SubmitPosition`, `SubmitListing`, `SubmitPlace`, then `SubmitAck` or
`SubmitQuery`; `refresh`, `age`, `cancel` and `recover` share `Query` and
`Reconcile`, as they share `_query_entry_order` and `_reconcile_active_entry`.
Saving the file belongs to the step that saves it and may fail there
(`SaveResults`, `ClearResults`). The exchange's actions (`Accept`, `Reject`,
`Fill`, `BeginCancel`, `FinishCancel`, `CancelElsewhere`, `PositionMoves`,
`ForeignTrade`, `NewCandle`) are enabled whatever the broker
is doing; they are external and are modelled by what the code assumes of Bybit.
A query by id may show the past (fault "lag"); the listing of the active orders is
taken to be exact, although the same endpoint answers it
(`bybit_client.py:102-128`): that an order appears late is covered for the query
by id only, and one that is missing from a listing while it is active would escape
`AtMostOneActiveOrder`. A crash clears all
but the exchange and the file. Which faults may happen is the constant `Faults`,
so that a run says exactly what it tolerates.

`outcome` is "ok" or the class of the exception. The history variables
`reported`, `unconfirmed` and `opening` are read by properties only. `opening` is
"unseen" when the present position was opened where the process could not see it in
time: by anybody between the read at `bybit_broker.py:154` and the placing
(`InTheGap`), or by somebody else while an entry of the bot, which runs or has recovered it, was
active (`BesideAnEntry`).

`BybitPendingEntryProperties` also says what the constructor of an entry
(`FillFieldsValid`), the writer (`Encodable`) and the reader (`Loadable`) of its
record demand; the writer demands less than the reader, which is what
`RecordsLoad` is about.

Abstracted: prices and request contents (an order link id is a deterministic
function of the setup, so one element of `Ids` is the setup, its key and its
order), the response validation that only raises errors, log messages,
`open_position` and `close_position`, which the live loop never calls.

### Preflight

Three reads (`CheckStore`, `CheckPositions`, `CheckOrders`) of the state of
`BybitPendingEntry`, with every step of the bot and the exchange between them.
An active order is classified with the positions that were read before it, as
in `_classify_active_orders`. A verdict is followed until something that nobody
could foresee overtakes it (`Overtaken`): another foreign order, a position that
closes, or a bot that was started without waiting for it.

### TradingRuntime

`at` is the loop's next step; a step that calls the broker waits until `pc` is
"idle" again and looks at `outcome`. The exchange and the broker's own steps
interleave between. What the analysis finds is chosen freely at every
processing, because a candle processed again need not give the same setup
(`RetryFindsSetupAgain` below). Any exception takes the loop back to the poll; whether it is
temporary changes only the pause, and that is `RuntimeFailures`.

### PositionMonitor, RuntimeFailures

`PositionMonitor` splits `update()` at its reads and between the row and the
memory. Tickets are numbered in closing order. `RuntimeFailures` counts time in
units of five seconds and caps ages at the 300 seconds of the alert interval:
greater ages behave the same. An alert is delivered, lost, or delivered while its
reply is not (a timeout of `TelegramNotifier._send`), which the code takes for lost.

### SimulatedBroker, Backtest

Sequential: every operation is one action. Prices are small integers and every
candle shape over them occurs. A trade is known by its ticket, its request, the
level that closed it and the price there. `PricePaths`, `PathExit` and `PathGain`
state the reference that the simulation is compared with: the ways the price may
have taken within a candle, one price at a time, and what a trade that is filled
and closed on that way wins, in prices.
`Backtest` composes the broker with the runner, the execution service's
duplicate check and the monitor.

### MarketAnalysis

Given the whole market and the number of candles an analysis sees, `Structures`
computes what the swing detector and the structure engine return on that window;
`Analyse` is one call of `AnalysisEngine.analyze` on the kept state. An extreme
carries its time, which the code does not have, and its index in the window, on
which the code relies: the properties speak of times. `Depths` are the lengths a
window may have, which changes from one analysis to the next.

### HistoricalData

Several runs, one file. `BeginDownload` reads the clock once, `ReadPage` is one
request and the move of the cursor, `MapRows` filters and compares, and saving
is `WriteTemporary` and `Replace`. The market's clock ticks between any two
steps. A row is its opening time and the time up to which it has seen the
market, so that two reads of a forming candle differ and a finished one is
final. The exchange answers with the newest candles of the range, any number of
them up to the page size, and with the fault "range" it ignores the range, start and
end.
Sorting and numbering are left out: a history is a set.

## 3. The runs

| Run | Question | Result |
|---|---|---|
| `faults` | do file, memory, events and exchange agree under all faults, can what is saved be loaded, is an end told once and last, and does the file implement `EntryLedger`? | holds |
| `orders` | one active order, always an accounted one, none beside a position it could have seen, with orders and positions of others, and is READY kept? | holds |
| `loop` | one placing per setup and process, every candle counted once and before it is processed, with everything failing? | holds |
| `runtime_live` | does the loop catch up, hand over its events, trade on fresh candles only, and do expired and partly filled entries end? | holds |
| `monitor` | each trade journaled and announced once, memory as the file, the latest trade eventually? | holds |
| `sync` | can the journal always be loaded again? | **no** |
| `failures` | alerts throttled, and failures heard of, although alerts are lost or unconfirmed? | holds |
| `simulated` | fills exactly when reached, no price better than on any way through the candle, TTL exact? | holds, but for a held position whose candle opens beyond its stop |
| `backtest` | journal complete, counters add up, never aborted? | holds |
| `history` | history exact, file whole, no false conflict, every download over? | holds |
| `analysis` | structures permanent, broken in order, setups tradable, in windows that slide and change length? | holds |
| `newest` | does the newest break decide in a sliding window? | **no** |

### What the code does not keep

Two runs end in a counterexample to a sentence of the repository
(`findings` in `PROJECT.json` quotes them):

- `sync`: a CSV row that is written but whose fsync fails is written again by
  the next poll; the next start refuses the journal for its duplicate ticket.
- `newest`: `core/trend_engine.py:22` compares indexes that were taken in
  different windows, so that once the window has slid the older break can decide
  trend and setup.

The models show more, with these properties and constants (the others as in the
run named, `INVARIANT` or `PROPERTY` as the formula is):

| Property | Module, run to start from | Constants | What the code does |
|---|---|---|---|
| `ExpiryConfirmationsConsistent` | `MCBybitPendingEntry`, `faults` | `Volume = 1`, `TTL = 1`, `MaxCandle = 1`, `Faults = {"clear"}` | `bybit_broker.py:946`: when removing the file fails once after an expiry, the slot stays EXPIRED and every later confirmation raises "inconsistent" until a restart |
| `EveryEndIsReported` | `MCBybitPendingEntry`, `faults` | `Volume = 1`, `TTL = 1`, `MaxCandle = 1`, `Faults = {"crash", "retry"}` | `bybit_broker.py:464`: a recovery repeated after it succeeded (`main.py:159-175`, the monitor's first read failed) swallows the end of an order already announced |
| `SuppressedWasSubmitted` | `MCTradingRuntime`, `loop` | `Ids = {s1}`, `TTL = 1`, `MaxCandle = 1`, `Faults = {"read"}` | `core/execution.py:81` remembers a setup before its order is sent; a read that fails inside `submit_entry` makes the loop retry the candle, whose setup is then suppressed as "already submitted", and the candle is done with |
| `NoEntryBesideAnyPosition` | `MCPreflight`, `orders` | `Faults = {"manual"}` | `bybit_broker.py:154`: a position opened by hand after the position was read, or after the placing, gets an entry beside it; with `{"reply", "position"}` it is the fill of an unacknowledged order |
| `NeverOptimisticInGaps` | `MCSimulatedBroker`, `simulated` | | `simulated_broker.py:318-324`: a held position whose candle opens beyond its stop is closed at the stop, a price that is no longer there |
| `TemporaryFailuresAreSurvived` | `RuntimeFailures`, `failures` | `Other = {}`, `Durations = {0}`, `MaxFailures = 1100` | `main.py:38`: the 1025th temporary failure in a row overflows the float inside the handler and ends the process |
| `BrokenOnce` | `MCMarketAnalysis`, `analysis` | | `choch_engine.py:22`: in a sliding window a broken structure has another index and is broken again |
| `RetryFindsSetupAgain` | `MCMarketAnalysis`, `analysis` | | `bos_engine.py:23`: the retried candle is analysed in a changed state and finds no setup |
| `ChochIsOnlyAWarning` | `MCMarketAnalysis`, `analysis` | | a CHOCH alone turns the trend (`docs/MarketStructureSpecification.md:117` says it does not) |
| `LowerHighsAreLower` | `MCMarketAnalysis`, `analysis` | | an equal high is a lower high (`docs/StructureEngineSpecification.md:70`) |
| `PreviousIsEarlier` | `MCMarketAnalysis`, `analysis` | | a structure becomes its own predecessor; nothing reads the predecessors |

What the models allow, because nothing in the code or its documents promises
otherwise:

- A range that ends in the future is cached with the candles there were, and
  later runs take that for the whole range until `--refresh-cache`
  (`historical_data.py:153`); of two overlapping downloads, the older one may
  replace the file last.
- With a local clock ahead of the exchange's a download accepts, and caches, a
  candle that is still forming (`bybit_historical_client.py:50`). The model has
  one clock.
- An alert that arrives without a confirmation is sent again at the next failure.
- A slot whose record cannot be removed is blocked until a restart;
  `BlockedSlotRecovers` says that the restart ends it properly.

### Bounds, and why they are enough

- Broker: `faults` has one setup, whose order passes through every state;
  `Volume` 2 allows a partial fill before, between and after every step; `TTL` 2
  with two candles ages without and with expiry. `orders` has the preflight and the second setup
  that conflicts and orphans need; one lot and no candles, because a cancellation
  can also be asked for without an expiry. `MaxEvents` bounds the queue before
  an operation starts, not inside it. The faults are split between the runs,
  because all of them with two ids are too many states; each run names those
  that can break its properties: positions of others, for example, are in `orders` only.
- Loop: `MaxEvents` 6 is more than an iteration queues. Three candles and `TTL`
  2 let an entry live through a restart and expire. `loop` shows every candle in
  time (`CandlesLag = FALSE`): when the listing lags, an entry may be signalled
  on an older candle than the last one counted, and lives longer. `runtime_live`
  lets the listing lag.
- Monitor: three trades are a baseline, one seen and one missed; the file takes
  a row of each.
- Failures: `MaxExponent` 1023 is the real limit of a float; `MaxFailures` 5
  passes the cap of the pause; an iteration takes 15 or 35 seconds, so that the
  five minutes are missed, hit and passed.
- History: two runs are enough to overlap; a range of three candles with a start
  inside a candle, a gap between candles and an end inside the last; pages of one
  to three candles. With the fault "range" a page may go back to before the start.
- Simulator: five prices, a long and a short request with entry, stop and target
  inside them, so that a candle can open beyond the entry and beyond either stop. Two candles fill, hold and close, or
  age and expire, an entry of `TTL` 2; the backtest has four.
- Analysis: candles of one price, one-candle pivots and eight candles give up to
  three swings of a kind, so every pair of structures and both breaks occur. The
  windows have six or seven candles: they slide over the last two and may be
  shorter for a candle than for the one before it. The pivots' width is a
  parameter; the code's is two.

### Deadlock

`CHECK_DEADLOCK FALSE` stands where the system really may stop: the history of
a backtest or an analysis ends, or the loop was ended. The broker, the live loop,
the monitor and the simulator are checked for deadlock.

### Fairness

`runtime_live`, `monitor` and `history` assume fairness. The process is one loop, so its
steps are weakly fair. The exchange carries out an accepted cancellation (weak
fairness of `FinishCancel`); it is never assumed to fill an order. Reads, writes,
refused cancellations and lagging listings may fail any number of times but not
for ever: the loop repeats them without bound, hence strong fairness of their
success. `runtime_live` has no crashes; a process that dies again and again
promises nothing. It has no unknown cancellation outcomes either: the code does
not repeat such a cancellation (`tests/test_bybit_pending_broker.py:595` wants
that), so an entry whose cancellation was lost may work on. In `history` a run's own
steps are weakly fair: it waits for no lock, and every request has a timeout
(`bybit_historical_client.py:27`). That the exchange answers sensibly is not assumed.

## 4. The proofs

Every theorem holds for any sets of ids, any volume, TTL, bounds, candles and
faults, from the named assumptions of the modules; the few that need a
hypothesis more name it. Every property of a passing run that is not
temporal under fairness is proved.

### The broker

- `BybitPendingEntryProofs`. The inductive invariant is `IInv == TypeOK /\
  ControlOK`. `TypeOK` alone is not inductive: a step of an operation uses a slot,
  a snapshot, an id or a record that an earlier step has fetched, and `ControlOK`
  says what is there at every `pc`. It also says that no own order is active
  between the listing and the placing, which nothing but the broker's own steps
  could change, and that an active order is not completely filled. There is one
  lemma per operation (`SubmitInv`, `QueryInv`, `ReconcileInv`, `CancelInv`,
  `AgeInv`, `RecoverInv`, `ExchangeInv`, `ProcessInv`), over `DataOK` and `CallOK`,
  the parts of `TypeOK` about data and about the call. `Invariant`
  and `TypeCorrect` follow. `OneActiveOrder` needs only the steps that touch
  `orders` (`OrdersFrame`): the one that places an order finds none active.
  `ExpiryDurable` follows the slot (`SlotFrame`): only `AgeCount` sets the
  marker, after saving it, and what removes the record empties or ends the slot.
- `BybitPendingEntrySafety`. What memory, file and events say of an order is
  read at one moment and used at a later one, while the exchange goes on. The
  invariant `SafetyInv` therefore relates everything the broker holds to the order as it is now:
  a snapshot that was read shows at most the fills of now, and an end that it
  shows is the order's end for good (`SnapOK`); an entry in the slot or in the
  file has fills, an age and a status that its order, its last candle and the
  clock allow (`SlotOK`, `StoreOK`); slot and record are of one entry, the slot
  never behind (`MatchOK`); after a start the record waits until recovery has
  decided on it (`HeldOK`); an event that tells an end tells the order's
  (`EventsOK`); an id whose end was found is gone from slot and file (`GoneOK`);
  and `AccountedOK` and `BesideOK` say in which phase of which operation an order
  may be active, and beside what: in the gap between the position's reading and the
  placing any position there is was opened unseen, and from the end of recovery on
  one that was not is beside no untouched order. The exchange's steps keep these because an
  order only advances (`OrdersAdvanced`); the broker's steps are grouped by what
  they do to slot and file (`Registers`, `Reconciles`, `Ends`, `Ages`,
  `Restores`, ...) rather than by action, so that each conjunct is argued once.
  `DurableMatches`, `NeverAhead`, `TerminalEventsTrue`, `RecordsAlwaysLoad`,
  `BlockedSlotsRecover`, `ExpiresInTime`, `ActiveOrdersAccounted` and
  `EntryNeverBesidePosition` are consequences; `EndLastWord` is the action
  property that every event is of an entry whose end is not yet told.
- `EndsAreReported` has the hypothesis `"retry" \notin Faults`: with it the code
  does not keep `EveryEndIsReported` (section 3). Its invariant `EndsOK` says
  where the end of an entry that has left the slot is noted: reported, or in
  the recovery that will report it.
- `LedgerImplemented`: every step of the broker, its crashes and its faults
  included, maps to a step of `EntryLedger` or to a stutter. Only the steps that write or
  remove the file and the ends on the exchange map to a step, and `SafetyInv` gives
  each the guard it has in the ledger; `FreshOK` adds that an entry ages only
  once it has been saved.

### The live loop

- `TradingRuntimeProofs`. Every step of the loop is a step of the broker's
  specification or leaves it alone, with the invariant `RInv` on the loop's own
  variables (a submission is of a setup in `Ids`, a candle is a number that has
  been). So `RuntimeSpec => Spec`, and what is proved of the broker holds in
  the whole program (`RuntimeBrokerAgrees`, `RuntimeImplementsLedger`, ...).
- `LoopInv` adds which operation of the broker the loop waits for at each of its
  steps, and with which arguments (`WaitsOK`). On it rest `PlacedOK` (what is
  on its way to be placed is neither sent nor recovered: `PlacedOnce`), `TradesOK`
  (what is analysed is newer than what is done with: `TradesFresh`) and `AgedOK`
  (what an aging that returned without an error has achieved, and how far an
  expiry has come: `AgedFirst`).
- `CountedOnce` has the hypothesis `~CandlesLag`, as the run has: with a lagging
  listing an entry may be signalled on a candle that is older than the last one
  counted. `CountedOK` says that slot and record have both counted exactly.
- The proof of `AgedFirst` corrected the property. An expired entry whose
  cancellation has an unknown outcome is not cancelled again
  (`bybit_broker.py:653`), and its status is not CANCEL_REQUESTED
  (`bybit_broker.py:339`), yet later candles are processed without aging it. `loop` is too
  small to show this (it takes `TTL = 1` and three candles, or `TTL = 2` and
  four); its disjunct in `AgedBeforeProcessing` is therefore covered by the
  theorem, and by runs of those bounds that take longer than the ones listed.
- `RuntimeFailuresProofs`. `HeardSince` says that an alert the code takes for
  delivered has been heard no earlier than that; ages grow together until
  they are capped. `Throttled` and `Heard` are action properties over it.

### The preflight

- At the end of `TradingRuntimeProofs`: the preflight and what goes on beside
  it implement the broker's specification (`PreflightImplementsBroker`), hence `SafetyInv`
  holds. `PreflightOK` says what the three reads have seen and still holds, and
  how far the start that follows has come: without a record and an active order
  every step of recovery leads past what it refuses. `ReadyKept` has the
  hypothesis `{"read", "save"} \cap Faults = {}`: a read of the recovery that fails for good
  ends the start (`FailedRecoveryRead`), whatever the preflight saw before.

### Monitor and journal

- `PositionMonitorProofs`. `MonitorInv` gives the types. `JournalInv` ties file,
  memory, statistics and announcements together at every step of an update:
  between the row and the memory the ticket is one that the memory does not
  know. `MemoryMatches`, `RecordedOnce` and `JournalAlwaysLoads` have the
  hypothesis `"sync" \notin Faults`, because a row that is written and reported
  as failed breaks all of this: the last is the property that the run `sync`
  violates, here for every instance without that fault.

### Simulator and backtest

- `BacktestProofs`. `SimInv` says that no entry rests beside a position, that
  the resting entry is the only one not over and its age is the number of
  candles since its signal (`RestingOK`), and that tickets are given in order
  (`TicketsOK`). `LivesCandles` follows. `FilledWhenReached` and `NotOptimistic`
  compare one candle's processing with all paths of the price, for candles and
  levels of any prices. `PathFacts` and `LevelsOfPaths` say what the paths through a
  candle have in common. A path moves by one at a time (`PathSteps`), so that it
  stops at the stop's own price unless it begins beyond it (`PathExitFacts`);
  `HeldGain` and `FilledGain` bound what a path wins with a position held before the
  candle and with one filled in it, and a resting entry has its levels in a
  tradable order (`RestingValid`).
- The backtest implements the simulated broker's specification
  (`BacktestImplementsBroker`), so all of this holds in it. `NeverRefused` needs that every order the
  broker knows is one that the execution service remembers (`KeysOK`).
  `CompleteResult` needs `JournalOK` (the journal holds the tickets up to the last
  one seen, and a candle closes at most one trade) and `CountersOK` (as many
  entries have been filled as tickets given, and every entry is filled, expired,
  rejected or resting).

### Market analysis

- `MarketAnalysisProofs`. `TradableSetups` holds for every window: an event is an extreme
  that is remembered now and that the last close has broken (`EventFacts`), and the
  risk/reward is a positive factor (`ScaledRisk`).
- `StructuresPermanent` and `BrokenInOrder` hold for windows of any lengths that
  change from one analysis to the next. A window shows some upper part, in time, of the
  structures of all candles there are (`WindowSwings`, `WindowStructures`): what is
  compared with a swing is the swing before it, so only the first swing of each
  kind in a window may be missing. `StructuresKept` shows that the candle after the
  end of a history changes none of its swings, nor what each is compared with. In
  `HistoryInv` everything remembered is a structure of all candles, and
  `FiredOK` says why remembering only the last break of a type is enough for their
  order: every extreme broken before is no later than it, and the last extreme
  only gets later (`LastGetsLater`), also when the window slides. That the same
  extreme is not broken twice does not hold (`BrokenOnce`, section 3); the theorem says
  that this takes another index of it.

### Historical data

- `HistoricalDataProofs`, for any range, interval, opening times with any gaps,
  page size and number of runs. The invariant `HistoryInv` says of a run that
  reads pages: every row is what the exchange showed at a moment since the
  download began, and every candle that was over at that moment and opens at the cursor or later
  is among the rows. When the cursor has reached the start (or a page is
  empty) these are all, and the filter keeps exactly those that were over when
  the download began, because a row of a candle that was over then is final
  whenever it was read. Hence no conflict, and an exact history; the file only
  ever receives such histories.

### Only model-checked

- Everything temporal under fairness (`EveryCandleProcessed`,
  `EventsAreDelivered`, `ExpiredEntryEnds`, `PartialFillEnds`, `LatestTradeJournaled`,
  `DownloadEnds`): liveness and ENABLED are out of the prover's reach.
- What the theorems with a hypothesis leave out: there the code does not keep
  the property, and section 3 or the theorem's paragraph says how.

The type invariants of the modules are proved, not listed as properties of a
run; `MarketAnalysis` and `Preflight` have none of their own.

## 5. Not modelled, and why

- The text of the pending-entry file, of candles and of Bybit's replies: a value
  that does not validate is an error like a failed read. What the record's
  writer and reader demand of its fills is modelled.
- The client's retries of a read (`bybit_client.py:186`): reads have no effect on
  the exchange, so a read that is retried is one that fails or succeeds, later.
- Money: volumes, prices of live fills, profit and statistics' numbers.
- Configuration and command line: input checks without state.
- Telegram's messages.
- `open_position` and `close_position` of the live broker: the loop never calls them.
- `app.py`, `services/pivot_structure_engine.py`,
  `market_structure/bos_engine.py`, `market_structure/swing_detector.py`: not
  reached by the bot or the backtest.

## 6. Plan

1. The pending-entry protocol, its file, the exchange, crashes. *Done.*
2. The ledger as its abstract specification. *Done and proved.*
3. The loop around it and its failures. *Done and proved.*
4. Monitor and journal; simulator and backtest; analysis. *Done and proved.*
5. Historical data with its proofs; the preflight; what a record must satisfy to
   be loaded; unconfirmed alerts; delivery of events. *Done.*
6. Analysis in windows that slide; positions of others; the simulator's prices.
   *Done and proved.*
7. Next: in place of `"retry" \notin Faults` a statement of which ends a repeated
   recovery may swallow; listings that lag like the query by id.
