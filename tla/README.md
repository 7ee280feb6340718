# Upstox GTT: specifications, model checking and proofs

This directory holds a TLA+ development of the signal-to-order program in this
repository. The program reads trade ideas ("signals") from a Telegram channel,
places a three-legged GTT order for each at the broker Upstox (an entry leg that,
when it triggers, is protected by a target leg and a stop-loss leg), and keeps a
database row per signal up to date with what becomes of the order. There are two
generations of it side by side: `src/*.py` (v1: SQLite, threads, a supervisor) and
`src/gtt_v2/` (v2: five asyncio services around PostgreSQL and Redis).

The modules are written from the code. Paths below are relative to `src/`; the
`map` of `PROJECT.json` names, for each definition, the lines it stands for.

## 1. The system

### 1.1 v2 services (`gtt_v2/services/`)

| Component | State it keeps | Operations | Talks to |
|---|---|---|---|
| Signal ingestor (`signal_ingestor/telegram_listener.py`) | a Redis key per Telegram message id | receive a post, mark its id, parse it with an AI model, XADD | Redis stream |
| Trading engine (`trading_engine/main.py`) | consumer-group position and pending list, a queue of writes (`AsyncDBWriter`), rows of `signals` and `gtt_rules` | `process_signal` (gates, insert, rate limit, placement, writes), message loop, reclaim at start, stale sweep every two minutes, daily capital refresh | Redis, PostgreSQL, Upstox |
| Order tracker (`order_tracker/main.py`) | the same rows, the day's P&L in Redis | WebSocket handler for order and GTT updates, 30 s reconciliation, `_process_filled_order` shared by both | Upstox portfolio stream and REST, PostgreSQL, Redis |
| Price monitor (`price_monitor/main.py`) | a copy of the open rows, a set of subscriptions, a queue of touch writes | handle a tick: refresh the copy, note an entry touch, expire a missed entry by cancelling its GTT | market feed, Upstox, PostgreSQL |
| Admin API (`admin_api/`) | none of its own | lists, an HTML page, cancel and exit endpoints | Upstox, PostgreSQL |

Shared parts (`gtt_v2/shared/`): the Upstox client with its retry loop and circuit
breaker (`upstox/client.py`), the write queue (`db/writer.py`), the Redis stream
client (`redis/client.py`), the token-bucket rate limiter (`redis/rate_limiter.py`),
the daily P&L guard (`rules/pnl_guard.py`), the other gates and pure rules (`rules/`:
buffers, timing, missed entry, trade type, lot splitting), signal parsing, hashing and
expiry (`signal/`), instrument cache (`instruments/`), the portfolio and market
WebSockets (`upstox/*_ws.py`), and plumbing (pool, migrations, settings, heartbeat).

### 1.2 v1 programs (`src/*.py`)

| Component | State it keeps | Operations | Talks to |
|---|---|---|---|
| Supervisor (`app.py`) | `app.pid` | start listener and strategy, take both down when one exits | processes |
| Listener (`telegram_ai_listener.py`) | a capped sorted set of hashes in Redis | parse a post, drop a known hash, ZADD, trim the set, XADD | Redis |
| Strategy (`gtt_strategy.py`) | its position in memory and in Redis, a sorted set of processed ids, a queue to a metadata thread | XREAD a batch, place each entry by POST with retries, record, mark, save the position | Redis, Upstox, SQLite |
| Order tracker (`upstox_order_tracker.py`) | rows of `signals`, `gtt_rules` (`db.py`) | backfill at start, reconciliation, GTT and order payload handlers | portfolio stream, REST, SQLite |
| Fallback price monitor (`price_monitor.py`) | a cache of the open rows | rebuild the cache, write from ticks, poll the GTTs every minute | market feed, REST, SQLite |
| Web bridge (`trade_terminal_app/frontend_signal_bridge.py`) | none | XADD what a form posts | Redis |
| Parser, instrument look-up, reports, log formatter | none that matters to the others | text to fields, look-ups | |

### 1.3 How they interact, and what is hard

* **One signal, many messages.** A trade idea arrives again when it is re-sent,
  re-read after a restart or reclaimed from a dead consumer. It is recognised by its
  hash: an `INSERT ... ON CONFLICT` in v2, a sorted set of limited size in v1.
* **One row, many writers.** The v2 row is written by the engine, its queue behind
  the engine's back, the sweep, both tasks of the tracker, the price monitor and the
  admin API; the v1 row by the metadata thread, the tracker and the fallback. Few
  of these UPDATEs say which status they expect to overwrite.
* **Calls whose outcome is unknown.** A POST that times out may have created an
  order; both generations send it again.
* **Messages that are gone.** The portfolio WebSocket delivers at most once and in
  no helpful order relative to the writes of the engine; polling repairs what it can.
* **Copies.** The v2 monitor decides on a copy up to a minute old, the v1 fallback
  on a cache it changes itself, every handler on a row read several awaits ago.
* **Crashes** at every await, with what is in memory (queues, batches, copies) lost
  and what is in Redis and the database kept.

What makes each part correct:

| Part | It is correct when |
|---|---|
| Trading engine | a trade idea is decided once and costs at most one placement call; what is lost is lost to a fault; a confirmed order is recorded with all its legs; entries, calls and stale rows are settled in the end |
| Order tracker | a trade's P&L is booked once; a closed row tells of real fills and stays closed; a fill the database can know of reaches the row though messages are lost |
| Price monitor | a row expires only if its entry was touched and then missed, as the unit tests ask (the guide asks for no touch); its GTT is gone then; a known position keeps its exits; touches are not forgotten; missed entries do expire |
| v1 listener and strategy | a signal is published once, an entry placed once and never skipped, a confirmed GTT has a row, a backlog is worked off |
| v1 tracker and fallback | a closed row names a leg that existed and its own P&L; a booked exit stays; fills, rejections and cancellations reach the row |
| Ingestor | a post enters the stream once per mark, and its mark does not swallow it unless a fault cut the handler short |
| Admin API | a trade is still booked once beside cancel and exit; an answer without errors means a dead GTT; an exit does not turn the position around |
| Circuit breaker | nothing is sent while it is open, it stays open for its time, and it closes for good once the broker is well |
| Rate limiter | a burst never exceeds what a bucket refilled by a clock would admit |
| P&L guard | Redis and the table agree on the day; a limit reached for a moment is noticed; a day once refused stays refused |
| Gates and buffers | the legs placed bracket the entry and keep the ratio but for a known loss; no entry for a move that was over |

`PROJECT.json` lists the hazards of the code line by line, with the properties that
speak about each, or why none does.

## 2. The modules

| Module | Models | Lines it stands for (v2 paths under `gtt_v2/`) |
|---|---|---|
| `SignalContract` | what the engine promises about one hash: decided once, called at most once | abstract |
| `TradeLife` | what the tracker promises about one trade: entered once, closed once at two fills, its gain booked once, unless a stale write tears it | abstract |
| `EntryLog` | what the v1 pipeline promises about its entries: taken in turn, each at least once, none passed over | abstract |
| `TradingEngine` | v2 engine, write queue, sweep, reclaim | `services/trading_engine/main.py`, `shared/db/writer.py`, `shared/db/signals.py`, `shared/redis/client.py`, the retry loop of `shared/upstox/client.py` |
| `SignalPipeline` | v2 ingestor in front of the engine | `services/signal_ingestor/` |
| `SignalRules` | the gates of `process_signal` and the prices they decide on | `services/trading_engine/main.py`, `shared/rules/`, `shared/signal/types.py` |
| `DayGuard` | the daily P&L guard between engine and tracker | `shared/rules/pnl_guard.py`, `shared/db/daily_pnl.py`, the capital refresh of the engine |
| `TokenBucket`, `UpstoxClient` | rate limiter; circuit breaker and retry loop shared by the engine's tasks | `shared/redis/rate_limiter.py`, `shared/upstox/client.py` |
| `OrderTracker` | v2 tracker's two tasks on one signal | `services/order_tracker/main.py`, `shared/db/gtt_rules.py`, `shared/upstox/portfolio_ws.py` |
| `ManualActions` | the admin API's cancel, exit and position exit beside the tracker | `services/admin_api/routers/` |
| `TradeRow` | one signal's GTT and row under everybody but the price monitor | the order of writes in `services/trading_engine/main.py`, `services/order_tracker/main.py`, `services/admin_api/routers/`, `shared/db/` |
| `PriceMonitor` | v2 price monitor on one signal, beside `TradeRow` | `services/price_monitor/main.py`, `shared/upstox/market_ws.py` |
| `SignalStream` | v1 listener, stream, strategy, metadata thread, supervisor | `telegram_ai_listener.py`, `gtt_strategy.py`, `app.py` |
| `SignalLedger` | v1 tracker and fallback monitor on one row | `upstox_order_tracker.py`, `price_monitor.py`, `db.py` |
| `MC...` | values of the constants for TLC | |
| `...Proofs` | theorems about the module of that name (those about `ManualActions` are in `OrderTrackerProofs`, those about `SignalPipeline` in `TradingEngineProofs`) | |

Four modules compose others: `SignalPipeline` extends `TradingEngine` and puts its own producer in the place of
`Publish`; `ManualActions` extends `OrderTracker` with further writers of the same row; `UpstoxClient` takes the
actions of `TokenBucket` into its own; `PriceMonitor` extends `TradeRow`, whose actions are the other writers of its row. `SignalContract` is implemented by `TradingEngine` through the refinement
mapping `Verdict`, which reads a row (its status, and whether it has ids) as a verdict. `OrderTracker` implements `TradeLife`,
alone and with the writers of `ManualActions`: `Stage` reads the status as a stage, `Recorded` shows a price or a gain from the commit on
that makes it count, so that the two commits of an entry, and those of an exit, are one step of the abstract trade. `SignalStream` implements `EntryLog`:
the stream is the log, `handled` what is done with, `slips` the losses that an order may be repeated for. `TradingEngine` and `OrderTracker`
meet in the row: the tracker's `EngineLeg`, `EngineRow` and `EngineLoses` are what it assumes of the engine's write queue, and the theorem
`EngineHandsOver` shows that the engine keeps to it. `OrderTracker` and `ManualActions` meet the monitor in `TradeRow`: under the mapping
`Seen` each of their steps is one of its steps (`KeepsToTradeRow`), so what the monitor's theorems take from tracker,
queue, broker and requests is proved of their detailed models. The mapping begins where the engine hands over;
the engine's part before that is the order `EngineHandsOver` is about.

**`TradingEngine`.** A message is a model value, `HashOf` the idea it carries. `unread`,
`batch`, `pel` and `acked` are the consumer group; `pc` and `cur` the message loop,
one step per await of `process_signal`: `Validate` (the parse and the gates, a
free choice to block), the insert (`InsertWins`, `InsertSkips`, `InsertBreaks`), the
rate limit, `Placing` (each attempt of the retry loop, with the answers success,
retry, reject, 4xx, exhausted), `Record`, `Notify`. `queue` is the write queue: a full
one drops the job, as `put_nowait` does. `WriterStep` applies the head. `Age`, `ReconStart` and
`ReconOne` are the sweep; `Crash` and `Restart` lose memory and reclaim the pending list.
`orphans[h]` and `known[h]` are the broker's orders the engine does not and does know. `excused` and
`calls` are history: the hashes a fault concerned, and calls made.
`Age` stands for hours passing and may only happen to a row whose call and queued jobs are
over: a placement call lasts seconds.

**`SignalPipeline`.** `arrived`, `parsing` and `sending` are the handlers of a post at the awaits of
`handle_message`: before SET NX, before the AI's answer, before XADD. `marked` is the Redis key, which may go
(`Forget`: it expires after a day, or is evicted). `Receive` may happen to a post at any time and again: Telegram
may deliver it more than once. `AddEntry` is the engine's `Publish`.

**`SignalRules`.** One signal from the stream to its order. `pc` is the gate it stands at, in the order of
`process_signal`; between any two of them time may pass and the cached price may move, as each gate awaits something.
Prices are integers in half points. `Adjusted` is `apply_buffer` with `build_gtt_payload`, `Worthwhile` the 1:2
ratio, `Moved` the missed-entry test, `InHours` the timing gate. The P&L gate is a choice here, `DayGuard` there.

**`DayGuard`.** `total`, `flag` and `capital` are the Redis keys of a day, `table`, `rows` and `marked` the rows of
`daily_pnl`. `rec[r]` is where one of the tracker's tasks stands in `record()`: after INCRBYFLOAT, after the read
of the capital, after the flag, after the upsert. `Ask` is `allow()`'s script. `Midnight` changes the key the
clock gives, `FetchAtStart` and `FetchAtOpen` are the capital refresh.

**`TokenBucket` and `UpstoxClient`.** A tick refills one unit of the bucket and passes one unit of the breaker's recovery
time. `tokens` and `idle` are the hash in Redis as the script left it, `level` the bucket as a clock would fill it.
`pc[t]` is where each of the engine's tasks stands in `_request`: between awaits, with its request in
flight, or asleep between attempts. `broker` is how the broker answers now; it may turn between
any two steps. `early` is history: who had a request in flight when the circuit opened.

**`OrderTracker`.** One signal with the legs ENTRY, TARGET and STOPLOSS; an order id is the
leg it belongs to. `pc[t]` for the tasks `ws` and `recon` runs through `_process_filled_order`:
upsert, fetch the trades, read the row, write entry, ACTIVE, P&L, status, and book into
the day's total, each commit a step. The engine's late leg and row writes, the broker's fills, lost
updates, raised exceptions and crashes interleave with them. `fresh[t]`, `raced` and `booked` are history:
whether a task's view of the row is still current, whether any write rested on a stale one,
and how often the P&L was added.

**`ManualActions`.** A request reads the row (`AskCancel`, `AskExit`, `AskPosition`), looks the position up, sends its
market order (again, if it goes unanswered), cancels the GTT and writes CANCELLED over whatever the row says by
then. `out` is what market orders have traded, `Position` what the account holds; `current[r]` is history: nobody wrote the
row since `r` read it.

**`PriceMonitor`.** `sig` is the monitor's copy of the row, refreshed by a tick when the minute is over (`Timer`).
`Tick(p)` is the synchronous part of one tick (refresh, touch, decision, eviction); the cancel
(`CancelTargets`, `CancelOrder`, `CancelFails`), the guarded UPDATE (`ExpireRow`) and the touch
writer are the steps at its awaits. The others are `TradeRow`'s: the engine's queue may lose any of its writes, the
entry price and the status are two commits, HIT may come before the exit leg has filled, and a request may mark the
row at any time. `Beside`, `Listing`, `Notice` and `TrackerUpserts` add what the monitor sees of them: the leg row it lists a signal
by, the publish it subscribes on. `seen`, `dropped`, `settled` and `lost` are history.

**`SignalStream`.** `post[p]` is where the listener's handler of post `p` stands, one step per await
(ZSCORE/ZADD, ZCARD, ZREMRANGEBYRANK, XADD), so that handlers interleave. The strategy is one thread:
`Block`/`Read`, `Begin`, the `Post...` answers, `Store`, `Mark`, `Save`. `WriteRow` is the metadata thread.
`Crash` loses memory and may leave `app.pid` behind (`"locked"`) until an operator's `Unlock`.
`slips`, `excused`, `lapsed`, `base`, `handled`, `made` and `answered` are history: which
fault excuses which loss, and what the broker did.

**`SignalLedger`.** A price is the name of its source ("limit", "part", "full", "tick", ...), because
what the handlers confuse is where a number comes from. `feed` holds the payloads sent and not yet
handled; `todo` holds the rules a running handler has still to look at, `hold` the fill it has read and not
yet written. `LookUp` is one round of `_sync_order_from_api` with the fetch it makes, `Apply` the write of
`_apply_entry_fill` or `_apply_exit_fill`, whose UPDATEs carry no condition. `StartFallback` ends the tracker for good;
`Rebuild`, `Tick`, `PollGtt` and `ApplyPoll` are `price_monitor.py`. The operators `Marked`, `Filled`, `Closed`, `Stored` and
`Backfilled` are the statements of `db.py`.

## 3. Runs

Each run is a module, a `.cfg` and the question it answers. The first ten must pass; the last two exhibit,
each by a counterexample, a place where the code does not do what the repository says of it.

| Run | Instance | What it shows |
|---|---|---|
| `engine` | `TradingEngine.cfg`: two entries with one idea and one that does not parse, 2 attempts, queue of 4, batches of 2, up to 2 faults | `NoSilentLoss`, `KnownOrderIsRecorded`, `OrdersBounded`, and `ImplementsContract`: the engine refines `SignalContract` |
| `pipeline` | `SignalPipeline.cfg`: one post whose mark may go once, so with two entries; one attempt, queue of 4, 1 fault | `OncePerMark`, `SignalIsKept`; and the liveness of ingestor and engine together: `SignalIsDecided`, `CallIsSettled`, `StaleIsExpired` |
| `rules` | `SignalRules.cfg`: 961 signals, BUY and SELL, around every edge of the buffer table; two moves of clock or price | `ExactEntryIsBracketed`, `RatioOutlivesBuffers`, `EnteredInTime` |
| `day_guard` | `DayGuard.cfg`: two days, three trades of -2 or 4, limits 2 and 4, one fault | `BooksAgree`, `PeakIsNoticed`, `BlockedStaysBlocked` |
| `client` | `UpstoxClient.cfg`: three tasks, 2 attempts, threshold 3, recovery 2 ticks, bucket of 3 units with 2 a token, one restart; deadlock is checked | `BurstBounded`, `OpenShields`, `OpenLasts`, `RecoveryCloses` |
| `tracker` | `OrderTracker.cfg`: a BUY with target 12, stop 2, tolerance 1; entry at 6 or 11; 2 faults | `FinishedIsBooked`, `ClosedStaysClosed`, `ImplementsTradeLife`: the tracker refines `TradeLife`; and that fills are seen (`EntryIsSeen`, `ExitIsSeen`) |
| `manual` | `ManualActions.cfg`: the same trade with one fill price a leg, one request, a default quantity of 2, one fault | `BookedOnce`, `CleanAnswerMeansDead`, `SoleExitNeverReverses` |
| `monitor` | `PriceMonitor.cfg`: a BUY in 10..12, first target 20, prices 11, 15, 20, 21; 2 faults | `ExpiredMeansCancelled`, `TouchIsKept`, `KnownFillIsSpared`, and `MissedEntryExpires` |
| `signal_stream` | `SignalStream.cfg`: three posts, the first and last one signal, the second malformed; a set of 2 members, batches of 2, 2 attempts, a metadata queue of 1; one failed call and one crash | `PublishedOnce`, `OneOrder`, `OrderIsBooked`, `ImplementsEntryLog`: the pipeline refines `EntryLog`; and `BacklogIsHandled` |
| `signal_ledger` | `SignalLedger.cfg`: two targets, a feed of 4 payloads, 2 faults; deadlock is checked | `PnlIsOwn`, `ExitIsFinal`, and `ExitReachesRow`, `DeadEntryIsSeen` |
| `engine_resend` | `EngineResend.cfg`, no fault | a signal the rate limit refused is skipped as a duplicate when it is sent again, against `CLIENT_GUIDE.md:499` |
| `tracker_pnl` | `TrackerPnl.cfg`, no fault | an exit handled before its entry closes the row with a P&L of 0, against `STATEMENT_OF_WORK.md:51` |

Where a property holds only "unless a fault concerned it" (`excused`, `raced`, `lost`, `dropped`, `lapsed`,
`slips`, `cut`, `split`), the history variable is set by the very steps that lose something, so that the property says which
steps those are; everything else the system does, the many retries, replays, restarts and interleavings, is covered
without an excuse. Such a property does not catch the excused outcome, it bounds it; the hazards in `PROJECT.json` say of
theirs what it excepts, and the table below what the repository promises beyond it.

Each run explores its state space completely, in under three minutes. Distinct states: 1.59 million for `engine`, 246 thousand for
`pipeline`, 1.19 million for `rules`, 2.41 million for `day_guard`, 113 thousand for `client`, 253 thousand for `tracker`, 1.65
million for `manual`, 438 thousand for `monitor`, 1.51 million for `signal_stream`, 40 thousand for `signal_ledger`.

**Where docs and code part.** Met while modelling, and in the models as the code has them. Those that name a run are
exhibited by it; the others are stated here so that nobody takes the models for wrong. `G` is
`gtt_v2/docs/CLIENT_GUIDE.md`, other paths are below `gtt_v2/`.

| The repository says | The code does |
|---|---|
| re-send the signals marked FAILED (G:499, :531) | the row keeps its hash, so the repetition is a duplicate (`shared/db/signals.py:49`); run `engine_resend` |
| P&L is computed from the actual fills (`docs/STATEMENT_OF_WORK.md:51`) | an exit before its entry takes its own price for the entry's (`services/order_tracker/main.py:314`); run `tracker_pnl` |
| FAILED: "No live order exists" (G:261) | a timed-out POST may have created one (`shared/upstox/client.py:108`) |
| PENDING: "GTT is live on Upstox" (G:254) | a 4xx answer leaves the row PENDING without an order (`services/trading_engine/main.py:527`) |
| claimed messages are retried (`shared/redis/client.py:112`) | one that crashed after its insert meets its own row and is skipped |
| "Will retry automatically" (`services/trading_engine/main.py:232`) | the signal is dropped, as the next statement says (:234) |
| an exit already applied is not applied again (`services/order_tracker/main.py:282-285`) | two tasks between test and write both book it, the case `raced` stands for |
| a PENDING signal expires when its price goes to the first target "without ever touching the entry price", a gap-up included (G:547-562; also G:263, `docs/STATEMENT_OF_WORK.md:41`) | it expires only after a tick touched the entry range (`services/price_monitor/main.py:107`), as the unit tests have it (`tests/unit/test_price_monitor_expiry_logic.py:29-31`); `ExpiryWasMissed` states that rule, and its proof shows that the guide's gap case never expires |
| it does so at LTP ≥ T1, or ≤ T1 for a SELL (G:550) | the price must lie strictly beyond T1 (`services/price_monitor/main.py:115`); at T1 itself nothing expires |
| GTTs are cancelled "when entry is never filled" (`services/price_monitor/main.py:4-5`) | the test is on a copy up to a minute old (:320) |
| EXPIRED: the GTT "was automatically removed" (G:263), "System cancels all GTT order IDs" (G:551) | a cancel that fails is logged, and the row expires all the same (`services/price_monitor/main.py:323`) |
| the feed is streamed "for all tracked instrument keys", and the refresh adds new ones (`services/price_monitor/main.py:3`, :9) | the refresh tracks a key without subscribing it (:232) |
| Exit Trade cancels the legs, then sells (G:609-610) | the market order goes first (`services/admin_api/routers/signals.py:124`) |
| CANCELLED: "GTT was deleted from Upstox" (G:262) | the status is written whatever the cancel answered, and with no cancel at all while the ids are not yet stored (`signals.py:62`) |
| buffers of 3, 5, 7 and 10 points (G:633-638, :720) | 3, 4, 5 and 5 for targets, 3 for every stop (`shared/rules/buffer.py`) |
| a target exits "at a profit" (G:256) | a premium below 100 takes the last row's buffer, and the adjusted target may lie below the entry (`buffer.py:37`) |
| no new entries after 15:30 (`shared/rules/timing.py:9`) | the hour is tested before the look-up, the insert and the rate limit; `EnteredInTime` states what remains |
| a signal carries its quantity (`shared/signal/types.py:22`) | the order takes `default_quantity` (`services/trading_engine/main.py:227`) |

**Bounds.** `MaxFaults`, `MaxCrashes` and `MaxRestarts` bound failed calls, lost connections, crashes and restarts. Two are enough for a
fault and a second one in the handling of the first; nothing in the code counts further. The runs with one fault are those whose
other choices multiply (two services, requests, midnight). `MaxRetry` is 2 instead of 3: first
and last attempt are the cases the loop tells apart; in `pipeline`, which is about settling, it is 1. One idea is enough in `TradingEngine`, as rows of
different ideas meet only in the write queue's capacity, and the malformed entry and the repeated one give it
company there; the queue of 4 is exactly one placement's worth, so anything before it overflows. One signal is enough in `OrderTracker`,
`ManualActions`, `PriceMonitor` and `SignalLedger`: statements concern one row, and the day's total is a sum whose parts commute.
In `DayGuard` two days have one midnight between them, three trades let one task overtake another twice, and -2 and 4
reach a limit and leave it again. In `UpstoxClient` three failures open the circuit with two calls of
two attempts, so every task finds it open in every place; a bucket of one and a half tokens is refilled in part. `SignalRules` takes
one entry in each row of the buffer table, one below it and one at its edge; prices are those the comparisons tell apart.
In `SignalStream` a post adds two members to the sorted set, so `SeenMax` 2 evicts the first post when
the second arrives, and a metadata queue of 1 overflows. Two targets are what it takes for the fallback to go on
watching a row it has closed. Deadlock checking is off where the system may rightly stop: the
messages, posts, trades or fills are finite. No symmetry is used: the sets are too small to gain from it.

**Fairness.** Weak fairness is assumed of what an event loop, a thread or the container runtime repeats:

* engine and pipeline: the message loop, the writer, the sweep's timer, the restart (`restart: on-failure` in
  `gtt_v2/docker-compose.yml`); each loop catches exceptions per iteration and goes on. Of the ingestor, that a
  handler once begun runs on and the AI call returns;
* client: an answer or a timeout comes, a back-off ends, time passes, and the capital refresh asks once a day; placements and
  sweeps need not come. `RecoveryCloses` has "the broker is well for good" as its antecedent;
* tracker: both tasks and the engine's writer;
* monitor: the handling of a tick once begun, and the passing of a minute. That ticks come is
  an antecedent of `MissedEntryExpires`, not an assumption;
* v1 stream: the strategy, the metadata thread and the container's start. Removing a stale `app.pid` is
  an operator's act and not fair: `BacklogIsHandled` names that exception;
* v1 ledger: a handler runs to its end, and the reconciliation and the poll recur.

Nothing is assumed of posts, ticks, payloads, requests, broker or faults. `DayGuard` and `SignalRules` claim safety only.
Two ways for a process to stand still are outside these assumptions: the write queue's `stop()` at shutdown, which clears its
running flag before `join()` (`gtt_v2/shared/db/writer.py:41`), and the monitor's exit with code 0 after a crash
of either task, which `on-failure` does not restart (`gtt_v2/services/price_monitor/main.py:424`).

**Every property can fail.** For each property of a passing run, `PROJECT.json` names a mutant: an
operator with a plausible bug (a dropped guard, a swapped order, a missing reset) beside the one it
replaces, under which TLC finds the property violated.

## 4. Proofs

TLAPS checks the theorems for every value of the constants; the assumptions are those stated next to the
constants (`MsgAssumption` and `BoundAssumption`, `PostAssumption`, `RuleAssumption`, `GuardAssumption`, `BucketAssumption`, `ClientAssumption`,
`PriceAssumption`, `RequestAssumption`, `MonitorAssumption`, `StreamAssumption`, `LedgerAssumption`), which TLC evaluates in the module's run. They give the
constants their types, let batches and the set have room for something, say which targets the v1 signal has
(the first, or the first and second), and that a bucket is full again before its key expires, as every row of `RATE_LIMITS` is.

| Module | Theorem | Establishes | Argument |
|---|---|---|---|
| `TradingEngineProofs` | `TypeCorrect` | `[]TypeOK` | inductive as it stands |
| | `RowsDecidedOnce` | `[]DecidedOnce` | inductive: `RowDiscipline` says who may decide a row now (its message, its one queued outcome, the sweep) and `OneOutcome` that the queue holds one outcome per row; each action hands a row on by at most one stage |
| | `EngineImplementsContract` | `ImplementsContract` | `DecidedOnce` makes each step one step of `SignalContract` or a stutter, though no UPDATE of the engine looks at the status it overwrites |
| | `OrdersAreBounded` | `[]OrdersBounded` | `OrdersCounted`: orders created so far are bounded by the attempts made so far |
| | `LossIsExcused` | `[]NoSilentLoss` | `AcksSettled`: whatever is acknowledged has left a trace; `ClaimsTended`: a claimed row has its message or its outcome |
| | `OrdersAreRecorded` | `[]KnownOrderIsRecorded` | `OrdersRecorded`, over the order of the jobs in the write queue: the legs of a GTT lie ahead of its ids |
| | `WritesAreInOrder`, `EngineHandsOver` | `[]WritesInOrder`; `HandedOver`: legs and ids reach the database at most once, each leg before the ids | `InOrder`: the queued writes of a hash are ranked entry, target, stop, ids, and come after those written; before the answer of the placement there are none (`Untouched`) |
| | `PipelineImplementsEngine`, `PipelineImplementsContract` | `Safety` of the engine, `ImplementsContract` | every step of the composition is an engine step, a `Publish`, or leaves the engine alone |
| | `IngestorCorrect`, `PostsEnterOnce`, `SignalsAreKept` | `[](TypeOK /\ Ingestor)`, `[]OncePerMark`, `[]SignalIsKept` | `Ingestor`: entries made and in hand are counted by the times the mark was set; a handler past the mark is marked |
| `SignalRulesProofs` | `TypeCorrect` | `[]TypeOK` | with the types of the adjusted prices |
| | `ExactEntriesAreBracketed`, `RatiosOutliveBuffers` | `[]ExactEntryIsBracketed`, `[]RatioOutlivesBuffers` | `Passed`: what a signal has behind it at each gate; `LegsOf` writes the placed legs in the raw prices, `BufferBounded` covers every row of the table and what none covers |
| | `EntriesAreInTime` | `[]EnteredInTime` | `Passed` and `MovesKeep`: an hour or a price that was seen stays seen |
| `DayGuardProofs` | `TypeCorrect`, `DaysStayBlocked` | `[]TypeOK`, `BlockedStaysBlocked` | `ShutIsFlagged`: the script that refuses sets the flag, and nothing clears it |
| | `BooksDoAgree` | `[]BooksAgree` | `BooksBalance`: Redis is ahead of the table by the P&L of the records under way |
| | `PeaksAreNoticed`, `MarksAreTrue` | `[]PeakIsNoticed`, `[]MarkIsTrue` | `NoticeInv`: the record that reached the limit carries the news with the total it got itself, not one it reads |
| `UpstoxClientProofs` | `TypeCorrect`, `BurstsAreBounded` | `[]TypeOK`, `[]BurstBounded` | inductive: what the script would compute equals the level |
| | `OpenCircuitShields`, `OpenCircuitLasts` | `[]OpenShields`, `OpenLasts` | every send asks the breaker; `Sleeping` relates steps and attempts |
| `OrderTrackerProofs` | `TypeCorrect`, `StoredPricesAreFills` | `[]TypeOK`; every price stored, held or sent is one of a fill | `PricesAreFills` follows the prices through updates, tasks and row |
| | `SignalBookedOnce` | `[]BookedOnce` | inductive: a task with a current view (`Holds`) finds the row not closed, and whoever writes an open row makes the others' views stale |
| | `FinishedTradesAreBooked` | `[]FinishedIsBooked` | inductive beside `BookedOnce`: only a task's last write closes a row, and that task then stands before `record()` until a fault or the booking |
| | `ClosedRowsTellTheTruth`, `ClosedRowsStayClosed` | `[]HitTellsTheTruth`, `ClosedStaysClosed` | from the three before |
| | `TrackerImplementsLife` | `ImplementsTradeLife` | `EntryIsKept`: while no write was stale, an ACTIVE row has its entry price, and a task whose view is current holds the row's; `GainIsBooked`: before the booking the total is 0, and what stands before `record()` is the row's own P&L; with them each commit is a step of `TradeLife` or a stutter |
| | `ManualTypeCorrect`, `ManualBookedOnce` | `[]ManualCore`, `[]BookedOnce`, under the writes of any number of requests | the tracker's own lemmas, step by step, with `Mark` as one more writer that makes views stale |
| | `ManualImplementsLife` | `ImplementsTradeLife`, under the same writes | the tracker's steps as before; a `Mark` with a current view ends the trade, any other tears it |
| | `CleanAnswersMeanDead`, `SoleExitsNeverReverse` | `[]CleanAnswerMeansDead`, `[]SoleExitNeverReverses` | `Routed` (which endpoint leads to which step); `Cleared`, a request that has cancelled its GTT; `SoleExit`, which follows the position from the look-up to the sale |
| | `TrackerKeepsToRow`, `ManualKeepsToRow` | `KeepsToTradeRow`, alone and beside the requests | `RowIsKept`: an update that ends the GTT names its state, a task at work has a row in `gtt_rules`, and one that is past the entry has its price in the row before it writes ACTIVE or HIT |
| `PriceMonitorProofs` | `TypeCorrect` | `[]TypeOK` | inductive |
| | `TouchesAreKept` | `[]TouchIsKept` | `TouchInv`: a touch is in the copy only if it is in the database, queued or dropped |
| | `ExpiriesWereMissed` | `ExpiryWasMissed` | from `TouchInv` and what a tick leaves for the steps after it |
| | `ExpiredRowsHaveNoOrder` | `[]ExpiredMeansCancelled` | `OrderInv`, over the placement, the id writes and the cancel, and `Placed`: whatever names the order was written after it was placed; every step of `TradeRow` keeps both |
| | `KnownFillsAreSpared` | `KnownFillIsSpared` | `SettledInv`: only a copy read before the fill was stored leads to a cancel |
| `SignalStreamProofs` | `TypeCorrect` | `[]TypeOK` | with `InBatch`: the entry at hand lies in the batch and the batch in the stream |
| | `OrdersAreCounted` | `[]OneOrder` | `OrdersCounted`: an entry that is handled is marked, or a slip was counted |
| | `NoEntryIsSkipped` | `[]NothingSkipped` | `Positions` and `Idle`: saved, read and worked positions are ordered, and what lies below is handled |
| | `StreamImplementsLog` | `ImplementsEntryLog` | `Ahead`: base and saved position lie behind the entry at hand or next to be read, so with `Positions` and `Idle` it is that entry's `Turn`; the invariants of the other theorems give the rest of each step |
| | `SignalsPublishedOnce` | `[]PublishedOnce` | `HashesKept`: a hash that passed is in the set until it is evicted, at every await of every handler |
| | `OrdersAreBooked` | `[]OrderIsBooked` | `Booked`, over the jobs of an entry in the queue |
| `SignalLedgerProofs` | `TypeCorrect` | `[]TypeOK` | inductive |
| | `CopyStaysCurrent`, `HitsArePlaced`, `PnlsAreOwn`, `ExitsAreFinal` | `[]CopyIsCurrent`, `[]HitIsPlaced`, `[]PnlIsOwn`, `ExitIsFinal` | `Ledger`: `Turns` (the fallback writes only after the tracker has stopped for good), `Reports` (payloads, rules and the held fill speak of orders that were placed), `Copies` (the cache agrees with the row) |

Only model-checked: all liveness properties (liveness under fairness and ENABLED are beyond
the prover). Every invariant and action property of a passing run has its theorem.
`KeepsToTradeRow` is proved and not listed by a run; TLC finds it kept on the instances of `tracker` and `manual`.
The refinement proofs cover safety: the `Spec` of `SignalContract`, `TradeLife` and `EntryLog` has no fairness, so each is covered whole.
`DayGuard` has no such theorem: a guard that adds, compares and shuts in one step is not what the code implements, since between
INCRBYFLOAT and the flag an order may still be admitted; `PeakIsNoticed` says what remains of it.

## 5. What is not modelled

* **Ingestor**: the context window (written, never read by the parser), the look-up of the groups, the Telegram session.
* **Engine**: dry-run placements, shutdown (`stop()` and `join()` of the writer).
* **Gates and rules**: `resolve_lot_size`, `rules/lot_splitter.py` (called by nothing but its test), the
  `trade_count` of the table, targets after the first.
* **Client**: which fields are read from an answer's body, `aclose`; the other endpoints go through the same `_request`.
* **Tracker**: the `order_updates` log, partial fills before they are averaged.
* **Admin API**: lists, summaries, health and HTML, which read only; the manual signal, which appends an entry as
  `Publish` does.
* **Monitor**: the engine's two-minute sweep as a writer beside it, price events, the rule behind `USE_ENTRY_TOUCH_LOGIC=false` (kept only as a mutant), its clean exit after a crash.
* **v1**: the web bridge, the trimming of the processed ids at 10000, `processed_ids` (it decides nothing that
  `last_id` does not), logs, authorisation; the fallback running beside the tracker (`README.md` calls the tracker the source of
  truth, and the fallback is not started by default); a second reconciler after a reconnect.
* **Parsing, instruments, generated code, tools, deployment**: conversions and set-up without
  shared state; whether a text parses, and which texts share a hash, are all the others depend on.

## 6. Plan

Done, in this order: `SignalContract` and `TradingEngine`; `OrderTracker`; `PriceMonitor`; `SignalStream`;
`SignalLedger`; their runs and first theorems; then the parts around them: `UpstoxClient` with `TokenBucket`, `DayGuard`, `SignalPipeline`,
`ManualActions`, `SignalRules`, their theorems, and those about the order of the write queue and the booking of finished trades; then `TradeLife`, `EntryLog` and `TradeRow`,
and the proofs that tracker and v1 pipeline implement the first two and that tracker and requests keep to the third.

What would come next:

1. `OrderTracker` with partial fills and their average, and its `record()` replaced by `DayGuard`'s steps.
2. `SignalStream`: the web bridge as second producer, and the trimming of the processed ids.
3. `SignalLedger`: prices compared with the fills they stand for, under the conditions where a limit is not taken for a fill;
   the fallback beside the tracker.
4. The shutdown of the engine, as a step that drains or loses the write queue.
5. The engine's sweep beside the tracker: its UPDATE to EXPIRED (`gtt_v2/services/trading_engine/main.py:386`) follows a network call and
   names no status, as `Mark` of `ManualActions` does for CANCELLED. The same step belongs in `TradeRow`, and the monitor's guarded UPDATE to EXPIRED
   among the tracker's other writers.
6. Proofs: the price monitor and the v1 ledger against abstract specifications of their own.
