# Market data streaming and pricing: TLA+ models

This directory specifies the trading stack of this repository in TLA+: how it
takes in trade actions, streams market data, prices trades and measures books.
TLC checks each model on small instances; TLAPS proves every safety property
that the passing runs check for every value of the constants.

All paths below are relative to `services/` of the repository unless they start
with `shared/`, `db/` or `tests/`.

## 1. The system

Seven Python services (bottle, one thread per HTTP request except in
books-service) share one PostgreSQL database and talk over HTTP and
server-sent events (SSE).

```
 trade-generation --POST (retried)--> trade-action --commit--> trades, valuations
        |  GET /books, /symbols                                     |  read every 5 s
        v                                                           v
 books-service   market-data --SSE /stream--> pricing --SSE /valuation-stream--> blotter
                      |                          |                                 |
                 spot prices (DB)          valuations (DB)                     UI, GET /trades
 monitoring: GET /health of all of them
```

### Components

| component | state it keeps | operations | correct when |
|---|---|---|---|
| trade-action-service, `worker.py`, `trade_action_service.py`, `app.py` | bounded `trade_queue`, counters, tables trades and valuations | POST single and batch, the worker's handler for OPEN_TRADE and CLOSE_TRADE | a resent request acts once; a trade is closed once, with one closing valuation; no queued payload is lost or miscounted |
| its status board, `metrics.py` | `recent_actions`, `recent_rejects`, latency and throughput windows | `record_*`, `build_status` | waiting work is shown as waiting, finished work with its result; the throughput is that of the last minute |
| trade-generation-service | `generator_state` | start, stop, status, generate-once, generate-batch | two `/start` make one generator; it stops when told; `is_running` does not lie |
| shared `decorators.py`, `audit.py`, `db.py`, `repositories.py` | none (sessions) | `retry`, `AuditLogger.write`, queries, `FOR UPDATE` | a retry is not a second effect; an audit failure does not lie about a commit |
| market-data-service, `worker.py`, `app.py` | snapshot and subscribers under `data_lock`, two unbounded queues, the batch buffer | tick cycle, `/stream` join and leave, `db_worker`, `metric_worker` | streams are whole and in order, the snapshot is not behind them, dead clients are removed, ticks are stored |
| market data simulator | random walks | one `generate_*` per instrument | prices stay positive |
| pricing-service, `worker.py`, `calculation_service.py`, `cache_service.py`, `app.py` | `active_trades_cache`, `valuations_store`, `sse_subscribers` | cache refresh, pricing thread, `/valuation-stream` | what is stored is saved and reaches every reader; closed trades stop being priced |
| pricing formulas | none | bond PV, FX forward, Black-Scholes, swap legs | arithmetic |
| book metrics, `book_metrics_service.py` | last levels, rolling windows, `metrics_store` | `on_benchmark_tick` | book and index returns are aligned; metrics match the window |
| blotter-service reader, `worker.py`, `cache/` | `valuation_cache` | read the stream, reconnect | ends up showing the pricing store |
| blotter-service API, `trades_service.py` | none (reads cache and database) | trades, summary, health | an answer misses no trade, whatever is inserted meanwhile |
| books-service | one shared SQLAlchemy session, table books | create (batch), update, delete | the generator brings a deleted book no new business; a failed request does not poison the next |
| monitoring-service | `previous_states`, error window, `status_payload` | probe cycle | each outage is counted once and expires; the page follows the services |
| migrations, compose file, API tests | schema, configuration | | read for the constraints and claims they contain |

### What is hard

* **Concurrency.** HTTP threads, a worker and clients share the bounded queue;
  `/stream` and `/valuation-stream` threads join and leave while another thread
  publishes; the pricing thread works on a copy of a cache that is replaced
  meanwhile. Four locks guard different parts of this, and some reads take none:
  `/start` and `/stop` share `generator_state` without a lock, and the blotter's
  requests iterate over a dict that its reader extends.
* **Failure.** Every database call may raise. The audit log is written in a
  transaction of its own, also in `except` branches, so the handling of a
  failure may fail. Queues, stores and counters are in memory; a process that
  restarts forgets them while its clients go on.
* **Delivery.** `fetch_json` gives up after 5 s and resends; SSE connections
  break and queued messages go with them.
* **Limits.** `queue.Queue(maxsize)` and 503, `get_trades(limit=50)`, a deque of
  100 returns, a history of 20 valuations, 50 recent actions, windows of 60 s
  and 300 s that are pruned only when somebody looks.

`PROJECT.json` lists each hazard with its line and the properties that cover it.

## 2. Modules

| module | what it is |
|---|---|
| `TradeLedger` | abstract: what the tables promise. A request opens at most one trade; a trade is closed at most once and gets its one closing valuation in the same step. |
| `TradeAction` | trade-action-service with its clients, queue, worker, tables, failing calls and restarts. Implements `TradeLedger`. |
| `TradeActionProofs` | the theorems about `TradeAction`: types, tables, idempotency, refinement, counters, losses. |
| `StatusBoard` | `metrics.py` between handler threads and the worker: recent actions and the throughput window. |
| `StatusBoardProofs` | the theorems about `StatusBoard`. |
| `Broadcast` | abstract: what `/stream` promises. Every tick goes to all members at once; members come and go between two cycles only. |
| `MarketFeed` | market-data-service: the tick worker under `data_lock`, `/stream` threads, storage and metrics workers. Implements `Broadcast`. |
| `MarketFeedProofs` | the theorems about `MarketFeed`, the refinement of `Broadcast` among them. |
| `Valuations` | pricing-service's cache refresher, pricing thread and stream threads composed with the blotter's reader. |
| `ValuationsProofs` | the theorems about `Valuations`, and lemmas about its operators on queues, snapshots and histories. |
| `BookMetrics` | sampling of books against the benchmark. |
| `BookMetricsProofs` | the theorems about `BookMetrics`. |
| `Books` | books-service: requests on one shared session, DELETE in two steps. |
| `TradeGenerator` | trade-generation-service: `/start`, `/stop`, generator threads, building and sending intentions. |
| `TradeDesk` | composes `TradeGenerator` and `Books` with trade-action-service's queue and commits. |
| `TradeDeskProofs` | the theorems about `TradeDesk`. |
| `Monitoring` | monitoring-service: probe cycle, transitions, error window, status page. |
| `BlotterApi` | the blotter's requests that iterate over the valuation cache while the reader extends it. |
| `OpsView` | composes `Monitoring` and `BlotterApi` with services that fail and come back. |
| `OpsViewProofs` | the theorems about `OpsView`. |
| `Counting` | lemmas for the proofs: how many elements of a queue are in a set after put, get and batches, and the least element of a set of numbers. No model uses it. |
| `MC...` | instances for TLC: model values, symmetry, constant functions. |

In every module a definition whose comment says *Slip* is a plausible bug in the
definition that follows. No specification uses it. Substituting it must make the
property named with it in `PROJECT.json` fail, which shows that the property can
tell correct code from incorrect code.

### TradeAction and the code

| state | code |
|---|---|
| `status`, `openedBy`, `closing`, `metadata` | table trades (status, client_request_id, metadata_payload) and the number of closing rows in valuations |
| `queue`, `worker` | `worker.trade_queue`, and the program counter of `trade_action_worker` with its payload and whether it has committed |
| `handler` | the threads of `ThreadingWSGIServer`, each with the payloads it has still to put |
| `client` | `send_to_trade_action_service` under `@retry`, or any other caller: attempts and the open connection |
| `metrics` | the counters of `metrics._state` |
| `asked`, `closedBy`, `promised`, `dropped` | history variables that only properties read |

The worker's handler is cut where another thread or the database can intervene:
audit write, lookup, duplicate branch, insert; lookup of the trade, row lock,
refusal; commit, audit write after it, counting; and the `except` branch with an
audit write of its own. Each of these may raise (`Raised`). The bound
`MaxFaults` limits how often.

A commit that raises is modelled as not applied. Malformed fields (a
`close_price` that is not a number) raise inside the handler, and are among the
raising calls.

### MarketFeed and the code

`pc` follows `market_worker` through one loop. `publish_tick_to_stream` is
`LockStream`, then one `PutTick` per tick while `data_lock` is held (`Locked`).
Joining and leaving wait for the lock; reading one's own queue does not. A
client's disappearance (`Disconnect`) is seen only by a write (`WriteFails`).
`DbWorker` is one turn of `db_worker`: it builds the records of a cycle and
saves them, or meets a tick without a symbol, raises and clears the buffer.

The refinement mapping to `Broadcast` takes `subscribers` for the members, what a
client has taken and what waits in its queue for what it was sent, and reads off
`pc` which tick was published last; putting one tick on the queues is one
`Publish`.

A cycle has the eight real instruments in their real order. `persist_curves`
and `persist_full_snapshot` are never called and have no action.

### Valuations and the code

`feed` follows `pricing_worker` around its stream (`FeedStart` to `FeedExcept`)
and `connection` is the `connection_status` that `/health` reports.
`refresher` alternates between `get_trades` and the swap under `cache_lock`.
`step` follows the pricing thread: take a tick and copy the matching trades,
then, trade after trade, store, save, publish. A stream thread registers its
queue, then copies the store, then yields that copy and after it its queue
(`conn`, `snap`, `inbox`). The blotter's reader (`blotter`, `link`) updates
`history`.

Yielding and reading are one step. What is in flight when a connection breaks
is the rest of `snap` and `inbox`, which the reader never sees. `Drop` is a
broken connection, a 30 s silence or a stream that ended. A query is the set of
positions in `created` it selects (`Active`, `NewerThan`, `NewestActive`). The
trades table is
changed by `Open` and `Close`, the commits of trade-action-service.

### BookMetrics and the code

A benchmark tick is one step (`Observe`), because the pricing thread runs
`on_benchmark_tick` between two pricings and the API only reads. A return is the
pair of observations it was formed from, so that "aligned" can be stated
exactly. Values are integers because only zero and non-zero differ in the
control flow (`simple_return`). A tick that is not observed is `Miss`.

### StatusBoard and the code

`actions` is `recent_actions`, `stamps` is `accepted_timestamps`, both newest and
oldest first as in `metrics.py`. A handler thread (`handler`) validates, puts,
and only then records (`Put`, `RecordAccepted`); in between the worker may take
the payload and record its result (`Get`, `RecordResult`). An audit write that
raises skips what would be recorded after it (`LoseResult`, the second disjuncts
of `Reject` and `Overload`). A time stamp is an age that `Tick` increases; a
thread reads the clock up to `MaxWait` before it has the lock (`now`). `evicted`,
`tardy` and `lost` are histories.

### TradeDesk and the code

`Books` runs one request at a time, as bottle's default server does (`Free`), on
the session `db`. `session` is "failed" after any exception but `ValueError`
(`Breaks`), and only `CreateBooks` repairs it. `deleting` is the book between
`count_active_trades` and the commit of `delete_book`.

`TradeGenerator` has one program counter per thread (`actor`): a generator thread
checks `is_running`, builds, sends, sleeps; a request builds up to `BatchSize`
intentions. `/start` is three steps: test and set, create the thread, start what
`generator_state["thread"]` holds by then. CPython 3.11, which every Dockerfile
names, switches threads at calls and loop ends only, so nothing comes between
the test of `is_running` and the assignment behind it.

`TradeDesk` joins them with trade-action-service. An answer of GET /books becomes
the `books` of an actor, from which it picks one. An attempt to POST the payload,
or the batch, that is answered 202 puts all of it into `intake`; one that fails
may have put any first part of it there, and is repeated, up to `MaxAttempts`
times (`Send`, `SendFails`). `PostDirectly` is every other caller of
POST /trade-actions: it may ask for a trade in any book that has a row, active or
not, or for the close of any trade, under any `client_request_id`. `Process` is
the worker: it opens a trade unless one with that `client_request_id` exists
(`openedBy`, `Existing`), whether the book is active or not, or closes one.
`intake` is a set, and a payload that is taken may stay in it: so there may be
any number of copies, and they come in any order. `retired`, `stragglers` and
`direct`, the requests of other callers since DELETE counted, are histories.

### OpsView and the code

`Monitoring` probes one service after the other (`current`), and `Publish` does
what one pass of `monitoring_worker` does with the results. `errors` is
`_error_events` with ages for times, as a set: two events are equal only when
they are past the window, where the next pass prunes both. In `BlotterApi` a
request remembers the size of the dict when its iteration began; `Advance` is
one turn of the loop, and fails if the size has changed. `OpsView` lets the
monitor's probe of the blotter be such a GET /health. A probe of a service that
is up may also time out (`ProbeTimesOut`); nobody then waits for the answer any
more. Restarts of the blotter empty its cache; a probe under way is broken.

## 3. Runs

| run | instance | question |
|---|---|---|
| `trade_safety` | 2 requests, 2 trades, 1 client that sends batches of up to 2 and resends once, 2 handler threads, queue of 1, 2 raising calls | do resends, batches that stop half-way, a full queue and failures leave tables and counters right? Checks the refinement of `TradeLedger`. |
| `trade_live` | the same with single requests and 1 handler, fair, 1 fault, 1 restart | does the queue drain, and does the database alone keep requests from acting twice after a restart? |
| `close_retry` (violation) | 1 client, 2 attempts | is a resent close a duplicate? No. |
| `late_failure` (violation) | 1 fault | is what is audited as failed rolled back? No. |
| `feed` | fair, 1 connection, 3 cycles of 8 ticks, saves that work and that fail | does the feed implement `Broadcast`? Is a stream whole and never ahead of the snapshot? Are dead connections removed, and is storage work taken? |
| `feed_benchmark` (violation) | saves always succeed | is every benchmark tick stored? None is. |
| `status_board` | 2 interchangeable requests submitted twice, 2 handler threads, batches of up to 2, queue of 2, a list of 2 actions, a window of 1 and delays of up to 1 | can the board lose sight of waiting work, or show finished work as waiting? Is the throughput right although stamps arrive out of order? |
| `desk` | 2 books, 2 names, 2 trades, 2 generator threads, 2 requests at a time, 4 requests of clients, 2 intentions sent in up to 2 attempts, 1 raising statement, 1 request id of other callers, 1 book per POST | what can a deleted book still take in, and from whom? How many generators can run, how long after a stop? What repairs the session? |
| `ops_view` | fair, the blotter and one other service, 2 outages or slow answers, 2 trades, 1 summary, a window of 2 cycles | does the page follow the services? Are its error counts the outages of the window? How many false alarms can concurrent inserts raise? |
| `val_stream` | fair, 1 trade, 2 connections one after the other, 2 valuations, a history of 1, 1 fault, 1 restart | does the reader miss a valuation, does it settle on the store, does the feed recover, and is its reported state right? |
| `val_cache` | fair, 2 trades on one symbol, 1 connection, a cache limit of 1, a history of 2, 1 fault | are valuations queued in order when trades are repriced together? Does the pricing of closed trades end, and do new ones enter the cache? |
| `book_metrics` | 3 trades in 2 books, values -1, 0, 1, 5 ticks, window 2, 1 restart | are the series aligned and the metrics fresh? |

### Properties in words

*TradeAction.* `OneClosingValuation`: a CLOSED trade has exactly one closing
valuation, any other none. `ConstraintNeverFires`: what the OPEN_TRADE lookup
found still holds at the commit. `Accounted`: accepted payloads are in the
queue, in work, or in exactly one counter. `ProcessedAreEffects`: "processed"
counts changes of the table. `LossesAreFaults`: every lost payload cost a
raising call. `ActsOnce`: no request changes the tables twice. `LedgerSpec`:
the refinement. `Drains`: liveness.

*MarketFeed.* `StreamWhole`: a stream starts with a whole cycle and has no gap
or repetition. `SnapshotNotBehind`: what the stream has shown, /snapshot shows
too. `FeedSpec`: the refinement, which also says that no subscriber is skipped.
`DeadLeave`, `DbDrains`: liveness.

*Valuations.* `NothingMissed`: once a reader has read what is on its way, it
shows the stored valuation. `QueueInOrder`: on a queue valuations only get newer.
`SavesAccounted`: a missing row cost a raising call or a restart.
`ConnectionShown`: `/health` says CONNECTED while the stream is read and
DISCONNECTED when it is lost or the pricing thread is dead.
`BlotterSettles`, `OpenReachesCache`, `FeedRecovers`: liveness, and so is
`ClosedPricedNoMore`: a closed trade leaves the cache for good, and what had been
copied from the cache for pricing before is worked off.

*BookMetrics.* `Aligned`: the two returns of a pair span the same interval.
`Chronological`: intervals follow one another. `MetricsFresh`: the metrics served
are those of the present window.

*StatusBoard.* `WaitingIsShown`: per unfinished copy of a request there is an
entry "waiting in buffer", unless it fell off the list or is about to be added.
`DoneIsShown`: a finished request's newest entry says QUEUED only if the worker
overtook the handler, or the result was never recorded. This is how far the
board can be trusted: `tardy` shows that the first case does occur.
`ThroughputRight`: no acceptance of the last minute is dropped, and nothing older
than the window by more than two delays is counted.

*TradeDesk.* `DeletedTakesNoMore`: after DELETE has counted, trade-generation-service
brings the book no business but that which was under way at that moment. What is
under way are answers of GET /books that list the book, and payloads, carried,
being sent or not finished, whose request has opened no trade yet: a payload that
is sent three times is one opening, because the worker looks the request up. An
active trade in a deleted book is therefore possible, and bounded, unless another
caller of POST /trade-actions asks for it. No service refuses such a request, not
even after the deletion, since the worker never reads `is_active`; the property
names these requests (`direct`) and excludes nothing else.
`OneMoreAtMost`: a thread generates at most one intention after a stop, which
answers the TODO at `trade-generation-service/app.py:74`. `RunningMeansAlive`:
`is_running` without a generator needs an audit write that raised.
`TwoOnlyAfterRestart`: two generators need a stop and a start within one
iteration of the old one. `OnlyPostRevives`: a failed session is repaired by
POST /books and by nothing else.

*OpsView.* `ErrorsAreOutages`: the counts on the page are the outages of the
window. `PageFollows`: in the end the page shows the state of every service and
of the environment, and the error counts go back to zero. `FalseAlarmsBounded`: a
blotter that is up answers a probe with an error at most once per trade that is
new to its cache. `SummaryWhole`: a summary that is answered misses no valued trade.

### Why the bounds are enough

* Two requests and two trades are the least with which a duplicate can meet
  another request, and two closes can compete. Two attempts are one resend, and
  two handler threads let the resent request overtake the first one. A queue of
  one is full as soon as it is used, so full, empty and racing puts all occur.
  Batches of two stop half-way. Two faults let a call raise and the handling of
  that failure raise as well.
* Of three cycles the first is only the initial snapshot; the two that are
  streamed have a boundary between them. With eight ticks each, a connection can
  join, break and leave at any of sixteen places. Connections share nothing but
  the lock and the list of queues, so one is checked.
* Two valuations overflow a history of one and give an old and a new one; two
  connections are one reconnect; the last connection cannot break, which bounds
  the reconnects and nothing else.
* A list of two actions evicts as soon as a third entry comes; two requests that
  may be the same one give an old and a new entry of one request, and a result
  that finds none. Delays of one make two handlers' stamps change places, and a
  window of one makes them matter.
* Two generator threads are one restart. Four requests are enough to create a
  book, generate, delete it and post to it directly, to start, stop and start
  again, and to fail and repair the session; two intentions let a straggler meet
  a generator that goes on. Two attempts are one resend, and after the first one
  a payload may be processed, be lost and come again. Other callers use one
  request id for whatever they ask, so that a second use of it occurs.
* Two services give all three states of the environment. Two outages within a
  window of two cycles are counted together and expire one after the other; either
  may be a probe that only timed out. Two
  new trades change the dict under two different probes.
* A window of two rolls over at the third pair; five ticks contain a seed, a
  missed tick and a restart followed by new pairs.

Every action of each module occurs in some passing run. Clients, handlers,
requests and trades are interchangeable, and `trade_safety` and the two
violation runs of `TradeAction`, `status_board` and `desk` use that symmetry; no
run with a liveness property does.

`CHECK_DEADLOCK FALSE` is set throughout: clients and trades are finite in an
instance, so a run may come to rest. In the program it would wait for the next
request.

### Fairness

`FairSpec` assumes what the operating system and timeouts provide. Every thread
that can take a step eventually does (weak fairness on the worker, handler,
stream and refresher threads). `urlopen` has a timeout, so a client's waiting
ends. A broken connection can be reopened. `Leave` in `MarketFeed` has strong
fairness, because it waits for a lock that `market_worker` takes again in every
cycle and releases in between. No fairness is assumed of anything the
environment decides: requests, trades, ticks, disconnections, faults, restarts.

`FeedOpened` in `Valuations` has strong fairness: market-data-service may refuse
any number of times, and is reached in the end. In `OpsView` the monitor's
thread and the blotter's health request are scheduled; services need not fail,
and need not come back, but the probes of one that is up time out only finitely
often; `PageFollows` assumes nothing of the blotter's reader. The runs
`status_board` and `desk` check safety only.

The liveness properties name the ways out the code really leaves: a queued
request may fail to act if a call raised or the process restarted (`Drains`); a
reader whose audit write raised is dead (`BlotterSettles`, `FeedRecovers`). That
the blotter's reader and the pricing thread can die in this way is what the code
does; nothing restarts them. `ConnectionShown` says that `/health` of the pricing
service then shows DISCONNECTED.

## 4. What is proved

Every invariant and every step property that a passing run checks is a theorem,
and so are both refinements. The assumptions are those of the modules: bounds
are natural numbers, limits of queues, lists and histories at least 1, null
values differ from what they stand in for. No theorem has another hypothesis.

An invariant is proved from an inductive one, here called by its name in the
proof module. A module that extends the run's module and the proof module lets
TLC check it on the run's instance, and TLC finds each of them invariant
there. The last column says why the property alone is not inductive.

### TradeActionProofs

For any number of requests, trades, clients and handlers, any queue size, any
number of faults and restarts:

| theorem | statement | argument |
|---|---|---|
| `TypeCorrect` | `Spec => []TypeOK` | `TypeInv` strengthens `TypeOK`: attempts stay below the maximum before a send (`AttemptsLeft`), the worker has a job unless it waits (`JobTyped`), a handler about to count an acceptance still has that item (`AcceptHasItem`). Without them, `attempt + 1`, `worker.job.rid` and `Head(items)` are not typed. |
| `ClosingCorrect` | `Spec => []OneClosingValuation` | `TableInv`: at the commit of a close the trade is still ACTIVE, because only the worker changes status and the row lock precedes the check (`LockHolds`); the program counter determines the action in work (`PcAction`). |
| `LookupCorrect` | `Spec => []ConstraintNeverFires` | the same `TableInv`: between lookup and commit no other step writes `openedBy`. |
| `ImplementsLedger` | `Spec => LedgerSpec` | the variables of `TradeLedger` are variables of `TradeAction`; `InFlightAsked` (whatever is held by a client, a handler, the queue or the worker was asked for) justifies the guards. Each step is a ledger step or leaves the ledger alone. |
| `RequestActsOnce` | `Spec => ActsOnce` | `OnceInv`: a client_request_id names one payload (`UniqueAsked`), so what opened a trade cannot close one. The rest is `LookupCorrect` for openings and the status for closes. |
| `CountersAddUp` | `Spec => []Accounted` | `AccountInv` adds that only finitely many handlers are between put and count, so that the cardinality moves by one when a handler does. |
| `ProcessedCorrect` | `Spec => []ProcessedAreEffects` | `EffectInv` adds that finitely many trades are open; a commit adds one row to one cardinality, and only a raising call comes between commit and count. |
| `LossesPaidFor` | `Spec => []LossesAreFaults` | `RowInv`: a row exists when a request opened it, nothing writes the metadata, a duplicate or refused payload has its effect. `LossInv` charges a payload when the call that works on it raises; `LossesAreFaults` alone would still count it as pending. |

### BookMetricsProofs

For any books, trades, fair values and window. The sum of fair values stays
uninterpreted, so these hold whatever value a book has:

| theorem | statement | argument |
|---|---|---|
| `AlignedAlways` | `Spec => []Aligned` | a book that has a last value was sampled at the last observation of the index (`SampledLast`), because a valued trade is never removed from the store and so its book is in every later sample (`ValuedStays`). |
| `ChronologicalAlways` | `Spec => []Chronological` | every interval of a window ended by the last observation (`Past`), where the next one begins; `RollIsWindow` says what a bounded deque keeps. |
| `MetricsFreshAlways` | `Spec => []MetricsFresh` | the early returns of `update_book_metrics` leave a window shorter than two pairs, or unchanged. |

### MarketFeedProofs

For any number of connections and cycles, and saves that work or fail:

| theorem | statement | argument |
|---|---|---|
| `FeedTypeCorrect` | `Spec => []TypeOK` | `TypeInv` adds that nothing is buffered or stored between turns of `db_worker`. |
| `NothingStored` | `Spec => [](spot = {})` | the IRS tick is in every cycle and has no symbol (`EveryBatchRaises`). The run `feed_benchmark` shows one lost tick; this says that all are lost. |
| `StreamsWhole` | `Spec => []StreamWhole` | `StreamInv`: a subscriber was sent the newest published tick or, before its first cycle, nothing (`SubscribersCurrent`), so that the tick put next is the one that follows. It needs the lock: nobody joins while a cycle is being put. |
| `SnapshotFirst` | `Spec => []SnapshotNotBehind` | `StreamInv` again: `SnapshotFollows` ties the snapshot to the cycle by the program counter. |
| `StreamsBroadcast` | `Spec => FeedSpec` | from `StreamInv`: `PutTick` is `Publish`; joining and leaving need `data_lock`, hence fall between cycles (`UnlockedIsBetween`); all other steps stutter or take the head of a queue (`FeedTake`). |

### ValuationsProofs

For any trades, connections, symbols, limits, faults and restarts:

| theorem | statement | argument |
|---|---|---|
| `ValuationsTypeCorrect` | `Spec => []TypeOK` | `TypeInv`: what is priced has a trade in hand, a stream that is read is registered, the refresher's result fits its limit (`NewestBounded`). |
| `ConnectionTold` | `Spec => []ConnectionShown` | it is inductive: each state of `pricing_worker` is entered by a step that writes the status, or follows one that did. |
| `StreamInOrder` | `Spec => []QueueInOrder` | `Queues`: all that is queued was priced before, and the valuation being published is newer than all of it on the queues that do not have it yet. |
| `EverySaveAccounted` | `Spec => []SavesAccounted` | `Paid`, with the type invariant: the set of missing rows grows only by a step that counts a fault or a restart. |
| `BlotterMissesNothing` | `Spec => []NothingMissed` | `AllCaught`: for every trade but the one in the pricing thread's hands, the last thing the link's history, snapshot and queue say is the store's valuation, or the copy is still to be made. A stream registers before it copies, so what is stored in between is in the copy or on the queue. `SaysAppend`, `SaysTail`, `SaysConcat`, `KeepLastEffect` and `SnapshotWhole` say what put, get, the snapshot before the queue, `update_cache` and the copy do to it. |

### StatusBoardProofs

For any number of requests, handlers and batches, any length of queue and list,
any window and delay:

| theorem | statement | argument |
|---|---|---|
| `BoardTypeCorrect` | `Spec => []TypeOK` | `TypeInv`: a request in work has an item, and stamps are in order up to one delay (`Ordered`). |
| `ThroughputCounts` | `Spec => ThroughputRight` | from `Ordered`: `_prune_throughput` stops at the first fresh stamp, and no stamp behind it is older by more than `MaxWait`. |
| `WaitingShown` | `Spec => []WaitingIsShown` | `WaitingInv` adds finiteness of the handlers between put and record. `BalancedNext`: what a step adds to one side it adds to the other; `AppendLeftEffect` and `UpdateEffect` say what `appendleft` at the limit and `_update_action` do to the waiting entries. |
| `DoneShown` | `Spec => []DoneIsShown` | `DoneInv`: a request whose newest entry says QUEUED has an unfinished copy, was overtaken, or lost its result. |

### TradeDeskProofs

For any books, names, trades, generator threads and requests:

| theorem | statement | argument |
|---|---|---|
| `OneMoreIntention` | `Spec => []OneMoreAtMost` | `LastOne`: a thread that has generated after a stop is past its test of `is_running` and will meet it next. |
| `RunningHasThread` | `Spec => []RunningMeansAlive` | `Going`: while the flag is set, a thread is alive or died of its audit write, or some `/start` will start one, also when another `/start` replaced `generator_state["thread"]` in between (`LaunchHasThread`). |
| `OneGenerator` | `Spec => []TwoOnlyAfterRestart` | `Lone`: without an overlap all engaged threads are one. |
| `PostRevives` | `Spec => OnlyPostRevives` | by cases of the requests. |
| `DeletedBookSafe` | `Spec => []DeletedTakesNoMore` | `DeskInv`: from DELETE's count on no GET /books that is answered lists the book (`Gone`), and its load never grows: its active trades that nobody asked for directly, the answers that list it, and the payloads for it whose request has opened no trade. A pick moves the load from the second to the third, an opening from the third to the first (`MovesSum`); a failed attempt adds only copies of what is carried, and a copy of a request that has opened its trade is no load (`DeskSend`, `DeskProcess`). A direct request joins `direct` and no part of the load (`DeskPost`). The sets counted are finite (`Finite`). |

### OpsViewProofs

For any services, window, pauses, trades and outages:

| theorem | statement | argument |
|---|---|---|
| `ErrorsCounted` | `Spec => []ErrorsAreOutages` | `PageInv`: the events within the window are exactly the beginnings of outages in the log (`EventsAreStarts`), of which no two have the same age (`CyclesApart`), and `previous_states` is the last cycle even after it has left the window (`LastKnown`). Ageing and pruning keep this (`WakeKeeps`, `CutEffect`), and then the count is a bijection (`EventsCountOutages`). |
| `AlarmsBounded` | `Spec => []FalseAlarmsBounded` | `AlarmsPaid`: an iteration that will fail is paid for by the trade that changed the dict, and a crash keeps what is paid. The property alone does not exclude a second failure of one insertion. |
| `SummaryIsWhole` | `Spec => SummaryWhole` | `AdvanceEffect`: an iteration ends well only at the size it began with, and at its end. |

### Checked by TLC and not proved

The liveness properties `Drains`, `DeadLeave`, `DbDrains`, `BlotterSettles`,
`FeedRecovers`, `ClosedPricedNoMore`, `OpenReachesCache` and `PageFollows`: they
hold under fairness, and need ENABLED, which the installed provers cannot treat.
The three violations are counterexamples, which TLC finds and a proof cannot.
What a recursive definition computes for every input would need induction over
data; the models that are proved about use none.

## 5. Where code and documentation disagree

1. *A resent close is an error.* The idempotency check of CLOSE_TRADE reads
   `metadata_payload["close_client_request_id"]`, which nothing writes (run
   `close_retry`).
2. *A committed action is reported as failed.* The audit write that follows the
   commit is inside the same `try` (run `late_failure`).
3. *No spot price is ever stored.* The IRS tick has no symbol; every batch of
   `db_worker` raises and is discarded, although the repository's README says
   that every benchmark tick is stored (run `feed_benchmark`). One consequence:
   `/symbols` stays empty, and the generator opens no trade from an empty
   database.
4. *Curves are published and never stored.* `persist_curves` is not called,
   against its own docstring and that of `db_worker`. No run shows this: the model
   has no action for a call that is not made.
   `update_curve_and_reprice_irs` then finds no curve, and no swap is priced.

## 6. Not modelled, and the plan

Not modelled:

* floating-point arithmetic (pricing formulas, the curve interpolation of swaps,
  the simulator, mean and covariance), which keeps no state and is out of TLC's
  reach;
* pure reads: GET /trades and its variants, /valuations, /book-metrics, /symbols,
  /status of the generator;
* `recent_rejects` and the sum of latencies of the status board, lists and sums
  that nothing else depends on;
* in `TradeDesk`, how many copies of a resent payload there are and in which order
  the queue hands them out: any number and any order are allowed, which is more
  than the code does (`TradeAction` has the queue). Requests the worker refuses
  for another reason than an existing trade are dropped without a word;
* books created several at a time: `CreateBooks` has batches of any size, and so
  do the theorems, but the instance of `desk` creates one book per request;
* texts, times and response times that monitoring-service passes through;
* logging, response formatting, database migrations, containers and API tests.

In monitoring-service and in the status board nothing is persisted, so a restart
is a new `Init` and has no action of its own.

Theorems to prove next: every safety property that is checked is proved. What is
left are facts no run states yet: type correctness of `TradeDesk`, `OpsView` and
`BookMetrics` as theorems of their own (their invariants contain it); that a
batch of `TradeAction` enters the queue in the order in which it was sent; an
abstract specification of the pricing store and its readers that `Valuations`
implements.
