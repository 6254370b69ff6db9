# Pyhron in TLA+

Pyhron is a trading platform for the Indonesian stock exchange, written in
Python (asyncio, PostgreSQL, Redis, Kafka). This directory holds its formal
models: TLA+ modules of the parts where orders, fills, signals, market data and
halts can go wrong, TLC configurations that explore them on small instances, and
proofs that TLAPS checks for every instance.

Contents: [the system](#1-the-system), [the modules](#2-modules-and-code),
[the runs](#3-runs), [fairness](#4-fairness), [the proofs](#5-proofs),
[disagreements with the documentation](#6-where-code-and-documentation-disagree),
[what is not modelled](#7-not-modelled), [the plan](#8-plan).

To check everything: `tlc -config <cfg> <module>` for each pair in section 3,
and `tlapm` on each `*Proofs.tla`.

## 1. The system

### 1.1 The life of an order

```
 raw records (Kafka)          strategies
        |                         |
 validation, writer,        pyhron.signals ------> PreTradeRiskEngine
 dead letters                     |                       |
        |                  paper trading consumer   risk-decisions (Kafka)
   market data                                            |
                 HTTP API                                 |
                    |                     (consumer path, see section 7)
     OrderSubmissionHandler.submit_order
        |   |        |        |
     Redis  |   broker adapter|             OrderTimeoutMonitor
   halt and |        |        |                  |  scan, expire
   breaker  |        |   OrderStateMachine.transition() <----+
     ^      |        |        |            |                 |
     |      v        |        v            v                 |
     |  order rows (PostgreSQL)      pyhron.orders.events    |
     |      ^        |                     (Kafka)           |
     |      |        v                                       |
     |      |     broker --- acknowledgements, fills ---> OrderFillEventProcessor
     |      |                                                |
     |      +------- trade log, position rows <--------------+
     |                           |
     +---------- PositionReconciliationMonitor --> breach event

 ExecutionEngine, OrderRouter --> connectors      TradeMatchingEngine (books)
 WebSocket gateway <-- Redis channels <-- Kafka bridge
```

An order is a row keyed by `client_order_id`, which is the idempotency key of
the request. Its status column has ten values and one transition table,
enforced by `OrderStateMachine.transition()`, which everyone is supposed to go
through. Nothing else is shared but the database, Redis and Kafka: there are no
in-process locks between these components, and every `await` lets another one
in.

### 1.2 Inventory

Paths are below `src/services/` unless they start with another directory.

| Component | State | Operations | What makes it correct |
|---|---|---|---|
| Status table (`order_management_system/order_state_machine.py`, enum in `data_platform/database_models/pyhron_order_lifecycle_record.py`) | none | `VALID_TRANSITIONS`, `TERMINAL_STATES` | the ten statuses, five terminal |
| Order state machine (same file) | order rows, events topic | `transition()`: validate, UPDATE, publish | the stored row follows the table, whoever else has the order; the topic tells what was committed |
| Order submission (`order_management_system/order_submission_handler.py`, `idx_order_validator.py`) | order rows, orders at the broker | `submit_order`, steps 0 to 9 | one broker order per idempotency key; no live order the database denies |
| Kill switch (`risk/kill_switch.py`) | three levels of Redis keys | `trigger`, `reset`, gate in `submit_order` | after a trigger nothing new gets to the broker, and what is there is cancelled |
| Circuit breaker (`pre_trade_risk_engine/circuit_breaker_state_manager.py`) | Redis keys with TTL | `halt`, `resume`, expiry | submissions stop while it is set |
| Fill processing (`order_management_system/order_fill_event_processor.py`) | order rows, trade log, position rows | `process_fill`, `_upsert_position` | each fill counts once in order, log and position |
| Timeout monitor (`order_management_system/order_timeout_monitor.py`) | objects of the last scan | `scan_and_expire` | orders past their TTL end; finished orders stay finished |
| Trade matching engine (`execution/trade_matching`) | two heaps, order table, counter, lock | `add_order`, `cancel_order`, `match_orders` | price-time priority, no crossed book, limits kept, each match reported |
| Reconciliation monitor (`order_management_system/position_reconciliation_monitor.py`) | breaker keys it set | compare, publish breach, set breaker | a lasting discrepancy halts trading; a difference it sees has a cause |
| Pre-trade risk engine (`pre_trade_risk_engine/`) | decisions and breaches it published | read a signal, run checks, publish a decision | one decision per signal, none lost |
| Kafka producer and consumer (`shared/kafka_producer_consumer.py`) | offsets, dead letters | poll, handle, commit, dead letter, send with retries | nothing committed that was not handled or kept |
| Execution engine, order router (`execution/execution_engine`, `execution/order_router`, `execution/exchange_connectors`) | queue, worker tasks, locks, counters | enqueue, dispatch, stop, route, call with retries | callers are told what the venue has; nothing queued waits for ever |
| Paper trading (`paper_trading/`, `apps/api/http_routers/paper_trading.py`) | session rows, buffered signals, offsets | create, start, pause, resume, stop, simulate; consume, batch and flush | a signal is executed once, and only for a started session |
| WebSocket gateway (`api/websocket_gateway/`, `api/main.py`) | connections, subscriptions, heartbeats | connect, authenticate, subscribe, broadcast, disconnect | registries agree; slots are freed; limits kept |
| Market data pipeline (`src/data_platform/consumers/`, `equity_ingestion/idx_data_validator.py`) | topics, producer buffers, the writer's batch, the tables | validate and route, write batches, retry dead letters | nothing vanishes; only valid rows are written; retries end |
| Broker adapters (`broker_connectivity/`) | connection | submit, cancel, query | outside service |
| Portfolio, PnL, exposure (`portfolio/`) | in-memory lots and totals | apply a trade | sums agree |
| Research, strategies, backtests, the rest of the data platform, HTTP layer, web application, deployment | - | - | sequential computation or input and output |

### 1.3 What is hard

* **A status validated against a stale object.** `transition()` checks the
  caller's ORM object and then runs `UPDATE ... WHERE client_order_id = ?`. The
  row may have moved since. A paper trading request does the same to a session.
* **A lock that ends too early.** `process_fill` reads the order `FOR UPDATE` in
  one transaction and writes what it computed in the next.
* **Four transactions per fill** with at-least-once delivery: a failure between
  any two, then the same fill again.
* **Gates read once.** `submit_order` reads the kill switch, the breaker and the
  position, and submits seconds later.
* **Lost answers.** The broker may have taken an order whose answer never comes.
* **Commit, then publish.** An event that fails to send leaves a committed row
  and raises in the caller.
* **Cancelling a coroutine that waits for a thread.** `stop()` cancels the task;
  the connector's SDK call goes on in its thread.
* **A commit that runs ahead.** The paper consumer commits offsets whose signals
  are still in its buffer; the market data writer's next commit passes records
  that an earlier batch failed to write.
* **A commit inside the handler's `try`.** In `PyhronConsumer.stream` a commit
  that raises sends a record to the dead letter queue that was handled.
* **Buffered sends.** `producer.send` without a flush, followed by a commit: a
  crash loses what is in the buffer.
* **Coroutines that disconnect each other.** Endpoint, heartbeat and broadcast
  may each remove a connection, and the endpoint's cleanup may raise first.
* **Keys that expire.** The breaker of a broken exchange has a TTL and is only set again while the market is open.
* **Retries that forget their count.** What a consumer writes back carries no count,
  and the last resort may be switched off by a default.
* **Batches that fail together.** One record the database refuses takes its
  batch with it, to a dead letter queue, and round again.
* **Lazy deletion in the heaps**, market orders at price 0, and an exception in
  the middle of the matching loop.

`hazards` in PROJECT.json lists each with its line and the properties that
cover it.

## 2. Modules and code

| Module | Models |
|---|---|
| `OrderStatuses` | the status values and the table; constant-level, extended by the order modules |
| `OrderLifecycle` | the abstract promise: the status column moves along the table, nothing more |
| `StatusHistory` | the abstract promise that is left when writers validate what they read earlier: a row takes a status only from one it has had |
| `OrderTransitions` | `transition()` as its callers drive it |
| `FillProcessing` | `process_fill` by any number of workers, and the timeout monitor beside them |
| `OrderSubmission` | `submit_order` with kill switch, breaker, broker and retries |
| `PositionReconciliation` | the reconciliation monitor, its breaker keys, and the orders whose fills it looks at |
| `TradeMatching` | the book of one symbol |
| `ExecutionEngine` | queue, loop, `start` and `stop`, router, and a connector's `submit_order` |
| `RiskEngine` | the risk engine on `PyhronConsumer` and `PyhronProducer` |
| `SessionLifecycle` | the abstract promise about a paper session's status |
| `PaperSessions` | the requests that change sessions; extended by the next |
| `SignalConsumer` | the paper trading signal consumer beside those requests |
| `WebSocketGateway` | connection manager, endpoints, heartbeats, broadcasts |
| `MarketDataRules` | the validation rules, constant-level; extended by the next |
| `MarketDataPipeline` | validation consumer, table writer, dead letter processor |
| `MC*` | constants for TLC |
| `*Proofs` | theorems about the module of that name; `OrderTransitionsProofs` also about `PositionReconciliation`, `MarketDataProofs` about `MarketDataPipeline` and `WebSocketGateway` |

`map` in PROJECT.json gives the lines each definition stands for. Operators
whose comment begins with "Mutant of" are not part of any specification: each
is a plausible slip in the named operator, used to confirm that the properties
would notice it.

Composition: `SignalConsumer` is the consumer and the sessions in one
specification, `PositionReconciliation` the monitor, the orders, the broker and the
breaker keys, `MarketDataPipeline` three processes and Kafka, `RiskEngine` the
engine on the shared consumer and producer. The order modules share
`OrderStatuses`. Rows are compared with two abstract specifications:
`OrderSubmission`, where a call is alone on its row, with `OrderLifecycle`;
`OrderTransitions` and `PaperSessions`, where writers overlap, with
`StatusHistory`. That `PaperSessions` does not implement the stronger
`SessionLifecycle` is in section 6.

**OrderTransitions.** A caller's record holds what the object in its memory
says (`seen`) and where it is: `Load` (SELECT), then `Refuse` or `Commit`
(validation in memory and the UPDATE), then `Publish`. `Fail` is a rolled-back
UPDATE, a `ProducerError`, or a lost process. Any caller may load any order at any
time: the submission service, the fill processor and the timeout monitor all have
objects of one order. `Targets` says which statuses a caller asks for. `past` and
`heard` are history: the statuses the row has had, and those the topic told. With
overlapping callers the row does not follow the table (MCOrderOverwritten); what is
left of it is `FollowsItsPast`, the refinement of `StatusHistory`.

**FillProcessing.** One record per order row (`status`, `filled`), the number of
trade log rows per fill and their sum per order, and a position per (strategy,
symbol). A worker takes a delivery and goes through `BeginFill` (first
transaction: read, check, look `fill_id` up), `ApplyTransition` or
`RaiseTransition` (second), `WriteTradeLog` (third), and `UpdatePosition`, or
`MissPosition` and `InsertPosition` (fourth; with no row there is nothing to
lock). `Abandon` stops it anywhere. The monitor's `Scan` loads a set of orders;
`ExpireOrder` and `ExpiryFails` handle each with the status it was loaded with.
Acknowledgements, cancellations and fills come from a handler of broker events
that is not in the repository: `Acknowledge`, `Cancel` and `Deliver` are marked
external. They are assumed to call `transition()` on a fresh object. Quantities
are shares, small; prices, costs, settlement dates are left out because no
control depends on them. `PositionAgreesWithLog` adds quantities up: `Total` is the
number of *shares* of a function, pairs of an argument and a number up to its
value, so that the facts about cardinalities are facts about sums.

**OrderSubmission.** One record per call of `submit_order` with its program
point; every action is one Redis read, one transaction or one request.
`Transition` is the SELECT and the `transition()` that follows it as one step.
That is enough for Steps 6 and 8: the call is alone on its row (`OneOwner`), and
an acknowledgement can only meet a row that is already SUBMITTED. In the rejection
handlers it can come between the two, and the SELECT is an action of its own,
`LoadForReject`. The broker may accept,
refuse, be unreachable, or accept without its answer arriving. `RaiseError` is
an exception `submit_order` does not expect (`ProducerError` after a commit, a
database error, an adapter that fails on the answer); `Crash` is the loss of the
process. The kill switch is three levels of keys and the breaker two keys in
the code; a call is stopped by any that applies to it, so each is one flag here.
`Trigger` and `CancelFails` are its two steps: no adapter has `cancel_all_orders`, so
the cancellation always raises and `trigger` goes on. `halt.racing` and `halt.before`
remember the calls and the live orders it met.
`dependencies.py` always supplies a state machine, so the branches of
`submit_order` without one are not taken. `FollowsLifecycle` says that rows move
along the table until a handler first meets an exception it does not expect
(after that it may overwrite an acknowledgement, section 6).

**PositionReconciliation.** `monitor` is the cycle's program counter with the
broker's answer or the set of symbols that differ. `Tick` starts a cycle and
counts the breaker keys down: time is counted in reconciliation intervals.
`ReadBroker` (`get_positions`), `ReadRows` (`_get_internal_positions`, later, and
the comparison), then for each symbol `Publish` and `SetBreaker`, in the code's
order. Each may raise, which gives up the exchange. `Close` and `Open` are the
market hours; without them no cycle runs and the keys expire. There is no bound on
the number of nights, and a key lives for the code's twelve intervals. `Net`, the sum of bought
less sold quantities on either side, counts the set of their shares (`Shares`). The fills between
broker and rows are one step each (`CountFill`, `RefuseFill`; FillProcessing has
the details), and `Expire` and `CancelRest` make the rows the monitor leaves out.

**TradeMatching.** The heaps are sets with a key order: only the least entry is
ever read or popped. `add_order` is `AddOrder` followed by iterations `SkipStale`
and `MatchTop` and a final `Rest`, with the lock held; `match_orders` is
`MatchOrders` and iterations `CrossBook`. Quantities and prices are integers. A
resting market order has price 0; the `OrderFill` of a match at price 0 does
not validate (`fill_price` must be positive), so the constructor raises after
both orders were reduced, and the operation ends there. A cancelled order, and
a filled one, keeps its heap entry until it comes to the top.

**ExecutionEngine.** `job[o]` is the one execution of an order: where it is, which
coroutine owns it (a loop, `process_queue`, a direct `execute_order` or the
router) and which attempt. Everything runs on one event loop, so a step goes
from one `await` to the next. `Stop` cancels the task and `StopReturns` comes
when it is gone: `start` may run in between (`overlapped`). An SDK call runs in a
thread: cancelled, it goes on (`detached`) and the venue may take the order
(`DetachedCallEnds`). `VenueUnheard` is an answer that got lost, whose retry may
put the order at the venue a second time.

**RiskEngine.** One topic with committed offset and position. `Take`, then the
engine's steps (`ReadBreaker`, `RunChecks`, `Sent` and `SendFails` for the attempts
of `send`), then `Commit`. `Raises` is an exception inside the engine: logged, and
the offset is committed. `CommitFails` leads to `SendToDlq` and a second commit.
`RunChecks` evaluates the six checks on the order and portfolio the engine
builds (`SignalToOrder`, `Portfolio`): quantity 0 and an empty portfolio.

**SessionLifecycle, PaperSessions, SignalConsumer.** A request is two steps, the
SELECT with its check and the commit, and requests of several clients on one
session overlap (`Operates` says who sends requests for what). `past` is the history
that `StatusHistory` wants. `Simulate` is `run_simulation`, which ends
in a rollback. The consumer's log is one sequence of sessions; `Take` puts the
signal into the buffer and decides whether to flush; `Load`, `Execute` and `GiveUp`
are the flush, session by session; then `CommitOffset`. `Stop` takes the consumer
away, `Drain` flushes the rest; `Crash` is a lost process, and also what
`sys.exit(0)` does to `run()`.

**WebSocketGateway.** The manager's methods hold one lock, so each is a step:
`Connect`, `Authenticate`, `Subscribe`, `Disconnect`. The endpoint coroutine, the
heartbeat task and a broadcast of a connection run beside each other, and
`Remove`, which all three come to, is the same operator. `Cleanup` and
`CleanupFails` are the endpoint's `finally`, whose Redis call may raise before
the disconnection. `Listening` is empty because nothing calls `subscribe()` of the
subscriber (section 6).

**MarketDataRules, MarketDataPipeline.** A record has a kind, a defect that keeps
it from being parsed, and the fields its rules look at; prices are in tenths of a
rupiah, so that the tiers and `round()` on a Decimal quotient are exact.
`Verdict` is what the validator says of it. A topic is the sequence of messages
from the committed offset of its one group on, `taken` counts those read since:
a crash puts it back to 0. `queue` starts with the raw topics full (`Feed`, one
sequence of records for each kind), because
reading is asynchronous and nothing looks at time: a record that is read later
stands for one that is published later. A producer's `send` puts the message
into `buffer`, and `Deliver` sends it later; a commit may overtake it.
`CommitOffsets` commits every topic the consumer has read, as `commit()` without
arguments does. `WriteBatch` is one transaction; `BatchRefused` and `BatchFails`
send the batch to the dead letters (`BuryBatch`) and clear it without a commit.
`Resolve`, `Requeue` and `WritePermanent` are the dead letter processor. `HasSession`
says whether it was given a database session: by default it was not, and then
`WritePermanent` only logs, and the offset is committed all the same. `exhausted`
(history) has the records that were given up, `flushed` those inserted into
`dlq_permanent`.
`Revalidates` parses a bar as the validator does, which leaves one case out: the
processor does not read `avg_daily_volume`, so a bar that was refused for that field
alone would pass. Nothing in the repository publishes the field.
`dropped` is a history variable: the records that a fault has interrupted, that
is, those lost from a buffer or cut off between two steps.

## 3. Runs

Passing runs check everything listed. A violation run checks one sentence of the
repository's own documentation that the code does not keep; its counterexample
is described in section 6.

| Run (cfg) | Module | Instance | Shows |
|---|---|---|---|
| MCOrderTransitions | MCOrderTransitions | 3 callers (submission, fills, monitor) on one order, with the statuses each may ask for, 2 failures | `EventsMatchCommits`, `FollowsItsPast` |
| MCFillSerial | MCFillProcessing | 2 workers with an order each (3 shares and 1), fills 1+2 and 1 (the last without `fill_id`), 2 deliveries each, 1 failure, expiry, cancellation | `FillMatchesStatus`, `FilledCoversLog`, `LoggedOnce`, `PositionAgreesWithLog`, `AcknowledgedExpires` |
| MCSubmissionCore | MCOrderSubmission | 3 calls, two with the same key, one an uncovered sale; kill switch and breaker, 1 exception, 2 faults | `AcceptedOnce`, `LiveIsOnRecord`, `OnlyRacingOrdersAppear`, `FollowsLifecycle`, `AcceptedIsRecorded` |
| MCTradeMatching | MCTradeMatching | 3 buys and 3 sells, one of them a market order, prices that cross, touch, stay apart and tie, partial fills | `NotCrossed`, `RemainderRests`, `PriceTimePriority`, `LockIsReleased` |
| MCExecution | MCExecutionEngine | 2 orders by queue, fast path and router, 2 connectors, batches of 1, 2 attempts, 2 stops, a fault, a disconnection | `VenueMatchesAnswers`, `CountersAddUp`, `BatchBound`, `QueuedIsAnswered` |
| MCReconciliation | MCPositionReconciliation | a buy and a sale of two symbols, two exchanges, keys that live the code's 12 intervals, an exception, a manual resume, any number of nights | `MonitorTypeOK`, `DifferencesAreExplained`, `LastingDifferenceHalts` |
| MCPaperTrading | MCSignalConsumer | 2 clients whose requests on one session overlap, signals for another session too, batches of 2, 2 records, 1 crash, shutdown | `LossIsBounded`, `ExecutedAgainOnlyAfterFailure`, `OnlyStartedSessionsTrade`, `OnlyPartialBatchesWait`, `FollowsItsPast` |
| MCGateway | MCWebSocketGateway | 2 connections, 2 users with one slot each, 2 channels | `RegistriesAgree`, `LeaksHoldNothing`, `SilentClientsFreeTheirSlot` |
| MCRiskStream | MCRiskEngine | 3 records, signals and garbage, 3 errors of Kafka or Redis, a crash, the code's 3 attempts per send | `CommittedWasHandled`, `DecidedAgainOnlyAfterFailure`, `DeadSignalsHadACommitFailure`, `StreamCatchesUp` |
| MCMarketData | MCMarketDataPipeline | 3 bars (one whose close rounding takes into the next tier, one that the validator raises on, one that rounding makes unsound and the database refuses), a statement, an intraday bar without a symbol; batches of 2, 1 retry, 1 fault, a session | `PipelineTypeOK`, `NothingVanishes`, `TableIsClean`, `EverythingSettles` |
| MCOrderOverwritten | MCOrderTransitions | 3 callers on one order, no failure | violates `TerminalIsFinal` |
| MCFillTwice | MCFillProcessing | 2 deliveries, 1 failure | violates `CountedOnce` |

Distinct states: MCOrderTransitions 369 thousand, MCFillSerial 219 thousand,
MCSubmissionCore 409 thousand, MCExecution 703 thousand, MCReconciliation 705
thousand, MCPaperTrading 538 thousand, MCGateway 321 thousand, MCRiskStream 495
thousand, MCMarketData 504 thousand; MCTradeMatching fewer.

Eight more configurations show, in the same way, other sentences the code does not
keep; they are not among the `runs` of PROJECT.json, and TLC stops in each at a
violation of the property named, which section 6 explains. Where a property that
passes stops short of what a reader would expect, this is what lies beyond it.

| Configuration | Module | Instance | TLC reports a violation of |
|---|---|---|---|
| MCFillShared | MCFillProcessing | 2 workers on one order, no failure, no duplicate | `FilledCoversLog` |
| MCHaltLeavesOrders | MCOrderSubmission | the 3 calls, no exception, no fault | `TriggerCancelsOpenOrders` |
| MCHaltLapses | MCPositionReconciliation | as MCReconciliation, no exception, no resume | `BrokenStaysHalted` |
| MCPaperOverlap | MCSignalConsumer | 2 clients of one session | `ImplementsLifecycle` |
| MCPaperTwoRun | MCSignalConsumer | 1 client, 2 sessions of one strategy | `OneRunsPerStrategy` |
| MCGatewayForwards | MCWebSocketGateway | 1 connection that subscribes | `SubscribersGetUpdates` |
| MCMarketNoSession | MCMarketDataPipeline | a bar that is refused every time, the code's 3 retries, no session | `GivenUpIsWritten` |
| MCMarketRetries | MCMarketDataPipeline | a bar that passes the rules and cannot be written, 3 retries | `RetriesAreLimited` |

Type invariants: every one is proved (section 5); those of PositionReconciliation
and MarketDataPipeline are checked by their runs as well.

**Why these bounds suffice to meet the hazards.** Two orders are the fewest for
which one can disturb the other, two fills of one order the fewest for a partial
and a completing fill, two deliveries the fewest for a duplicate. With each order
at a worker of its own, both workers can be inside a fill at once, and the
failure can hit either at any step; two workers on *one* order are MCFillShared,
because `FilledCoversLog` is false of them. Three callers on one order
let a third write between another's read and write. In OrderSubmission the keys share nothing but
halts and broker, so two calls on one key give every race and retry, and the
third an unrelated order that a halt must stop too and that the position check
refuses; an exception and two lost answers or processes reach every handler and
every pair of them. Six orders give the book a partly filled order, a tie, a pair
that must not trade and a market order at once. In ExecutionEngine two orders with
batches of one put one in the queue behind the other, and two stops with two loops
are the fewest for which a start overlaps a stop and a second loop is left over.
In PositionReconciliation the key's lifetime is the code's, and nothing bounds
the nights: a lasting difference is met, and its key lapses, again and again. Two records
give the signal consumer a full batch of one session or a partial batch of each of two,
and three the risk stream a record before and one after the one that fails. Two
connections that log in as one user meet the limit of one slot. In the pipeline a batch of two
lets a record that the database refuses drag another one with it, of its own or of
another kind.

The bounds on counters (`MaxFailures`, `MaxErrors`, `MaxFaults`, `MaxDeliveries`,
`MaxStops`, `MaxOutages`, `MaxRecords`, `MaxCrashes`, `MaxExceptions`,
`MaxResumes`)
are constants of the modules and appear as guards of the actions that count. What
the proofs establish holds for every value of them.

Deadlock is checked except where the modelled system really comes to rest: the
fill runs end when all fills are delivered and processed, MCExecution when both
orders have been executed, MCMarketData when every record has settled.

**Assumptions built into an instance.** The repository's fill events all carry a
`fill_id` field, which may be empty; a fill without one is logged under a fresh
identifier, so `LoggedOnce` speaks of `Identified` fills only.
`PositionAgreesWithLog` is conditional on no failure so far (a process lost
between Step 7 and Step 8 leaves the fill logged and not booked, and the
redelivery is skipped), and MCFillSerial starts with a position large enough for
its sale, because `_upsert_position` clamps at zero, and with a worker per position
without a row (`NewKeysHaveOneWorker`, `SalesAreCovered` of the theorem). `EverythingSettles` promises
the table only to a *sound* bar, one whose rounded close still passes the rules, and
only if the database takes all of those: one it refuses goes round for ever
(MCMarketRetries), and its copies in the topics have no bound, so the liveness of the
others beside it is out of TLC's reach. MCMarketData has a session; `NothingVanishes`
is proved with and without one, and counts a record that was given up as handled
whether it was written or not. In MCPaperTrading requests are about one of the
two sessions, the one that two clients share.

## 4. Fairness

* `FillProcessing!Fairness`: weak fairness of each worker's step, of the scan, and
  of the handling of each scanned order. Workers and monitor are loops that log
  an exception and go on (`process_fill_batch`, `run`). Nothing is assumed of the
  broker or the clock: `AcknowledgedExpires` starts when the TTL has run out.
* `OrderSubmission!FairSpec`: weak fairness of each call's step. The event loop
  resumes a coroutine whose awaited result has arrived; the model's `Step`
  includes every outcome the broker can have. Faults are never forced, and
  `AcceptedIsRecorded` exempts calls whose process or answer was lost.
* `TradeMatching!FairSpec`: weak fairness of the steps taken with the lock held.
  The thread that holds a lock is eventually scheduled. No one is forced to
  call the engine.
* `ExecutionEngine!Fairness`: weak fairness of each execution's step and of each
  loop: coroutines that can go on. No one is forced to start or stop the engine;
  `QueuedIsAnswered` releases an order when the engine is stopped.
* `PositionReconciliation!MonitorFairness`: weak fairness of the cycle, of `Tick` (`run()`
  sleeps and looks again whatever happened), of `Open` (a night ends) and of the
  fills on their way. Strong fairness of a `Tick` while the market is open: a trading
  day is longer than an interval, so that nights do not hide every cycle. Nothing forces the broker.
* `WebSocketGateway!Fairness`: weak fairness of each endpoint, of its cleanup, of
  its heartbeat and of a broadcast under way: tasks of one event loop, whose sends
  fail when the client is gone. Strong fairness of `Broadcast(h)`: it waits its turn
  among the broadcasts, and the subscriber takes messages in order. No client is
  forced to do anything.
* `SignalConsumer!FairSpec`, `RiskEngine!FairSpec`: weak fairness of the run loop.
  No restart is assumed: their liveness properties start from `<>[]` of a process
  that is up.
* `MarketDataPipeline!PipelineFairSpec`: weak fairness of each of the three loops and of each
  producer's delivery. A process that ends is up again in the same step, because
  the containers restart (docker-compose.prod.yml, `restart: unless-stopped`), and faults
  are never forced.

## 5. Proofs

All theorems hold for every value of the constants that satisfies the modules'
named assumptions: any set of orders, callers, workers, calls, connections,
sessions, any quantities, prices and limits, and any bounds. The assumptions say
only what the code guarantees of its inputs (positive quantities, non-negative
prices, every fill has an order, every record is published, finite sets where
something is counted).

| Theorem | Statement | Hypothesis |
|---|---|---|
| `OrderTransitionsProofs!TypeCorrect` | `[]TypeOK` | |
| `OrderTransitionsProofs!RowsFollowTheirPast` | refines `StatusHistory` | |
| `OrderTransitionsProofs!TopicLosesOnlyToFailures` | `[]EventsMatchCommits` | |
| `OrderTransitionsProofs!MonitorTypeCorrect` | `[]MonitorTypeOK` | |
| `OrderTransitionsProofs!DifferencesHaveAReason` | `DifferencesAreExplained` | |
| `FillProcessingProofs!TypeCorrect` | `[]TypeOK` | |
| `FillProcessingProofs!StatusMatchesFilled` | `[]FillMatchesStatus` | |
| `FillProcessingProofs!FilledCoversTheLog` | `[]FilledCoversLog` | `Disjoint` |
| `FillProcessingProofs!FillsAreLoggedOnce` | `[]LoggedOnce` | `Disjoint` |

| `FillProcessingProofs!PositionsAgree` | `[]PositionAgreesWithLog` | `Disjoint`, `NewKeysHaveOneWorker`, `SalesAreCovered` |
| `OrderSubmissionProofs!TypeCorrect` | `[]TypeOK` | |
| `OrderSubmissionProofs!KeysAreAcceptedOnce` | `[]AcceptedOnce` | |
| `OrderSubmissionProofs!CallsOwnTheirRow` | `[]OneOwner` | |
| `OrderSubmissionProofs!LiveOrdersAreOnRecord` | `[]LiveIsOnRecord` | |
| `OrderSubmissionProofs!TriggerStopsTheRest` | `[]OnlyRacingOrdersAppear` | |
| `OrderSubmissionProofs!RowsFollowLifecycle` | `FollowsLifecycle` | |
| `OrderSubmissionProofs!SubmissionImplementsLifecycle` | refines `OrderLifecycle` | `MaxErrors = 0` |
| `TradeMatchingProofs!TypeCorrect` | `[]TypeOK` | |
| `TradeMatchingProofs!BookIsNotCrossed` | `[]NotCrossed` | |
| `TradeMatchingProofs!CrossingIsIdle` | `CrossingFindsNothing` | |
| `TradeMatchingProofs!FillsRespectLimits` | `[]LimitsRespected` | |
| `TradeMatchingProofs!KeepsPriceTimePriority` | `PriceTimePriority` | |
| `TradeMatchingProofs!RemaindersRest` | `[]RemainderRests` | |
| `ExecutionEngineProofs!TypeCorrect` | `[]TypeOK` | |
| `ExecutionEngineProofs!CallsAreExclusive` | `[]OneCallPerConnector` | |
| `ExecutionEngineProofs!AnswersMatchTheVenue` | `[]VenueMatchesAnswers` | |
| `ExecutionEngineProofs!CountersBalance` | `[]CountersAddUp` | |
| `ExecutionEngineProofs!BatchesKeepToTheBound` | `[]BatchBound` | |
| `RiskEngineProofs!TypeCorrect` | `[]TypeOK` | |
| `RiskEngineProofs!CommittedRecordsWereHandled` | `[]CommittedWasHandled` | |
| `RiskEngineProofs!DecisionsAreBounded` | `[]DecidedAgainOnlyAfterFailure` | |
| `RiskEngineProofs!BreachesFollowDecisions` | `[]BreachHasDecision` | |
| `RiskEngineProofs!DeadSignalsAreBounded` | `[]DeadSignalsHadACommitFailure` | |
| `SignalConsumerProofs!TypeCorrect` | `[]TypeOK` | |
| `SignalConsumerProofs!SessionsFollowTheirPast` | refines `StatusHistory` | |
| `SignalConsumerProofs!OnlyStartedTrade` | `[]OnlyStartedSessionsTrade` | |
| `SignalConsumerProofs!AttemptsAreCounted` | `[]ExecutedAgainOnlyAfterFailure` | |
| `SignalConsumerProofs!LossesArePartialBatches` | `[]LossIsBounded` | |
| `MarketDataProofs!TypeCorrect` | `[]TypeOK` | |
| `MarketDataProofs!RegistriesStayInStep` | `[]RegistriesAgree` | |
| `MarketDataProofs!LimitsAreKept` | `[]LimitsHold` | |
| `MarketDataProofs!OnlyStrangersLeak` | `[]LeaksHoldNothing` | |
| `MarketDataProofs!PipelineTypeCorrect` | `[]PipelineTypeOK` | |
| `MarketDataProofs!TableStaysClean` | `[]TableIsClean` | |
| `MarketDataProofs!NothingIsLost` | `[]NothingVanishes` | |

`Disjoint` says that an order has one worker; MCFillShared shows why the theorems about
the log need it. No other theorem about concurrent callers has such a hypothesis.

### The inductive invariants

**OrderTransitions.** A caller's object may be out of date, but it was true once:
`SeenIsPast` (what a caller has in memory, and the target of one that has committed, is
among the statuses the row has had), and no step takes anything out of `past`. So the
move a `Commit` makes starts at a status of the row's past, which is a `Move` of
`StatusHistory`. `KeepsThePast` says that the topic only tells what was committed.
`Unheard`, the committed statuses that nobody has told or is about to tell, grows by one
at most, and in the step `Fail` only: its cardinality stays below `failures` whoever
overlaps with whom.

**FillProcessing.** `FillMatchesStatus` is inductive with `TypeOK` and needs no
partition: one UPDATE writes both columns from one computed value, the check
constraint refuses an overfill, and no other writer moves an order into
PARTIAL_FILL or FILLED (`OtherStepsKeepFilled`). The next two rest on three
further conjuncts. `OwnsItsOrder`: a worker holds only orders assigned to
it. `ReadIsCurrent`: what it has read of `filled_quantity` is still the row's
(the monitor and the broker change the status only). `CountedBeforeLogged`:
between the transition and the trade log the fill is in `filled_quantity` but
not in the log. Without the last, `FilledCoversLog` is not inductive: the step
that writes the log adds to the smaller side.

`PositionAgreesWithLog` holds for any number of workers on one position row, since
the row's lock covers its read and its write. What it needs is that no two workers
insert a row (`NewKeysHaveOneWorker`: a position without one belongs to one worker;
then a worker on its way to the INSERT still finds none, `InsertsMiss`) and that the
clamp at zero never bites (`SalesAreCovered`: the sell orders ask for at most what
the position held at the start). The second has to be carried along: `CoversSales`
says that the position has lost at most the sales logged and has room for those
about to be booked, and `FilledCoversLog` with `FillMatchesStatus` bounds the sales
logged by the orders' quantities (`SalesFit`). Each step changes one argument of the sums,
and `TotalFollows` says by how much the sum changes.

**OrderSubmission.** `Inserted` (a call past its insert has a row, and so has a
key the broker accepted) makes the primary key do its work: a second insert
finds the row. With `OneOwner` it follows that no two calls are past Step 5 on
one key, and `SubmittedOnce` that the one that is has not been accepted before
it submits. `RowOfOwner` says what the row holds at each point of its owner,
which is what `LiveIsOnRecord` and the refinement need in the rejection
handlers. `RacingWhenSet` says that all calls under way were under way when the
key was set, because Step 0a stops the others; an order that comes to the broker
under a halt is therefore a racing call's. `FollowsLifecycle` follows step by
step from `RowOfOwner` (`NextFollowsLifecycle`), and `ErrorsStay` makes "no
unexpected exception yet" a condition on the new state too.

**TradeMatching.** `Numbered`, `OneHolder` and `ReportedAtMost` (an order's fills
and remainder never exceed its quantity) with `NotCrossed`. `NotCrossed` is
inductive only because `Rest` sees a *live* top: the top of a heap has the best
price of its side (`TopAsk`, `TopBid`), so when it is out of reach all live
orders are. For `CrossBook` the cleaned heaps have live tops (`CleanTopIsLive`),
which `NotCrossed` keeps apart. `RemaindersRest` uses that fills and remainder
never grow together, so that a match that went unreported stays visible
(`LostStaysLost`).

**ExecutionEngine.** `QueueIsSound` (the queue holds an order once, and only orders
that wait in it), `JobsAreSound` (who can own an execution at each point, and that
its attempts are bounded), `CallersHoldTheLock` (a coroutine in an SDK call is the
one the connector's lock names, which is `OneCallPerConnector`) and
`RestingWereRejected`. `VenueMatchesAnswers` is inductive with them: the venue's
count grows in the step that fills, rests or loses the answer. `CountersAddUp`
counts a finite set that each step changes by the orders it moves (`Pending`);
for `Stop`, which moves many at once, the set stays the same.
`BatchBound` follows from two invariants: a loop has executions under way only
while it is in its dispatch, and then no more than a batch (`BatchesAreSmall`); and
unless a start overlapped a stop, the only loop is the task that `stop()` would
cancel (`OneLoop`). Without the second, the bound of each loop says nothing of their
union.

**RiskEngine.** `OneRecord`: a record in progress is the one after the committed
offset. `WorkDone`: what was written about it when the stream gets to each
program point, which with the first is `CommittedWasHandled`.
`DecisionsHaveCauses`: a record has at most as many decisions as there were
crashes and written attempts that failed, and one more only if it is committed
or this evaluation has written its decision (`Entitled`); without `Entitled` the
bound is not inductive. `DeadSignalsHaveCauses`: a signal on its way to the dead
letter queue has already paid for its place with a commit that raised.

**SignalConsumer.** `TypeOK` needs `BufferIsSound` (what is buffered is a signal of
the log) and `LoadedIsExecuted`. The sessions are independent of the consumer:
`RequestsKnowTheirRow` says that the status a request saw is among those the row has
had, and that a session being created is still absent, which makes every commit a
`Move` of `StatusHistory`, whoever else commits in between. `TradesAreStarted`
carries "started" from the flush's read to the rebalance: a row that has had a started
status has no past from which a method leads it back.
`AttemptsAreBounded` gives a record one attempt more than there were crashes only
while it is not pending (`Pending`: it is still to be taken, or buffered and not
reached by the flush), and needs `IdleIsCommitted`: the loop takes a record only
when the one before is committed, so only a crash can bring one back.

`LossIsBounded` rests on `NothingSlips` (a record that is read and not committed is
buffered, was in a flush, or has no session) and `BatchesArePartial` (a session never
has a full batch of signals that are committed and still in the buffer): a crash
loses these, at most one partial batch of every session, and no other step loses
anything (`NextLoses`).

**WebSocketGateway.** The registries change in four operators only (`Connect`,
`Authenticate`, `Subscribe` or `Unsubscribe`, `Remove`), and `Remove`, wherever it
is called from and however often, takes one connection out of all of them
(`RemoveEffect`, `DisconnectEffect`). `Fresh` says that a connection without a login
is in no other registry, `Watched` that one with a login has a heartbeat until it
is removed: together they are `LeaksHoldNothing`.

**PositionReconciliation.** The two readings of a symbol are net quantities over the
same orders, so they can only differ when some order differs. `FilledRowsMovedOn`
says that a row with a fill is PARTIAL_FILL or FILLED, which the comparison counts,
or was cancelled or has expired, which is the cause `LeftOut`. Hence an order
without fills on their way, refused or left out counts the same on both sides
(`CountedInFull`), and what remains are the causes that the property lists.

**MarketDataPipeline.** `PipelineIInv` has types, `MessagesFit` and `RowsClean`.
`MessagesFit` says what lies in each kind of topic (`Fits`): the raw topics hold what was
published, the validated ones hold closes on the grid, and the dead letters hold
one or the other, so that what `Resolve` sends back is clean although it is not
rounded again: a bar that passes now and still has its published close would have
passed the validator in the first place (`RevalidatedIsClean`). The
arithmetic is in `AdjustedIsOnGrid`, tier by tier: rounding up over the end of a tier
lands on its end, which is a multiple of the next tick too. `NothingVanishes` is not
inductive, because a message that is read and not committed is still in the
topic although no one will look at it again. `Custody` counts only who will still act on
a record: the messages ahead of a reader, a producer's buffer, the batch, the
table, the records given up. It needs `BatchIsSafe`, which justifies the
writer's commit and its crash: until it commits, its batch can be read again,
and when it commits, its batch is in the table. Every step has one of a few forms
(`Steps`), so each part of the invariant is proved form by form and not action by
action. `FirstOf` picks a message of the batch with the least index; that one exists is
`LeastNatural`, from the well-foundedness of the natural numbers.

### Only model-checked

* Liveness (`AcknowledgedExpires`, `AcceptedIsRecorded`, `LockIsReleased`,
  `QueuedIsAnswered`, `LastingDifferenceHalts`, `OnlyPartialBatchesWait`,
  `SilentClientsFreeTheirSlot`, `StreamCatchesUp`, `EverythingSettles`) is beyond the
  proof system's reach.
* The violated properties are of course not provable.

## 6. Where code and documentation disagree

With a run or one of the further configurations of section 3 (`findings` in PROJECT.json
has the lines of MCOrderOverwritten and MCFillTwice):

* **MCOrderOverwritten.** "Terminal states map to an empty set -- no further transitions
  allowed" (order_state_machine.py:39). Fill processor and monitor have both
  loaded an acknowledged order; the monitor commits EXPIRED, and the fill's `transition()`,
  which validates the stale object, makes the row PARTIAL_FILL. In the other order a
  FILLED row becomes EXPIRED. The run needs no failure.
* **MCFillTwice.** `filled_quantity` is committed before the trade log row that the
  duplicate check looks for. A failure in between, then the same fill again:
  it counts twice.
* **MCFillShared.** "SELECT FOR UPDATE for concurrency safety"
  (order_fill_event_processor.py:138). Two fills of one order processed at once both read
  the same `filled_quantity` under a lock that is released before either writes: one is
  lost. Hence the `Disjoint` of the theorems about the log. Nothing in the repository feeds the
  processor (section 7), so whether fills of an order can overlap is up to the handler
  that will; the lock is there for the case that they do.
* **MCHaltLeavesOrders.** "cancel all open orders via broker" (kill_switch.py:114).
  `trigger` calls `cancel_all_orders`, which none of the repository's broker adapters
  has; the exception is logged and the orders stay live.
* **MCHaltLapses.** docs/data-dictionary.md:113 gives the breaker's key no TTL. The monitor
  sets it for twelve intervals and does not run at night, so the halt of a broken account
  has lapsed when the market opens; the first cycle sets it again
  (`LastingDifferenceHalts`).
* **MCPaperOverlap.** "Transition RUNNING -> PAUSED" (session_manager.py:178). A pause
  selects a running session, a stop of the same session commits, then the pause: STOPPED
  becomes PAUSED, and can be resumed.
* **MCPaperTwoRun.** "Only one session per strategy may be in RUNNING state at a time"
  (session_manager.py:67). The check is at creation only, and against sessions that run or
  pause; two sessions created before either is started both run.
* **MCMarketNoSession.** "If retry_count >= MAX_RETRIES: write to dlq_permanent table in DB"
  (dlq_processor.py:8). Without a `db_session`, the constructor's default,
  `_write_permanent` logs and returns, `run()` commits the offset, and the record is
  nowhere.
* **MCMarketRetries.** "If retry_count < MAX_RETRIES (3): re-validate and re-route"
  (dlq_processor.py:7). The dead letter of a failed write carries no `retry_count`, so a
  bar that validates and cannot be written is sent back for ever.
* **MCGatewayForwards.** The server "registers subscriptions and starts forwarding
  messages" (connection_manager.py:73). Nothing calls `RedisSubscriber.subscribe`, so
  its loop sleeps for ever and no client gets what the bridge publishes.

Seen while reading, without a run of their own.

Orders and fills:

* Orders of calls already past the kill switch gate reach the broker under the halt
  (`OnlyRacingOrdersAppear` exempts exactly those).
* The position check ignores sales already submitted, so two sales can go short.
* A market order that rests is matched at price 0: both orders are reduced, the
  fill's constructor raises, nobody is told, and the incoming order is on no heap.
* The timeout monitor selects SUBMITTED orders and its docstring says it expires
  them (order_timeout_monitor.py:46-48), but the table has no move from
  SUBMITTED to EXPIRED: every scan raises for each of them, for ever. `ExpiryFails`
  models it; `AcknowledgedExpires` is stated for ACKNOWLEDGED orders.
* The monitor compares `order_type` with upper-case names (order_timeout_monitor.py:168);
  the enum's values are lower-case, so limit orders get the market TTL. The TTL is
  an action that may happen at any time, so the model covers both.
* `_upsert_position` says "INSERT ... ON CONFLICT DO UPDATE"
  (order_fill_event_processor.py:277) and is a SELECT followed by an INSERT. When two
  fills open a position together the loser's exception leaves its fill in the log
  but not in the position; in MCFillSerial each worker has a position of its own.
* After a transient broker error "order stays PENDING_RISK, eligible for retry"
  (order_submission_handler.py:749): it is RISK_APPROVED by then, and a retry finds
  the row and returns it without submitting.
* "Terminal orders can be re-submitted with same key" (order_submission_handler.py:529):
  the INSERT fails on the primary key (`Persist`, outcome "duplicate row").
* An unexpected exception after the broker took the order (a `ProducerError` is
  enough) has the order REJECTED in the database while it is live, and may
  overwrite ACKNOWLEDGED. `LiveIsOnRecord` and `FollowsLifecycle` speak of the time
  before the first such exception.
* The trigger endpoint (src/apps/api/http_routers/live_risk.py:180) "Cancels all open orders
  and prevents new order submission"; it logs and changes no state.
* `on_fill` runs with the engine's non-reentrant lock held; a callback that calls
  the engine would block. None in the repository does.

Reconciliation:

* An order that was cancelled or has expired after a partial fill is left out of the
  internal positions ("Aggregates filled order quantities",
  position_reconciliation_monitor.py:210): the exchange stays halted although every
  share is on record. `DifferencesAreExplained` has it as a cause (`LeftOut`).
* `MARKET_OPEN_UTC` and `MARKET_CLOSE_UTC` are the hours of New York, so the Indonesian
  session is never reconciled. "sleeps until the next market open" (line 104) is a poll
  every 300 seconds. 
* The breaker's key is the exchange it is given, while `submit_order` looks at the
  strategy's, at "global" and at "IDX": a discrepancy at "ALPACA" stops nothing.

Execution:

* `stop()`: "Drain the queue and stop processing" (execution_engine/__init__.py:125). What is
  queued stays in the queue, and what was taken out and not finished is cancelled
  and reported to nobody (`cancelled`, `dropped`).
* `enqueue_order` has a `connector_name` and drops it (line 200): a queued order always
  goes to the default connector.
* pybreaker's decorator on an `async def` (line 281) takes the coroutine it returns for
  a success and never opens.
* An order the venue accepted without filling it is counted as a failure
  (`VenueRests`).

Risk engine:

* The order it builds has quantity 0 and the portfolio is empty, so every signal that
  gets as far as the checks is rejected. The proposed order's id is a fresh uuid per
  evaluation, so the duplicate check never matches.
* The strategies publish to `EQUITY_STRATEGY_SIGNALS`; the engine reads `SIGNALS`.
* "unprocessable messages are not lost" (kafka_producer_consumer.py, line 8): an exception
  of the engine leaves a signal without decision, committed, and not in the dead
  letter queue (`dropped`).

Paper trading:

* The simulation endpoint "runs the simulation engine, then returns the summary"
  (paper_trading.py:386-387): the engine sets COMPLETED, `stop_session` refuses it, and the
  request always ends in a 422 with everything rolled back but the start.
* The batch timeout is only looked at when a record arrives. `sys.exit(0)` in the
  command line cuts "Flush remaining signals on shutdown" short.

Gateway:

* At the connection limit the endpoint closes with 4001, not 4003 (ws_endpoint.py:49).
  Between 16:00 and 16:15 no market status applies.
* A heartbeat that removes its own connection cancels itself on the way, so its
  4002 close may never be sent. A late PONG keeps a client that missed a heartbeat.

Market data:

* "On DB failure: do not commit offset (record will be redelivered)"
  (timescaledb_writer.py:11-14): the records go to the dead letters, and the next
  batch's commit passes them. They go to `DLQ_EOD_OHLCV` whatever their kind
  ("appropriate DLQ topic", line 242), where a good statement that shared a batch
  with a refused record ends among the permanent failures.
* With the migrations as they are no bar can be written: `interval` is NOT NULL without
  a server default, and no unique key fits the ON CONFLICT clause. MCMarketData takes a
  schema that fits (`Writable`); with the migrations every bar is the one of
  MCMarketRetries.
* Records on which the validator raises something other than `KeyError` or `ValueError`
  are logged and lost without a dead letter. Rounding to a tick can push the close
  above the high (499 to 500), so that the dead letter processor refuses a bar that
  was valid.
* `_write_permanent` flushes and never commits. `DLQ_INTRADAY` is read by no one.
  `RAW_FUNDAMENTALS` has no producer in the repository.
* docker-compose.prod.yml (lines 193, 215, 237) runs the three consumers as modules
  that have no `__main__` part.

## 7. Not modelled

* **The consumer path of the submission handler** (`run`, `_process_decision`,
  `_submit_to_broker`): `RiskDecision` has no `strategy_id` or `exchange` field, so the
  path raises at its first use of one and changes nothing.
* **The handler of broker events.** Nothing in the repository moves an order to
  ACKNOWLEDGED or CANCELLED or feeds `process_fill` (`alpaca_reconciliation` calls it
  with one argument too many and is not instantiated anywhere). The models take
  these events from outside.
* **Timeout monitor and submission together**: an order that expires in the
  database stays live at the broker. `LiveIsOnRecord` is about submission alone;
  PositionReconciliation shows what the late fills of such an order lead to.
* **`is_halted` and the `live_trading_config` row** of the kill switch, the payload of
  the circuit breaker, and their events.
* **Connectors**: cancellation, status and position queries. **Risk engine**: the
  sector and buying power checks, which its pipeline does not contain, and the VaR
  calculator. **Promotion gate**: its `:session_id::uuid` binds do not parse, and
  nothing calls it.
* **Paper trading**: the executor's orders, cash and settlement, the daily
  simulation, NAV and attribution.
* **Gateway**: the sliding window of the rate limiter, the content of messages, the
  market calendar, and the second gateway in `websocket_gateway/__init__.py`, which
  the API's lifespan does not start.
* **Market data**: the ingestion stream of intraday bars, the ingestion tasks, SQL.
* Prices, costs, realized profit, settlement dates, fees, lot arithmetic beyond
  quantities; logging; message formats.
* Portfolio accounting, risk statistics, research, strategies, backtests, scrapers,
  macro and commodity engines: sequential numerical or ETL code, and most of the
  repository's lines, which is why the map covers a small share of them. Broker
  adapters: clients of outside services, whose outcomes are actions of the models
  above. HTTP layer, web application, deployment: input, output, configuration.

## 8. Plan

What is left, in order; each with its MC module, runs and proofs.

1. **Composition of submission, fills and expiry**: one order table, the broker's
   view of each order, cancellation and late fills. Abstract specification: an
   order's executed shares at the broker and in the row. Theorem: the composed
   system implements `StatusHistory` with any callers, and `OrderLifecycle` for the orders
   that no two of them hold at once.
2. **Paper executor**: orders of a rebalance, cash, and settlement; cash and
   positions conserved over partial rebalances.
3. **Portfolio accounting**: lots and realized profit against a reference definition.
4. **More proofs**: with each new module, its invariants; every safety property of
   the passing runs has its theorem now.
