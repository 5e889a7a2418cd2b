# ToyQuant: a TLA+ model of the trading core

ToyQuant is a C++ trading system: recorded or live market data goes through
readers, a validator and an order book to a strategy, the strategy's orders go
through pre-trade controls to an exchange (a simulated matching engine, reached
directly, through an order gateway or through a paper broker), and the reports
come back to the account, the ledger, the strategy and the run's measurements.
This directory models the parts whose correctness depends on the order of
events: threads sharing a ring or a queue, orders and cancels with latency,
retries and outages, several records kept of the same orders, files read in
blocks and merged by time, reconnects and shutdown.

Source files are under `src/src/`; paths below are relative to it unless they
start with `docs/`.  `PROJECT.json` maps every definition to its lines.

## 1. Inventory

| Component | State | Operations | Talks to | What makes it correct |
|---|---|---|---|---|
| `concurrency/spsc_ring.h` | slots, two indices each kept locally and published | `try_push`/`try_emplace`, `try_pop`, `consumer_occupancy`, destructor | one producer, one consumer thread | order, no loss, no two threads in one slot, object lifetimes |
| `market/threaded_l2_replay.*` | ring, `abort_`, `producer_done_`, two stored exceptions | `run`, `producer_loop`, `produce`, `consume_loop` | feed thread and calling thread | every event handled on a clean end, every failure rethrown, `run` returns |
| `market/ws_feed.*` | receive thread, pending batch and trades, ring, `running_` | `start`, frames, `EventReader::next`, `stop` | venue socket, engine thread | the venue's order, the whole stream, every wait ends |
| `market/line_reader.*`, the readers | block buffer; row look-ahead | `next` | replay feed | the file's lines; batches as they were |
| `market/l2_replay_feed.*`, `replay_feed.*`, validator, recorder | two heads, clock, last seen per stream, output rows | merge, pace, validate, record | book, strategy callback | time order, nothing early, a recording replays |
| `orderbook/*` | two tick ladders, snapshot burst flag | snapshot, batch, view | feed | equals a map of levels |
| `exchange/matching_engine.*`, `queue_model.h` | book, `order_index_`, quotes, queue ahead, orders in flight, pending cancels | `send_order`, `cancel_order`, `process_bbo`, `process_l2_top`, `process_market_trade` | gateway, broker, pipeline; reports by callback | index and book agree, quantity conserved, never crossed, every order ends |
| `lines/order_gateway.*` | table of unanswered and working orders | `send_order`, `cancel_order`, market events, `sweep_timeouts` | broker or engine below | the table tells the truth; a retry does not move the position twice |
| `lines/paper_broker.*`, `reconciliation.*` | fault counters, held orders, statement | send, cancel, release, report, `reconcile_positions` | engine below, client above | the statement differs from the books exactly when a fill was withheld |
| `app/pipeline.*` | next id, latest quotes, rejected and mismatch counts | views, trades, quotes, reports, refusals, submission | everything | the records of open orders agree |
| `app/risk_pipeline.*` | kill-switch latch, token bucket | five checks per order | pipeline | limits hold, with a bounded overshoot |
| `app/fill_accounting.*` | position, pending per side | `reserve`, `release`, `apply` | pipeline | reservation equals what can still fill |
| `app/order_ledger.*` | audits, pending cancels, queue profiles, commission | `open_order`, `mark_resting`, `begin_cancel`, `on_report` | pipeline | state machine follows the order; the floor is charged once |
| `accounting/portfolio.*`, `common/instrument_spec.h` | cash, positions, fees, round trips | fills, fees, funding, marks | pipeline, backtest, carry | the money balances |
| `app/run_accounting.*`, `market/funding_rate.*` | waiting markouts, parent, equity curve, settlements | fills, cycles, midpoints, funding | pipeline | each measurement is taken at its own horizon |
| `lines/carry_ledger.*`, `backtest/*` | a history | a whole run at once | portfolio | funding of the shared window only; no look-ahead |
| `strategy/*`, `lines/legacy/l1_market_maker.h` | own orders, position, schedule or signals | view, trade, quote, report, cancels | pipeline | own books equal the venue's; own limits hold |
| `lines/venue_relay.*` | bounded row queue, decoder sequence, `stop_` | `VenueClient::run`/`session`, `RowQueue`, `stream_engine` | venue socket, engine socket, two threads | rows in order, gaps counted, returns |
| Application, configuration, logger, histograms, benchmarks | start-up, statistics | wiring, printing | all | section 8 |

The hard behaviours are: release/acquire visibility in the ring; the shutdown
protocols of threads that may each fail; orders, cancels and retries under way
while the market moves; reports fanned out to several records inside the
engine's own call; refusals that have no report; reconnects with a decoder that
outlives the connection; bounded queues at shutdown; lines and batches cut by a
block; money split where a position changes sign.  `PROJECT.json` "hazards" lists
each at its line, with the properties aimed at it.

## 2. Modules

```
EventChannel            abstract bounded FIFO channel
SpscRing                the ring, one step per memory-order point; implements EventChannel
  ThreadedReplay        the two replay threads over the ring
    MarketDataProofs    (of the ring, the threads, the relay, the line reader and the book)
WebSocketFeed           receive thread, ring, reader, stop
  WebSocketFeedProofs
VenueRelay              the live relay's two threads
LineReader              lines out of blocks
L2OrderBook             the book and its two tick ladders
MarketReaders  MarketDataValidator  MarketEventRecorder (operators)
  L2ReplayFeed          merge, pacing, validation, book and recorder together
MatchingEngine          the venue
  MatchingEngineProofs
  PaperBroker           the broker over it
    OrderGateway        the gateway over both
      OrderGatewayProofs
  OrderPipeline         the decision loop over the venue, composed of
    RiskPipeline  OrderLedger  L2MarketMaker   (operators)
    OrderPipelineProofs
InstrumentSpec  Portfolio  RunAccounting  OrderAudit   (operators)
  TradingRun            the pipeline as its accounts see it
CarryLedger  BacktestDriver  Studies   computations over a whole history
ExecutionL2  TrendL2  MakerVariants  L1MarketMakers   (operators)
  StrategyDesk          every other strategy in the pipeline's loop
    StrategyDeskProofs
FiniteInduction  FoldTheorems   what the proofs need of finite sets and of folds
MC*                     instances: menus of orders, quotes, trades, files
```

A definition introduced by a comment starting "Mutant:" is a wrong version of
the definition below it, of the kind a slip in the code would give; nothing of
the model uses it.  Replacing the original by it must violate the property that
`PROJECT.json` "mutants" pairs it with.

**SpscRing.** A C++ index exists three times: the thread's own copy
(`write_local`), the released store (`write`) and what the other thread has
acquired so far (`write_seen`); `SeeWrite`/`SeeRead` let a store become visible
at any later time.  Constructing, destroying and publishing are separate steps,
so a wrong order of two lines in `try_emplace` or `try_pop` is a different model.

**ThreadedReplay.** The feed thread and the consuming thread step through
`producer_loop`/`produce` and `consume_loop`; `abort_` and `producer_done_` have
their own visibility, never ahead of the ring stores that precede them.  The
feed may throw between any two events, the callback on any event.

**WebSocketFeed.** `start`, `receive_loop`, `handle_message`, `flush_pending`,
`push_event`, `EventReader::next` and `stop`, one step a row and a push.  The
ring is the channel SpscRing implements.  The occupancy the receive thread
computes from the consumer's unsynchronised index is a choice over every value
it may read.  Frames, closes and timeouts come from the venue at any time.

**VenueRelay.** `RowQueue` methods hold the mutex and are single steps; a
condition variable is a guard.  The venue, the engine's connection and the clock
are external and act at any time.  `losses` is history: messages whose
predecessor the venue itself lost, the truth `gaps` is compared with.

**LineReader, L2OrderBook, L2ReplayFeed.** A read returns any number
of bytes up to the room there is.  The ladder is the flat array with its window,
its growth and the remembered best slot; the book builds a snapshot aside and
applies batches in place.  The feed merges two readers (or runs one), advances
its clock, sleeps and counts lateness, validates, records and applies to the book
in one step per event; when a recorded run ends, its recording may be run through the
same path.  Recording and pacing are options of a run, in the combinations the
program accepts: any for files, no pacing for a live session, neither for quotes
(whose feed has a fixed delay instead).  A recorder refuses what its two files
cannot hold, a batch after a snapshot among it, so an OKX stream ends a recorded run
at its first update and is delivered whole by an unrecorded one.  Prices are in
fractions of a tick, so rounding is not the identity.

**MatchingEngine.** One symbol.  Loops of the code (`advance_to`,
`apply_pending_cancels`, `match_side`) are unrolled by `pc`, one step an
iteration, so a report callback sees the same intermediate states as in the
code.  `owed`, `unended`, `shown` and `spent` are history: what was taken in and
not yet accounted for by reports, acceptances without a terminal report, and what
a quote displayed against what our orders took from it.

**PaperBroker, OrderGateway.** Both run on the engine's thread and are called back
inside the engine's calls, so an engine step passes its reports through the
broker (split, withheld, counted in the statement) to the gateway's
`OnVenueReport` in the same step.  A released hold goes out order by order.  The
timeout sweep is unrolled: timeouts are declared, then each due order is queried
and perhaps sent again.  `plan` fixes the faults and the retry policy of a run.

**OrderPipeline.** One event at a time: the engine, `handle_report` for each
report (account, strategy, mismatch check, release, ledger, in that order), the
strategy's decision, its cancels, the kill-switch check, then each order through
the gates, reservation, audit and engine, with the refusal path of
`handle_rejected_order`.  The base maker's fair price is a nondeterministic
choice; the control around it is the code's.  Here an armed kill switch may trip
in any cycle; TradingRun has the account it reads.

**TradingRun, Studies.** `pipeline.cpp` seen by the accounts: funding at the
start of an event, reports of working orders, the midpoint and its quote cycle,
cancels and submissions.  Money is in whole minor units and the menus of prices
and rates make every division exact.  A run's `terms` choose a linear or an inverse
contract, fee schedules, funding histories and a parent order.  Studies are
inputs computed in one step: a carry, an equity curve, a backtest.

**StrategyDesk.** The interface of `strategy.h` called in the pipeline's order.
Its venue is the engine seen from a strategy: resting orders fill in any pieces, an
order at the far touch fills at once in any part, and a cancel is applied with
the next event, after a public trade has matched and before a view does
(`cancel_delay_events = 1`).  Signals that are integers in the code's units
(moving averages, flow, volatility) are computed; fair prices and the legacy
makers' displayed imbalance are choices.

## 3. Runs that hold

| Run | Question | Bounds |
|---|---|---|
| `threaded_replay` | Order, exclusivity, lifetimes, refinement of the channel, all endings of `run` | 2 slots, 4 events: full, empty, wrapped twice |
| `engine` | Limit, market, IOC, FOK, self-trade by normalised owner, cancels, both kinds of quote, public trades of known and unknown side, with latency 1, delayed cancels, shares of 50%, the lumpy queue | 3 ids, 2 ticks, 3 events |
| `gateway` | The table against the venue, retries, every fault of the broker and the reconciliation, for orders that rest on landing | order latency 2, timeout 1, 3 ids, 3 events |
| `pipeline` | Agreement of all records with all five controls on, flattening, self-trades, partial fills, refusals below the minimum, delayed cancels, one-sided tops | 4 ids, 3 ticks, 6 events |
| `venue_relay` | Hand-off, gap count, termination | queue of 2, two-row messages, 4 updates, 1 loss, 2 session ends |
| `ws_feed` | Order and completeness of the stream, the race on the high-water mark, termination | ring of 2, 3 frames of up to 2 rows |
| `market_data` | Lines, book, merge, pacing, recording | files of 5 bytes in blocks of 2; 3 batches on ladders that start with 2 slots; sources of every reader, with and without recording and pacing, OKX files of a snapshot and up to two lines |
| `accounts` | Money, round trips, floors, measurements, funding, carries, curves, backtests | 3 events, 2 orders, 2 reports an event; histories of 2 to 4 points |
| `strategies` | Seventeen desks over eleven strategies | 3 to 8 events, 7 orders |

The bounds are the smallest in which each mechanism meets each other one: two
sides and two ticks cross and rest; three ids make a queue, its aggressor and a
bystander; a latency of one or two events puts a market event between a call and
its landing; a queue shorter than a message makes its producer wait mid-message;
a block of two bytes cuts `\r\n`; two orders open, reverse and close a position.
Runs with `CHECK_DEADLOCK FALSE` stop because a bounded menu is used up or
because the program has returned; termination is a property of its own where it
matters.  Deadlock is checked in `ws_feed`.

What the properties say:

- Ring and replay threads: `InOrder`, `NoSlotRace`, `LiveObjectsExact`,
  `ImplementsChannel`; `ResultHonest` (a clean end has handled every event, a
  failure of either thread is rethrown), `RunReturns`.
- Venue: `QuantityConserved`, `LiquiditySpentOnce` (a public trade or a displayed
  quote is spent once), `BookSound` (index and book agree, no wrap-around, never
  crossed), `OrdersEndRight` (each accepted order gets its terminal report; a
  FOK fills whole or not at all), `DueCancelsApplied`.
- Gateway and broker: `TableTellsTruth`, `PositionMovesOnce`, `ReconcileFindsLoss`
  (the statement disagrees with the books if and only if a fill was withheld),
  `VenueSeesSubmissionOrder`.
- Decision loop: `ReservationExact`, `RecordsAgree` (venue, strategy, account and
  ledger), `CancelHeld`, `OvershootBounded`.
- Relay: `EngineGetsRecording`, `GapsExact`, `RelayReturns`.
- WebSocket feed: `StreamInOrder`, `DeliveredWhole`, `HighWaterBounded`,
  `EveryWaitEnds`.
- Market data: `LinesAreTheFiles`, `BookIsTheMap`, `ReplayFaithful`,
  `RecordingReplays`.
- Accounts: `LedgersBalance` (account, carry and backtest), `RoundTripsExplainRealized`,
  `AuditsExact`, `MeasurementsExact`, `SettlementAtItsTime`.
- Strategies: `StrategyKnowsBooks`, `NoStaleQuotes`, `WithinOwnLimit`,
  `CooldownHolds`, `ParentExact`.

## 4. Runs that show a disagreement

| Run | What the code says of itself | What happens |
|---|---|---|
| `gateway_retry_fills_twice` | `lines/order_gateway.h:33` "the retry cannot fill twice" | The venue refuses a duplicate id only while the first copy rests.  A retry queued while the first copy is in flight lands after that copy has filled, and fills again. |
| `relay_stop_hangs` | `lines/venue_relay.cpp:946` "a stop does not leave the venue thread blocked in a push nobody will consume" | When the engine leaves, `stop()` is called but nobody closes the queue; a venue thread waiting for room never wakes and the join never returns. |
| `execution_overfills` | `strategy/execution_l2.h:30` "One child works at a time" | A child that times out is crossed on the same view that asks for its cancel; the cancel is applied one event later, both fill, and the parent gets more than its quantity. |

Further observations, met while modelling, for which no run is kept.

Orders and records:
- the position gate nets pending sells against pending buys, so one of two
  resting quotes filling alone passes the limit, or the largest quote where that is
  the larger, by at most the largest quote (`app/risk_pipeline.cpp:81`,
  `app/pipeline.h:56`; `OvershootBounded` is what holds); flattening orders pile up
  past that when the band is below the limit by two or more;
- with order latency, a cancel of an order in flight is dropped by the engine
  and every later one is suppressed by the ledger (`exchange/matching_engine.cpp:480`,
  `app/order_ledger.cpp:200`), so `CancelHeld` is checked at zero latency;
- with order latency, an order refused as it lands is reported to nobody, so its
  reservation stays (`app/pipeline.cpp:453`); `ReservationExact` likewise;
- an order that trades on entry and rests the remainder is reported PartialFill
  before Resting, which the ledger counts as an invalid transition;
- an order ended by self-trade prevention is reported Cancelled and then Filled,
  the second an orphan for the ledger (`exchange/matching_engine.cpp:648`);
- the rate limiter takes its token before the later gates are asked
  (`app/risk_pipeline.cpp:149`; `docs/ARCHITECTURE.md:1442` says a rejected order
  consumes none);
- the kill switch adds an unrealised result that is only computed when the run is
  over (`app/pipeline.cpp:374`, `docs/USER_GUIDE.md:531`);
- after a retry that fills at once, the venue can hold quantity under an id the
  gateway's table has erased; and a retry held in an outage can be answered
  Cancelled while its first copy lands (`lines/paper_broker.cpp:119`);
- a refusal of an order released after an outage moves the reject count the
  pipeline reads for the order being sent, which then looks refused
  (`app/pipeline.cpp:451`; no property covers it: the model with the broker has
  no pipeline above it).

Market data:
- funding settlements are in milliseconds and are compared with the event's own
  timestamp (`app/run_accounting.cpp:13`); on the Deribit path, whose events are in
  microseconds, every settlement is applied at the first event, although
  `docs/ARCHITECTURE.md:1530` says "at the first event at or after its timestamp".
  `TicksPerMs` is that ratio: `accounts` uses 1, as the OKX and Binance archives have
  it, and with 1000 TLC finds `SettlementAtItsTime` violated at the first event;
- a recording of a live session need not replay: the validator compares a
  trade's time with the last batch's, and local times of a live batch may differ;
  `RecordingReplays` is about recordings of replays;
- OKX book lines that share a time are appended to one batch whatever their
  action (`market/okx_readers.cpp:205`); two consecutive snapshot bursts do not
  clear the book between them; a snapshot does not end a burst;
- the WebSocket feed cannot be started again after `stop()`: `producer_done_` is
  never reset; a flush that fails half-way leaves trades pending;
- the relay counts a reconnect only when a session throws
  (`lines/venue_relay.cpp:1124`, `1064`).

Accounts and strategies:
- a parent cut off by the end of the run has a horizon midpoint of 0
  (`app/run_accounting.cpp:507`); an overfilled parent has a negative unfilled part;
- the backtest leaves a symbol without a tick out of its mark while its cash has
  been paid, so the curve shows a fall that is not one; ticks of one time are
  sorted in no particular order; it refuses the negative fees (rebates) the run's
  own trades file may hold;
- after its horizon, or once filled, the execution strategy returns early and
  leaves a resting child uncancelled (`strategy/execution_l2.h:243`);
- a trend stop while the target is already 0 starts no cooldown;
- the optimised baseline sends a new round beside the old one until the cancels
  apply; the passive L1 maker sizes a side to the limit less its inventory, which
  can be more than its base size.

## 5. Fairness

Safety runs assume none.  `FairRSpec` (ThreadedReplay) assumes weak fairness of
each thread's steps, because the operating system schedules both and neither
holds a lock, and of each store becoming visible, because cache coherence makes
an atomic store visible in finite time.  `FairSpec` (VenueRelay) assumes weak
fairness of each thread and of the deadline, which stands for a run with
`--max-seconds`; the venue and the engine owe nothing.  `stream_engine`'s send is
assumed to succeed or fail: an engine that keeps its connection open and never
reads blocks it, which is the backpressure the code intends.  `FeedFairness`
(WebSocketFeed) assumes weak fairness of the receive thread except while it waits
for a frame before its deadline or a stop, of the reader unless the engine has
abandoned it, of `stop()` once begun, and that the owner calls `stop()` once its
reader has ended, which the destructor does.

## 6. What is proved

Every theorem is `Spec => []P` (or an action property, or a refinement) for the
component's own specification, all values of its constants and any number of
steps.  The runs check the same `P` on a small instance.

| Module | Theorem | Property |
|---|---|---|
| MarketDataProofs | `RingInvariant`, `TypeCorrect` | `RingInv`, `TypeOK` |
| | `DeliveryInOrder` | `InOrder` |
| | `SlotsNeverRace` | `NoSlotRace` |
| | `DestructorExact` | `LiveObjectsExact` |
| | `NeverOverwrites` | `NoOverwriteOfLive` (action property) |
| | `RingImplementsChannel` | `ImplementsChannel` (refinement) |
| | `ReplayUsesRing` | every behaviour of the threads is one of the ring |
| | `ReplayInvariant`, `ReplayResultHonest` | `ReplayInv`, `ResultHonest` |
| | `LineInvariant`, `LinesWhole` | `LineInv`, `LinesAreTheFiles` |
| | `BookAlwaysTheMap` | `BookIsTheMap` |
| | `GapsCounted` | `GapsExact` |
| | `RecordingReachesEngine` | `EngineGetsRecording` |
| MatchingEngineProofs | `EngineInvariant` | `EngineInv` |
| | `QuantitiesConserved` | `QuantityConserved` |
| | `NothingSpentTwice` | `LiquiditySpentOnce` |
| | `BookAlwaysSound` | `BookSound` |
| | `AcceptedOrdersEnd` | `OrdersEndRight` |
| | `CancelsOnTime` | `DueCancelsApplied` |
| OrderGatewayProofs | `GatewayInvariant` | `GatewayInv` |
| | `SubmissionsInOrder` | `VenueSeesSubmissionOrder` |
| | `ReconciliationExact` | `ReconcileFindsLoss` |
| OrderPipelineProofs | `PipelineInvariant` | `PipelineInv` |
| | `RecordsAlwaysAgree` | `RecordsAgree` |
| | `CancelsAlwaysHeld` | `CancelHeld` |
| | `ReservationAlwaysExact` | `ReservationExact` |
| | `OvershootAlwaysBounded` | `OvershootBounded` |
| WebSocketFeedProofs | `FeedInvariant` | `FeedInv` |
| | `HighWaterWithinRing` | `HighWaterBounded` |
| | `VenueOrderKept` | `StreamInOrder` |
| | `SessionDelivered` | `DeliveredWhole` |
| StrategyDeskProofs | `StrategyAlwaysKnows` | `StrategyKnowsBooks` |
| | `ParentAlwaysExact` | `ParentExact` |
| | `CooldownAlwaysHolds` | `CooldownHolds` |
| | `HaltAlwaysPulls` | `HaltPullsQuotes` |
| | `QuotesNeverStale` | `NoStaleQuotes`, when no flatten band is configured |
| | `LimitAlwaysHolds` | `WithinOwnLimit`, for the configurations of `LimitsFit` |

**Assumptions.** `CapacityAssumption`, `ReplayAssumption`, `EngineAssumption`,
`BrokerAssumption`, `RiskAssumption`, `MakerAssumption`, `PipelineAssumption`,
`RelayAssumption`, `FeedAssumption`, `BlockAssumption`, `LadderAssumption` and
`DeskAssumption`, each in the module that declares the constants, and each evaluated by TLC.  They say that capacities
and lots are positive, latencies, limits and bands natural numbers, shares
percentages, ids and ticks finite sets of positive numbers, the fee rate an integer,
messages sequences of rows, and the desks configurations the factory accepts (sizes,
limits and horizons natural, those it divides by or sends as they are positive);
and that the maker's owner does not normalise to
the market's, whose trades would then be self-trades.  Nothing is assumed of the
order of events or of the client.  `LimitAlwaysHolds` has the hypothesis
`LimitsFit` (below, under Strategies).  The theorems of the decision loop have the
hypothesis `OrderLatency = 0`, which is how the pipeline runs by default: with
latency `ReservationExact` and `CancelHeld` do not hold (section 4).

**Ring.** None of the properties is inductive: `InOrder` says nothing about the
slots, and a step that pops from a slot needs to know what is in it.  `RingInv`
adds `CounterOrder` (what a thread has seen lags what was stored, the reader never
passes the writer, the writer is never a full capacity ahead of what it has seen
of the reader), `WaitingLive` and `RestRaw` (the content of every index of the
window from `read_local` to `read_local + Capacity - 1`, the two slots in
transition included) and `InHand`.  The proof works on windows of indices rather
than on slots: `SlotsDistinct` (indices less than a capacity apart are different
slots), `SlotsWrap` and `SlotsCovered` (a window reaches every slot) are the only
facts about the modulus it needs.  The capacity is any positive number there,
which includes the powers of two the constructor rounds to.  The refinement maps
the abstract queue to the numbers in the window of waiting indices
(`QueueIsWindow`); publishing an index is the abstract send or receive and every
other step is a stutter.

**Replay threads.** `RingSteps` shows that a step of either thread is a step of
the ring or leaves it alone, so `RingInv` holds inside the hand-off.  `ReplayInv`
adds what each place of a thread implies (`FeedSide`,
`StrategySide`) and that a flag is seen only after the ring stores that precede it:
a consumer that sees `producer_done_` and then finds the ring empty has everything.

**Engine.** `EngineInv` speaks of every point of the unrolled loops.  The
accounts (`QuantityConserved`) need to know that an id on a level is in the index
with the data of that level (`IndexMatchesBook`), because a fill takes from the
data and the report from the level; that in turn needs the queues to hold no id
twice.  That the book never crosses itself needs the order being matched not to
rest before nothing facing it is left.  `QuoteInv` follows a quote as it is
displayed, spent and replaced.  `CancelsOnTime` is kept separate: it is about
which of the loops may still have a due cancel ahead of them.

A fill-or-kill order is taken on once the code has added up what it may cross.
`FokCovered` keeps that sum, order by order, ahead of the matcher, so the order is
never left partly filled (the second half of `OrdersEndRight`).

**Decision loop.** While the reports of one engine step are handed out one at a
time, the books tell of a venue in which no step ends.  `Told(p, w, h, y)` says
that books `p` tell of orders with quantities `w`, per side `h`, in states `y`;
each report takes one such venue to the next (`FillTold`, `EndTold`, `RestTold`),
and the last is shown to be the engine's own after the step (`Tracks`).  What is
reserved is a sum over orders, of which a report changes one term (`TotalMoves`).
`EngineInv` says what the reports may be; `OursOnly` is needed because two of the
pipeline's own orders that meet are a self-trade, which ends one by a cancel
report first and by a fill report after it.

The gate is about the future: `check_position_limit` bounds the netted position,
yet one side may fill alone.  `WithinReach` bounds the two extremes, all buys
filled and all sells filled; reports only narrow them (`Narrower`), so only an
order sent can break it.  What the gate lets through is bounded because of what
the maker sends (`SubmitShape`): a bid and an ask with nothing open, or an order
that flattens.  Working this out corrected the property: a limit below the
largest quote is passed by nearly two quotes (a reducing order is let through
whatever its size), and flattening orders, sent on every view whatever is open,
pile up when the band starts below the limit by two or more.  `OvershootBounded`
says what holds, and its mutant (a maker that quotes while quotes are open) breaks it.

**Gateway and broker.** `GSpec` is the gateway over the broker over the engine
with any client; the runs' client is one of its restrictions.  `GatewayInv`
contains the engine's invariant, because what makes a withheld fill visible in
the quantities is that no Trade report has quantity zero, and that holds because
the front of a level is indexed with something remaining.  The reports of a step
are folded into the statement and, as forwarded, into the client's books; the
second fold is followed along the path of the first (`FoldFollowsPath`), so the
difference between the accounts is shown to move only with `dropped`.
`VenueSeesSubmissionOrder` is about numbers stamped at submission and needs the
two queues (`holding`, `sending`) and what was given to be one increasing
sequence.

**Relay.** `GapsExact` needs the state of the decoder to be tied to the messages
still on the wire: the predecessor it will have read when it gets to each of
them, over sessions and snapshots.  `EngineGetsRecording` splits the recording
into what was delivered, what is in the server's hands, the queue and the row
being pushed.

**WebSocket feed.** `FeedInv` ties what was handed over, in the ring, in the
receive thread's event list and in the pending batch and trades, together one
sequence (`HandedInv`), to the accepted rows: every row once, in order, a batch
holding consecutive depth rows of one key.

**Line reader.** `LineInv` says where in the file the reader is: the bytes that have
been cut into lines end at a newline (or, at the end, with the unfinished last
line), there is one line for every newline among them, and the buffer followed by
what is unread is the rest of the file, so a line that straddles two reads is found
whole.  That a refill always has room is part of it: a full buffer is doubled
before the read.

**Order book.** `BookSpec` is the book alone, given any snapshots and batches of
levels (`Snapshots`, `Batches`); the run checks the same property with the feed
around it.  `BookHeld` says that a ladder holds a map (`LadderIs`): every tick has the
map's amount, inside the array or zero outside it, the count is the number of populated ticks
and the remembered best is the nearest of them.  `SetIs`, `ClearIs` and
`GrowKeeps` are the steps of a ladder.  Emptying the best level is the hard one: the
next best is wherever a walk from the emptied slot first meets something, so a walk
is shown to meet the map's ticks in order and each once (`RankedOrder`: how many
levels are ahead of a tick is an injection into 0 .. n - 1, hence onto it).  The same
lemma gives the n-th level and, with `SumAlongWalk`, the depth of a view.  A
snapshot or a batch is two folds, one over the ladders and one over the map, followed
in step; a snapshot's ladder starts new (`LadderOfIs`) and a batch's
begins cleared exactly when the map does, because `burst` is the book's own flag.

**Strategies.** `StrategyKnowsBooks` compares one strategy with one venue, whichever
of the eleven it is.  `Fits(k, s, a, f)` says what the state `s` of a strategy of kind
`k` keeps when the account is `a` and `f` is what is left of each order it believes
open: its position is `a`, its open orders are those of `f` with those quantities, and
its configuration and the sizes its next orders are computed from stay numbers of the
kind the factory gave.  One lemma a callback (`KDecide`, `KSubmit`, `KRefuse`, `KFill`, `KTrade`,
`KEnd`, `KPublic`, `KSend`, `KCancels`) takes `Fits` from one pair of books to the next for
every kind; below it is one a strategy.  `Remains` is the venue's side: what is left of
its orders, less those the strategy has given up, because the execution strategy
forgets a child when it asks for its cancel while the venue still works it until
the next event, and may fill it (`Believable` says that only such an order may be
missing).  The cancels of an event are a fold in whatever order the venue takes
them.  The invariant (`DeskBooks`) also says that an order waiting to be sent is for
something: a child of zero would be open in the strategy and never at the venue.

`ParentExact` holds because of `ParentHeld`.  Taking away what was filled of children
whose cancel was pending (`late`), what is filled and what is left of the slice stay
within the parent, and so do what is filled and what is left of the child
(`WithinParent`): two bounds, because a late fill shrinks the slice while a newer
child works with the quantity it was sent for.  At most one child is open
(`OneChild`), and while an order waits to be sent none is (`NothingWaits`).
`CooldownHolds` holds because of `CooldownHeld`: the views seen and the cooldown left
add up to at least the exit's view and the configured cooldown (`Cooling`), the
target is 0 until then, and an order towards a target of 0 never adds to the position.

`NoStaleQuotes` has two halves.  `HaltPullsQuotes` follows what halts or blinds a maker
(`Marks`: its configuration, the volatility and the counts of the active maker, and the
view) through every callback: only a decision changes it (`Steady`, `SteadyCalls`,
`SteadyEvents`), so `HaltHeld` may say at every step that a maker which is halted or
blind has nothing working and nothing to send.  `OneGeneration` needs each strategy's own
reason for sending: all but two send with nothing open (`SendsOnEmpty`), the execution
strategy has just given its child up (`SendsFreed`), and the optimized maker asks for the
cancel of what does not stand, which requires that the mid it quoted at is not the zero
that also means "never quoted" (`OptimizedPulls`; `MidsHeld` keeps the mids of the window
above zero, so their mean is).  Hence after a decision that sends, nothing works
(`AsksAll`), and what is then sent is of one view.  With a flatten band it is false, and
the code means it so: a flatten order joins the quotes that work.

`WithinOwnLimit` holds because of `LimitHeld`: at most one order a side works at the
venue (`VenueWithin`), each within the limit if it fills in full (`Reach`); what waits to
be sent is at most one order a side, within it too (`Pair`), and on a side where nothing
works (`Apart`); the account, and a trend's target, are within it.  A fill takes from one
side what it gives to the other (`ReachTaken`), and an order waits to be sent only when
nothing was open (`SendsOnEmpty`), so orders of two views never add up.  What is left is
arithmetic: that the size each maker computes fits what is left of the limit (`LWithin`,
`AdjustedWithin`, `TViewWithin`).  It does not always, because the code never compares a
size with the limit, so the theorem is for configurations that satisfy `LimitsFit`, as
all of the run's do: no quote is larger than the limit, the inventory-aware L2 maker has
no flatten band, and the legacy inventory- and flow-aware makers have
`11 * size < 10 * limit + 20`.  Those two scale the size by `1 - 0.9 * position / limit`
up to half the limit, where eleven twentieths of it are left: with size and limit both
100 and a position of 50 they would send 55.  A trend's limit binds in every
configuration.

**Induction.** The library's induction theorems take an operator and are of no
use to the provers here.  `FiniteInduction` states induction as the existence of
a minimal element of a set (`FiniteMinimal`, `NatSetInduction`), proved from the
cardinality of finite sets, and from it what sums over finite sets do when a term
changes or a set grows; `FoldTheorems` proves what `FoldLeft` returns for an
empty and for an appended sequence from the library's definition, for an operator
constant that the client modules instantiate (`ByBroker`, `ByClient`, `ByReport`, `ByLevel`, `ByAmount`,
`ByUpdate`, `ByWord`, `ByCancel`).

**Only model-checked.**

- Liveness (`RunReturns`, `RelayReturns`, `EveryWaitEnds`): temporal reasoning under
  fairness is outside the prover.
- `TableTellsTruth` and `PositionMovesOnce`: they hold for orders that rest on
  landing and fail for others (section 4), so there is nothing general to prove.
- The accounts (`LedgersBalance`, `RoundTripsExplainRealized`, `AuditsExact`,
  `MeasurementsExact`, `SettlementAtItsTime`): they compare the code's running totals
  with folds over the whole history of a run, and the money is exact only for menus on
  which every division is, which only an instance has.
- `ReplayFaithful` and `RecordingReplays`: L2ReplayFeed is built on operators that
  recurse over whole files (`RECURSIVE` operators), outside the prover.

## 7. Plan

1. *(done)* ring, channel, refinement and proofs; replay threads; engine; gateway;
   decision loop; relay.
2. *(done)* broker and reconciliation under the gateway; WebSocket feed; line
   reader, readers, validator, replay feed, recorder and order book; portfolio,
   audits, run accounting, carry, backtest; all strategies, the legacy makers
   included.
3. *(done)* proofs of the replay threads, the engine, the gateway and broker, the
   relay, the WebSocket feed, the line reader, the order book, the decision loop and the
   strategies at the desk.
4. The accounts' `SettlementAtItsTime`.

## 8. Not modelled

- Option parsing, wiring, log lines, printed ratios, histograms and benchmarks:
  computed from the state and never read back into a decision.
- Fair prices: floating point; the model quotes any price and size they
  could give.  The ratios of `performance.cpp` built from square roots.
- Sockets, TLS, frame bytes, JSON and the digits of a CSV field: the models start
  at rows and messages, with a flag for one that does not parse.  `read_exact`
  returning a timeout with part of a header consumed (`lines/venue_relay.cpp:718`)
  is listed as a hazard without a property.
- More than one symbol in the engine: every map of it is keyed by symbol and
  nothing crosses.  The portfolio has two.
- The retired UDP and CSV inputs of the legacy line; its makers are modelled.
- `on_top_of_book` of the active L2 maker, which has no warmup
  (`strategy/active_l2_market_maker.h:44`): the desk shows it views, as the L2 paths do.
- A live source under the replay threads: it blocks in the reader's `next()` and
  does not look at `abort_` (`market/threaded_l2_replay.cpp:139`), listed as a
  hazard.
