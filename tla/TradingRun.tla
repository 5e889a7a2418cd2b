------------------------------ MODULE TradingRun ------------------------------
(***************************************************************************)
(* One run as its accounts see it: app/pipeline.cpp around the portfolio,  *)
(* the order audit and the run accounting, event by event.  An event is    *)
(* begun (funding), the engine reports on working orders, a view advances  *)
(* the midpoint and its quote cycle, and the strategy cancels and submits. *)
(*                                                                         *)
(* The engine is any sequence of reports an order can get (book holds what *)
(* the venue still works; MatchingEngine is the engine itself), and the    *)
(* orders are those the gates of RiskPipeline let through, except that the *)
(* kill switch, which reads the account, is here.                          *)
(***************************************************************************)
EXTENDS RunAccounting, OrderAudit

CONSTANTS
  Scenarios,      \* the runs: specification, parent (or NoParent), funding history
                  \* and, as bounds, the menu of orders, the queue a resting order
                  \* joins behind, the clock's steps and whether fills may be late
  Prices,         \* midpoints and fill prices
  KillLoss,       \* kill_switch_loss_usd, 0 is off
  TicksPerMs,     \* event clock ticks in a millisecond of the funding clock
  MaxEvents, MaxOrders, MaxReports

ASSUME RunAssumption ==
  /\ KillLoss \in Nat /\ TicksPerMs \in Nat \ {0}
  /\ MaxEvents \in Nat /\ MaxOrders \in Nat /\ MaxReports \in Nat

VARIABLES
  terms,     \* the scenario, fixed for the run
  phase,     \* where the handler of the current event is
  now,       \* current_ts_
  cycle,     \* quote_cycle_
  mid,       \* last_mid_
  killed,    \* kill_switch_triggered_
  run,       \* portfolio, accounting, ledger, audit entries, counters, metrics_orders_
  book,      \* what the venue works
  sent,      \* next_order_id_ - 1
  events, reports,   \* bounds
  views,     \* history: each advance_mid with its time, midpoint and equity
  fills,     \* history: each of our fills with its quote cycle
  settled,   \* history: each settlement with the events around its charge
  billed     \* history: per order, commission of its fills and floor charged

tvars == <<terms, phase, now, cycle, mid, killed, run, book, sent, events, reports,
           views, fills, settled, billed>>

Traded == "X"

Marks(m) == [x \in {Traded} |-> m]

Spec0 == terms.spec

TInit ==
  /\ terms \in Scenarios
  /\ run = [account |-> NewPortfolio, accounting |-> NewAccounting(terms.series),
            ledger |-> NoOrders, entries |-> <<>>, quality |-> NewQuality, metrics |-> <<>>]
  /\ phase = "idle" /\ now = 0 /\ cycle = 0 /\ mid = 0 /\ killed = FALSE
  /\ book = <<>> /\ sent = 0 /\ events = 0 /\ reports = 0
  /\ views = <<>> /\ fills = <<>> /\ settled = <<>> /\ billed = <<>>

-----------------------------------------------------------------------------
(* begin_event: funding due by ts is charged at the midpoint the last event
   left. *)
Begun(ts) ==
  LET after == ApplyDueFunding(Spec0, run.accounting, run.account, Traded, ts, mid)
  IN [run EXCEPT !.account = after.account, !.accounting = after.accounting]

BeginEvent(ts) ==
  /\ phase = "idle"
  /\ events < MaxEvents
  /\ now' = ts
  /\ events' = events + 1
  /\ settled' = settled \o
       LET taken == run.accounting.rates.consumed
       IN [k \in 1..(Begun(ts).accounting.rates.consumed - taken) |->
             [due |-> run.accounting.rates.points[taken + k].ts, previous |-> now, at |-> ts]]
  /\ UNCHANGED <<terms, cycle, mid, killed, book, sent, reports, views, fills, billed>>

(* process_l2_market_view, up to the engine's reports. *)
BeginView(ts) ==
  /\ BeginEvent(ts)
  /\ run' = Begun(ts)
  /\ phase' = "view"

(* The same over a view without both sides: the engine is not called and the
   midpoint does not move; the strategy is asked, and every one of them answers
   such a view with cancels at most. *)
BeginOneSidedView(ts) ==
  /\ BeginEvent(ts)
  /\ run' = Begun(ts)
  /\ phase' = "blind"

(* The condition of a fill or a print: its side, and whether it is a tick away. *)
BucketOf(side, price) ==
  (IF side = "Buy" THEN 0 ELSE 2) + (IF AbsOf(price - mid) >= TickSize THEN 0 ELSE 1)

(* process_l2_market_trade, up to the engine's reports.  A print of a known side
   is measured as if we had been its passive side. *)
BeginTrade(ts, passive, price) ==
  /\ BeginEvent(ts)
  /\ run' = IF passive = "Unknown" \/ mid <= 0 THEN Begun(ts)
            ELSE [Begun(ts) EXCEPT !.accounting =
                    NoteMarketPrint(@, [side |-> passive, price |-> price, quantity |-> 1,
                                        cycle |-> cycle, bucket |-> BucketOf(passive, price)])]
  /\ phase' = "trade"

-----------------------------------------------------------------------------
(* The report callback. *)

(* record_taker_measurement: slippage against the midpoint the order decided at. *)
Slippage(order, r) ==
  (r.quantity * UnitNotionalAt(Spec0, order.arrival) * MoveFor(r.side, order.arrival, r.price))
    \div (Spec0.scale * order.arrival)

TakerMeasured(x, r) ==
  LET order == x.metrics[r.id]
      observation == [side |-> r.side, price |-> r.price, quantity |-> r.quantity, cycle |-> cycle]
  IN
  IF r.id \notin DOMAIN x.metrics THEN x
  ELSE [x EXCEPT !.metrics[r.id] =
                   [@ EXCEPT !.filled = @ + r.quantity, !.fees_usd = @ + r.fee,
                             !.filled_usd = @ + Slippage(order, r)],
                 !.accounting = IF r.role = "Taker"
                                THEN NoteTakerFill(@, observation, Slippage(order, r)) ELSE @]

(* close_metrics_order: the terminal report of an aggressive order. *)
MetricsClosed(x, r) ==
  LET order == x.metrics[r.id]
  IN
  IF r.id \notin DOMAIN x.metrics \/ ~IsTerminal(r.kind) THEN x
  ELSE [x EXCEPT !.metrics = Restrict(@, DOMAIN @ \ {r.id}),
                 !.accounting = IF order.aggressive THEN NoteAggressiveOrder(@, order) ELSE @]

(* settle_order: the audit, and the floor it makes due. *)
Settled(x, r) ==
  LET audit == AuditReport(Spec0, x.entries, x.quality, r, cycle)
  IN [x EXCEPT !.ledger = OnReport(@, r, TRUE),
               !.entries = audit.entries, !.quality = audit.quality,
               !.account = ChargeFee(@, audit.owed)]

(* handle_report for a report of ours, with the queue in front of the order. *)
HandleReport(x, r, ahead) ==
  LET rests == /\ r.kind = "Resting" /\ r.id \in DOMAIN x.ledger.audit
               /\ Allowed(x.ledger.audit[r.id], "Resting")
      marked == [x EXCEPT !.ledger = IF r.kind = "Resting" THEN MarkResting(@, r.id) ELSE @,
                          !.entries = IF rests THEN ProfileResting(@, r.id, ahead) ELSE @]
      fill == [side |-> r.side, price |-> r.price, quantity |-> r.quantity, cycle |-> cycle,
               bucket |-> BucketOf(r.side, r.price)]
      applied == [marked EXCEPT !.account = ApplyReport(Spec0, @, r)]
      noted == IF r.kind # "Trade" THEN applied
               ELSE LET taken == TakerMeasured([applied EXCEPT !.accounting = NoteFill(@, fill)], r)
                    IN [taken EXCEPT !.accounting = NoteParentFill(Spec0, @, r)]
  IN MetricsClosed(Settled(noted, r), r)

Rate(role) == IF role = "Maker" THEN Spec0.maker_rate ELSE Spec0.taker_rate

TradeReport(id, side, price, n, role) ==
  [kind |-> "Trade", id |-> id, symbol |-> Traded, side |-> side, price |-> price, quantity |-> n,
   role |-> role, ts |-> now,
   fee |-> FeeOnFill(Spec0, Rate(role), price, n)
             + ScheduleFeeOnFill(Spec0, price, n, side = "Sell", role = "Maker")]

EndReport(kind, id, side) ==
  [kind |-> kind, id |-> id, symbol |-> Traded, side |-> side, price |-> 0, quantity |-> 0,
   role |-> "Unknown", ts |-> now, fee |-> 0]

(* The reports of one execution of n units: the Trade, and Filled behind the last. *)
Executed(x, id, side, left, price, n, role) ==
  LET traded == HandleReport(x, TradeReport(id, side, price, n, role), 0)
  IN IF n = left THEN HandleReport(traded, EndReport("Filled", id, side), 0) ELSE traded

(* History of what an order was charged: its commission while open, then the floor. *)
Bill(id, n) ==
  [billed EXCEPT ![id].commission = IF id \in DOMAIN run.entries
                                    THEN @ + (n * Spec0.fee_per_share) \div Spec0.scale ELSE @,
                 ![id].filled = IF id \in DOMAIN run.entries THEN @ + n ELSE @,
                 ![id].floor = @ + run'.quality.floor_paid - run.quality.floor_paid]

FillOf(side, price, n, role) ==
  [side |-> side, price |-> price, quantity |-> n, cycle |-> cycle, role |-> role, at_mid |-> mid]

Reporting == phase \in {"view", "trade"} /\ reports < MaxReports /\ reports' = reports + 1

(* The engine fills a working order. *)
FillWorking(id, price, n) ==
  LET order == book[id]
  IN
  /\ Reporting
  /\ n <= order.left
  /\ run' = Executed(run, id, order.side, order.left, price, n, "Maker")
  /\ book' = IF n = order.left THEN Restrict(book, DOMAIN book \ {id})
             ELSE [book EXCEPT ![id].left = @ - n, ![id].ahead = 0]
  /\ fills' = Append(fills, FillOf(order.side, price, n, "Maker"))
  /\ billed' = Bill(id, n)
  /\ UNCHANGED <<terms, phase, now, cycle, mid, killed, sent, events, views, settled>>

(* The engine applies a cancel the strategy asked for. *)
CancelWorking(id) ==
  /\ Reporting
  /\ id \in run.ledger.cancelling
  /\ run' = HandleReport(run, EndReport("Cancelled", id, book[id].side), 0)
  /\ book' = Restrict(book, DOMAIN book \ {id})
  /\ billed' = Bill(id, 0)
  /\ UNCHANGED <<terms, phase, now, cycle, mid, killed, sent, events, views, fills, settled>>

(* A fill of an order whose end was already reported: a copy of the order that a
   timeout had sent again. *)
LateFill(id, side, price) ==
  /\ Reporting
  /\ terms.late
  /\ id \in 1..sent /\ id \notin DOMAIN run.entries
  /\ run' = HandleReport(run, TradeReport(id, side, price, 1, "Maker"), 0)
  /\ fills' = Append(fills, FillOf(side, price, 1, "Maker"))
  /\ UNCHANGED <<terms, phase, now, cycle, mid, killed, book, sent, events, views, settled, billed>>

(* The queue in front of a working order shrinks. *)
QueueShrinks(id) ==
  /\ Reporting
  /\ book[id].ahead > 0
  /\ book' = [book EXCEPT ![id].ahead = @ - 1]
  /\ UNCHANGED <<terms, phase, now, cycle, mid, killed, run, sent, events, views, fills,
                 settled, billed>>

Ahead == [id \in DOMAIN run.entries |-> book[id].ahead]

(* A trade ends with a sample of the queues. *)
EndTrade ==
  /\ phase = "trade"
  /\ phase' = "idle"
  /\ run' = [run EXCEPT !.entries = SampleResting(@, Ahead)]
  /\ UNCHANGED <<terms, now, cycle, mid, killed, book, sent, events, reports, views, fills,
                 settled, billed>>

-----------------------------------------------------------------------------
(* advance_mid's parent clock: open, close at the deadline, or observe. *)
ParentAt(a, m) ==
  IF ~ParentRequested(terms.parent) THEN a
  ELSE IF ~a.parent.started THEN StartParent(a, now, m)
  ELSE IF ParentHorizonReached(a, terms.parent, now)
       THEN FinishParent(Spec0, a, terms.parent, now, m)
  ELSE ObserveParentMid(a, now, m)

(* advance_mid and record_market_prints: the sample of the account, the parent,
   then whatever has reached its horizon. *)
AdvanceMid(m) ==
  LET equity == EquityAt(Spec0, run.account, Marks(m))
      sampled == ParentAt(NoteEquity(run.accounting, now, equity), m)
      drained == DrainTakerMeasurements(Spec0, DrainMatureMarkouts(sampled, cycle + 1, m), cycle + 1, m)
  IN
  /\ phase = "view"
  /\ phase' = "cancel"
  /\ mid' = m
  /\ cycle' = cycle + 1
  /\ run' = [run EXCEPT !.accounting =
               PublishMarkoutEstimate(DrainMaturePrints(drained, cycle + 1, m))]
  /\ views' = Append(views, [ts |-> now, mid |-> m, equity |-> equity])
  /\ UNCHANGED <<terms, now, killed, book, sent, events, reports, fills, settled, billed>>

(* submit_strategy_actions, the cancels: the engine is asked once per order. *)
AskCancel(id) ==
  /\ phase \in {"cancel", "blind"}
  /\ id \in DOMAIN run.entries
  /\ FirstCancel(run.ledger, id)
  /\ run' = [run EXCEPT !.ledger = BeginCancel(@, id),
                        !.entries = ProfileCancel(@, id, book[id].ahead)]
  /\ UNCHANGED <<terms, phase, now, cycle, mid, killed, book, sent, events, reports, views, fills,
                 settled, billed>>

(* What the kill switch is given: metrics() holds the unrealized result of the
   last mark_to_market, and a run marks only when its input has ended. *)
KillSwitchPnl == run.account.realized + run.account.unrealized

(* The check of the kill switch, once a cycle, and with it begin_cycle. *)
CheckKillSwitch ==
  /\ phase \in {"cancel", "blind"}
  /\ phase' = IF phase = "cancel" THEN "checked" ELSE "asked"
  /\ killed' = (killed \/ (KillLoss > 0 /\ KillSwitchPnl <= -KillLoss))
  /\ UNCHANGED <<terms, now, cycle, mid, run, book, sent, events, reports, views, fills,
                 settled, billed>>

(* submit_order past the gates, up to send_order: identity, metrics and audit. *)
Opened(id, o) ==
  [run EXCEPT
     !.metrics = (id :> [side |-> o.side, arrival |-> mid, ordered |-> o.quantity, filled |-> 0,
                         fees_usd |-> 0, filled_usd |-> 0, cycle |-> cycle,
                         aggressive |-> o.tif \in {"Ioc", "Fok"}]) @@ @,
     !.accounting = NoteParentChild(@),
     !.ledger = OpenOrder(@, id),
     !.entries = OpenAudit(@, id, cycle),
     !.quality.audited = @ + 1]

Submitting(o) ==
  /\ phase \in {"checked", "submit"} /\ ~killed /\ sent < MaxOrders
  /\ ParentRequested(terms.parent) => o.side = terms.parent.side
  /\ phase' = "submit"
  /\ sent' = sent + 1
  /\ UNCHANGED <<terms, now, cycle, mid, killed, events, reports, views, settled>>

Unbilled == [commission |-> 0, filled |-> 0, floor |-> 0]

(* A resting order is acknowledged behind the queue of its level. *)
SubmitResting(o, ahead) ==
  /\ o.tif = "Gtc"
  /\ Submitting(o)
  /\ run' = HandleReport(Opened(sent + 1, o), EndReport("Resting", sent + 1, o.side), ahead)
  /\ book' = ((sent + 1) :> [side |-> o.side, left |-> o.quantity, ahead |-> ahead]) @@ book
  /\ billed' = ((sent + 1) :> Unbilled) @@ billed
  /\ UNCHANGED fills

(* The venue refuses it: handle_rejected_order. *)
SubmitRefused(o) ==
  /\ Submitting(o)
  /\ run' = MetricsClosed(Settled(Opened(sent + 1, o), EndReport("Rejected", sent + 1, o.side)),
                          EndReport("Rejected", sent + 1, o.side))
  /\ billed' = ((sent + 1) :> Unbilled) @@ billed
  /\ UNCHANGED <<book, fills>>

(* An aggressive order takes n units inside send_order and what is left dies. *)
SubmitAggressive(o, price, n) ==
  LET id == sent + 1
      taken == IF n = 0 THEN Opened(id, o)
               ELSE Executed(Opened(id, o), id, o.side, o.quantity, price, n, "Taker")
      after == IF n = o.quantity THEN taken
               ELSE HandleReport(taken, EndReport("Cancelled", id, o.side), 0)
  IN
  /\ o.tif \in {"Ioc", "Fok"}
  /\ n <= o.quantity /\ (o.tif = "Fok" => n \in {0, o.quantity})
  /\ Submitting(o)
  /\ run' = after
  /\ fills' = IF n = 0 THEN fills ELSE Append(fills, FillOf(o.side, price, n, "Taker"))
  /\ billed' = (id :> [commission |-> (n * Spec0.fee_per_share) \div Spec0.scale, filled |-> n,
                       floor |-> run'.quality.floor_paid - run.quality.floor_paid]) @@ billed
  /\ UNCHANGED book

(* The view ends with a sample of the queues. *)
EndView ==
  /\ phase \in {"checked", "submit", "asked"}
  /\ phase' = "idle"
  /\ run' = [run EXCEPT !.entries = SampleResting(@, Ahead)]
  /\ UNCHANGED <<terms, now, cycle, mid, killed, book, sent, events, reports, views, fills,
                 settled, billed>>

(* The input has ended: the account is marked at the final midpoint. *)
EndRun ==
  /\ phase = "idle" /\ events = MaxEvents
  /\ phase' = "ended"
  /\ run' = IF mid > 0 THEN [run EXCEPT !.account = MarkToMarket(Spec0, @, Marks(mid))] ELSE run
  /\ UNCHANGED <<terms, now, cycle, mid, killed, book, sent, events, reports, views, fills,
                 settled, billed>>

TNext ==
  \/ \E dt \in terms.steps : BeginView(now + dt) \/ BeginOneSidedView(now + dt)
  \/ \E passive \in {"Buy", "Unknown"}, price \in Prices : BeginTrade(now, passive, price)
  \/ \E id \in DOMAIN book, price \in Prices, n \in 1..2 : FillWorking(id, price, n)
  \/ \E id \in DOMAIN book : CancelWorking(id) \/ QueueShrinks(id)
  \/ \E id \in 1..sent, price \in Prices : LateFill(id, "Buy", price)
  \/ EndTrade \/ CheckKillSwitch \/ EndView \/ EndRun
  \/ \E m \in Prices : AdvanceMid(m)
  \/ \E id \in DOMAIN book : AskCancel(id)
  \/ \E o \in terms.menu : SubmitResting(o, terms.ahead)
  \/ \E o \in terms.menu : SubmitRefused(o)
  \/ \E o \in terms.menu, price \in Prices, n \in 0..2 : SubmitAggressive(o, price, n)

-----------------------------------------------------------------------------
(* Properties. *)

(* portfolio.cpp apply, charge_fee, accrue_interval_flow, mark_values: at every
   price, cash with what is held is the starting cash with the realized and the
   unrealized result, through flips, partial closes, floors, funding and fills that
   arrive after their order's end. *)
AccountBalances ==
  \A m \in Prices :
    EquityAt(Spec0, run.account, Marks(m))
      = InitialCash + run.account.realized + UnrealizedAt(Spec0, run.account, Marks(m))

(* portfolio.cpp settle_close with run_accounting.cpp round_trip_summary: the round
   trips, less the entry fees an open position still carries, with the funding and
   the commission floors, are the realized result. *)
RoundTripsExplainRealized ==
  LET trips == RoundTrips(run.account.closed, {"Buy", "Sell"})
  IN /\ run.account.realized
          = trips.net - run.account.positions[Traded].entry_fees
              + run.accounting.flow - run.quality.floor_paid
     /\ trips.net = RoundTrips(run.account.closed, {"Buy"}).net
                      + RoundTrips(run.account.closed, {"Sell"}).net

(* order_ledger.cpp on_report with min_commission_shortfall: an ended order that
   filled has paid the larger of its commission and the floor, an open or unfilled
   one no floor, and every audited order is open or counted in one way it ended. *)
FloorChargedOnce ==
  /\ \A id \in DOMAIN billed :
       billed[id].commission + billed[id].floor
         = IF id \in DOMAIN run.entries \/ billed[id].filled = 0 THEN billed[id].commission
           ELSE Max({billed[id].commission, Spec0.min_commission})
  /\ run.quality.audited = Cardinality(DOMAIN run.entries) + run.quality.filled
                             + run.quality.cancelled + run.quality.rejected

(* order_ledger.cpp mark_resting, sample_resting, begin_cancel: in every profile the
   smallest queue seen is at most the queue at the end, and that at most the queue
   joined. *)
QueueProfileOrdered ==
  \A k \in DOMAIN run.quality.profiles :
    LET e == run.quality.profiles[k] IN e.min_ahead <= e.at_end /\ e.at_end <= e.at_rest

DueAt(horizon, k) == fills[k].cycle + horizon

MovesSince(horizon, roles) ==
  LET due == {k \in DOMAIN fills : fills[k].role \in roles /\ DueAt(horizon, k) <= cycle}
  IN MapThenSumSet(LAMBDA k : (fills[k].quantity
                                 * MoveFor(fills[k].side, fills[k].price,
                                           views[DueAt(horizon, k)].mid)) \div TickSize, due)

(* run_accounting.cpp drain_mature_markouts and drain_taker_measurements: each fill is
   valued once, at the midpoint of the very cycle its horizon ends in, however many
   were waiting and in whatever order they came. *)
MeasuredAtTheHorizon ==
  /\ MapThenSumSet(LAMBDA b : run.accounting.bucket[b].ticks, Buckets)
       = -MovesSince(MarkoutHorizon, {"Maker", "Taker"})
  /\ \A h \in DOMAIN TakerHorizons :
       run.accounting.edge[h].ticks = MovesSince(TakerHorizons[h], {"Taker"})

(* run_accounting.cpp note_equity: the curve holds, for each bucket that was sampled,
   the last sample taken in it. *)
CurveHoldsCloses ==
  run.accounting.curve =
    LET closes == {k \in DOMAIN views :
                     \A j \in DOMAIN views :
                       j > k => views[j].ts \div EquityBucket # views[k].ts \div EquityBucket}
        at == SetToSortSeq(closes, <)
    IN [k \in DOMAIN at |-> [ts |-> views[at[k]].ts, equity |-> views[at[k]].equity]]

(* run_accounting.cpp start_parent, observe_parent_mid, finish_parent: the benchmark
   covers the parent's window from its first midpoint to the last one observed without
   a gap, each midpoint for the time it held; and when the deadline has closed it, the
   shortfall is what filling everything cost, the rest at the deadline's midpoint,
   over the price the parent decided at; against the time-weighted midpoint it differs
   by exactly the market's drift from that price, unless the parent is overfilled. *)
ParentMeasured ==
  LET x == run.accounting.parent
      spec == terms.parent
      last == IF x.finished THEN {k \in DOMAIN views : views[k].ts >= x.start_ts + spec.horizon}
              ELSE {Len(views)}
      end == Min(last)
      held(k) == IF x.finished /\ k + 1 = end THEN views[end].mid ELSE views[k].mid
      sign == IF spec.side = "Buy" THEN 1 ELSE -1
      unfilled == Max({spec.quantity - x.filled, 0})
      twap == TwapMid(x)
      summary == ParentSummary(x, spec)
  IN x.started =>
       /\ x.time = views[end].ts - x.start_ts
       /\ x.area = MapThenSumSet(LAMBDA k : held(k) * (views[k + 1].ts - views[k].ts), 1..(end - 1))
       /\ x.finished /\ Spec0.face = 0 =>
            Spec0.scale * (x.filled_usd + x.opportunity)
              = sign * (x.spent + unfilled * x.horizon_mid - (x.filled + unfilled) * x.decision)
       /\ x.finished /\ Spec0.face = 0 /\ x.filled <= spec.quantity =>
            Spec0.scale * twap[2] * (summary.total - x.fees)
              - (summary.filled_vs_twap + summary.opportunity_vs_twap)
              = sign * spec.quantity * (twap[1] - x.decision * twap[2])

(* docs/ARCHITECTURE.md:1529 and run_accounting.cpp apply_due_funding: a settlement is
   applied once, in order, at the first event at or after its time. *)
SettlementAtItsTime ==
  \A k \in DOMAIN settled :
    /\ settled[k].due = run.accounting.rates.points[k].ts
    /\ settled[k].at >= settled[k].due * TicksPerMs
    /\ settled[k].previous < settled[k].due * TicksPerMs \/ settled[k].previous = 0
=============================================================================
