---------------------------- MODULE RunAccounting ----------------------------
(***************************************************************************)
(* app/run_accounting.*: the run's measurements that resolve later than    *)
(* what they measure, as operators on a record a.  Fills wait for their    *)
(* markout and crossing fills for their edges until a number of quote      *)
(* cycles has passed, ended aggressive orders for the cost of what they    *)
(* never got, the equity curve keeps the close of each bucket, and the     *)
(* parent order is measured from its first midpoint to its deadline.       *)
(* Averages are kept as their sums.                                        *)
(***************************************************************************)
EXTENDS Portfolio

CONSTANTS MarkoutHorizon,   \* markout_horizon_cycles_
          TakerHorizons,    \* kTakerEdgeHorizons
          EquityBucket,     \* kEquityBucketUs
          TickSize

ASSUME HorizonAssumption ==
  /\ MarkoutHorizon \in Nat \ {0}
  /\ \A h \in DOMAIN TakerHorizons : TakerHorizons[h] \in Nat \ {0}
  /\ EquityBucket \in Nat \ {0}
  /\ TickSize \in Nat \ {0}

Buckets == 0..3

NoParent == [side |-> "Unknown", quantity |-> 0, horizon |-> 0]

NewParent ==
  [started |-> FALSE, finished |-> FALSE, start_ts |-> 0, decision |-> 0, filled |-> 0,
   children |-> 0, filled_usd |-> 0, fees |-> 0, spent |-> 0, maker_units |-> 0,
   role_fees |-> [Maker |-> 0, Taker |-> 0], horizon_mid |-> 0, opportunity |-> 0,
   area |-> 0, time |-> 0, last_ts |-> 0, last_mid |-> 0]

NewAccounting(series) ==
  [rates |-> series, settlements |-> 0, flow |-> 0,
   markouts |-> <<>>, adverse |-> 0, marked |-> 0,
   bucket |-> [b \in Buckets |-> [ticks |-> 0, quantity |-> 0]],
   prints |-> <<>>, print_samples |-> 0,
   print_bucket |-> [b \in Buckets |-> [ticks |-> 0, quantity |-> 0]],
   estimate |-> [b \in Buckets |-> [ticks |-> 0, quantity |-> 0]],
   curve |-> <<>>,
   taker_fills |-> 0, slippage |-> 0,
   edges |-> [h \in DOMAIN TakerHorizons |-> <<>>],
   edge |-> [h \in DOMAIN TakerHorizons |-> [ticks |-> 0, quantity |-> 0]],
   shortfalls |-> <<>>, aggressive |-> 0, missed |-> 0, short_filled |-> 0, short_fees |-> 0,
   parent |-> NewParent]

(* Mutant: a drain takes one at most. *)
DueFrontOne(queue, cycle, horizon) ==
  IF queue # <<>> /\ cycle >= Head(queue).cycle + horizon THEN 1 ELSE 0

(* How many leave the front of a queue in one drain: its loop stops at the first
   entry that is not due. *)
DueFront(queue, cycle, horizon) ==
  Max({n \in 0..Len(queue) : \A k \in 1..n : cycle >= queue[k].cycle + horizon})

Rest(queue, n) == SubSeq(queue, n + 1, Len(queue))

(* What the midpoint has moved for a holder of that side since price. *)
MoveFor(side, price, mid) == IF side = "Buy" THEN mid - price ELSE price - mid

(* A weighted sum of moves in ticks. *)
AddMove(sums, move, quantity) ==
  [ticks |-> sums.ticks + (move * quantity) \div TickSize, quantity |-> sums.quantity + quantity]

(* Mutant: one settlement an event. *)
ApplyDueFundingOne(s, a, p, symbol, ts, mid) ==
  LET taken == TakenSettlements(a.rates, ts)
      due == SubSeq(taken, 1, Min({1, Len(taken)}))
      charged == IF mid <= 0 THEN <<>> ELSE due
      account == FoldLeft(LAMBDA q, x : AccrueIntervalFlow(s, q, symbol, -x.rate, mid), p, charged)
  IN [accounting |-> [a EXCEPT !.rates.consumed = @ + Min({1, DueUpTo(a.rates, ts)}),
                               !.settlements = @ + Min({1, DueUpTo(a.rates, ts)}),
                               !.flow = @ + account.realized - p.realized],
      account |-> account]

(* apply_due_funding: every settlement at or before ts is consumed, and charged
   on the position at the last midpoint when there is one. *)
ApplyDueFunding(s, a, p, symbol, ts, mid) ==
  LET due == TakenSettlements(a.rates, ts)
      charged == IF mid <= 0 THEN <<>> ELSE due
      account == FoldLeft(LAMBDA q, x : AccrueIntervalFlow(s, q, symbol, -x.rate, mid), p, charged)
  IN [accounting |-> [a EXCEPT !.rates = TakeSettlements(@, ts),
                               !.settlements = @ + Len(due),
                               !.flow = @ + account.realized - p.realized],
      account |-> account]

(* note_fill and note_market_print. *)
NoteFill(a, observation) == [a EXCEPT !.markouts = Append(@, observation)]

NoteMarketPrint(a, observation) == [a EXCEPT !.prints = Append(@, observation)]

(* drain_mature_markouts: a positive markout is what came back against us. *)
DrainMatureMarkouts(a, cycle, mid) ==
  LET n == DueFront(a.markouts, cycle, MarkoutHorizon)
      resolve(t, o) ==
        [t EXCEPT !.adverse = @ - MoveFor(o.side, o.price, mid),
                  !.marked = @ + 1,
                  !.bucket[o.bucket] = AddMove(@, -MoveFor(o.side, o.price, mid), o.quantity)]
  IN [FoldLeft(resolve, a, SubSeq(a.markouts, 1, n)) EXCEPT !.markouts = Rest(@, n)]

(* drain_mature_prints *)
DrainMaturePrints(a, cycle, mid) ==
  LET n == DueFront(a.prints, cycle, MarkoutHorizon)
      resolve(t, o) ==
        [t EXCEPT !.print_samples = @ + 1,
                  !.print_bucket[o.bucket] = AddMove(@, MoveFor(o.side, o.price, mid), o.quantity)]
  IN [FoldLeft(resolve, a, SubSeq(a.prints, 1, n)) EXCEPT !.prints = Rest(@, n)]

(* publish_markout_estimate: what the strategy is told is our own fills' sums. *)
PublishMarkoutEstimate(a) == [a EXCEPT !.estimate = a.bucket]

(* note_equity: one point per bucket, the last one seen in it. *)
NoteEquity(a, ts, equity) ==
  LET point == [ts |-> ts, equity |-> equity]
  IN IF a.curve # <<>> /\ ts \div EquityBucket = Last(a.curve).ts \div EquityBucket
     THEN [a EXCEPT !.curve[Len(a.curve)] = point]
     ELSE [a EXCEPT !.curve = Append(@, point)]

(* note_taker_fill: the fill waits once in the queue of every horizon. *)
NoteTakerFill(a, observation, slippage) ==
  [a EXCEPT !.taker_fills = @ + 1, !.slippage = @ + slippage,
            !.edges = [h \in DOMAIN @ |-> Append(@[h], observation)]]

(* note_aggressive_order: only what it never got has to wait. *)
NoteAggressiveOrder(a, order) ==
  [a EXCEPT !.aggressive = @ + 1,
            !.short_filled = @ + order.filled_usd,
            !.short_fees = @ + order.fees_usd,
            !.shortfalls = Append(@, [side |-> order.side, decision |-> order.arrival,
                                      unfilled |-> Max({order.ordered - order.filled, 0}),
                                      cycle |-> order.cycle])]

(* drain_taker_measurements *)
DrainTakerMeasurements(s, a, cycle, mid) ==
  LET n(h) == DueFront(a.edges[h], cycle, TakerHorizons[h])
      drained(h) == FoldLeft(LAMBDA sums, o : AddMove(sums, MoveFor(o.side, o.price, mid), o.quantity),
                             a.edge[h], SubSeq(a.edges[h], 1, n(h)))
      m == DueFront(a.shortfalls, cycle, MarkoutHorizon)
      cost(o) == IF o.unfilled = 0 \/ o.decision <= 0 \/ mid <= 0 THEN 0
                 ELSE (o.unfilled * UnitNotionalAt(s, o.decision) * MoveFor(o.side, o.decision, mid))
                        \div (s.scale * o.decision)
  IN [a EXCEPT !.edge = [h \in DOMAIN TakerHorizons |-> drained(h)],
               !.edges = [h \in DOMAIN TakerHorizons |-> Rest(@[h], n(h))],
               !.missed = FoldLeft(LAMBDA sum, o : sum + cost(o), @, SubSeq(a.shortfalls, 1, m)),
               !.shortfalls = Rest(@, m)]

(* set_parent_order *)
ParentRequested(spec) == spec.side # "Unknown" /\ spec.quantity > 0 /\ spec.horizon > 0

(* start_parent: the first midpoint is the decision price and the baseline. *)
StartParent(a, ts, mid) ==
  IF mid <= 0 THEN a
  ELSE [a EXCEPT !.parent.started = TRUE, !.parent.start_ts = ts, !.parent.decision = mid,
                 !.parent.last_ts = ts, !.parent.last_mid = mid]

Working(parent) == parent.started /\ ~parent.finished

(* The midpoint is a step function: the last one held until ts. *)
Segment(parent, ts, mid) == parent.last_mid * (ts - parent.last_ts)

(* observe_parent_mid *)
ObserveParentMid(a, ts, mid) ==
  IF ~Working(a.parent) \/ mid <= 0 THEN a
  ELSE LET longer == ts > a.parent.last_ts
           area == IF longer THEN Segment(a.parent, ts, mid) ELSE 0
           time == IF longer THEN ts - a.parent.last_ts ELSE 0
       IN [a EXCEPT !.parent.area = @ + area, !.parent.time = @ + time,
                    !.parent.last_ts = ts, !.parent.last_mid = mid]

(* note_parent_child *)
NoteParentChild(a) == IF Working(a.parent) THEN [a EXCEPT !.parent.children = @ + 1] ELSE a

(* note_parent_fill: a cost against the decision price. *)
NoteParentFill(s, a, r) ==
  LET cost == (r.quantity * UnitNotionalAt(s, a.parent.decision)
                 * MoveFor(r.side, a.parent.decision, r.price)) \div (s.scale * a.parent.decision)
  IN
  IF ~Working(a.parent) \/ r.quantity = 0 THEN a
  ELSE [a EXCEPT !.parent.filled = @ + r.quantity, !.parent.fees = @ + r.fee,
                 !.parent.spent = @ + r.quantity * r.price,
                 !.parent.maker_units = IF r.role = "Maker" THEN @ + r.quantity ELSE @,
                 !.parent.role_fees = [x \in DOMAIN @ |-> IF x = r.role THEN @[x] + r.fee ELSE @[x]],
                 !.parent.filled_usd = @ + cost]

(* parent_horizon_reached *)
ParentHorizonReached(a, spec, ts) == Working(a.parent) /\ ts >= a.parent.start_ts + spec.horizon

(* What the quantity the parent never got costs at the deadline's midpoint. *)
Opportunity(s, parent, spec, mid) ==
  LET unfilled == Max({spec.quantity - parent.filled, 0})
  IN IF unfilled = 0 \/ mid <= 0 THEN 0
     ELSE (unfilled * UnitNotionalAt(s, parent.decision) * MoveFor(spec.side, parent.decision, mid))
            \div (s.scale * parent.decision)

(* finish_parent: the last segment is closed at the deadline's midpoint. *)
FinishParent(s, a, spec, ts, mid) ==
  LET longer == ts > a.parent.last_ts
      end == IF mid > 0 THEN mid ELSE a.parent.last_mid
  IN [a EXCEPT !.parent.finished = TRUE, !.parent.horizon_mid = mid,
               !.parent.area = IF longer THEN @ + end * (ts - a.parent.last_ts) ELSE @,
               !.parent.time = IF longer THEN @ + ts - a.parent.last_ts ELSE @,
               !.parent.opportunity = @ + Opportunity(s, a.parent, spec, mid)]

(* fill_round_trip_distribution over the trades opened on one of the sides. *)
RoundTrips(trades, sides) ==
  LET chosen == SelectSeq(trades, LAMBDA t : t.side \in sides)
      net(t) == t.pnl - t.fee
      sum(f(_)) == FoldLeft(LAMBDA total, t : total + f(t), 0, chosen)
  IN [trades |-> Len(chosen),
      wins |-> Len(SelectSeq(chosen, LAMBDA t : net(t) > 0)),
      losses |-> Len(SelectSeq(chosen, LAMBDA t : net(t) < 0)),
      win_sum |-> sum(LAMBDA t : Max({net(t), 0})),
      loss_sum |-> sum(LAMBDA t : Min({net(t), 0})),
      net |-> sum(net),
      fees |-> sum(LAMBDA t : t.fee),
      holding |-> sum(LAMBDA t : Max({t.exit_ts - t.entry_ts, 0}))]

(* parent_summary: the three terms of the shortfall, and the two against the
   time-weighted midpoint area/time times that midpoint's denominator. *)
TwapMid(parent) ==
  IF parent.time > 0 THEN <<parent.area, parent.time>> ELSE <<parent.decision, 1>>

ParentSummary(parent, spec) ==
  LET twap == TwapMid(parent)
      sign == IF spec.side = "Buy" THEN 1 ELSE -1
  IN [complete |-> parent.finished,
      total |-> parent.filled_usd + parent.fees + parent.opportunity,
      filled_vs_twap |-> sign * (parent.spent * twap[2] - twap[1] * parent.filled),
      opportunity_vs_twap |->
        (spec.quantity - parent.filled) * sign * (parent.horizon_mid * twap[2] - twap[1])]
=============================================================================
