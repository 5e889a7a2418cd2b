--------------------------- MODULE MatchingEngine ---------------------------
(***************************************************************************)
(* exchange::MatchingEngine for one symbol (the engine keys every map by   *)
(* symbol and nothing crosses from one to another): price-time priority    *)
(* over the strategies' own resting orders, the external best bid and      *)
(* offer as liquidity to take, public trades as synthetic market orders,   *)
(* the queue ahead of a resting order, order and cancel latency.           *)
(*                                                                         *)
(* The engine is single threaded.  A call that loops (advance_to,          *)
(* apply_pending_cancels, match_side) is unrolled: "pc" says which loop    *)
(* the engine is in, one step is one iteration, and no other call begins   *)
(* before it is back at "idle".                                            *)
(*                                                                         *)
(* Prices are ticks.  Fees, symbols and the price on a report are left     *)
(* out; the kind, the order, its side and the quantity are kept.           *)
(***************************************************************************)
EXTENDS Integers, Sequences, FiniteSets, Functions

CONSTANTS
  Ids,                 \* order ids in use
  Ticks,               \* price ticks
  Owners,              \* owner strings, "" and "Market" among them
  NormalizeOwner,      \* normalize_owner, as a function on Owners
  OrderLatency,        \* order_latency_us_
  CancelLatency,       \* cancel_latency_us_
  CancelDelayEvents,   \* cancel_delay_events_
  LotSize,             \* lot_size_
  MinOrderQuantity,    \* min_order_quantity_
  ParticipationPct,    \* participation_limit_, in percent
  ArrivalPct,          \* arrival_share_, in percent
  QueueModelName,      \* "conservative" | "optimistic" | "pro_rata" | "lumpy"
  LumpChunks           \* lump_chunks_ of the lumpy model

ASSUME EngineAssumption ==
  /\ Ids \subseteq Nat \ {0} /\ IsFiniteSet(Ids)
  /\ Ticks \subseteq Nat \ {0} /\ IsFiniteSet(Ticks)
  /\ {"", "Market"} \subseteq Owners
  /\ NormalizeOwner \in [Owners -> Owners]
  /\ OrderLatency \in Nat /\ CancelLatency \in Nat /\ CancelDelayEvents \in Nat
  /\ LotSize \in Nat \ {0} /\ MinOrderQuantity \in Nat \ {0}
  /\ ParticipationPct \in 0 .. 100 /\ ArrivalPct \in 0 .. 100
  /\ QueueModelName \in {"conservative", "optimistic", "pro_rata", "lumpy"}
  /\ LumpChunks \in Nat \ {0}

VARIABLES
  levels,         \* books_: per side and tick, the ids of PriceLevel.orders
  ahead,          \* PriceLevel.external_queue_ahead (0 where there is no level)
  order_index,    \* the keys of order_index_
  data,           \* the Order each index entry points at
  bbo,            \* external_bbo_, {} or one quote
  l2_top,         \* l2_top_bbo_, {} or one quote
  l2_seen,        \* queue_ahead_ids_ holds the symbol
  trade_ts,       \* last_bid_trade_ts_ under "Buy", last_ask_trade_ts_ "Sell"
  in_flight,      \* in_flight_orders_
  pending,        \* pending_cancels_, as a set of records
  event_counter,  \* event_counter_
  now,            \* now_us_
  rejected,       \* rejected_orders_
  consumed,       \* queue_ahead_consumed_
  pc,             \* which loop the engine is in
  back,           \* where pc goes when match_side returns
  cur,            \* new_order of match_side
  starting_qty,   \* starting_qty of match_side
  ev,             \* the market event being processed
  reports,        \* the reports of the last step, in order
  owed,           \* history: per id, quantity taken in and not yet reported
  unended,        \* history: per id, acceptances without a terminal report
  shown,          \* history: the stored quote as it arrived
  spent           \* history: taken from it by our orders, per side

bookVars == <<levels, ahead, order_index, data>>
quoteVars == <<bbo, l2_top, l2_seen, trade_ts, shown>>
clockVars == <<event_counter, now>>
delayVars == <<in_flight, pending>>
matchVars == <<back, cur, starting_qty>>
histVars == <<reports, owed, unended>>
engineVars == <<bookVars, quoteVars, clockVars, delayVars, rejected, consumed,
                pc, matchVars, ev, histVars, spent>>

Sides == {"Buy", "Sell"}
Opposite(side) == IF side = "Buy" THEN "Sell" ELSE "Buy"
Least(a, b) == IF a <= b THEN a ELSE b
Greatest(a, b) == IF a >= b THEN a ELSE b

MarketId == 0     \* the synthetic order of a public trade has no id

OrderRec ==
  [id : Ids \cup {MarketId}, side : Sides, price : Nat, qty : Nat,
   remaining : Nat, type : {"Limit", "Market"}, tif : {"Gtc", "Ioc", "Fok"},
   owner : Owners]

NoOrder ==
  [id |-> MarketId, side |-> "Buy", price |-> 0, qty |-> 0, remaining |-> 0,
   type |-> "Market", tif |-> "Gtc", owner |-> ""]

(* The touch of a side in a quote. *)
PriceOf(q, side) == IF side = "Buy" THEN q.bid ELSE q.ask
QtyOf(q, side) == IF side = "Buy" THEN q.bid_qty ELSE q.ask_qty

NoEvent == [kind |-> "none", ts |-> 0]

Report(kind, o, quantity) ==
  [kind |-> kind, id |-> o.id, side |-> o.side, quantity |-> quantity]

(* The part of quantity and the end of an order the k-th report stands for. *)
Reported(rs, k, i) ==
  IF k <= Len(rs) /\ rs[k].id = i /\ rs[k].kind \in {"Trade", "Cancelled"}
  THEN rs[k].quantity ELSE 0

Ends(rs, k, i) ==
  IF k <= Len(rs) /\ rs[k].id = i /\ rs[k].kind \in {"Filled", "Cancelled"}
  THEN 1 ELSE 0

(* A step reports rs, at most three, after taking in qty under an id. *)
TakeInAndReport(id, qty, rs) ==
  /\ reports' = rs
  /\ owed' = [i \in Ids \cup {MarketId} |->
                owed[i] + (IF i = id THEN qty ELSE 0)
                - Reported(rs, 1, i) - Reported(rs, 2, i) - Reported(rs, 3, i)]
  /\ unended' = [i \in Ids \cup {MarketId} |->
                unended[i] + (IF i = id THEN 1 ELSE 0)
                - Ends(rs, 1, i) - Ends(rs, 2, i) - Ends(rs, 3, i)]

Emit(rs) == TakeInAndReport(-1, 0, rs)

EInit ==
  /\ levels = [s \in Sides |-> [t \in Ticks |-> <<>>]]
  /\ ahead = [s \in Sides |-> [t \in Ticks |-> 0]]
  /\ order_index = {}
  /\ data = [i \in Ids |-> NoOrder]
  /\ bbo = {} /\ l2_top = {} /\ l2_seen = FALSE
  /\ trade_ts = [s \in Sides |-> 0]
  /\ in_flight = <<>> /\ pending = {}
  /\ event_counter = 0 /\ now = 0
  /\ rejected = 0 /\ consumed = 0
  /\ pc = "idle" /\ back = "idle"
  /\ cur = NoOrder /\ starting_qty = 0
  /\ ev = NoEvent
  /\ reports = <<>>
  /\ owed = [i \in Ids \cup {MarketId} |-> 0]
  /\ unended = [i \in Ids \cup {MarketId} |-> 0]
  /\ shown = {} /\ spent = [s \in Sides |-> 0]

-----------------------------------------------------------------------------
(* What an incoming order can trade against. *)

(* is_self_trade *)
SelfTrade(a, b) ==
  /\ a.owner # "" /\ b.owner # ""
  /\ NormalizeOwner[a.owner] = NormalizeOwner[b.owner]

(* Mutant: an equal price does not trade. *)
ReachesStrictly(o, t) == IF o.side = "Buy" THEN t < o.price ELSE t > o.price

(* The limit price of o reaches tick t of the opposite side. *)
Reaches(o, t) == IF o.side = "Buy" THEN t <= o.price ELSE t >= o.price

Occupied(side) == {t \in Ticks : levels[side][t] # <<>>}

(* No more leaves a queue than stands in it. *)
TakenFromQueue(queue, quantity) == Least(queue, quantity)

(* The first key of a book side: the lowest ask, the highest bid. *)
Best(side) ==
  CHOOSE t \in Occupied(side) :
    \A u \in Occupied(side) : IF side = "Sell" THEN t <= u ELSE t >= u

(* external_touch: the displayed size o crosses, 0 when it crosses none. *)
ExternalTouch(o) ==
  IF bbo = {} \/ o.type # "Limit" THEN 0
  ELSE LET q == CHOOSE x \in bbo : TRUE IN
       CASE o.side = "Buy" /\ o.price >= q.ask -> q.ask_qty
         [] o.side = "Sell" /\ o.price <= q.bid -> q.bid_qty
         [] OTHER -> 0

(* capped_external_quantity, external_available *)
ExternalAvailable(o) == (ExternalTouch(o) * ParticipationPct) \div 100

(* a stands before b on the side of both: better price, or earlier there. *)
StandsBefore(a, b) ==
  LET side == data[a].side IN
  \/ data[a].price # data[b].price
     /\ IF side = "Sell" THEN data[a].price < data[b].price
                         ELSE data[a].price > data[b].price
  \/ /\ data[a].price = data[b].price
     /\ \E i, j \in 1 .. Len(levels[side][data[a].price]) :
          /\ i < j
          /\ levels[side][data[a].price][i] = a
          /\ levels[side][data[a].price][j] = b

(* The resting orders inside the limit of o. *)
FacingOrders(o) ==
  {i \in order_index : data[i].side = Opposite(o.side) /\ Reaches(o, data[i].price)}

(* Those in front of the first one the matcher would refuse to cross. *)
Crossable(o) ==
  {i \in FacingOrders(o) :
     \A z \in FacingOrders(o) :
       z = i \/ StandsBefore(z, i) => ~SelfTrade(data[z], o)}

(* internal_available *)
InternalAvailable(o) ==
  Least(SumFunctionOnSet([i \in Ids |-> data[i].remaining], Crossable(o)), o.remaining)

(* scale_arrival, rounded to the nearest unit *)
ScaleArrival(displayed) == (displayed * ArrivalPct + 50) \div 100

(* displayed_quantity_ahead *)
DisplayedQuantityAhead(o) ==
  IF ~l2_seen \/ bbo = {} THEN 0
  ELSE LET q == CHOOSE x \in bbo : TRUE IN
       ScaleArrival(IF o.side = "Buy" THEN q.bid_qty ELSE q.ask_qty)

-----------------------------------------------------------------------------
(* send_order_now *)

(* The refusals: a count and a line on stderr, no report. *)
Refused(o) ==
  \/ o.id = 0 \/ o.qty = 0 \/ o.remaining = 0 \/ o.remaining > o.qty
  \/ o.id \in order_index
  \/ o.qty % LotSize # 0 \/ o.qty < MinOrderQuantity

RejectOrder(o, cont) ==
  /\ Refused(o)
  /\ rejected' = rejected + 1
  /\ Emit(<<>>)
  /\ pc' = cont
  /\ UNCHANGED <<bookVars, quoteVars, matchVars, spent>>

FokUnavailable(o) ==
  /\ o.tif = "Fok"
  /\ ExternalAvailable(o) + InternalAvailable(o) < o.remaining

(* Accepted and ended in one go: fill-or-kill that cannot be filled. *)
KillOrder(o, cont) ==
  /\ ~Refused(o)
  /\ FokUnavailable(o)
  /\ TakeInAndReport(o.id, o.remaining, <<Report("Cancelled", o, o.remaining)>>)
  /\ pc' = cont
  /\ UNCHANGED <<bookVars, quoteVars, matchVars, spent, rejected>>

(* What is left of a displayed size once quantity of it has traded. *)
ShrinkQuote(q, side, quantity) ==
  IF side = "Buy" THEN [q EXCEPT !.bid_qty = Greatest(@ - quantity, 0)]
                  ELSE [q EXCEPT !.ask_qty = Greatest(@ - quantity, 0)]

(* match_external_bbo, then the internal book unless nothing remains. *)
TakeExternal(o, cont) ==
  /\ ~Refused(o)
  /\ ~FokUnavailable(o)
  /\ LET traded == Least(o.remaining, ExternalAvailable(o))
         rest == o.remaining - traded
     IN
     /\ bbo' = {ShrinkQuote(q, Opposite(o.side), traded) : q \in bbo}
     /\ spent' = [spent EXCEPT ![Opposite(o.side)] = @ + traded]
     /\ TakeInAndReport(o.id, o.remaining,
          IF traded = 0 THEN <<>>
          ELSE <<Report("Trade", o, traded),
                 Report(IF rest = 0 THEN "Filled" ELSE "PartialFill", o, rest)>>)
     /\ IF rest = 0
        THEN pc' = cont /\ UNCHANGED matchVars
        ELSE /\ pc' = "match" /\ back' = cont
             /\ cur' = [o EXCEPT !.remaining = rest]
             /\ starting_qty' = rest
  /\ UNCHANGED <<bookVars, l2_top, l2_seen, trade_ts, shown, rejected>>

SendOrderNow(o, cont) ==
  RejectOrder(o, cont) \/ KillOrder(o, cont) \/ TakeExternal(o, cont)

(* send_order: at once, or after the one-way latency counted from the order's
   own timestamp. *)
SendOrder(o, ts) ==
  /\ pc = "idle"
  /\ IF OrderLatency = 0
     THEN SendOrderNow(o, "idle") /\ UNCHANGED in_flight
     ELSE /\ in_flight' = Append(in_flight, [due |-> ts + OrderLatency, order |-> o])
          /\ Emit(<<>>)
          /\ UNCHANGED <<bookVars, quoteVars, rejected, pc, matchVars, spent>>
  /\ UNCHANGED <<clockVars, pending, consumed, ev>>

-----------------------------------------------------------------------------
(* match_side, one iteration at a time *)

Facing == Opposite(cur.side)

CanMatch ==
  /\ cur.remaining > 0
  /\ Occupied(Facing) # {}
  /\ Reaches(cur, Best(Facing))

QueueStandsAhead == cur.owner = "Market" /\ ahead[Facing][Best(Facing)] > 0

FrontId == Head(levels[Facing][Best(Facing)])

(* Mutant: the queue ahead is reduced and the print is not. *)
ConsumeQueueTwice ==
  /\ pc = "match" /\ CanMatch /\ QueueStandsAhead
  /\ LET eaten == TakenFromQueue(ahead[Facing][Best(Facing)], cur.remaining) IN
     /\ ahead' = [ahead EXCEPT ![Facing][Best(Facing)] = @ - eaten]
     /\ consumed' = consumed + eaten
  /\ Emit(<<>>)
  /\ UNCHANGED <<levels, order_index, data, quoteVars, clockVars, delayVars,
                 rejected, pc, matchVars, ev, spent>>

(* A public trade first consumes the queue standing ahead of our level. *)
ConsumeQueueAhead ==
  /\ pc = "match" /\ CanMatch /\ QueueStandsAhead
  /\ LET eaten == TakenFromQueue(ahead[Facing][Best(Facing)], cur.remaining) IN
     /\ cur' = [cur EXCEPT !.remaining = @ - eaten]
     /\ ahead' = [ahead EXCEPT ![Facing][Best(Facing)] = @ - eaten]
     /\ consumed' = consumed + eaten
  /\ Emit(<<>>)
  /\ UNCHANGED <<levels, order_index, data, quoteVars, clockVars, delayVars,
                 rejected, pc, back, starting_qty, ev, spent>>

(* Self-trade: the rest of the incoming order is cancelled. *)
CancelSelfTrade ==
  /\ pc = "match" /\ CanMatch /\ ~QueueStandsAhead
  /\ SelfTrade(data[FrontId], cur)
  /\ Emit(<<Report("Cancelled", cur, cur.remaining)>>)
  /\ cur' = [cur EXCEPT !.remaining = 0]
  /\ UNCHANGED <<bookVars, quoteVars, clockVars, delayVars, rejected, consumed,
                 pc, back, starting_qty, ev, spent>>

(* One trade with the front order of the best level; the level is erased
   when its queue empties. *)
MatchFront ==
  /\ pc = "match" /\ CanMatch /\ ~QueueStandsAhead
  /\ ~SelfTrade(data[FrontId], cur)
  /\ LET resting == data[FrontId]
         tick == Best(Facing)
         traded == Least(cur.remaining, resting.remaining)
         left == resting.remaining - traded
         queue == IF left = 0 THEN Tail(levels[Facing][tick])
                              ELSE levels[Facing][tick]
     IN
     /\ cur' = [cur EXCEPT !.remaining = @ - traded]
     /\ data' = [data EXCEPT ![FrontId].remaining = left]
     /\ levels' = [levels EXCEPT ![Facing][tick] = queue]
     /\ ahead' = [ahead EXCEPT ![Facing][tick] = IF queue = <<>> THEN 0 ELSE @]
     /\ order_index' = IF left = 0 THEN order_index \ {FrontId} ELSE order_index
     /\ Emit(<<Report("Trade", cur, traded), Report("Trade", resting, traded),
               Report(IF left = 0 THEN "Filled" ELSE "PartialFill", resting, left)>>)
  /\ UNCHANGED <<quoteVars, clockVars, delayVars, rejected, consumed, pc, back,
                 starting_qty, ev, spent>>

(* A good-till-cancelled order rests what the loop left of it. *)
Rests(o) == o.remaining > 0 /\ o.tif = "Gtc" /\ o.id # MarketId

(* Mutant: the incoming order gets no Filled. *)
EndReportsNoFilled(o, start) ==
  (IF Rests(o) THEN <<Report("Resting", o, o.remaining)>> ELSE <<>>)
  \o (IF o.remaining > 0 /\ o.tif # "Gtc"
      THEN <<Report("Cancelled", o, o.remaining)>> ELSE <<>>)

(* Mutant: the remainder of an immediate order is dropped silently. *)
EndReportsNoCancel(o, start) ==
  (IF start > o.remaining
   THEN <<Report(IF o.remaining = 0 THEN "Filled" ELSE "PartialFill",
                 o, o.remaining)>>
   ELSE <<>>)
  \o (IF Rests(o) THEN <<Report("Resting", o, o.remaining)>> ELSE <<>>)

(* The reports for an incoming order when the loop ends, having begun with
   start: its own Filled or PartialFill, then Resting, or the Cancelled of what
   is left of an immediate order. *)
EndReports(o, start) ==
  (IF start > o.remaining
   THEN <<Report(IF o.remaining = 0 THEN "Filled" ELSE "PartialFill",
                 o, o.remaining)>>
   ELSE <<>>)
  \o (IF Rests(o) THEN <<Report("Resting", o, o.remaining)>> ELSE <<>>)
  \o (IF o.remaining > 0 /\ o.tif # "Gtc"
      THEN <<Report("Cancelled", o, o.remaining)>> ELSE <<>>)

MatchEnd ==
  /\ pc = "match" /\ ~CanMatch
  /\ Emit(EndReports(cur, starting_qty))
  /\ IF Rests(cur)
     THEN /\ levels' = [levels EXCEPT ![cur.side][cur.price] = Append(@, cur.id)]
          /\ ahead' = [ahead EXCEPT ![cur.side][cur.price] =
                         IF levels[cur.side][cur.price] = <<>>
                         THEN DisplayedQuantityAhead(cur) ELSE @]
          /\ order_index' = order_index \cup {cur.id}
          /\ data' = [data EXCEPT ![cur.id] = cur]
     ELSE UNCHANGED bookVars
  /\ pc' = back
  /\ cur' = NoOrder /\ starting_qty' = 0
  /\ UNCHANGED <<quoteVars, clockVars, delayVars, rejected, consumed, back, ev,
                 spent>>

-----------------------------------------------------------------------------
(* cancel_order *)

(* remove_if on a level, where an id occurs at most once. *)
Without(queue, id) ==
  IF \A k \in 1 .. Len(queue) : queue[k] # id THEN queue
  ELSE LET k == CHOOSE k \in 1 .. Len(queue) : queue[k] = id IN
       [j \in 1 .. Len(queue) - 1 |-> IF j < k THEN queue[j] ELSE queue[j + 1]]

(* cancel_order_immediate: the order leaves its level and the index. *)
RemoveOrder(id) ==
  LET o == data[id]
      queue == Without(levels[o.side][o.price], id)
  IN
  /\ levels' = [levels EXCEPT ![o.side][o.price] = queue]
  /\ ahead' = [ahead EXCEPT ![o.side][o.price] = IF queue = <<>> THEN 0 ELSE @]
  /\ order_index' = order_index \ {id}
  /\ data' = data
  /\ Emit(<<Report("Cancelled", o, o.remaining)>>)

Immediate == CancelDelayEvents = 0 /\ CancelLatency = 0

(* An id the index does not hold is ignored. *)
CancelOrder(id) ==
  /\ pc = "idle"
  /\ id \in order_index
  /\ IF Immediate
     THEN RemoveOrder(id) /\ UNCHANGED pending
     ELSE /\ pending' = {p \in pending : p.id # id} \cup
               {[id |-> id, event |-> event_counter + CancelDelayEvents,
                 time |-> now + CancelLatency]}
          /\ Emit(<<>>)
          /\ UNCHANGED bookVars
  /\ UNCHANGED <<quoteVars, clockVars, in_flight, rejected, consumed, pc,
                 matchVars, ev, spent>>

Due(p) == p.event <= event_counter /\ p.time <= now

(* apply_pending_cancels, in the unspecified order of the hash map. *)
ApplyPendingCancel(p) ==
  /\ pc = "cancels"
  /\ p \in pending /\ Due(p)
  /\ pending' = pending \ {p}
  /\ IF p.id \in order_index THEN RemoveOrder(p.id)
     ELSE Emit(<<>>) /\ UNCHANGED bookVars
  /\ UNCHANGED <<quoteVars, clockVars, in_flight, rejected, consumed, pc,
                 matchVars, ev, spent>>

NoCancelDue ==
  /\ pc = "cancels"
  /\ \A p \in pending : ~Due(p)
  /\ IF ev.kind = "trade" THEN pc' = "idle" /\ ev' = NoEvent
                          ELSE pc' = "quote" /\ UNCHANGED ev
  /\ Emit(<<>>)
  /\ UNCHANGED <<bookVars, quoteVars, clockVars, delayVars, rejected, consumed,
                 matchVars, spent>>

-----------------------------------------------------------------------------
(* The market events: process_bbo, process_l2_top, process_market_trade *)

(* Each begins with the event count and the clock. *)
MarketEvent(e) ==
  /\ pc = "idle"
  /\ event_counter' = event_counter + 1
  /\ now' = Greatest(now, e.ts)
  /\ ev' = e
  /\ pc' = "deliver"
  /\ Emit(<<>>)
  /\ UNCHANGED <<bookVars, quoteVars, delayVars, rejected, consumed, matchVars,
                 spent>>

(* advance_to: the next order whose latency has expired, earliest first and
   in the order sent when equal. *)
Landing(i) ==
  /\ in_flight[i].due <= ev.ts
  /\ \A j \in DOMAIN in_flight :
       /\ in_flight[i].due <= in_flight[j].due
       /\ j < i => in_flight[i].due < in_flight[j].due

DeliverNext(i) ==
  /\ pc = "deliver"
  /\ Landing(i)
  /\ in_flight' = SubSeq(in_flight, 1, i - 1)
                  \o SubSeq(in_flight, i + 1, Len(in_flight))
  /\ SendOrderNow(in_flight[i].order, "deliver")
  /\ UNCHANGED <<clockVars, pending, consumed, ev>>

(* Mutant: a public trade does not apply the pending cancels. *)
AfterPrintDone == "idle"

(* Where a public trade goes once it has matched. *)
AfterPrint == "cancels"

(* process_market_trade after the landings: the displayed size that printed
   is gone, then the print sweeps the book as a market order. *)
ApplyTrade ==
  /\ ev.kind = "trade"
  /\ trade_ts' = [s \in Sides |->
                    IF ev.side = Opposite(s) THEN Greatest(trade_ts[s], ev.ts)
                                             ELSE trade_ts[s]]
  /\ bbo' = {IF ev.side \in Sides /\ ev.price = PriceOf(q, Opposite(ev.side))
             THEN ShrinkQuote(q, Opposite(ev.side), ev.quantity) ELSE q : q \in bbo}
  /\ IF ev.side \in Sides /\ ev.quantity > 0
     THEN /\ cur' = [id |-> MarketId, side |-> ev.side, price |-> ev.price,
                     qty |-> ev.quantity, remaining |-> ev.quantity,
                     type |-> "Market", tif |-> "Gtc", owner |-> "Market"]
          /\ starting_qty' = ev.quantity
          /\ TakeInAndReport(MarketId, ev.quantity, <<>>)
          /\ pc' = "match" /\ back' = AfterPrint
     ELSE pc' = AfterPrint /\ Emit(<<>>) /\ UNCHANGED matchVars
  /\ UNCHANGED <<l2_top, l2_seen, shown>>

Landed ==
  /\ pc = "deliver"
  /\ \A i \in DOMAIN in_flight : in_flight[i].due > ev.ts
  /\ \/ ApplyTrade
     \/ /\ ev.kind # "trade"
        /\ pc' = "cancels"
        /\ Emit(<<>>)
        /\ UNCHANGED <<quoteVars, matchVars>>
  /\ UNCHANGED <<bookVars, clockVars, delayVars, rejected, consumed, ev, spent>>

(* QueueAheadModel::advance_quantity: how much of a displayed reduction may
   be read as leaving from ahead of us.  The lumpy model draws at random. *)
AdvanceQuantities(reduction, previous, queue) ==
  CASE QueueModelName = "conservative" -> {0}
    [] QueueModelName = "optimistic" -> {reduction}
    [] QueueModelName = "pro_rata" ->
         {IF previous = 0 THEN queue ELSE (queue * reduction) \div previous}
    [] QueueModelName = "lumpy" ->
         IF previous = 0 THEN {queue}
         ELSE {(2 * reduction * k + LumpChunks) \div (2 * LumpChunks) :
                 k \in IF queue >= previous THEN {LumpChunks} ELSE 0 .. LumpChunks}

UsableQuote(q) == q.bid > 0 /\ q.ask > 0 /\ q.bid <= q.ask

(* process_bbo_for: the queue ahead of our level at a side's touch, after the
   displayed size there fell with no public trade since to explain it. *)
QueueAtTouch(side, q) ==
  LET before == ahead[side][PriceOf(q, side)]
      fell == {p \in bbo : /\ PriceOf(p, side) = PriceOf(q, side)
                           /\ QtyOf(p, side) > QtyOf(q, side)
                           /\ trade_ts[side] <= p.ts}
  IN
  IF ~UsableQuote(q) THEN {0}
  ELSE IF ~(l2_seen \/ ev.kind = "l2") \/ fell = {} THEN {before}
  ELSE LET p == CHOOSE x \in fell : TRUE
           reduction == QtyOf(p, side) - QtyOf(q, side)
       IN {before - TakenFromQueue(before, removed) :
             removed \in AdvanceQuantities(reduction, QtyOf(p, side), before)}

(* process_l2_top: the touch moved to a level of ours, which therefore joins
   behind what is displayed there. *)
TouchMoved(side, tick, q) ==
  /\ ev.kind = "l2"
  /\ PriceOf(q, side) = tick
  /\ \A p \in l2_top : PriceOf(p, side) # tick
  /\ levels[side][tick] # <<>>

ApplyQuote ==
  /\ pc = "quote"
  /\ LET q == ev.quote IN
     /\ l2_seen' = (l2_seen \/ ev.kind = "l2")
     /\ l2_top' = IF ev.kind = "l2" THEN {q} ELSE l2_top
     /\ bbo' = IF UsableQuote(q) THEN {q} ELSE {}
     /\ shown' = bbo'
     /\ spent' = [s \in Sides |-> 0]
     /\ \E bid_queue \in QueueAtTouch("Buy", q), ask_queue \in QueueAtTouch("Sell", q) :
          ahead' = [s \in Sides |-> [t \in Ticks |->
            CASE TouchMoved(s, t, q) -> ScaleArrival(QtyOf(q, s))
              [] ~TouchMoved(s, t, q) /\ UsableQuote(q) /\ t = PriceOf(q, s)
                   -> IF s = "Buy" THEN bid_queue ELSE ask_queue
              [] OTHER -> ahead[s][t]]]
  /\ pc' = "idle"
  /\ ev' = NoEvent
  /\ Emit(<<>>)
  /\ UNCHANGED <<levels, order_index, data, trade_ts, clockVars, delayVars,
                 rejected, consumed, matchVars>>

(* The engine's own steps; its callers decide which orders, cancels and
   market events there are. *)
Working ==
  \/ ConsumeQueueAhead \/ CancelSelfTrade \/ MatchFront \/ MatchEnd
  \/ \E p \in pending : ApplyPendingCancel(p)
  \/ NoCancelDue
  \/ \E i \in DOMAIN in_flight : DeliverNext(i)
  \/ Landed
  \/ ApplyQuote

(* What a caller may pass in. *)
Orders ==
  {o \in OrderRec : o.price \in Ticks /\ o.owner # "Market"}

Quotes ==
  [bid : Ticks \cup {0}, ask : Ticks \cup {0}, bid_qty : Nat, ask_qty : Nat,
   ts : Nat]

Events ==
  [kind : {"bbo", "l2"}, quote : Quotes, ts : Nat] \cup
  [kind : {"trade"}, side : Sides \cup {"Unknown"}, price : Ticks,
   quantity : Nat, ts : Nat]

ENext ==
  \/ Working
  \/ \E o \in Orders, ts \in Nat : SendOrder(o, ts)
  \/ \E id \in Ids : CancelOrder(id)
  \/ \E e \in Events : MarketEvent(e)

ESpec == EInit /\ [][ENext]_engineVars

-----------------------------------------------------------------------------
(* Properties. *)

(* Types of the engine's state. *)
ETypeOK ==
  /\ levels \in [Sides -> [Ticks -> Seq(Ids)]]
  /\ ahead \in [Sides -> [Ticks -> Nat]]
  /\ order_index \in SUBSET Ids
  /\ data \in [Ids -> OrderRec]
  /\ bbo \in SUBSET Quotes /\ l2_top \in SUBSET Quotes /\ shown \in SUBSET Quotes
  /\ l2_seen \in BOOLEAN
  /\ trade_ts \in [Sides -> Nat]
  /\ event_counter \in Nat /\ now \in Nat
  /\ rejected \in Nat /\ consumed \in Nat
  /\ pc \in {"idle", "deliver", "match", "cancels", "quote"}
  /\ back \in {"idle", "deliver", "cancels"}
  /\ cur \in OrderRec /\ starting_qty \in Nat
  /\ owed \in [Ids \cup {MarketId} -> Int]
  /\ unended \in [Ids \cup {MarketId} -> Int]
  /\ spent \in [Sides -> Nat]

(* order_index_ and the book agree: the index holds exactly the ids queued in
   the book, each once, in the level of its own side and price, and none is
   left there with nothing remaining. *)
IndexMatchesBook ==
  /\ \A i \in order_index :
       /\ data[i].id = i /\ data[i].remaining > 0
       /\ data[i].price \in Ticks
       /\ \E k \in 1 .. Len(levels[data[i].side][data[i].price]) :
            levels[data[i].side][data[i].price][k] = i
  /\ \A s \in Sides, t \in Ticks : \A k \in 1 .. Len(levels[s][t]) :
       /\ levels[s][t][k] \in order_index
       /\ data[levels[s][t][k]].side = s /\ data[levels[s][t][k]].price = t
       /\ \A j \in 1 .. Len(levels[s][t]) : j # k => levels[s][t][j] # levels[s][t][k]

(* What is still open of an id: resting in the book, or being matched. *)
Open(i) ==
  (IF i \in order_index THEN data[i].remaining ELSE 0)
  + (IF pc = "match" /\ cur.id = i THEN cur.remaining ELSE 0)

(* No quantity is lost or made up: what the engine took in under an id, less
   what its Trade and Cancelled reports account for, is what is still open. *)
QuantityConserved == \A i \in Ids : owed[i] = Open(i)

(* A public trade is spent once: what it printed covers the fills it gave and
   the queue ahead it consumed, plus what is still being matched. *)
PrintsConserved == owed[MarketId] >= consumed + Open(MarketId)

(* The book never crosses itself: two resting orders of opposite sides never
   have prices that would trade. *)
NeverCrossed ==
  \A a, b \in order_index :
    data[a].side = "Buy" /\ data[b].side = "Sell" => data[a].price < data[b].price

(* An accepted order never disappears silently: when it is neither resting nor
   being matched, a terminal report has been made for every acceptance. *)
EveryOrderEnds ==
  \A i \in Ids :
    unended[i] <= (IF i \in order_index THEN 1 ELSE 0)
                  + (IF pc = "match" /\ cur.id = i THEN 1 ELSE 0)

(* Fill-or-kill: once such an order trades at all the matcher is never left
   with a remainder it cannot fill, so it is never partly filled. *)
FokAllOrNothing ==
  pc = "match" /\ cur.tif = "Fok" /\ cur.remaining > 0
    => CanMatch /\ ~SelfTrade(data[FrontId], cur)

(* The book is sound: ETypeOK, IndexMatchesBook, NeverCrossed. *)
BookSound == ETypeOK /\ IndexMatchesBook /\ NeverCrossed

(* How orders end: EveryOrderEnds, FokAllOrNothing. *)
OrdersEndRight == EveryOrderEnds /\ FokAllOrNothing

(* Our orders never take more from a displayed quote than it displayed, however
   many of them cross it and whatever prints in between. *)
DisplayedNotOversold ==
  \A s \in Sides, q \in bbo, p \in shown :
    spent[s] + QtyOf(q, s) <= QtyOf(p, s)

(* Liquidity is spent once: PrintsConserved for public trades, DisplayedNotOversold
   for displayed quotes. *)
LiquiditySpentOnce == PrintsConserved /\ DisplayedNotOversold

(* Between calls no cancel that is due is still waiting: every kind of market
   event applies them, the public trade after it has matched. *)
DueCancelsApplied == pc = "idle" => \A p \in pending : ~Due(p)

-----------------------------------------------------------------------------
(* The inductive invariant. *)

(* Types of what the engine was handed and has not finished with. *)
CallTypes ==
  /\ in_flight \in Seq([due : Nat, order : Orders])
  /\ pending \in SUBSET [id : Ids, event : Nat, time : Nat]
  /\ ev \in Events \cup {NoEvent}

(* Inside a market event's loops there is the event. *)
InEvent ==
  /\ pc \in {"deliver", "cancels", "quote"} => ev \in Events
  /\ pc = "match" /\ back # "idle" => ev \in Events
  /\ pc = "quote" => ev.kind # "trade"

(* The order in match_side is not in the book, and one without an id is the
   public trade's. *)
MatchingOrder ==
  pc = "match" =>
    /\ cur.price \in Ticks /\ cur.id \notin order_index
    /\ starting_qty > 0
    /\ (cur.id = MarketId) <=> (cur.owner = "Market")
    /\ cur.id = MarketId => cur.tif = "Gtc"

(* There is at most one stored quote, and at most one as it arrived. *)
OneQuote ==
  /\ \A p, q \in bbo : p = q
  /\ \A p, q \in shown : p = q

(* A call that ends at "idle" began with no cancel due, or has applied them. *)
NoDueCancelAhead ==
  pc \in {"idle", "quote"} \/ (pc = "match" /\ back = "idle")
    => \A p \in pending : ~Due(p)

(* A fill-or-kill order in match_side can be filled from what it may cross. *)
FokCovered ==
  pc = "match" /\ cur.tif = "Fok" => InternalAvailable(cur) = cur.remaining

EngineInv ==
  /\ ETypeOK /\ CallTypes /\ InEvent /\ MatchingOrder /\ OneQuote
  /\ IndexMatchesBook /\ NeverCrossed
  /\ QuantityConserved /\ PrintsConserved /\ EveryOrderEnds
  /\ DisplayedNotOversold /\ NoDueCancelAhead /\ FokCovered
=============================================================================
