---------------------------- MODULE MakerVariants ----------------------------
(***************************************************************************)
(* The makers around the base of L2MarketMaker: the two baselines of       *)
(* strategy/baseline_market_makers.h, and the volatility halt and the      *)
(* inventory response that derive from the base.  Operators on a record s  *)
(* whose config is s.cfg; a decision is the strategy afterwards and its    *)
(* orders.  Quote prices are the venue's business here and are left at the *)
(* mid; mids are integers in half ticks.                                   *)
(***************************************************************************)
EXTENDS L2MarketMaker, SequencesExt, FiniteSetsExt

Usable(v) == v.bid > 0 /\ v.ask > 0

MidOf(v) == (v.bid + v.ask) \div 2

MakerOrder(side, price, quantity) ==
  [side |-> side, price |-> price, quantity |-> quantity, tif |-> "Gtc"]

(* An order scaled to nothing is not sent. *)
Scaled(o) == IF o.quantity > 0 THEN <<o>> ELSE <<>>

-----------------------------------------------------------------------------
(* NaiveMarketMaker: a pair, refreshed on a mid move or on age. *)

NewNaive(cfg) ==
  [cfg |-> cfg, open |-> <<>>, position |-> 0, last_mid |-> 0, age |-> 0,
   cancel_pending |-> FALSE]

NaiveOnTop(s, v) ==
  LET mid == MidOf(v) IN
  CASE ~Usable(v) -> [strat |-> s, orders |-> <<>>]
    [] Usable(v) /\ DOMAIN s.open # {} ->
         [strat |-> [s EXCEPT !.age = @ + 1,
                       !.cancel_pending = \/ @ \/ s.age + 1 >= s.cfg.max_age
                                          \/ s.last_mid > 0 /\ Size(mid - s.last_mid) >= s.cfg.tick],
          orders |-> <<>>]
    [] OTHER ->
         [strat |-> [s EXCEPT !.last_mid = mid, !.age = 0],
          orders |-> <<MakerOrder("Buy", mid, s.cfg.size), MakerOrder("Sell", mid, s.cfg.size)>>]

-----------------------------------------------------------------------------
(* OptimizedMarketMaker: three levels a side, scaled by inventory. *)

NewOptimized(cfg) ==
  [cfg |-> cfg, open |-> <<>>, position |-> 0, mids |-> <<>>, last_mid |-> 0,
   quote_mid |-> 0, age |-> 0]

(* The mid smoothed over the window; the window is filled before it slides. *)
Smoothed(s, v) ==
  LET mids == IF Len(s.mids) >= s.cfg.window THEN Append(Tail(s.mids), MidOf(v))
                                             ELSE Append(s.mids, MidOf(v))
  IN [s EXCEPT !.mids = mids, !.last_mid = FoldLeft(+, 0, mids) \div Len(mids),
               !.age = IF DOMAIN s.open # {} THEN @ + 1 ELSE @]

(* The quotes stand: young, and the mid has not moved away. *)
Stands(s) ==
  s.age < s.cfg.max_age /\ Size(s.last_mid - s.quote_mid) < s.cfg.refresh

(* The position and what the working orders would make of it. *)
Inventory(s) ==
  s.position + SumFunction([id \in DOMAIN s.open |->
                              IF s.open[id].side = "Buy" THEN s.open[id].quantity
                              ELSE -s.open[id].quantity])

(* A level's size on a side: scaled down as inventory nears the limit on it. *)
LevelQuantity(s, side, level) ==
  LET inventory == Inventory(s)
      same == IF side = "Buy" THEN inventory ELSE -inventory
  IN IF same > s.cfg.limit THEN 0
     ELSE (s.cfg.size * (s.cfg.limit - Max({0, same}))) \div (s.cfg.limit * level)

LevelOrders(s, v, level) ==
  Scaled(MakerOrder("Buy", MidOf(v), LevelQuantity(s, "Buy", level)))
    \o Scaled(MakerOrder("Sell", MidOf(v), LevelQuantity(s, "Sell", level)))

OptimizedOnTop(s, v) ==
  LET t == Smoothed(s, v) IN
  CASE ~Usable(v) -> [strat |-> s, orders |-> <<>>]
    [] Usable(v) /\ DOMAIN s.open # {} /\ Stands(t) -> [strat |-> t, orders |-> <<>>]
    [] OTHER -> [strat |-> t, orders |-> LevelOrders(t, v, 1) \o LevelOrders(t, v, 2)
                                         \o LevelOrders(t, v, 3)]

(* The open orders with one more. *)
Joined(open, id, o) == [i \in {id} \cup DOMAIN open |-> IF i = id THEN o ELSE open[i]]

NaiveSubmitted(s, id, o) == [s EXCEPT !.open = Joined(@, id, o)]

OptimizedSubmitted(s, id, o) ==
  [s EXCEPT !.open = Joined(@, id, o), !.quote_mid = s.last_mid, !.age = 0]

(* Mutant: only age pulls a quote; a moved mid replaces it and leaves it working. *)
OptimizedCancelsOnAge(s) ==
  IF s.quote_mid = 0 \/ s.age < s.cfg.max_age THEN {} ELSE DOMAIN s.open

OptimizedCancels(s) == IF s.quote_mid = 0 \/ Stands(s) THEN {} ELSE DOMAIN s.open

(* What a fill leaves of the open quotes. *)
Took(open, id, q) ==
  IF open[id].quantity > q THEN [open EXCEPT ![id].quantity = open[id].quantity - q]
  ELSE Without1(open, id)

(* on_order_update of both baselines. *)
BaselineUpdate(s, r) ==
  CASE r.kind \in Ended -> [s EXCEPT !.open = Without1(@, r.id)]
    [] r.kind = "Trade" /\ r.id \in DOMAIN s.open ->
         [s EXCEPT !.position = IF r.side = "Buy" THEN @ + r.quantity ELSE @ - r.quantity,
                   !.open = Took(@, r.id, r.quantity)]
    [] OTHER -> s

-----------------------------------------------------------------------------
(* ActiveL2MarketMaker: the base behind a warmup and a volatility halt.  The base
   is s.base. *)

NewActive(cfg) ==
  [cfg |-> cfg, base |-> Idle, last_mid |-> 0, last_ts |-> 0, vol |-> 0,
   trades |-> 0, views |-> 0, pauses |-> 0]

(* update_volatility: half the last move a unit of time, half the memory. *)
UpdateVolatility(s, v) ==
  LET move == Size(MidOf(v) - s.last_mid)
      speed == IF v.ts > 0 /\ s.last_ts > 0 /\ v.ts > s.last_ts
               THEN move \div Max({v.ts - s.last_ts, s.cfg.min_elapsed}) ELSE move
  IN IF ~Usable(v) THEN s
     ELSE [s EXCEPT !.last_mid = MidOf(v), !.last_ts = v.ts,
                    !.vol = IF s.last_mid > 0 THEN (speed + @) \div 2 ELSE @]

ShouldPause(s) == s.vol >= s.cfg.pause_after

WarmupComplete(s) == s.trades >= s.cfg.warmup_trades /\ s.views >= s.cfg.warmup_views

(* pause: count it when something is working, and arm the cancel of everything. *)
Pause(s) ==
  [s EXCEPT !.pauses = IF DOMAIN s.base.open # {} THEN @ + 1 ELSE @,
            !.base.cancel_pending = DOMAIN s.base.open # {}]

WithTif(orders) ==
  [k \in DOMAIN orders |->
     MakerOrder(orders[k].side, orders[k].price, orders[k].quantity)]

ActiveDecisions(s, v) ==
  LET moved == UpdateVolatility(s, v)
      t == IF Usable(v) THEN [moved EXCEPT !.views = @ + 1] ELSE moved
  IN CASE ~WarmupComplete(t) -> {[strat |-> t, orders |-> <<>>]}
       [] WarmupComplete(t) /\ ShouldPause(t) -> {[strat |-> Pause(t), orders |-> <<>>]}
       [] OTHER -> {[strat |-> [t EXCEPT !.base = d.strat], orders |-> WithTif(d.orders)] :
                      d \in Decisions(t.base, v)}

-----------------------------------------------------------------------------
(* InventoryAwareL2MarketMaker: the base's orders, smaller on the side that adds. *)

NewInventory(cfg) == [cfg |-> cfg, base |-> Idle]

(* adjust_orders, the size: floor of the quantity by what is left of the limit. *)
Adjusted(s, o) ==
  LET p == s.base.position
      ratio == IF s.cfg.limit > 0 THEN Min({Size(p), s.cfg.limit}) ELSE 0
  IN IF s.cfg.limit > 0 /\ ((p > 0 /\ o.side = "Buy") \/ (p < 0 /\ o.side = "Sell"))
     THEN (o.quantity * (s.cfg.limit - ratio)) \div s.cfg.limit ELSE o.quantity

(* adjust_orders, over the two orders the base sends at most. *)
AdjustedAt(s, orders, k) ==
  IF k \in DOMAIN orders THEN Scaled([orders[k] EXCEPT !.quantity = Adjusted(s, orders[k])])
  ELSE <<>>

AdjustOrders(s, orders) == AdjustedAt(s, orders, 1) \o AdjustedAt(s, orders, 2)

InventoryDecisions(s, v) ==
  {[strat |-> [s EXCEPT !.base = d.strat], orders |-> WithTif(AdjustOrders(s, d.orders))] :
     d \in Decisions(s.base, v)}
=============================================================================
