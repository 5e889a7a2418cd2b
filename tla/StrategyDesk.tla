---------------------------- MODULE StrategyDesk ----------------------------
(***************************************************************************)
(* Every strategy but the base maker, run by the pipeline's loop: a view   *)
(* or a public trade reaches the venue first, its reports reach the        *)
(* strategy inside the call, then the strategy sees the view, its cancels  *)
(* are asked for and its orders sent one by one.                           *)
(*                                                                         *)
(* The venue is the matching engine seen from the desk, as run with        *)
(* cancel_delay_events = 1: a requested cancel takes effect with the next  *)
(* event, before a view matches but after a public trade has; until then   *)
(* the order may fill; a resting order fills in any amounts, an order at   *)
(* the far touch fills at once in any amount and an IOC's rest dies in the *)
(* same call.                                                              *)
(***************************************************************************)
EXTENDS MakerVariants

CONSTANTS
  Desks,          \* a strategy kind with its config and how many events it sees
  Tops,           \* what a view may show: [bid, ask]
  TradeSizes,     \* quantities of public trades
  MaxSent

X == INSTANCE ExecutionL2
T == INSTANCE TrendL2
L == INSTANCE L1MarketMakers

VARIABLES
  kind,         \* which strategy runs
  strat,        \* its state
  venue,        \* id -> [side, price, remaining, cancel, born]
  account,      \* the position every fill adds up to
  late,         \* what filled of orders whose cancel was pending
  left,         \* how many more the run sees
  view, stage, to_submit, next_id,
  entries,      \* what the trend strategy sent: [view, adds]
  pause_view    \* the view of its last risk exit, 0 for none

dvars == <<kind, strat, venue, account, late, left, view, stage, to_submit, next_id,
           entries, pause_view>>

(* The configurations make_strategy gives: sizes, limits and horizons are natural
   numbers, and those it divides by or sends as they are positive. *)
Configured(d) ==
  CASE d.kind = "execution" ->
         /\ {d.cfg.quantity, d.cfg.slices, d.cfg.horizon} \subseteq Nat
         /\ d.cfg.share \in Nat \X (Nat \ {0}) /\ d.cfg.algo \in {"market", "twap", "pov"}
    [] d.kind = "trend" ->
         {d.cfg.order_size, d.cfg.max_position, d.cfg.cooldown} \subseteq Nat
    [] d.kind = "naive" -> d.cfg.size \in Nat \ {0}
    [] d.kind = "optimized" ->
         d.cfg.size \in Nat /\ {d.cfg.limit, d.cfg.window} \subseteq Nat \ {0}
    [] d.kind = "active" -> {d.cfg.warmup_trades, d.cfg.warmup_views} \subseteq Nat
    [] d.kind = "inventory" -> d.cfg.limit \in Nat
    [] d.kind \in L!L1Kinds -> {d.cfg.size, d.cfg.limit} \subseteq Nat /\ d.cfg.maker = d.kind
    [] OTHER -> FALSE

ASSUME DeskAssumption ==
  /\ TradeSizes \subseteq Nat \ {0} /\ MaxSent \in Nat
  /\ \A top \in Tops : top.bid \in Nat /\ top.ask \in Nat
  /\ \A d \in Desks : Configured(d)

(* make_strategy: the strategy of a kind. *)
Fresh(d) ==
  CASE d.kind = "execution" -> X!NewExecution(d.cfg)
    [] d.kind = "trend" -> T!NewTrend(d.cfg)
    [] d.kind = "naive" -> NewNaive(d.cfg)
    [] d.kind = "optimized" -> NewOptimized(d.cfg)
    [] d.kind = "active" -> NewActive(d.cfg)
    [] d.kind = "inventory" -> NewInventory(d.cfg)
    [] d.kind \in L!L1Kinds -> L!NewL1(d.cfg)

DInit ==
  /\ \E d \in Desks : kind = d.kind /\ strat = Fresh(d) /\ left = d.events
  /\ venue = <<>> /\ account = 0 /\ late = 0
  /\ view = [ts |-> 0, bid |-> 0, ask |-> 0] /\ stage = "idle"
  /\ to_submit = <<>> /\ next_id = 1
  /\ entries = {} /\ pause_view = 0

-----------------------------------------------------------------------------
(* The virtual calls of strategy.h. *)

(* on_l2_market_view *)
DecisionsOf(s, v) ==
  CASE kind = "execution" -> {X!OnL2MarketView(s, v)}
    [] kind = "trend" -> {T!OnL2MarketView(s, v)}
    [] kind = "naive" -> {NaiveOnTop(s, v)}
    [] kind = "optimized" -> {OptimizedOnTop(s, v)}
    [] kind = "active" -> ActiveDecisions(s, v)
    [] kind = "inventory" -> InventoryDecisions(s, v)
    [] kind \in L!L1Kinds -> L!L1Decisions(s, v)

(* on_market_trade *)
AfterTrade(s, trade) ==
  CASE kind = "execution" -> X!OnMarketTrade(s, trade.quantity)
    [] kind \in L!L1Kinds -> L!OnMarketTrade(s, trade)
    [] kind = "active" -> [s EXCEPT !.trades = @ + 1]
    [] OTHER -> s

(* on_order_update *)
Told(s, r) ==
  CASE kind = "execution" -> X!OnOrderUpdate(s, r)
    [] kind = "trend" -> T!OnOrderUpdate(s, r)
    [] kind \in {"naive", "optimized"} -> BaselineUpdate(s, r)
    [] kind \in L!L1Kinds -> L!OnOrderUpdate(s, r)
    [] OTHER -> [s EXCEPT !.base = OnOrderUpdate(@, r)]

(* on_order_submitted *)
Submitted(s, id, o) ==
  CASE kind = "execution" -> X!OnOrderSubmitted(s, id, o)
    [] kind = "trend" -> T!OnOrderSubmitted(s, id, o)
    [] kind = "naive" -> NaiveSubmitted(s, id, o)
    [] kind = "optimized" -> OptimizedSubmitted(s, id, o)
    [] kind \in L!L1Kinds -> L!OnOrderSubmitted(s, id, o)
    [] OTHER -> [s EXCEPT !.base = OnOrderSubmitted(@, id, o.quantity)]

(* cancel_requests: the ids, and the strategy that has handed them over. *)
Cancels(s) ==
  CASE kind = "execution" -> X!CancelRequests(s)
    [] kind = "trend" -> T!CancelRequests(s)
    [] kind = "naive" -> IF s.cancel_pending THEN DOMAIN s.open ELSE {}
    [] kind = "optimized" -> OptimizedCancels(s)
    [] kind \in L!L1Kinds -> L!CancelRequests(s)
    [] OTHER -> CancelRequests(s.base)

Handed(s) ==
  CASE kind = "execution" -> X!CancelsTaken(s)
    [] kind = "trend" -> T!CancelsTaken(s)
    [] kind \in L!L1Kinds \cup {"naive"} -> [s EXCEPT !.cancel_pending = FALSE]
    [] kind = "optimized" -> s
    [] OTHER -> [s EXCEPT !.base.cancel_pending = FALSE]

(* on_order_rejected *)
Refused(s) == IF kind = "trend" THEN T!OnOrderRejected(s) ELSE s

(* net_position *)
PositionOf(s) == IF kind \in {"active", "inventory"} THEN s.base.position ELSE s.position

OpenOf(s) == IF kind \in {"active", "inventory"} THEN s.base.open ELSE s.open

(* What it believes is open of each order: the quantity itself, or the order's. *)
Believed(s) ==
  [id \in DOMAIN OpenOf(s) |-> IF kind \in {"execution", "active", "inventory"}
                               THEN OpenOf(s)[id] ELSE OpenOf(s)[id].quantity]

-----------------------------------------------------------------------------
(* The venue. *)

Ends(id, side, quantity, why, reason) ==
  [kind |-> why, id |-> id, side |-> side, quantity |-> quantity, reason |-> reason]

TradeOf(id, o, q) == [kind |-> "Trade", id |-> id, side |-> o.side, price |-> o.price, quantity |-> q]

Doomed == {id \in DOMAIN venue : venue[id].cancel}

Kept == Restrict(venue, DOMAIN venue \ Doomed)

CancelTold(s, id) == Told(s, Ends(id, venue[id].side, venue[id].remaining, "Cancelled", "User"))

(* apply_pending_cancels: a hash map, walked in some order. *)
AfterCancels(s) == FoldLeft(CancelTold, s, SetToSeq(Doomed))

(* The legacy makers also run on the recorded quotes alone, without depth. *)
OnQuotes == kind \in L!L1Kinds /\ strat.cfg.path = "quotes"

(* process_l2_market_view, up to the strategy. *)
ViewEvent(top, dt) ==
  /\ stage = "idle" /\ left > 0 /\ ~OnQuotes
  /\ left' = left - 1
  /\ view' = [ts |-> view.ts + dt, bid |-> top.bid, ask |-> top.ask]
  /\ IF top.bid > 0 /\ top.ask > 0
     THEN venue' = Kept /\ strat' = AfterCancels(strat)
     ELSE UNCHANGED <<venue, strat>>
  /\ stage' = "view"
  /\ UNCHANGED <<kind, account, late, to_submit, next_id, entries, pause_view>>

(* handle_event of a quote, up to the strategy: validated, so both sides are there. *)
QuoteEvent(top) ==
  /\ stage = "idle" /\ left > 0 /\ OnQuotes
  /\ top.bid > 0 /\ top.ask > 0
  /\ left' = left - 1
  /\ view' = [ts |-> view.ts + 1, bid |-> top.bid, ask |-> top.ask]
  /\ venue' = Kept /\ strat' = AfterCancels(strat)
  /\ stage' = "view"
  /\ UNCHANGED <<kind, account, late, to_submit, next_id, entries, pause_view>>

(* process_l2_market_trade *)
TradeEvent(trade) ==
  /\ stage = "idle" /\ left > 0 /\ ~OnQuotes
  /\ left' = left - 1
  /\ strat' = AfterTrade(strat, trade)
  /\ stage' = "trade"
  /\ UNCHANGED <<kind, venue, account, late, view, to_submit, next_id, entries, pause_view>>

(* handle_event of a trade: one before the first quote, or far from the latest, is
   filtered before strategy and engine; stale is a trade long after that quote. *)
QuotedTrade(trade, far, stale) ==
  /\ stage = "idle" /\ left > 0 /\ OnQuotes
  /\ left' = left - 1
  /\ IF view.ts = 0 \/ far
     THEN UNCHANGED <<strat, stage>>
     ELSE strat' = L!OnQuotedTrade(strat, trade, stale) /\ stage' = "trade"
  /\ UNCHANGED <<kind, venue, account, late, view, to_submit, next_id, entries, pause_view>>

Signed(side, q) == IF side = "Buy" THEN q ELSE -q

(* The strategy after a fill, and after the end of the order when that was all. *)
AfterFill(s, id, o, q, rest) ==
  LET told == Told(s, TradeOf(id, o, q))
  IN IF rest > 0 THEN told ELSE Told(told, Ends(id, o.side, 0, "Filled", "None"))

(* A resting order is met by the event; a view without both sides never reaches
   the engine. *)
FillResting(id, q) ==
  /\ stage = "trade" \/ (stage = "view" /\ view.bid > 0 /\ view.ask > 0)
  /\ LET o == venue[id] IN
     /\ q <= o.remaining
     /\ strat' = AfterFill(strat, id, o, q, o.remaining - q)
     /\ account' = account + Signed(o.side, q)
     /\ late' = IF o.cancel THEN late + q ELSE late
     /\ venue' = IF o.remaining = q THEN Restrict(venue, DOMAIN venue \ {id})
                 ELSE [venue EXCEPT ![id].remaining = @ - q]
  /\ UNCHANGED <<kind, left, view, stage, to_submit, next_id, entries, pause_view>>

(* The public trade ends with the cancels that are due. *)
TradeDone ==
  /\ stage = "trade"
  /\ stage' = "idle"
  /\ venue' = Kept /\ strat' = AfterCancels(strat)
  /\ UNCHANGED <<kind, account, late, left, view, to_submit, next_id,
                 entries, pause_view>>

-----------------------------------------------------------------------------
(* submit_strategy_actions *)

RiskExits(s, t) == kind = "trend" /\ t.pauses > s.pauses

(* The decision, then the cancels it asks for. *)
Decide(d) ==
  /\ stage = "view"
  /\ d \in DecisionsOf(strat, view)
  /\ strat' = Handed(d.strat)
  /\ venue' = [id \in DOMAIN venue |->
                 [venue[id] EXCEPT !.cancel = @ \/ id \in Cancels(d.strat)]]
  /\ to_submit' = d.orders
  /\ stage' = "submit"
  /\ pause_view' = IF RiskExits(strat, d.strat) THEN d.strat.views ELSE pause_view
  /\ UNCHANGED <<kind, account, late, left, view, next_id, entries>>

Adds(o) == Signed(o.side, 1) * account >= 0

Noted(o) == IF kind = "trend" THEN entries \cup {[view |-> strat.views, adds |-> Adds(o)]}
            ELSE entries

(* A pre-trade control refuses the order. *)
RefuseOrder ==
  /\ stage = "submit" /\ to_submit # <<>>
  /\ strat' = Refused(strat)
  /\ to_submit' = Tail(to_submit)
  /\ UNCHANGED <<kind, venue, account, late, left, view, stage, next_id, entries, pause_view>>

(* The venue refuses it: submitted, then rejected. *)
RejectOrder ==
  /\ stage = "submit" /\ to_submit # <<>> /\ next_id <= MaxSent
  /\ LET o == Head(to_submit) IN
     strat' = Told(Submitted(strat, next_id, o),
                   Ends(next_id, o.side, o.quantity, "Rejected", "None"))
  /\ to_submit' = Tail(to_submit) /\ next_id' = next_id + 1
  /\ UNCHANGED <<kind, venue, account, late, left, view, stage, entries, pause_view>>

AtFarTouch(o) == IF o.side = "Buy" THEN o.price >= view.ask ELSE o.price <= view.bid

(* The strategy after the call that sends order id and fills q of it. *)
AfterSend(s, id, o, q) ==
  LET sent == Submitted(s, id, o)
      filled == IF q > 0 THEN AfterFill(sent, id, o, q, o.quantity - q) ELSE sent
  IN IF q < o.quantity /\ o.tif = "Ioc"
     THEN Told(filled, Ends(id, o.side, o.quantity - q, "Cancelled", "Ioc")) ELSE filled

(* submit_order: filled at once as far as q, then resting or, for an IOC, gone. *)
SendOrder(q) ==
  /\ stage = "submit" /\ to_submit # <<>> /\ next_id <= MaxSent
  /\ LET o == Head(to_submit) IN
     /\ q <= (IF AtFarTouch(o) THEN o.quantity ELSE 0)
     /\ strat' = AfterSend(strat, next_id, o, q)
     /\ account' = account + Signed(o.side, q)
     /\ venue' = IF q < o.quantity /\ o.tif # "Ioc"
                 THEN Joined(venue, next_id,
                             [side |-> o.side, price |-> o.price,
                              remaining |-> o.quantity - q, cancel |-> FALSE, born |-> left])
                 ELSE venue
     /\ entries' = Noted(o)
  /\ to_submit' = Tail(to_submit) /\ next_id' = next_id + 1
  /\ UNCHANGED <<kind, late, left, view, stage, pause_view>>

ViewDone ==
  /\ stage = "submit" /\ to_submit = <<>>
  /\ stage' = "idle"
  /\ UNCHANGED <<kind, strat, venue, account, late, left, view, to_submit, next_id,
                 entries, pause_view>>

Sizes == 0..3

(* A locked book is a case of its own for the legacy makers alone. *)
TopsSeen == IF kind \in L!L1Kinds THEN Tops ELSE {top \in Tops : top.bid # top.ask}

(* Public trades; only the makers that read the flow tell the aggressor's side. *)
Trades ==
  [side : IF kind \in L!L1Kinds THEN {"Buy", "Sell"} ELSE {"Buy"}, quantity : TradeSizes]

(* Time between views; only the strategies that read the clock tell steps apart. *)
Steps == IF kind \in {"execution", "active"} THEN 1..2 ELSE {1}

DNext ==
  \/ \E top \in TopsSeen, dt \in Steps : ViewEvent(top, dt)
  \/ \E top \in TopsSeen : QuoteEvent(top)
  \/ \E trade \in Trades : TradeEvent(trade)
  \/ \E trade \in Trades, far \in BOOLEAN, stale \in BOOLEAN : QuotedTrade(trade, far, stale)
  \/ \E id \in DOMAIN venue, q \in Sizes \ {0} : FillResting(id, q)
  \/ TradeDone
  \/ \E d \in (IF stage = "view" THEN DecisionsOf(strat, view) ELSE {}) : Decide(d)
  \/ RefuseOrder
  \/ RejectOrder
  \/ \E q \in Sizes : SendOrder(q)
  \/ ViewDone

DSpec == DInit /\ [][DNext]_dvars

-----------------------------------------------------------------------------
(* Properties. *)

(* Between events a strategy's own position is the account's, and the orders it
   believes are open are those at the venue, quantities included; the execution
   strategy alone forgets an order when it asks for its cancel. *)
StrategyKnowsBooks ==
  stage = "idle" =>
    /\ PositionOf(strat) = account
    /\ Believed(strat) =
         [id \in IF kind = "execution" THEN DOMAIN venue \ Doomed ELSE DOMAIN venue |->
            venue[id].remaining]

(* Quotes are replaced, never added to: between events the orders with no cancel
   pending were all sent on one view. *)
OneGeneration ==
  stage = "idle" =>
    \A a, b \in DOMAIN venue \ Doomed : venue[a].born = venue[b].born

OnBook(side) ==
  MapThenSumSet(LAMBDA id : venue[id].remaining, {id \in DOMAIN venue : venue[id].side = side})

(* With a limit that has room for the configured sizes (a limit no larger size can
   jump over; StrategyDeskProofs states it as LimitsFit): a trend position and the
   legacy makers', together with what works on either side, and an inventory-aware
   position stay within the limit whatever fills, cancels in flight included. *)
WithinOwnLimit ==
  /\ kind = "trend" => /\ account + OnBook("Buy") <= strat.cfg.max_position
                       /\ account - OnBook("Sell") >= -strat.cfg.max_position
  /\ kind = "inventory" => Size(account) <= strat.cfg.limit
  /\ kind \in L!L1Kinds => /\ account + OnBook("Buy") <= strat.cfg.limit
                           /\ account - OnBook("Sell") >= -strat.cfg.limit

(* After a stop or a time stop, no order that adds to a position is sent during
   the cooldown. *)
CooldownHolds ==
  kind = "trend" /\ pause_view > 0 =>
    \A e \in entries :
      e.view \in pause_view..(pause_view + strat.cfg.cooldown) => ~e.adds

(* A maker that is halted, or blinded by the book it last saw, leaves no quote
   working without a cancel pending. *)
HaltPullsQuotes ==
  stage = "idle"
  /\ \/ kind = "active" /\ WarmupComplete(strat) /\ ShouldPause(strat)
     \/ kind \in L!L1Kinds /\ L!Blind(strat, view)
  => DOMAIN venue = Doomed

(* No quote outlives the view that replaced it: OneGeneration, HaltPullsQuotes. *)
NoStaleQuotes == OneGeneration /\ HaltPullsQuotes

(* The parent is worked exactly: all that fills beyond its quantity is of children
   already being cancelled, and a market parent still owes all it has not filled. *)
ParentExact ==
  kind = "execution" =>
    /\ strat.filled - late <= strat.cfg.quantity
    /\ strat.sent_market => strat.filled + strat.slice_remaining >= strat.cfg.quantity

(* The class comment: one child works at a time, so the parent is never overfilled. *)
NeverOverfilled == kind = "execution" => strat.filled <= strat.cfg.quantity
=============================================================================
