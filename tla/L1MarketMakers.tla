---------------------------- MODULE L1MarketMakers ----------------------------
(***************************************************************************)
(* The five frozen makers of lines/legacy/l1_market_maker.h.  They share   *)
(* one loop: a pair of quotes, pulled as a whole when the book has moved   *)
(* or they have aged, replaced only once both are gone; they differ in     *)
(* what blinds them, what they call a move, and how inventory and order    *)
(* flow size the pair.  Operators on a record s whose config is s.cfg.     *)
(*                                                                         *)
(* Shares and weights are in hundredths.  Two inputs are a choice: the     *)
(* imbalance of the displayed sizes, and for the two makers whose price is *)
(* capped by the touch, how far behind it they stand.                      *)
(***************************************************************************)
EXTENDS Integers, Sequences, SequencesExt, FiniteSetsExt, Functions

L1Kinds == {"passive_l1", "inventory_aware_l1", "flow_aware_l1", "l1", "active_l1"}

NewL1(cfg) ==
  [cfg |-> cfg, open |-> <<>>, position |-> 0, last_mid |-> 0, last_bid |-> 0, last_ask |-> 0,
   age |-> 0, cancel_pending |-> FALSE, trades |-> <<>>, bought |-> 0, sold |-> 0, mids |-> 0,
   recovery |-> "Unknown", recovery_cycles |-> 0]

Magnitude(n) == IF n < 0 THEN -n ELSE n

-----------------------------------------------------------------------------
(* The flow of public trades. *)

ReadsFlow(s) == s.cfg.maker \in {"flow_aware_l1", "l1", "active_l1"}

(* A volume after the trade that enters the window and the one that leaves it. *)
Volume(volume, side, trade, stale) ==
  LET entered == IF trade.side = side THEN volume + trade.quantity ELSE volume
  IN IF stale.side = side THEN Max({0, entered - stale.quantity}) ELSE entered

(* on_market_trade *)
OnMarketTrade(s, trade) ==
  LET all == Append(s.trades, trade)
      slides == Len(all) > s.cfg.window
      stale == IF slides THEN Head(all) ELSE [side |-> "Unknown", quantity |-> 0]
  IN IF ~ReadsFlow(s) THEN s
     ELSE [s EXCEPT !.trades = IF slides THEN Tail(all) ELSE all,
                    !.bought = Volume(@, "Buy", trade, stale),
                    !.sold = Volume(@, "Sell", trade, stale)]

(* on_market_trade with the latest quote: one maker drops a trade too far from it
   in time. *)
OnQuotedTrade(s, trade, stale) ==
  IF s.cfg.maker = "l1" /\ stale THEN s ELSE OnMarketTrade(s, trade)

(* flow_bias: the trade and the book imbalance, weighted 60 to 40. *)
FlowBias(s, book) ==
  LET total == s.bought + s.sold
      trade == IF total = 0 THEN 0 ELSE (60 * (s.bought - s.sold)) \div total
  IN IF ReadsFlow(s) THEN trade + (40 * book) \div 100 ELSE 0

-----------------------------------------------------------------------------
(* Sizes.  When a pair is sent nothing is open, so the inventory is the position;
   same is the inventory in the direction of the side. *)

Same(s, side) == IF side = "Buy" THEN s.position ELSE -s.position

(* The flow against a side: buying pressure is against our sells. *)
Against(side, bias) == IF side = "Sell" THEN bias ELSE -bias

(* llround(quantity * (1 - reduction)) where the flow is against the side. *)
Reduced(quantity, against) ==
  IF against < 8 THEN quantity
  ELSE (2 * quantity * (100 - Min({20, against})) + 100) \div 200

PassiveQuantity(s, side) ==
  LET same == Same(s, side)
  IN CASE same > s.cfg.limit -> 0
       [] same <= s.cfg.limit /\ s.cfg.limit > 0 /\ same > 0 -> s.cfg.limit - same
       [] OTHER -> s.cfg.size

InventoryQuantity(s, side) ==
  LET same == Same(s, side)
  IN CASE 2 * same > s.cfg.limit -> 0
       [] 2 * same <= s.cfg.limit /\ s.cfg.limit > 0 /\ same > 0 ->
            (s.cfg.size * (10 * s.cfg.limit - 9 * same)) \div (10 * s.cfg.limit)
       [] OTHER -> s.cfg.size

(* scale is the stress scale in tenths; past the risk threshold the other side is
   always quoted. *)
L1Quantity(s, side, scale) ==
  LET same == Same(s, side)
      over(n) == 10 * n > 6 * Max({0, s.cfg.limit})
      scaled == CASE same <= 0 -> (s.cfg.size * scale) \div 10
                  [] same > 0 /\ s.cfg.limit > same ->
                       (s.cfg.size * (s.cfg.limit - same) * scale) \div (10 * s.cfg.limit)
                  [] OTHER -> 0
  IN CASE over(same) -> 0
       [] over(-same) -> Max({1, scaled})
       [] OTHER -> scaled

ActiveQuantity(s, side) ==
  LET same == Same(s, side)
  IN CASE 10 * same > 8 * s.cfg.limit \/ s.recovery \notin {"Unknown", side} -> 0
       [] 10 * same <= 8 * s.cfg.limit /\ s.recovery \in {"Unknown", side} /\ same > 0 ->
            IF s.cfg.limit <= same THEN 0 ELSE Min({s.cfg.size, s.cfg.limit - same})
       [] OTHER -> s.cfg.size

QuoteQuantity(s, side, bias, scale) ==
  LET against == Against(side, bias)
  IN CASE s.cfg.maker = "passive_l1" -> PassiveQuantity(s, side)
       [] s.cfg.maker = "inventory_aware_l1" -> InventoryQuantity(s, side)
       [] s.cfg.maker = "flow_aware_l1" -> Reduced(InventoryQuantity(s, side), against)
       [] s.cfg.maker = "l1" -> Reduced(L1Quantity(s, side, scale), against)
       [] s.cfg.maker = "active_l1" -> Reduced(ActiveQuantity(s, side), against)

-----------------------------------------------------------------------------
(* Prices. *)

Mid(v) == (v.bid + v.ask) \div 2

(* The distance of a quote from the mid: wider where inventory adds, tighter where
   it is worked off, a tick wider against the flow. *)
Offset(s, side, bias) ==
  LET same == Same(s, side)
      pressure == Min({Magnitude(same), s.cfg.limit})
      leaning == CASE s.cfg.maker = "passive_l1" \/ s.cfg.limit <= 0 \/ same = 0 -> s.cfg.half
                   [] s.cfg.maker # "passive_l1" /\ s.cfg.limit > 0 /\ same > 0 ->
                        (s.cfg.half * (2 * s.cfg.limit + pressure)) \div (2 * s.cfg.limit)
                   [] OTHER -> (s.cfg.half * (4 * s.cfg.limit - pressure)) \div (4 * s.cfg.limit)
  IN IF Against(side, bias) >= 6 THEN leaning + s.cfg.tick ELSE leaning

Rounded(s, price) == ((2 * price + s.cfg.tick) \div (2 * s.cfg.tick)) * s.cfg.tick

CappedByTouch(s) == s.cfg.maker \in {"l1", "active_l1"}

(* behind: ticks behind the touch, a pair for the bid and the ask. *)
Quotes(s, v, bias, behind) ==
  IF CappedByTouch(s)
  THEN [bid |-> v.bid - behind[1] * s.cfg.tick, ask |-> v.ask + behind[2] * s.cfg.tick]
  ELSE [bid |-> Rounded(s, Mid(v) - Offset(s, "Buy", bias)),
        ask |-> Rounded(s, Mid(v) + Offset(s, "Sell", bias))]

-----------------------------------------------------------------------------
(* on_top_of_book *)

(* The book gives the maker nothing to quote on. *)
Blind(s, v) ==
  \/ v.bid <= 0 \/ v.ask <= 0 \/ v.bid > v.ask
  \/ CappedByTouch(s) /\ v.bid = v.ask
  \/ s.cfg.maker = "l1" /\ v.ask - v.bid > s.cfg.max_spread

(* What a refresh compares with the pair's own: the touch, or the new quotes. *)
Compared(s, v, quotes) == IF s.cfg.maker = "l1" THEN quotes ELSE [bid |-> v.bid, ask |-> v.ask]

Moved(s, v, quotes) ==
  LET now == Compared(s, v, quotes) IN
  \/ Magnitude(Mid(v) - s.last_mid) >= 2 * s.cfg.tick
  \/ s.last_mid = 0
  \/ /\ s.cfg.maker # "active_l1"
     /\ \/ Magnitude(now.bid - s.last_bid) >= s.cfg.tick
        \/ Magnitude(now.ask - s.last_ask) >= s.cfg.tick

(* A usable top ages what is open and lengthens the history of mids. *)
Observed(s) ==
  [s EXCEPT !.age = IF DOMAIN s.open # {} THEN @ + 1 ELSE @,
            !.mids = IF s.cfg.maker = "l1" THEN Min({3, @ + 1}) ELSE @]

(* The recovery after a fill is over when the position is flat or its cycles are
   used up. *)
Recovering(s) ==
  IF s.cfg.maker # "active_l1" THEN s
  ELSE [s EXCEPT !.recovery = IF s.position = 0 \/ s.recovery_cycles = 0 THEN "Unknown" ELSE @,
                 !.recovery_cycles = Max({0, @ - 1})]

(* An order scaled to nothing is not sent. *)
Sent(o) == IF o.quantity > 0 THEN <<o>> ELSE <<>>

(* Working quotes stand or are pulled; only an empty book of ours is quoted. *)
Quote(s, v, c) ==
  LET bias == FlowBias(s, c.book)
      quotes == Quotes(s, v, bias, c.behind)
      t == Recovering(s)
      bid == [side |-> "Buy", price |-> quotes.bid, tif |-> "Gtc",
              quantity |-> QuoteQuantity(t, "Buy", bias, c.scale)]
      ask == [side |-> "Sell", price |-> quotes.ask, tif |-> "Gtc",
              quantity |-> QuoteQuantity(t, "Sell", bias, c.scale)]
      seen == Compared(s, v, quotes)
  IN CASE DOMAIN s.open # {} ->
            [strat |-> [s EXCEPT !.cancel_pending =
                          @ \/ Moved(s, v, quotes) \/ s.age >= s.cfg.max_age],
             orders |-> <<>>]
       [] DOMAIN s.open = {} /\ quotes.bid >= quotes.ask ->
            [strat |-> [t EXCEPT !.cancel_pending = FALSE], orders |-> <<>>]
       [] OTHER ->
            [strat |-> [t EXCEPT !.last_mid = Mid(v), !.last_bid = seen.bid, !.last_ask = seen.ask,
                                 !.age = IF s.cfg.maker = "l1" THEN @ ELSE 0],
             orders |-> Sent(bid) \o Sent(ask)]

(* The choices a maker's inputs leave: book imbalance, stress scale, ticks behind. *)
Inputs(s) ==
  [book : IF ReadsFlow(s) THEN {-50, 0, 50} ELSE {0},
   scale : IF s.mids = 3 THEN {1, 5, 10} ELSE {10},
   behind : IF CappedByTouch(s) THEN (0..1) \X (0..1) ELSE {<<0, 0>>}]

L1Decisions(s, v) ==
  IF Blind(s, v)
  THEN {[strat |-> [s EXCEPT !.cancel_pending = DOMAIN s.open # {}], orders |-> <<>>]}
  ELSE {Quote(Observed(s), v, c) : c \in Inputs(Observed(s))}

-----------------------------------------------------------------------------
(* The open quotes with one more. *)
Joined(open, id, o) == [i \in {id} \cup DOMAIN open |-> IF i = id THEN o ELSE open[i]]

(* on_order_submitted *)
OnOrderSubmitted(s, id, o) == [s EXCEPT !.open = Joined(@, id, o), !.age = 0]

(* cancel_requests *)
CancelRequests(s) == IF s.cancel_pending THEN DOMAIN s.open ELSE {}

(* The active maker answers a fill by pulling the other quote and working the
   position off. *)
Recovery(s, r) ==
  IF s.cfg.maker # "active_l1" THEN s
  ELSE [s EXCEPT !.cancel_pending = TRUE, !.age = s.cfg.max_age,
                 !.recovery = IF r.side = "Buy" THEN "Sell" ELSE "Buy",
                 !.recovery_cycles = s.cfg.recovery_horizon]

Forgotten(open, id) == Restrict(open, DOMAIN open \ {id})

(* What a fill leaves of the open quotes. *)
Took(open, id, q) ==
  IF open[id].quantity > q THEN [open EXCEPT ![id].quantity = open[id].quantity - q]
  ELSE Forgotten(open, id)

(* on_order_update *)
OnOrderUpdate(s, r) ==
  CASE r.kind \in {"Filled", "Cancelled", "Rejected"} -> [s EXCEPT !.open = Forgotten(@, r.id)]
    [] r.kind = "Trade" /\ r.id \in DOMAIN s.open ->
         Recovery([s EXCEPT !.position = IF r.side = "Buy" THEN @ + r.quantity ELSE @ - r.quantity,
                            !.open = Took(@, r.id, r.quantity)], r)
    [] OTHER -> s
=============================================================================
