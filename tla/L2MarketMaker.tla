---------------------------- MODULE L2MarketMaker ----------------------------
(***************************************************************************)
(* strategy/l2_market_maker_base.h, as operators on a record s: the open   *)
(* orders with what the strategy thinks remains of each, its own position  *)
(* and the armed cancel.                                                   *)
(*                                                                         *)
(* The control of a decision is kept: an unusable top, flattening, working *)
(* orders, fresh quotes.  Prices and sizes come out of signals, volumes    *)
(* and gates in floating point; here a quote is any passive price and any  *)
(* size of QuoteSizes, and a refresh may or may not be called for.         *)
(***************************************************************************)
EXTENDS Integers, Sequences, Functions, TLC

CONSTANTS
  QuotePrices,      \* ticks a quote may be placed at
  QuoteSizes,       \* order_size and what the gates may scale it to
  InventoryLimit,   \* config_.inventory_limit
  FlattenBand       \* config_.flatten_band_units, 0 is off

ASSUME MakerAssumption ==
  /\ QuotePrices \subseteq Nat \ {0} /\ QuoteSizes \subseteq Nat \ {0}
  /\ InventoryLimit \in Nat /\ FlattenBand \in Nat

Idle == [open |-> <<>>, position |-> 0, cancel_pending |-> FALSE]

Ended == {"Filled", "Cancelled", "Rejected"}

Size(n) == IF n < 0 THEN -n ELSE n

Without1(f, id) == Restrict(f, DOMAIN f \ {id})

OnOrderSubmitted(s, id, quantity) ==
  [s EXCEPT !.open = [i \in {id} \cup DOMAIN @ |-> IF i = id THEN quantity ELSE @[i]]]

(* on_order_update: a fill counts only while the order is open, and the fill
   that completes it closes it. *)
OnOrderUpdate(s, r) ==
  IF r.kind \in Ended THEN [s EXCEPT !.open = Without1(@, r.id)]
  ELSE IF r.kind # "Trade" \/ r.id \notin DOMAIN s.open THEN s
  ELSE [s EXCEPT
          !.position = IF r.side = "Buy" THEN @ + r.quantity ELSE @ - r.quantity,
          !.open = IF s.open[r.id] > r.quantity
                   THEN [s.open EXCEPT ![r.id] = @ - r.quantity]
                   ELSE Without1(s.open, r.id)]

-----------------------------------------------------------------------------
(* quote, called with the top of a view: the possible decisions, each the
   strategy afterwards and the orders it returns. *)

Unusable(top) == top.bid = 0 \/ top.ask = 0 \/ top.bid >= top.ask

Flattens(s) == FlattenBand > 0 /\ Size(s.position) > FlattenBand

(* At the touch of the reducing side, whatever is resting. *)
FlattenOrder(s, top) ==
  [side |-> IF s.position < 0 THEN "Buy" ELSE "Sell",
   price |-> IF s.position < 0 THEN top.ask ELSE top.bid,
   quantity |-> Size(s.position) - FlattenBand]

(* Zero or one order a side: none once the inventory limit is reached. *)
SideQuotes(s, side, prices) ==
  {<<>>} \cup
  IF (IF side = "Buy" THEN s.position ELSE -s.position) >= InventoryLimit
  THEN {}
  ELSE {<<[side |-> side, price |-> p, quantity |-> q]>> : p \in prices, q \in QuoteSizes}

(* The bid first, then the ask. *)
BidThenAsk(bids, asks) == {bid \o ask : bid \in bids, ask \in asks}

(* Fresh quotes, neither through the touch. *)
FreshQuotes(s, top) ==
  BidThenAsk(SideQuotes(s, "Buy", {p \in QuotePrices : p <= top.bid}),
             SideQuotes(s, "Sell", {p \in QuotePrices : p >= top.ask}))

(* Mutant: replacements go out before the cancels are acknowledged. *)
DecisionsNotWaiting(s, top) ==
  IF Unusable(top)
  THEN {[strat |-> [s EXCEPT !.cancel_pending = DOMAIN s.open # {}], orders |-> <<>>]}
  ELSE IF Flattens(s) THEN {[strat |-> s, orders |-> <<FlattenOrder(s, top)>>]}
  ELSE {[strat |-> s, orders |-> q] : q \in FreshQuotes(s, top)}

Decisions(s, top) ==
  IF Unusable(top)
  THEN {[strat |-> [s EXCEPT !.cancel_pending = DOMAIN s.open # {}], orders |-> <<>>]}
  ELSE IF Flattens(s) THEN {[strat |-> s, orders |-> <<FlattenOrder(s, top)>>]}
  ELSE IF DOMAIN s.open # {}
  THEN {[strat |-> s, orders |-> <<>>],
        [strat |-> [s EXCEPT !.cancel_pending = TRUE], orders |-> <<>>]}
  ELSE {[strat |-> s, orders |-> q] : q \in FreshQuotes(s, top)}

(* cancel_requests: every open order, once per armed cancel. *)
CancelRequests(s) == IF s.cancel_pending THEN DOMAIN s.open ELSE {}
=============================================================================
