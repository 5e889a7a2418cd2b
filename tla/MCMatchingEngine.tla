-------------------------- MODULE MCMatchingEngine --------------------------
(* Model-checking instance of MatchingEngine: a small menu of orders, quotes *)
(* and public trades, each id sent at most MaxSends times, at most MaxEvents *)
(* market events, each one at or one tick of time after the last.            *)
EXTENDS MatchingEngine

CONSTANTS
  MaxEvents,     \* market events in a run
  MaxSends       \* send_order calls per id

VARIABLE sends

mcVars == <<engineVars, sends>>

Normal == [o \in Owners |-> IF o = "mm " THEN "MM" ELSE o]

Order(id, side, price, qty, tif, owner) ==
  [id |-> id, side |-> side, price |-> price, qty |-> qty, remaining |-> qty,
   type |-> "Limit", tif |-> tif, owner |-> owner]

(* Two owners that are one when normalised, orders that cross, rest, fill or kill,
   one with the wrong type and one empty. *)
MCOrders ==
  {Order(1, "Sell", 2, 2, "Gtc", "MM"), Order(1, "Buy", 1, 2, "Gtc", "MM"),
   Order(2, "Buy", 2, 3, "Gtc", "T"), Order(2, "Sell", 1, 2, "Fok", "T"),
   Order(2, "Sell", 2, 1, "Gtc", ""),
   Order(3, "Buy", 2, 2, "Fok", "mm "), Order(3, "Buy", 2, 3, "Ioc", "T"),
   [Order(3, "Buy", 1, 2, "Gtc", "T") EXCEPT !.type = "Market"],
   Order(3, "Buy", 1, 0, "Gtc", "T")}

Quote(bid, bid_qty, ask, ask_qty) ==
  [bid |-> bid, bid_qty |-> bid_qty, ask |-> ask, ask_qty |-> ask_qty]

MCQuotes == {Quote(1, 3, 2, 1), Quote(1, 1, 0, 0)}

MCTrades == {<<"Sell", 1, 3>>, <<"Unknown", 2, 1>>}

MCEvents ==
  {[kind |-> k, ts |-> ts,
    quote |-> [bid |-> q.bid, ask |-> q.ask, bid_qty |-> q.bid_qty,
               ask_qty |-> q.ask_qty, ts |-> ts]] :
     k \in {"bbo", "l2"}, ts \in now .. now + 1, q \in MCQuotes}
  \cup
  {[kind |-> "trade", ts |-> ts, side |-> t[1], price |-> t[2], quantity |-> t[3]] :
     ts \in now .. now + 1, t \in MCTrades}

MCInit == EInit /\ sends = [i \in Ids |-> 0]

MCSend ==
  \E o \in MCOrders :
    /\ sends[o.id] < MaxSends
    /\ sends' = [sends EXCEPT ![o.id] = @ + 1]
    /\ SendOrder(o, now)

MCCancel == \E id \in Ids : CancelOrder(id) /\ UNCHANGED sends

MCMarketEvent ==
  /\ event_counter < MaxEvents
  /\ \E e \in MCEvents : MarketEvent(e)
  /\ UNCHANGED sends

MCNext ==
  \/ Working /\ UNCHANGED sends
  \/ MCSend
  \/ MCCancel
  \/ MCMarketEvent

MCSpec == MCInit /\ [][MCNext]_mcVars
=============================================================================
