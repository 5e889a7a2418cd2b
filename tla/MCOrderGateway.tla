--------------------------- MODULE MCOrderGateway ---------------------------
(* Model-checking instance of OrderGateway over the broker and an engine     *)
(* with one-way latency: each order is submitted once (a second submission   *)
(* only while the first is in the table, as a client retry is), MaxEvents    *)
(* events.                                                                   *)
EXTENDS OrderGateway

CONSTANTS
  Passive,       \* only orders that do not cross the quotes
  MaxEvents,     \* market events in a run
  MaxCancels     \* cancel_order calls in a run

Normal == [o \in Owners |-> o]

Order(id, side, price, qty, tif) ==
  [id |-> id, side |-> side, price |-> price, qty |-> qty, remaining |-> qty,
   type |-> "Limit", tif |-> tif, owner |-> "MM"]

Plan(retry, reject, partial, drop, outage_after, outage_holds) ==
  [ack_timeout_us |-> 1, retry_on_timeout |-> retry, reject_every |-> reject,
   partial_every |-> partial, drop_every |-> drop, outage_after |-> outage_after,
   outage_holds |-> outage_holds]

(* The retry over a broker that splits, withholds and refuses; an outage of one
   order, and one that lasts, without the retry. *)
MCPlans ==
  {Plan(TRUE, 4, 2, 3, 0, 0), Plan(FALSE, 0, 1, 2, 1, 1), Plan(FALSE, 3, 2, 0, 1, 0)}

(* The retry alone. *)
MCRetryPlans == {Plan(TRUE, 0, 0, 0, 0, 0)}

PassiveOrders ==
  {Order(1, "Buy", 1, 2, "Gtc"), Order(1, "Buy", 1, 3, "Gtc"),
   Order(2, "Sell", 2, 2, "Gtc"), Order(3, "Buy", 1, 2, "Gtc")}

CrossingOrders ==
  {Order(1, "Buy", 2, 2, "Gtc"), Order(1, "Buy", 2, 2, "Ioc"),
   Order(2, "Sell", 2, 2, "Gtc"), Order(2, "Buy", 1, 1, "Gtc"), Order(3, "Sell", 1, 3, "Gtc")}

MCOrders ==
  {o \in IF Passive /\ plan.retry_on_timeout THEN PassiveOrders ELSE CrossingOrders :
     o.id \in Ids}

MCEvents ==
  LET ts == now + 1 IN
  {[kind |-> "l2", ts |-> ts,
    quote |-> [bid |-> 1, ask |-> 2, bid_qty |-> 1, ask_qty |-> n, ts |-> ts]] :
     n \in {1, 3}}
  \cup {[kind |-> "trade", ts |-> ts, side |-> "Sell", price |-> 1, quantity |-> 2]}

Fresh(o) == track[o.id].order = NoOrder

MCSubmit == \E o \in MCOrders : Fresh(o) /\ Submit(o)

MCDuplicate ==
  \E o \in MCOrders :
    gstats.duplicates_suppressed < 1 /\ track[o.id].order = o /\ SubmitDuplicate(o)

MCCancel ==
  /\ gstats.cancels < MaxCancels
  /\ \E id \in Ids : track[id].order # NoOrder /\ (Cancel(id) \/ CancelAfterFill(id))

MCFeed == event_counter < MaxEvents /\ \E e \in MCEvents : Feed(e)

MCNext ==
  \/ MCSubmit \/ Submitted \/ MCDuplicate \/ MCCancel \/ MCFeed
  \/ VenueWorks
  \/ SweepTimeouts
  \/ \E d \in due : Resend(d)
  \/ Resent
  \/ SweepDone

MCSpec == GInit /\ [][MCNext]_allVars
=============================================================================
