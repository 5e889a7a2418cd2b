---------------------------- MODULE OrderPipeline ----------------------------
(***************************************************************************)
(* app/pipeline.* over the matching engine: what one market view or public *)
(* trade makes happen, from the engine through the reports it fans out to  *)
(* the account, the strategy and the ledger, to the strategy's cancels and *)
(* its new orders through the pre-trade controls back into the engine.     *)
(*                                                                         *)
(* Everything is on one thread.  The engine calls the report callback      *)
(* inside its own calls, so a step of the engine hands its reports to      *)
(* HandleReport in the same step.  "stage" is where the pipeline is inside *)
(* one event.  Portfolio, execution quality, files and traces are left out.*)
(***************************************************************************)
EXTENDS MatchingEngine, SequencesExt, RiskPipeline, OrderLedger, L2MarketMaker

CONSTANT TimeInForce      \* of every order sent: "Gtc", or the override

ASSUME PipelineAssumption ==
  /\ TimeInForce \in {"Gtc", "Ioc", "Fok"}
  /\ "MarketMaker" \in Owners
  /\ NormalizeOwner["MarketMaker"] # NormalizeOwner["Market"]
  /\ QuotePrices \subseteq Ticks

VARIABLES
  account,      \* fill_accounting_
  ledger,       \* ledger_
  strategy,     \* strategy_
  risk,         \* risk_pipeline_
  next_id,      \* next_order_id_
  mismatches,   \* strategy_position_mismatches_
  stage,        \* where process_l2_market_view or _trade is
  view,         \* the view's top; latest_quotes_ whenever both sides are there
  to_cancel,    \* the rest of cancel_requests()
  to_submit     \* the rest of the strategy's orders

pipelineVars == <<account, ledger, strategy, risk, next_id, mismatches, stage, view,
                  to_cancel, to_submit>>
systemVars == <<engineVars, pipelineVars>>

NoView == [bid |-> 0, ask |-> 0, bid_qty |-> 0, ask_qty |-> 0, ts |-> 0]

PInit ==
  /\ EInit
  /\ account = NoFills /\ ledger = NoOrders /\ strategy = Idle
  /\ risk = NoControls
  /\ next_id = 1 /\ mismatches = 0
  /\ stage = "idle" /\ view = NoView
  /\ to_cancel = {} /\ to_submit = <<>>

-----------------------------------------------------------------------------
(* handle_report *)

(* One report through the account, the strategy, the mismatch check, the release
   of a finished order's reservation and the ledger, in that order. *)
HandleReport(p, r) ==
  LET ours == r.id # MarketId
      rested == IF r.kind = "Resting" THEN MarkResting(p.ledger, r.id) ELSE p.ledger
      booked == IF ours /\ r.kind = "Trade" THEN ApplyFill(p.account, r) ELSE p.account
      told == OnOrderUpdate(p.strategy, r)
  IN
  [account |-> IF IsTerminal(r.kind) THEN Release(booked, r.side, r.quantity) ELSE booked,
   ledger |-> OnReport(rested, r, ours),
   strategy |-> told,
   mismatches |-> IF ours /\ told.position # booked.position
                  THEN p.mismatches + 1 ELSE p.mismatches]

(* Mutant: a refusal ends the order and keeps the reservation. *)
HandleRejectedNoRelease(p, id, o) ==
  LET r == [kind |-> "Rejected", id |-> id, side |-> o.side, quantity |-> o.quantity] IN
  [p EXCEPT !.strategy = OnOrderUpdate(@, r), !.ledger = OnReport(@, r, TRUE)]

(* handle_rejected_order: the reservation, the strategy, the ledger. *)
HandleRejectedOrder(p, id, o) ==
  LET r == [kind |-> "Rejected", id |-> id, side |-> o.side, quantity |-> o.quantity] IN
  [p EXCEPT !.account = Release(@, o.side, o.quantity),
            !.strategy = OnOrderUpdate(@, r),
            !.ledger = OnReport(@, r, TRUE)]

Books == [account |-> account, ledger |-> ledger, strategy |-> strategy,
          mismatches |-> mismatches]

(* The books p after the reports of this step. *)
Reporting(p) == FoldLeft(HandleReport, p, reports')

BooksBecome(p) ==
  /\ account' = p.account /\ ledger' = p.ledger
  /\ strategy' = p.strategy /\ mismatches' = p.mismatches

-----------------------------------------------------------------------------
(* process_l2_market_view, process_l2_market_trade *)

(* A view whose top has both sides reaches the engine first. *)
ProcessView(top) ==
  /\ stage = "idle"
  /\ view' = top
  /\ stage' = "view"
  /\ IF top.bid > 0 /\ top.ask > 0
     THEN MarketEvent([kind |-> "l2", quote |-> top, ts |-> top.ts])
     ELSE UNCHANGED engineVars
  /\ UNCHANGED <<account, ledger, strategy, risk, next_id, mismatches, to_cancel,
                 to_submit>>

ProcessTrade(e) ==
  /\ stage = "idle"
  /\ MarketEvent(e)
  /\ stage' = "trade"
  /\ UNCHANGED <<account, ledger, strategy, risk, next_id, mismatches, view, to_cancel,
                 to_submit>>

EngineWorks ==
  /\ Working
  /\ BooksBecome(Reporting(Books))
  /\ UNCHANGED <<risk, next_id, stage, view, to_cancel, to_submit>>

TradeDone ==
  /\ stage = "trade" /\ pc = "idle"
  /\ stage' = "idle"
  /\ UNCHANGED <<engineVars, account, ledger, strategy, risk, next_id, mismatches, view,
                 to_cancel, to_submit>>

(* The strategy sees the view, then is asked what to cancel. *)
Decide(d) ==
  /\ stage = "view" /\ pc = "idle"
  /\ d \in Decisions(strategy, view)
  /\ to_submit' = d.orders
  /\ to_cancel' = CancelRequests(d.strat)
  /\ strategy' = [d.strat EXCEPT !.cancel_pending = FALSE]
  /\ stage' = "cancel"
  /\ UNCHANGED <<engineVars, account, ledger, risk, next_id, mismatches, view>>

-----------------------------------------------------------------------------
(* submit_strategy_actions *)

(* One requested cancel, in the unspecified order of the strategy's hash map; the
   engine ignores an id it does not hold. *)
CancelNext(id) ==
  /\ stage = "cancel" /\ pc = "idle"
  /\ id \in to_cancel
  /\ to_cancel' = to_cancel \ {id}
  /\ IF FirstCancel(ledger, id) /\ id \in order_index
     THEN CancelOrder(id)
     ELSE Emit(<<>>) /\ UNCHANGED <<bookVars, quoteVars, clockVars, delayVars,
                      rejected, consumed, pc, matchVars, ev, spent>>
  /\ BooksBecome(Reporting([Books EXCEPT !.ledger = BeginCancel(@, id)]))
  /\ UNCHANGED <<risk, next_id, stage, view, to_submit>>

(* The kill switch, once a cycle, between the cancels and the orders. *)
CheckSwitch ==
  /\ stage = "cancel" /\ to_cancel = {}
  /\ risk' \in BeginCycle(risk)
  /\ stage' = "submit"
  /\ UNCHANGED <<engineVars, account, ledger, strategy, next_id, mismatches, view,
                 to_cancel, to_submit>>

Context == [position |-> account.position, pending |-> account.pending,
            quote |-> view, now |-> view.ts]

Decision == Check(risk, Head(to_submit), Context)

(* submit_order, refused by a control: no id, no reservation, no record. *)
RefuseOrder ==
  /\ stage = "submit" /\ pc = "idle" /\ to_submit # <<>>
  /\ Decision.reason # "none"
  /\ risk' = Decision.risk
  /\ to_submit' = Tail(to_submit)
  /\ UNCHANGED <<engineVars, account, ledger, strategy, next_id, mismatches, stage, view,
                 to_cancel>>

(* The books as the order is about to be sent: reserved only when the position
   gate is on, known to the strategy and open in the ledger. *)
Entered(id, o) ==
  [Books EXCEPT
     !.account = IF PositionLimit > 0 /\ o.quantity > 0
                 THEN Reserve(@, o.side, o.quantity) ELSE @,
     !.strategy = OnOrderSubmitted(@, id, o.quantity),
     !.ledger = OpenOrder(@, id)]

(* submit_order, passed: the engine may report, or refuse, inside the call. *)
SubmitOrder ==
  /\ stage = "submit" /\ pc = "idle" /\ to_submit # <<>>
  /\ Decision.reason = "none"
  /\ risk' = Decision.risk
  /\ next_id' = next_id + 1
  /\ LET o == Head(to_submit) IN
     /\ SendOrder([id |-> next_id, side |-> o.side, price |-> o.price,
                   qty |-> o.quantity, remaining |-> o.quantity, type |-> "Limit",
                   tif |-> TimeInForce, owner |-> "MarketMaker"], view.ts)
     /\ LET sent == Reporting(Entered(next_id, o)) IN
        BooksBecome(IF rejected' # rejected THEN HandleRejectedOrder(sent, next_id, o)
                                            ELSE sent)
  /\ to_submit' = Tail(to_submit)
  /\ UNCHANGED <<stage, view, to_cancel>>

ViewDone ==
  /\ stage = "submit" /\ pc = "idle" /\ to_submit = <<>>
  /\ stage' = "idle"
  /\ UNCHANGED <<engineVars, account, ledger, strategy, risk, next_id, mismatches, view,
                 to_cancel, to_submit>>

(* Everything that happens without a new event. *)
Processing ==
  \/ EngineWorks
  \/ TradeDone
  \/ \E d \in Decisions(strategy, view) : Decide(d)
  \/ \E id \in to_cancel : CancelNext(id)
  \/ CheckSwitch
  \/ RefuseOrder
  \/ SubmitOrder
  \/ ViewDone

(* Any views and public trades.  Bound: a view comes only while two ids are left,
   since the ids are finitely many and a decision holds at most two orders. *)
PNext ==
  \/ \E top \in Quotes : {next_id, next_id + 1} \subseteq Ids /\ ProcessView(top)
  \/ \E e \in Events : e.kind = "trade" /\ ProcessTrade(e)
  \/ Processing

PSpec == PInit /\ [][PNext]_systemVars

-----------------------------------------------------------------------------
(* Properties. *)

(* What is at the venue of an id: under way, resting or being matched. *)
UnderWay(i) ==
  SumFunction([k \in DOMAIN in_flight |->
                 IF in_flight[k].order.id = i THEN in_flight[k].order.remaining ELSE 0])

AtVenue(i) == UnderWay(i) + Open(i)

SideAt(i) ==
  CASE i \in order_index -> data[i].side
    [] i \notin order_index /\ cur.id = i -> cur.side
    [] OTHER -> LET k == CHOOSE k \in DOMAIN in_flight : in_flight[k].order.id = i
                IN  in_flight[k].order.side

(* The position gate reserves exactly what can still fill: on each side the
   reserved quantity is the sum of what is open at the venue, after every single
   report, through partial fills, cancels, self-trades and refusals. *)
ReservationExact ==
  PositionLimit > 0 =>
    \A s \in Sides :
      account.pending[s] =
        SumFunctionOnSet([i \in Ids |-> AtVenue(i)],
                         {i \in Ids : AtVenue(i) > 0 /\ SideAt(i) = s})

(* The three records of what is open agree between engine calls: the strategy's
   open orders, quantities included, the ledger's open audits and the venue. *)
BooksAgree ==
  pc = "idle" =>
    /\ DOMAIN strategy.open = {i \in Ids : AtVenue(i) > 0}
    /\ DOMAIN ledger.audit = DOMAIN strategy.open
    /\ \A i \in DOMAIN strategy.open : strategy.open[i] = AtVenue(i)

(* The ledger's state of an open order is what happened to it: Pending while it
   is under way, Resting untouched, PartiallyFilled once some of it traded. *)
StateMatches ==
  pc = "idle" =>
    \A i \in DOMAIN ledger.audit :
      CASE ledger.audit[i] = "Pending" -> i \notin order_index
        [] ledger.audit[i] = "Resting" ->
             i \in order_index /\ data[i].remaining = data[i].qty
        [] ledger.audit[i] = "PartiallyFilled" ->
             i \in order_index /\ data[i].remaining < data[i].qty
        [] OTHER -> FALSE

(* The strategy's own position never drifts from the account's: no report leaves
   the two different. *)
PositionAgrees == mismatches = 0

(* The four records of an order never part: the venue, the strategy's open orders
   and position, the account and the ledger's state machine, each fed by the same
   reports in a fixed order, tell the same story between engine calls. *)
RecordsAgree == BooksAgree /\ StateMatches /\ PositionAgrees

(* A cancel the ledger has on record is one the venue is going to apply: it is
   never asked for, lost, and then suppressed as already asked for. *)
CancelHeld ==
  stage = "idle" =>
    \A i \in ledger.cancelling : i \in order_index /\ \E p \in pending : p.id = i

(* The largest quote. *)
Largest(q) == q \in QuoteSizes /\ \A x \in QuoteSizes : x <= q

(* How far past its limit the gate lets the position go. *)
Reach(q) == Greatest(PositionLimit, q - 1) + q

(* What the position gate gives with one quote a side: since it nets the two sides,
   the position may pass the limit, or the largest quote where that is the larger,
   but by no more than the largest quote.  Flattening orders are sent whatever is
   open; they keep to it when they start no later than one short of the limit. *)
OvershootBounded ==
  PositionLimit > 0 /\ (FlattenBand = 0 \/ PositionLimit <= FlattenBand + 1) =>
    \A q \in QuoteSizes : Largest(q) => Magnitude(account.position) <= Reach(q)

-----------------------------------------------------------------------------
(* The inductive invariant, when orders are sent without latency. *)

(* The engine's calls nest in the pipeline's, and nothing is under way. *)
CallsNest ==
  /\ in_flight = <<>>
  /\ stage \in {"idle", "trade", "view", "cancel", "submit"}
  /\ stage \in {"idle", "cancel"} => pc = "idle"
  /\ pc = "match" => (back = "idle" <=> cur.id # MarketId)

(* Every order in the book or being matched is ours, but the public trade's; ours
   never trades with another of ours, so match_side leaves it whole or cancelled. *)
OursOnly ==
  /\ \A i \in order_index :
       data[i].owner = "MarketMaker" /\ i < next_id /\ data[i].remaining <= data[i].qty
  /\ pc = "match" /\ cur.id # MarketId =>
       /\ cur.owner = "MarketMaker" /\ cur.id < next_id
       /\ cur.remaining \in {0, starting_qty} /\ starting_qty <= cur.qty

(* What is open of each order, in all and per side, and its state in the ledger. *)
Quantities == [i \in Ids |-> Open(i)]

OpenIds(w) == {i \in Ids : w[i] > 0}

SideOf(i) == IF i \in order_index THEN data[i].side ELSE cur.side

OnSide(s) == [i \in Ids |-> IF SideOf(i) = s THEN Open(i) ELSE 0]

StateOf(i) ==
  CASE i \in order_index ->
         IF data[i].remaining = data[i].qty THEN "Resting" ELSE "PartiallyFilled"
    [] OTHER -> IF cur.remaining = cur.qty THEN "Pending" ELSE "PartiallyFilled"

(* The books, after every single step. *)
AccountExact ==
  /\ account \in [position : Int, pending : [Sides -> Nat]]
  /\ PositionLimit > 0 =>
       \A s \in Sides : account.pending[s] = SumFunctionOnSet(OnSide(s), Ids)

StrategyExact ==
  /\ strategy.open = [i \in OpenIds(Quantities) |-> Open(i)]
  /\ strategy.position = account.position /\ strategy.cancel_pending = FALSE
  /\ DOMAIN strategy = {"open", "position", "cancel_pending"}

LedgerExact ==
  /\ ledger.audit = [i \in OpenIds(Quantities) |-> StateOf(i)]
  /\ DOMAIN ledger = {"audit", "cancelling", "invalid", "orphans"}

(* A cancel on record is under way, and one still to be asked for is of an order
   in the book. *)
CancelsHeld ==
  /\ \A i \in ledger.cancelling : i \in order_index /\ \E p \in pending : p.id = i
  /\ stage = "cancel" => to_cancel \subseteq order_index

(* The orders still to be submitted, and the ids there are for them. *)
SubmitTypes ==
  /\ next_id \in Nat /\ view \in Quotes
  /\ to_submit \in Seq([side : Sides, price : Ticks, quantity : Nat \ {0}])
  /\ stage = "view" => {next_id, next_id + 1} \subseteq Ids
  /\ stage \in {"idle", "trade", "view"} => to_submit = <<>>
  /\ Len(to_submit) <= 2
  /\ Len(to_submit) >= 1 => next_id \in Ids
  /\ Len(to_submit) = 2 => next_id + 1 \in Ids

(* A flattening order leaves the band's worth of position; quotes are a bid and an
   ask, sent with nothing open, the bid first. *)
Flattening(o) ==
  /\ pc = "idle" /\ Flattens(strategy)
  /\ o.side = (IF strategy.position < 0 THEN "Buy" ELSE "Sell")
  /\ o.quantity = Size(strategy.position) - FlattenBand

Quoting(o, q) ==
  /\ o.quantity <= q
  /\ account.pending[o.side] = 0 /\ account.pending[Opposite(o.side)] <= q

SubmitShape(q) ==
  /\ Len(to_submit) = 1 => Flattening(to_submit[1]) \/ Quoting(to_submit[1], q)
  /\ Len(to_submit) = 2 =>
       /\ to_submit[1].side = "Buy" /\ to_submit[1].quantity <= q
       /\ to_submit[2].side = "Sell" /\ to_submit[2].quantity <= q
       /\ \A s \in Sides : account.pending[s] = 0

(* Neither the buys nor the sells still open can take the position too far. *)
WithinReach(q) ==
  /\ account.position + account.pending["Buy"] <= Reach(q)
  /\ account.position - account.pending["Sell"] >= -Reach(q)

GateHolds ==
  PositionLimit > 0 =>
    \A q \in QuoteSizes : Largest(q) =>
      /\ SubmitShape(q)
      /\ FlattenBand = 0 \/ PositionLimit <= FlattenBand + 1 => WithinReach(q)

PipelineInv ==
  /\ EngineInv /\ CallsNest /\ OursOnly
  /\ AccountExact /\ StrategyExact /\ mismatches = 0 /\ LedgerExact /\ CancelsHeld
  /\ SubmitTypes /\ GateHolds
=============================================================================
