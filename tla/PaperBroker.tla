---------------------------- MODULE PaperBroker -----------------------------
(***************************************************************************)
(* PaperBroker, the decorator between the client and the matching engine:  *)
(* it refuses, splits, withholds and holds by counting orders and fills,   *)
(* and keeps its own statement of what the venue executed;                 *)
(* reconcile_positions compares that statement with the client's books.    *)
(*                                                                         *)
(* The broker runs on the engine's thread.  A send_order that reaches the  *)
(* venue puts its orders in "sending" and each goes out in a step of its   *)
(* own, since the engine takes several steps over an order; every report   *)
(* of an engine step passes through OnVenueReport in that step.            *)
(*                                                                         *)
(* Every order here is the strategy's own, so a report is about one of its *)
(* executions when it is not about the synthetic order of a public trade.  *)
(***************************************************************************)
EXTENDS MatchingEngine, SequencesExt

CONSTANTS
  Plans,      \* the configurations of the order path
  FeeRate     \* the fee of one unit traded

ASSUME BrokerAssumption == FeeRate \in Int

VARIABLES
  plan,           \* the configuration of this run: faults_ and GatewayConfig
  holding,        \* held_
  sending,        \* the orders this call still has to hand to the venue
  accepted,       \* accepted_orders_
  held_since,     \* held_since_outage_
  outage,         \* "before", "active" or "over": outage_active_, outage_seen_
  submitted,      \* summary_.orders_submitted
  broker_rejects, \* broker_rejects_
  seen,           \* summary_.fills_seen
  dropped,        \* summary_.fills_dropped
  statement,      \* statement_ of the symbol
  told,           \* the reports forwarded in the last step, in order
  given           \* history: the submissions handed to the venue, in order

brokerVars == <<plan, holding, sending, accepted, held_since, outage, submitted,
                broker_rejects, seen, dropped, statement, told, given>>

NoAccount == [net |-> 0, filled |-> 0, fills |-> 0, fees |-> 0]

BrokerInit ==
  /\ plan \in Plans
  /\ holding = <<>> /\ sending = <<>>
  /\ accepted = 0 /\ held_since = 0 /\ outage = "before"
  /\ submitted = 0 /\ broker_rejects = 0 /\ seen = 0 /\ dropped = 0
  /\ statement = [net |-> 0, filled |-> 0, fills |-> 0, fees |-> 0, forwarded |-> 0]
  /\ told = <<>> /\ given = <<>>

(* Every n-th of something counted; n = 0 is never. *)
EveryNth(n, count) == n > 0 /\ count % n = 0

-----------------------------------------------------------------------------
(* Reports from the venue. *)

(* One fill in an account: the statement's, and the client's. *)
Booked(account, r) ==
  [account EXCEPT !.net = @ + (IF r.side = "Buy" THEN r.quantity ELSE -r.quantity),
                  !.filled = @ + r.quantity, !.fills = @ + 1, !.fees = @ + r.fee]

(* A fill in the statement, of which the client is sent n reports. *)
Executed(account, r, n) == [Booked(account, r) EXCEPT !.forwarded = @ + n]

(* The two prints of a split fill; the second takes what is left of the fee. *)
Split(r) ==
  LET half == r.quantity \div 2
      fee == (r.fee * half) \div r.quantity
  IN  <<[r EXCEPT !.quantity = half, !.fee = fee],
        [r EXCEPT !.quantity = r.quantity - half, !.fee = r.fee - fee]>>

(* The report as the broker passes it on. *)
WithFee(r, fee) ==
  [kind |-> r.kind, id |-> r.id, side |-> r.side, quantity |-> r.quantity, fee |-> fee]

(* Mutant: a withheld fill does not reach the statement either. *)
OnVenueReportDropFirst(b, report) ==
  LET r == WithFee(report, report.quantity * FeeRate)
      n == b.seen + 1
  IN
  IF r.kind # "Trade" \/ r.id = MarketId THEN [b EXCEPT !.told = Append(@, r)]
  ELSE IF EveryNth(plan.drop_every, n) THEN [b EXCEPT !.seen = n, !.dropped = @ + 1]
  ELSE [b EXCEPT !.seen = n, !.statement = Executed(@, r, 1),
                 !.told = Append(@, r)]

(* on_venue_report, record_execution, forward: the statement is written before
   anything decides whether the client hears of the fill. *)
OnVenueReport(b, report) ==
  LET r == WithFee(report, report.quantity * FeeRate)
      n == b.seen + 1
      prints == CASE EveryNth(plan.drop_every, n) -> <<>>
                  [] EveryNth(plan.partial_every, n) /\ r.quantity > 1
                       /\ ~EveryNth(plan.drop_every, n) -> Split(r)
                  [] OTHER -> <<r>>
  IN
  IF r.kind # "Trade" \/ r.id = MarketId THEN [b EXCEPT !.told = Append(@, r)]
  ELSE [b EXCEPT !.seen = n,
                 !.dropped = IF prints = <<>> THEN @ + 1 ELSE @,
                 !.statement = Executed(@, r, Len(prints)),
                 !.told = @ \o prints]

(* The reports of this engine step. *)
PassReports ==
  LET b == FoldLeft(OnVenueReport,
                    [seen |-> seen, dropped |-> dropped, statement |-> statement,
                     told |-> <<>>],
                    reports')
  IN  /\ seen' = b.seen /\ dropped' = b.dropped
      /\ statement' = b.statement /\ told' = b.told

NoReports == told' = <<>> /\ UNCHANGED <<seen, dropped, statement>>

-----------------------------------------------------------------------------
(* Calls of the client. *)

Idle == pc = "idle" /\ sending = <<>>

(* rejected_orders: the venue's refusals and the broker's own. *)
RejectedOrders == rejected + broker_rejects

GoesDown == outage = "before" /\ plan.outage_after > 0 /\ accepted >= plan.outage_after
Down == outage = "active" \/ GoesDown
Holds == Down /\ (plan.outage_holds = 0 \/ held_since < plan.outage_holds)

(* Mutant: the order that finds the venue back is sent before the held ones. *)
ReleasedAfter(entry) == <<entry>> \o holding

(* release_held, then the order itself. *)
Released(entry) == holding \o <<entry>>

(* What becomes of the n-th submission. *)
Fate(n) ==
  CASE EveryNth(plan.reject_every, n) -> "refused"
    [] ~EveryNth(plan.reject_every, n) /\ Holds -> "held"
    [] ~EveryNth(plan.reject_every, n) /\ Down /\ ~Holds -> "released"
    [] OTHER -> "sent"

(* send_order *)
BrokerSend(o, ts) ==
  LET n == submitted + 1
      fate == Fate(n)
      entry == [order |-> o, ts |-> ts, n |-> n]
  IN
  /\ Idle
  /\ submitted' = n
  /\ broker_rejects' = IF fate = "refused" THEN broker_rejects + 1 ELSE broker_rejects
  /\ outage' = IF fate = "held" THEN "active" ELSE IF fate = "released" THEN "over" ELSE outage
  /\ holding' = IF fate = "held" THEN Append(holding, entry)
                ELSE IF fate = "released" THEN <<>> ELSE holding
  /\ held_since' = IF fate = "held" THEN held_since + 1
                   ELSE IF fate = "released" THEN 0 ELSE held_since
  /\ sending' = IF fate = "sent" THEN <<entry>>
                ELSE IF fate = "released" THEN Released(entry) ELSE <<>>
  /\ accepted' = IF fate \in {"sent", "released"} THEN accepted + 1 ELSE accepted
  /\ Emit(<<>>) /\ NoReports
  /\ UNCHANGED <<plan, given, bookVars, quoteVars, clockVars, delayVars, rejected,
                 consumed, pc, matchVars, ev, spent>>

(* The next order of the call reaches the venue. *)
VenueTakes ==
  /\ pc = "idle" /\ sending # <<>>
  /\ SendOrder(Head(sending).order, Head(sending).ts)
  /\ sending' = Tail(sending)
  /\ given' = Append(given, Head(sending).n)
  /\ PassReports
  /\ UNCHANGED <<plan, holding, accepted, held_since, outage, submitted, broker_rejects>>

(* Any other step of the engine: the broker only hears its reports. *)
VenueWorking ==
  /\ Working
  /\ PassReports
  /\ UNCHANGED <<plan, holding, sending, accepted, held_since, outage, submitted,
                 broker_rejects, given>>

HeldAt(id) == {k \in DOMAIN holding : holding[k].order.id = id}

(* cancel_order of an order the venue was never given: gone, and answered. *)
CancelHeldOrder(id) ==
  /\ Idle
  /\ HeldAt(id) # {}
  /\ LET k == Min(HeldAt(id)) IN
     /\ holding' = RemoveAt(holding, k)
     /\ told' = <<WithFee(Report("Cancelled", holding[k].order,
                                 holding[k].order.remaining), 0)>>
  /\ Emit(<<>>)
  /\ UNCHANGED <<bookVars, quoteVars, clockVars, delayVars, rejected, consumed, pc,
                 matchVars, ev, spent, plan, sending, accepted, held_since, outage,
                 submitted, broker_rejects, seen, dropped, statement, given>>

(* cancel_order of any other: the venue ignores an id it does not hold. *)
CancelAtVenue(id) ==
  /\ Idle
  /\ HeldAt(id) = {}
  /\ IF id \in order_index THEN CancelOrder(id)
     ELSE Emit(<<>>) /\ UNCHANGED <<bookVars, quoteVars, clockVars, delayVars,
                      rejected, consumed, pc, matchVars, ev, spent>>
  /\ PassReports
  /\ UNCHANGED <<plan, holding, sending, accepted, held_since, outage, submitted,
                 broker_rejects, given>>

BrokerCancel(id) == CancelHeldOrder(id) \/ CancelAtVenue(id)

(* query_order: a held order is working at the broker. *)
QueryWorking(id) == HeldAt(id) # {} \/ id \in order_index

(* process_bbo, process_l2_top, process_market_trade are the venue's. *)
BrokerEvent(e) ==
  /\ Idle
  /\ MarketEvent(e)
  /\ NoReports
  /\ UNCHANGED <<plan, holding, sending, accepted, held_since, outage, submitted,
                 broker_rejects, given>>

-----------------------------------------------------------------------------
(* reconcile_positions, on the books of the client: quantity, gross quantity,
   number of reports, fees. *)
Broken(books) ==
  \/ statement.net # books.net
  \/ statement.filled # books.filled
  \/ statement.forwarded # books.fills
  \/ statement.fees # books.fees

(* The venue is given the submissions in the order they were made, each at most
   once, however an outage delays them. *)
VenueSeesSubmissionOrder ==
  \A i \in 2 .. Len(given) : given[i - 1] < given[i]

-----------------------------------------------------------------------------
(* Parts of the inductive invariant. *)

(* What the client submits: an order under an id of its own. *)
ClientOrders == {o \in Orders : o.id \in Ids}

Submission == [order : ClientOrders, ts : Nat, n : Nat]

(* Submissions waiting in a queue stand in the order they were made, after every
   one the venue was given. *)
Waiting(queue) ==
  /\ \A i, j \in DOMAIN queue : i < j => queue[i].n < queue[j].n
  /\ \A i \in DOMAIN queue : queue[i].n <= submitted
  /\ \A i \in DOMAIN queue, k \in DOMAIN given : given[k] < queue[i].n

(* An order waits at the broker only during an outage, and nothing else is on
   its way to the venue then. *)
BrokerQueues ==
  /\ holding \in Seq(Submission) /\ sending \in Seq(Submission)
  /\ given \in Seq(Nat) /\ submitted \in Nat
  /\ outage # "active" => holding = <<>>
  /\ outage = "active" => sending = <<>>
  /\ Waiting(holding) /\ Waiting(sending)
  /\ \A i, j \in DOMAIN given : i < j => given[i] < given[j]
  /\ \A i \in DOMAIN given : given[i] <= submitted

Account == [net : Int, filled : Int, fills : Int, fees : Int]

(* The client's books against the statement: a report for every one forwarded,
   the same sums while nothing was withheld, and a smaller quantity since. *)
Reconciled(account, lost, client) ==
  /\ account.forwarded = client.fills
  /\ lost = 0 => /\ account.net = client.net /\ account.filled = client.filled
                 /\ account.fees = client.fees
  /\ lost > 0 => account.filled > client.filled

StatementTypes ==
  /\ statement \in [net : Int, filled : Int, fills : Int, fees : Int, forwarded : Int]
  /\ seen \in Nat /\ dropped \in Nat
=============================================================================
