---------------------------- MODULE OrderGateway ----------------------------
(***************************************************************************)
(* lines::OrderGateway in front of the broker and the matching engine, as  *)
(* Application stacks them (a plan without faults is a run without the     *)
(* broker): the client table                                               *)
(* of submissions the venue has not finished with, the answer timeout on   *)
(* the market's clock, the reconciliation query, the retry under the same  *)
(* id, and the cancel of an order that is already gone.                    *)
(*                                                                         *)
(* The gateway runs on the engine's thread: it calls the venue and is      *)
(* called back with every report inside that call, so each step of the     *)
(* engine hands its reports to OnVenueReport in the same step.             *)
(***************************************************************************)
EXTENDS PaperBroker

VARIABLES
  held,      \* the keys of in_flight_
  track,     \* the Tracked entry of each id
  gpc,       \* where the gateway is inside one of its calls
  call,      \* the id being sent, and rejected_before
  due,       \* the orders a sweep is about to send again
  gstats,    \* summary_
  filled,    \* history: per id, the quantity of the Trade reports forwarded
  books      \* the client's account of the reports it was forwarded

gatewayVars == <<held, track, gpc, call, due, gstats, filled, books>>
allVars == <<engineVars, brokerVars, gatewayVars>>

AckTimeout == plan.ack_timeout_us
RetryOnTimeout == plan.retry_on_timeout

NoTrack ==
  [order |-> NoOrder, submitted_ts |-> 0, remaining |-> 0, answered |-> FALSE,
   timed_out |-> FALSE, queried |-> FALSE, venue_working |-> FALSE,
   retried |-> FALSE]

NoStats ==
  [submissions |-> 0, duplicates_suppressed |-> 0, acks |-> 0,
   ack_timeouts |-> 0, timeouts_queried |-> 0, timeouts_working |-> 0,
   timeouts_unknown |-> 0, retries |-> 0, retry_rejections |-> 0,
   venue_rejects |-> 0, cancels |-> 0, cancels_after_fill |-> 0]

NoCall == [id |-> MarketId, rejected_before |-> 0]

GInit ==
  /\ EInit /\ BrokerInit
  /\ held = {} /\ track = [i \in Ids |-> NoTrack]
  /\ gpc = "idle" /\ call = NoCall /\ due = {}
  /\ gstats = NoStats
  /\ filled = [i \in Ids |-> 0]
  /\ books = NoAccount

-----------------------------------------------------------------------------
(* on_venue_report *)

(* Mutant: a partial fill is read as the end of the order. *)
RemainingPartialEnds(t, r) ==
  CASE r.kind = "Trade" -> Greatest(t.remaining - r.quantity, 0)
    [] r.kind = "Resting" -> r.quantity
    [] OTHER -> 0

(* What is left of a tracked order after a report on it. *)
RemainingAfter(t, r) ==
  CASE r.kind = "Trade" -> Greatest(t.remaining - r.quantity, 0)
    [] r.kind \in {"Resting", "PartialFill"} -> r.quantity
    [] OTHER -> 0

(* The first report of any kind is the answer. *)
Answers(r) ==
  r.kind \in {"Trade", "Resting", "PartialFill", "Filled", "Cancelled"}

(* on_venue_report: one report applied to the table g, and forwarded. *)
OnReport(g, r) ==
  LET t == g.track[r.id]
      left == RemainingAfter(t, r)
      booked == IF r.kind = "Trade"
                THEN [g EXCEPT !.filled[r.id] = @ + r.quantity,
                               !.books = Booked(@, r)]
                ELSE g
  IN
  IF r.id \notin Ids THEN g
  ELSE IF r.id \notin g.held THEN booked
  ELSE [booked EXCEPT
          !.track[r.id].answered = @ \/ Answers(r),
          !.track[r.id].remaining = left,
          !.held = IF left = 0 THEN @ \ {r.id} ELSE @,
          !.acks = IF ~t.answered /\ Answers(r) THEN @ + 1 ELSE @]

(* The reports of this step, from the table as the call entered it. *)
Answered(entered, tracks) ==
  FoldLeft(OnReport,
           [held |-> entered, track |-> tracks, acks |-> gstats.acks,
            filled |-> filled, books |-> books],
           told')

TableIs(g) == held' = g.held /\ track' = g.track /\ filled' = g.filled /\ books' = g.books

Ready == gpc = "idle" /\ Idle

-----------------------------------------------------------------------------
(* send_order *)

(* Entered in the table before the venue is called. *)
Submit(o) ==
  /\ Ready
  /\ o.id \notin held
  /\ BrokerSend(o, now)
  /\ held' = held \cup {o.id}
  /\ track' = [track EXCEPT ![o.id] = [NoTrack EXCEPT !.order = o, !.submitted_ts = now,
                                                     !.remaining = o.remaining]]
  /\ gstats' = [gstats EXCEPT !.submissions = @ + 1]
  /\ gpc' = "submit"
  /\ call' = [id |-> o.id, rejected_before |-> RejectedOrders]
  /\ UNCHANGED <<due, filled, books>>

(* The venue is back: a reject count that moved across the call is a refusal. *)
Submitted ==
  /\ gpc = "submit" /\ Idle
  /\ LET refused == RejectedOrders # call.rejected_before IN
     /\ held' = IF refused THEN held \ {call.id} ELSE held
     /\ gstats' = [gstats EXCEPT !.venue_rejects = IF refused THEN @ + 1 ELSE @]
  /\ gpc' = "idle" /\ call' = NoCall
  /\ UNCHANGED <<engineVars, brokerVars, track, due, filled, books>>

(* A second submission under an id in the table is absorbed. *)
SubmitDuplicate(o) ==
  /\ Ready
  /\ o.id \in held
  /\ gstats' = [gstats EXCEPT !.submissions = @ + 1, !.duplicates_suppressed = @ + 1]
  /\ UNCHANGED <<engineVars, brokerVars, held, track, gpc, call, due, filled, books>>

-----------------------------------------------------------------------------
(* cancel_order *)

Cancel(id) ==
  /\ Ready
  /\ id \in held
  /\ BrokerCancel(id)
  /\ LET g == Answered(held, track) IN
     /\ TableIs(g)
     /\ gstats' = [gstats EXCEPT !.cancels = @ + 1, !.acks = g.acks]
  /\ UNCHANGED <<gpc, call, due>>

(* Already finished as far as the table knows: counted, not forwarded. *)
CancelAfterFill(id) ==
  /\ Ready
  /\ id \notin held
  /\ gstats' = [gstats EXCEPT !.cancels = @ + 1, !.cancels_after_fill = @ + 1]
  /\ UNCHANGED <<engineVars, brokerVars, held, track, gpc, call, due, filled, books>>

-----------------------------------------------------------------------------
(* process_bbo, process_l2_top, process_market_trade: the venue first, then the
   sweep with the event's timestamp. *)

Feed(e) ==
  /\ gpc = "idle"
  /\ BrokerEvent(e)
  /\ gpc' = "event"
  /\ UNCHANGED <<held, track, call, due, gstats, filled, books>>

VenueWorks ==
  /\ VenueTakes \/ VenueWorking
  /\ LET g == Answered(held, track) IN
     TableIs(g) /\ gstats' = [gstats EXCEPT !.acks = g.acks]
  /\ UNCHANGED <<gpc, call, due>>

(* Unanswered for at least the timeout, or found so by an earlier sweep. *)
Late(id) ==
  /\ id \in held /\ ~track[id].answered
  /\ track[id].timed_out \/ now - track[id].submitted_ts >= AckTimeout

(* sweep_timeouts up to the resends. *)
SweepTimeouts ==
  /\ gpc = "event" /\ Idle
  /\ LET late == IF AckTimeout = 0 THEN {} ELSE {i \in held : Late(i)}
         asked == {i \in late : ~track[i].queried}
         working == {i \in asked : QueryWorking(i)}
         again == IF RetryOnTimeout THEN {i \in late : ~track[i].retried} ELSE {}
     IN
     /\ track' = [i \in Ids |->
                    IF i \notin late THEN track[i]
                    ELSE [track[i] EXCEPT
                            !.timed_out = TRUE, !.queried = TRUE,
                            !.venue_working = IF i \in asked THEN i \in working ELSE @,
                            !.retried = IF i \in again THEN TRUE ELSE @]]
     /\ gstats' = [gstats EXCEPT
          !.ack_timeouts = @ + Cardinality({i \in late : ~track[i].timed_out}),
          !.timeouts_queried = @ + Cardinality(asked),
          !.timeouts_working = @ + Cardinality(working),
          !.timeouts_unknown = @ + Cardinality(asked \ working),
          !.retries = @ + Cardinality(again)]
     /\ due' = {[order |-> track[i].order, ts |-> track[i].submitted_ts] : i \in again}
     /\ gpc' = "resend"
  /\ UNCHANGED <<engineVars, brokerVars, held, call, filled, books>>

(* Mutant: the retry is stamped anew and so lands after the first copy. *)
ResendRestamped(d) ==
  /\ gpc = "resend"
  /\ d \in due
  /\ BrokerSend(d.order, now)
  /\ gpc' = "resent" /\ due' = due \ {d}
  /\ call' = [id |-> d.order.id, rejected_before |-> RejectedOrders]
  /\ UNCHANGED <<held, track, gstats, filled, books>>

(* The same order under the same id and timestamp. *)
Resend(d) ==
  /\ gpc = "resend"
  /\ d \in due
  /\ BrokerSend(d.order, d.ts)
  /\ gpc' = "resent" /\ due' = due \ {d}
  /\ call' = [id |-> d.order.id, rejected_before |-> RejectedOrders]
  /\ UNCHANGED <<held, track, gstats, filled, books>>

Resent ==
  /\ gpc = "resent" /\ Idle
  /\ gstats' = [gstats EXCEPT !.retry_rejections =
                   IF RejectedOrders # call.rejected_before THEN @ + 1 ELSE @]
  /\ gpc' = "resend" /\ call' = NoCall
  /\ UNCHANGED <<engineVars, brokerVars, held, track, due, filled, books>>

SweepDone ==
  /\ gpc = "resend" /\ Idle
  /\ due = {}
  /\ gpc' = "idle"
  /\ UNCHANGED <<engineVars, brokerVars, held, track, call, due, gstats, filled, books>>

(* A client that submits any orders under its ids and cancels any of them, over
   any market. *)
GNext ==
  \/ \E o \in ClientOrders : Submit(o) \/ SubmitDuplicate(o)
  \/ Submitted
  \/ \E id \in Ids : Cancel(id) \/ CancelAfterFill(id)
  \/ \E e \in Events : Feed(e)
  \/ VenueWorks
  \/ SweepTimeouts
  \/ \E d \in due : Resend(d)
  \/ Resent
  \/ SweepDone

GSpec == GInit /\ [][GNext]_allVars

-----------------------------------------------------------------------------
(* Properties. *)

AtVenue(i) ==
  \/ i \in order_index
  \/ \E k \in DOMAIN in_flight : in_flight[k].order.id = i

(* The table covers what is behind it: between calls, every order the venue
   holds, has under way or is yet to be given by the broker is in the gateway's
   table, so a cancel for it is forwarded and never counted as a cancel after
   the fill; and what the table says remains of a resting order is what rests. *)
TableCoversVenue ==
  Ready =>
    \A i \in Ids :
      /\ AtVenue(i) \/ HeldAt(i) # {} => i \in held
      /\ i \in order_index => track[i].remaining = data[i].remaining

(* An order the table calls unanswered has had no effect: it neither rests nor
   traded.  A late order is therefore one the venue has really not answered, the
   answers carried by the event that made it late included. *)
UnansweredMeansSilent ==
  Ready => \A i \in held : ~track[i].answered => filled[i] = 0 /\ i \notin order_index

(* The table neither forgets nor invents: TableCoversVenue, UnansweredMeansSilent. *)
TableTellsTruth == TableCoversVenue /\ UnansweredMeansSilent

(* One submission moves the position by at most its own quantity, whether or
   not it was sent again after a timeout. *)
PositionMovesOnce ==
  \A i \in Ids : filled[i] <= track[i].order.qty

(* Reconciliation is exact: between calls the broker's statement and the
   client's books disagree if and only if a fill was withheld, whatever was
   split, held or refused on the way. *)
ReconcileFindsLoss == Ready => (Broken(books) <=> dropped > 0)

-----------------------------------------------------------------------------
(* The inductive invariant: the engine's, the broker's queues, the two accounts,
   and the table of orders that can be sent again. *)

Tracked ==
  [order : ClientOrders \cup {NoOrder}, submitted_ts : Nat, remaining : Nat,
   answered : BOOLEAN, timed_out : BOOLEAN, queried : BOOLEAN,
   venue_working : BOOLEAN, retried : BOOLEAN]

TableTypes ==
  /\ held \in SUBSET Ids /\ track \in [Ids -> Tracked]
  /\ \A i \in held : track[i].order \in ClientOrders
  /\ due \in SUBSET [order : ClientOrders, ts : Nat]
  /\ books \in Account

GatewayInv ==
  /\ EngineInv /\ BrokerQueues /\ StatementTypes /\ TableTypes
  /\ Reconciled(statement, dropped, books)
=============================================================================
