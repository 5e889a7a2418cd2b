----------------------------- MODULE OrderAudit -----------------------------
(***************************************************************************)
(* What the audit entries of app/order_ledger.* measure besides the order  *)
(* state (which is in OrderLedger): lifetime, filled quantity, the         *)
(* commission with its floor per order, and how far the queue in front of  *)
(* a resting order shrank.  e maps the open orders to their entries and q  *)
(* holds the counters of ExecutionQualityMetrics.  The size buckets hold   *)
(* orders of up to SizeBound units, and larger ones.                       *)
(***************************************************************************)
EXTENDS InstrumentSpec, OrderLedger

CONSTANT SizeBound   \* the fill size bucket boundary

NewQuality ==
  [audited |-> 0, filled |-> 0, cancelled |-> 0, rejected |-> 0,
   after_fill |-> 0, before_fill |-> 0, lifetime |-> 0, longest |-> 0,
   that_filled |-> 0, by_size |-> [small |-> 0, large |-> 0],
   floor_orders |-> 0, floor_paid |-> 0, profiles |-> <<>>]

(* open_order *)
OpenAudit(e, id, cycle) ==
  (id :> [cycle |-> cycle, filled |-> 0, commission |-> 0, profiling |-> FALSE,
          at_rest |-> 0, min_ahead |-> 0, at_end |-> 0]) @@ e

(* mark_resting: the queue the order joined behind. *)
ProfileResting(e, id, ahead) ==
  IF id \notin DOMAIN e THEN e
  ELSE [e EXCEPT ![id].profiling = TRUE, ![id].at_rest = ahead, ![id].min_ahead = ahead]

(* begin_cancel: the queue is read before the cancel, while the level exists. *)
ProfileCancel(e, id, ahead) ==
  IF id \in DOMAIN e /\ e[id].profiling THEN [e EXCEPT ![id].at_end = ahead] ELSE e

(* One entry of sample_resting. *)
Sample(entry, ahead) ==
  IF entry.profiling THEN [entry EXCEPT !.min_ahead = Min({@, ahead})] ELSE entry

(* sample_resting, with the queue in front of each order. *)
SampleResting(e, ahead) == [id \in DOMAIN e |-> Sample(e[id], ahead[id])]

(* on_report for a Trade of an open order; the broker's commission is per unit. *)
AuditTrade(s, entry, r) ==
  [entry EXCEPT !.filled = @ + r.quantity,
                !.commission = @ + (r.quantity * s.fee_per_share) \div s.scale,
                !.min_ahead = IF entry.profiling THEN 0 ELSE @,
                !.at_end = IF entry.profiling THEN 0 ELSE @]

(* Mutant: an order that never filled owes the floor too. *)
OwedByAny(s, entry) == MinCommissionShortfall(s.min_commission, entry.commission)

(* What an order that ends still owes the broker. *)
Owed(s, entry) ==
  IF entry.filled > 0 THEN MinCommissionShortfall(s.min_commission, entry.commission) ELSE 0

(* on_report for the terminal report of an open order. *)
CountEnded(s, q, entry, kind, cycle) ==
  LET life == cycle - entry.cycle
      one(b) == IF b THEN 1 ELSE 0
      size == IF entry.filled <= SizeBound THEN "small" ELSE "large"
  IN [q EXCEPT !.lifetime = @ + life,
               !.longest = IF entry.filled > 0 THEN Max({@, life}) ELSE @,
               !.filled = @ + one(kind = "Filled"),
               !.rejected = @ + one(kind = "Rejected"),
               !.cancelled = @ + one(kind = "Cancelled"),
               !.after_fill = @ + one(kind = "Cancelled" /\ entry.filled > 0),
               !.before_fill = @ + one(kind = "Cancelled" /\ entry.filled = 0),
               !.that_filled = @ + one(entry.filled > 0),
               !.by_size[size] = @ + one(entry.filled > 0),
               !.floor_orders = @ + one(Owed(s, entry) > 0),
               !.floor_paid = @ + Owed(s, entry),
               !.profiles = IF entry.profiling /\ entry.at_rest > 0 THEN Append(@, entry) ELSE @]

(* on_report: the entries and counters after a report, and what it makes due. *)
AuditReport(s, e, q, r, cycle) ==
  IF r.id \notin DOMAIN e THEN [entries |-> e, quality |-> q, owed |-> 0]
  ELSE IF r.kind = "Trade"
       THEN [entries |-> [e EXCEPT ![r.id] = AuditTrade(s, @, r)], quality |-> q, owed |-> 0]
  ELSE IF IsTerminal(r.kind)
       THEN [entries |-> Restrict(e, DOMAIN e \ {r.id}),
             quality |-> CountEnded(s, q, e[r.id], r.kind, cycle),
             owed |-> Owed(s, e[r.id])]
  ELSE [entries |-> e, quality |-> q, owed |-> 0]
=============================================================================
