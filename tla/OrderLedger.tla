----------------------------- MODULE OrderLedger -----------------------------
(***************************************************************************)
(* The order state machine of app/order_ledger.*, as operators on a record *)
(* l: the audit entries of the open orders with their state, the orders a  *)
(* cancel was asked for, and the two counts of reports that do not fit.    *)
(* Lifetimes, queue profile, commission floor and trace rows are reporting *)
(* and are left out.                                                       *)
(***************************************************************************)
EXTENDS Naturals, FiniteSets, Functions, TLC

NoOrders == [audit |-> <<>>, cancelling |-> {}, invalid |-> 0, orphans |-> 0]

Terminal == {"Filled", "Cancelled", "Rejected"}

(* is_terminal *)
IsTerminal(kind) == kind \in Terminal

(* transition: Pending may become anything later, a working order anything but
   Resting. *)
Allowed(from, to) ==
  \/ to \in Terminal \cup {"PartiallyFilled"}
  \/ from = "Pending" /\ to = "Resting"

Transition(l, id, next) ==
  IF Allowed(l.audit[id], next) THEN [l EXCEPT !.audit[id] = next]
                                ELSE [l EXCEPT !.invalid = @ + 1]

OpenOrder(l, id) ==
  [l EXCEPT !.audit = [i \in {id} \cup DOMAIN @ |-> IF i = id THEN "Pending" ELSE @[i]]]

MarkResting(l, id) ==
  IF id \in DOMAIN l.audit THEN Transition(l, id, "Resting") ELSE l

(* begin_cancel asks the engine only once per order. *)
FirstCancel(l, id) == id \notin l.cancelling

BeginCancel(l, id) == [l EXCEPT !.cancelling = @ \cup {id}]

StateAfter(kind) == IF kind \in {"Trade", "PartialFill"} THEN "PartiallyFilled" ELSE kind

(* Mutant: a partial fill closes the audit. *)
ClosesOnPartial(kind) == kind \in Terminal \cup {"PartialFill"}

(* The reports that close an audit entry. *)
Closes(kind) == IsTerminal(kind)

(* Mutant: only a Cancelled ends a cancel request. *)
EndsCancelWhenCancelled(kind) == kind = "Cancelled"

(* The reports after which an order may be asked to cancel no more. *)
EndsCancel(kind) == IsTerminal(kind)

(* on_report: a terminal report forgets the cancel; an open order moves and a
   terminal report closes it; a report on no open order of ours is an orphan. *)
OnReport(l, r, ours) ==
  LET forgot == IF EndsCancel(r.kind) THEN [l EXCEPT !.cancelling = @ \ {r.id}] ELSE l
      moved == IF r.kind = "Resting" THEN forgot
               ELSE Transition(forgot, r.id, StateAfter(r.kind))
  IN
  IF r.id \in DOMAIN l.audit
  THEN IF Closes(r.kind)
       THEN [moved EXCEPT !.audit = Restrict(@, DOMAIN @ \ {r.id})] ELSE moved
  ELSE IF ours THEN [forgot EXCEPT !.orphans = @ + 1] ELSE forgot
=============================================================================
