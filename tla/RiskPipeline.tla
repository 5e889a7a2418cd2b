---------------------------- MODULE RiskPipeline ----------------------------
(***************************************************************************)
(* The pre-trade controls of app/risk_pipeline.*, as operators: a check    *)
(* reads the account (the context) and changes only the state of the       *)
(* controls, a record k.                                                   *)
(*                                                                         *)
(* Money is in ticks times units.  A token is 100 hundredths.  The kill    *)
(* switch is tripped by the account's profit and loss, which is not        *)
(* modelled: an armed switch may trip at the start of any cycle.           *)
(***************************************************************************)
EXTENDS Integers

CONSTANTS
  PositionLimit,   \* limits_.position_limit, 0 is off
  MaxExposure,     \* limits_.max_exposure_usd, 0 is off
  FatFingerBps,    \* limits_.fat_finger_bps, 0 is off
  TokenRate,       \* limits_.max_orders_per_second, hundredths per clock tick
  OrderBurst,      \* limits_.order_burst
  KillArmed        \* limits_.kill_switch_loss_usd > 0

ASSUME RiskAssumption ==
  /\ PositionLimit \in Nat /\ MaxExposure \in Nat /\ FatFingerBps \in Nat
  /\ TokenRate \in Nat /\ OrderBurst \in Nat \ {0}
  /\ KillArmed \in BOOLEAN

Token == 100

NoControls == [triggered |-> FALSE, primed |-> FALSE, tokens |-> 0, last |-> 0]

Magnitude(n) == IF n < 0 THEN -n ELSE n

(* begin_cycle: a latch, tripped at most once. *)
BeginCycle(k) ==
  IF KillArmed /\ ~k.triggered THEN {k, [k EXCEPT !.triggered = TRUE]} ELSE {k}

-----------------------------------------------------------------------------
(* The projection every gate reads: c.position with c.pending still to come. *)

CurrentPosition(c) == c.position + c.pending["Buy"] - c.pending["Sell"]

ProjectedPosition(o, c) ==
  CurrentPosition(c) + (IF o.side = "Buy" THEN o.quantity ELSE -o.quantity)

IsReducing(o, c) ==
  Magnitude(ProjectedPosition(o, c)) < Magnitude(CurrentPosition(c))

(* check_fat_finger: the price against the midpoint of the quote in hand. *)
FatFinger(o, c) ==
  /\ FatFingerBps > 0 /\ o.quantity > 0 /\ o.price > 0
  /\ c.quote.bid > 0 /\ c.quote.ask > 0
  /\ Magnitude(2 * o.price - c.quote.bid - c.quote.ask) * 10000
       > FatFingerBps * (c.quote.bid + c.quote.ask)

(* check_rate_limit: a reducing order needs no token. *)
NeedsToken(o, c) == TokenRate > 0 /\ o.quantity > 0 /\ ~IsReducing(o, c)

(* The bucket at the time of the check: full at first, then refilled for the
   time passed; a clock that went backwards refills nothing. *)
Refilled(k, c) ==
  LET full == OrderBurst * Token
      grown == k.tokens + (c.now - k.last) * TokenRate
  IN
  CASE ~k.primed -> [k EXCEPT !.primed = TRUE, !.tokens = full, !.last = c.now]
    [] k.primed /\ c.now > k.last ->
         [k EXCEPT !.tokens = IF grown < full THEN grown ELSE full, !.last = c.now]
    [] OTHER -> k

(* check_exposure: the projected position marked at the order's own price. *)
OverExposed(o, c) ==
  /\ MaxExposure > 0 /\ o.quantity > 0
  /\ ~IsReducing(o, c)
  /\ Magnitude(ProjectedPosition(o, c)) * o.price > MaxExposure

(* check_position *)
OverLimit(o, c) ==
  /\ PositionLimit > 0 /\ o.quantity > 0
  /\ ~IsReducing(o, c)
  /\ Magnitude(ProjectedPosition(o, c)) > PositionLimit

(* check: the controls in order, the first refusal ends it.  The bucket has been
   charged by the time the exposure cap and the position gate are asked. *)
Check(k, o, c) ==
  LET asked == NeedsToken(o, c)
      bucket == IF asked THEN Refilled(k, c) ELSE k
      charged == IF asked THEN [bucket EXCEPT !.tokens = @ - Token] ELSE k
  IN
  IF k.triggered THEN [reason |-> "kill_switch", risk |-> k]
  ELSE IF FatFinger(o, c) THEN [reason |-> "fat_finger", risk |-> k]
  ELSE IF asked /\ bucket.tokens < Token
       THEN [reason |-> "rate_limit", risk |-> bucket]
  ELSE IF OverExposed(o, c) THEN [reason |-> "exposure", risk |-> charged]
  ELSE IF OverLimit(o, c) THEN [reason |-> "position", risk |-> charged]
  ELSE [reason |-> "none", risk |-> charged]
-----------------------------------------------------------------------------
(* The part of app/fill_accounting.* that the controls and later decisions read: the
   position our fills made and, per side, the quantity the position gate has
   reserved.  The record is a; notional, edge and markouts are only reported and
   are left out. *)

NoFills == [position |-> 0, pending |-> [s \in {"Buy", "Sell"} |-> 0]]

Reserve(a, side, quantity) == [a EXCEPT !.pending[side] = @ + quantity]

(* release: never below zero. *)
Release(a, side, quantity) ==
  [a EXCEPT !.pending[side] = IF @ < quantity THEN 0 ELSE @ - quantity]

(* apply, for one of our Trade reports: the fill consumes its reservation. *)
ApplyFill(a, r) ==
  Release([a EXCEPT !.position =
             IF r.side = "Buy" THEN @ + r.quantity ELSE @ - r.quantity],
          r.side, r.quantity)
=============================================================================
