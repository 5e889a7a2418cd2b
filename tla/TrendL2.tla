------------------------------- MODULE TrendL2 -------------------------------
(***************************************************************************)
(* TrendL2Strategy of strategy/trend_l2.h, as operators on a record s      *)
(* whose config is s.cfg: an EWMA cross decides a target position, a stop, *)
(* a time stop and a cooldown come before the signal, and the position is  *)
(* reached one clip at a time.  Prices are integers fine enough for the    *)
(* averages to stay exact; entry and exit bands, the stop and tick_size    *)
(* are in the same unit.                                                   *)
(***************************************************************************)
EXTENDS Integers, Sequences, FiniteSetsExt, Functions

NewTrend(cfg) ==
  [cfg |-> cfg, fast |-> 0, slow |-> 0, warm |-> FALSE, views |-> 0, position |-> 0,
   target |-> 0, entry_price |-> 0, entry_view |-> 0, cooldown |-> 0,
   wait |-> 0, retry_after |-> 0, open |-> <<>>, target_at_submit |-> 0,
   cancel_pending |-> FALSE, pauses |-> 0]

Magn(n) == IF n < 0 THEN -n ELSE n

(* update_signal: alpha is 2 / (views + 1); the first view seeds both averages. *)
UpdateSignal(s, mid) ==
  LET toward(avg, views) == avg + (2 * (mid - avg)) \div (Max({1, views}) + 1)
  IN [s EXCEPT !.fast = IF s.views <= 1 THEN mid ELSE toward(@, s.cfg.fast_views),
               !.slow = IF s.views <= 1 THEN mid ELSE toward(@, s.cfg.slow_views),
               !.warm = @ \/ s.views >= Max({1, s.cfg.slow_views})]

(* stop_hit *)
StopHit(s, mid) ==
  /\ s.entry_price > 0 /\ s.cfg.stop > 0
  /\ IF s.position > 0 THEN mid <= s.entry_price - s.cfg.stop
                       ELSE mid >= s.entry_price + s.cfg.stop

HeldTooLong(s) == s.entry_view # 0 /\ s.views - s.entry_view >= s.cfg.max_holding

(* A risk exit: counted and cooled down only while there was a target to give up. *)
RiskExit(s) ==
  IF s.target = 0 THEN s
  ELSE [s EXCEPT !.pauses = @ + 1, !.cooldown = s.cfg.cooldown, !.target = 0]

(* The signal's own target, with a wider band to open than to close. *)
SignalTarget(s) ==
  LET trend == s.fast - s.slow IN
  CASE s.target = 0 /\ trend >= s.cfg.entry -> s.cfg.max_position
    [] s.target = 0 /\ trend < s.cfg.entry /\ trend <= -s.cfg.entry -> -s.cfg.max_position
    [] s.target > 0 /\ trend <= s.cfg.exit -> 0
    [] s.target < 0 /\ trend >= -s.cfg.exit -> 0
    [] OTHER -> s.target

RiskExitDue(s, mid) == s.position # 0 /\ (StopHit(s, mid) \/ HeldTooLong(s))

(* Mutant: the signal is asked before the cooldown. *)
UpdateTargetSignalFirst(s, mid) ==
  IF RiskExitDue(s, mid) THEN RiskExit(s)
  ELSE IF s.warm /\ SignalTarget(s) # 0 THEN [s EXCEPT !.target = SignalTarget(s)]
  ELSE IF s.cooldown > 0 THEN [s EXCEPT !.cooldown = @ - 1, !.target = 0]
  ELSE [s EXCEPT !.target = 0]

(* update_target: the risk exits, the cooldown, the warmup, then the signal. *)
UpdateTarget(s, mid) ==
  IF RiskExitDue(s, mid) THEN RiskExit(s)
  ELSE IF s.cooldown > 0 THEN [s EXCEPT !.cooldown = @ - 1, !.target = 0]
  ELSE [s EXCEPT !.target = IF s.warm THEN SignalTarget(s) ELSE 0]

(* request_cancel_all *)
RequestCancelAll(s) == [s EXCEPT !.cancel_pending = DOMAIN s.open # {}]

(* The touch has left a working order, or the target it was sent for has. *)
Stale(s, v) ==
  \/ s.target # s.target_at_submit
  \/ \E id \in DOMAIN s.open :
       Magn(s.open[id].price - (IF s.open[id].side = "Buy" THEN v.ask ELSE v.bid))
         >= s.cfg.tick_size

(* The next clip towards the target, at the opposite touch. *)
Clip(s, v) ==
  LET buy == s.target > s.position IN
  [side |-> IF buy THEN "Buy" ELSE "Sell", price |-> IF buy THEN v.ask ELSE v.bid,
   quantity |-> Min({s.cfg.order_size, Magn(s.target - s.position)}), tif |-> "Gtc"]

(* Mutant: the next clip does not wait for the working one to end. *)
WaitsNotForClip(s) ==
  \/ s.cancel_pending
  \/ s.target # 0 /\ s.views < s.retry_after
  \/ s.position = s.target

(* Nothing is sent over a cancel, a backoff (never for an exit), a working clip or
   a reached target. *)
Waits(s) ==
  \/ s.cancel_pending
  \/ s.target # 0 /\ s.views < s.retry_after
  \/ DOMAIN s.open # {}
  \/ s.position = s.target

OnL2MarketView(s, v) ==
  LET mid == (v.bid + v.ask) \div 2
      judged == UpdateTarget(UpdateSignal([s EXCEPT !.views = @ + 1], mid), mid)
      known == IF DOMAIN judged.open # {} /\ Stale(judged, v) THEN RequestCancelAll(judged)
                                                              ELSE judged
  IN IF v.bid = 0 \/ v.ask = 0 \/ v.bid >= v.ask
     THEN [strat |-> RequestCancelAll(s), orders |-> <<>>]
     ELSE [strat |-> known,
           orders |-> IF Waits(known) \/ Clip(known, v).quantity = 0 THEN <<>>
                      ELSE <<Clip(known, v)>>]

(* The open clips with one more. *)
Joined(open, id, o) == [i \in {id} \cup DOMAIN open |-> IF i = id THEN o ELSE open[i]]

OnOrderSubmitted(s, id, o) ==
  [s EXCEPT !.open = Joined(@, id, o), !.target_at_submit = s.target,
            !.wait = 0, !.retry_after = 0]

(* schedule_rejection_backoff: doubling, capped. *)
ScheduleBackoff(s) ==
  LET wait == IF s.wait = 0 THEN s.cfg.backoff ELSE Min({s.cfg.max_backoff, 2 * s.wait})
  IN IF s.cfg.backoff = 0 THEN s
     ELSE [s EXCEPT !.wait = wait, !.retry_after = s.views + wait]

OnOrderRejected(s) == ScheduleBackoff(s)

CancelRequests(s) == IF s.cancel_pending THEN DOMAIN s.open ELSE {}

CancelsTaken(s) == [s EXCEPT !.cancel_pending = FALSE]

(* The entry after a fill: opened or flipped at the fill, averaged when added to,
   kept when reduced, none when flat. *)
EntryAfter(s, r, position) ==
  CASE position = 0 -> <<0, 0>>
    [] position # 0 /\ (s.position = 0 \/ s.position * position < 0) -> <<r.price, s.views>>
    [] position # 0 /\ s.position # 0 /\ Magn(position) > Magn(s.position) /\ s.position * position > 0 ->
         <<(s.entry_price * Magn(s.position) + r.price * r.quantity) \div Magn(position),
           s.entry_view>>
    [] OTHER -> <<s.entry_price, s.entry_view>>

(* Mutant: the fill that ends a clip is taken for its end and not for a fill. *)
OnTradeLastDropped(s, r) ==
  LET position == IF r.side = "Buy" THEN s.position + r.quantity ELSE s.position - r.quantity
      entry == EntryAfter(s, r, position)
  IN IF s.open[r.id].quantity <= r.quantity
     THEN [s EXCEPT !.open = Restrict(@, DOMAIN @ \ {r.id})]
     ELSE [s EXCEPT !.position = position, !.entry_price = entry[1], !.entry_view = entry[2],
                    !.open[r.id].quantity = @ - r.quantity]

(* What a fill leaves of the open clips; the one that completes a clip closes it. *)
Took(open, id, q) ==
  IF open[id].quantity > q THEN [open EXCEPT ![id].quantity = open[id].quantity - q]
  ELSE Restrict(open, DOMAIN open \ {id})

(* A fill of an open clip; the one that makes the position flat clears the target. *)
OnTrade(s, r) ==
  LET position == IF r.side = "Buy" THEN s.position + r.quantity ELSE s.position - r.quantity
      entry == EntryAfter(s, r, position)
  IN [s EXCEPT !.position = position, !.entry_price = entry[1], !.entry_view = entry[2],
               !.target = IF position = 0 THEN 0 ELSE @,
               !.open = Took(@, r.id, r.quantity)]

(* Ends that say the flow is wrong back off like a refusal. *)
BacksOff(r) ==
  \/ r.kind = "Rejected"
  \/ r.kind = "Cancelled" /\ r.reason \in {"Venue", "SelfTrade", "Timeout"}

OnOrderUpdate(s, r) ==
  CASE r.kind \in {"Filled", "Cancelled", "Rejected"} ->
         LET closed == [s EXCEPT !.open = Restrict(@, DOMAIN @ \ {r.id})]
         IN IF BacksOff(r) THEN ScheduleBackoff(closed) ELSE closed
    [] r.kind = "Trade" /\ r.id \in DOMAIN s.open /\ r.quantity > 0 -> OnTrade(s, r)
    [] OTHER -> s
=============================================================================
