----------------------------- MODULE ExecutionL2 -----------------------------
(***************************************************************************)
(* ExecutionL2Strategy of strategy/execution_l2.h, as operators on a       *)
(* record s whose config is s.cfg: one parent order worked to a schedule   *)
(* (market, twap, pov), each slice crossed at once or posted first.  The   *)
(* participation is the fraction cfg.share[1] / cfg.share[2]; counters for *)
(* reports are left out.                                                   *)
(***************************************************************************)
EXTENDS Integers, Sequences, FiniteSetsExt, Functions

NoWork == 0

NewExecution(cfg) ==
  [cfg |-> cfg, started |-> FALSE, sent_market |-> FALSE, end_ts |-> 0, next_slice_ts |-> 0,
   filled |-> 0, volume |-> 0, last_view_ts |-> 0, position |-> 0,
   slice_remaining |-> 0, must_cross |-> FALSE,
   working |-> NoWork, working_started |-> 0, working_is_post |-> FALSE,
   open |-> <<>>, cancel_queue |-> {}]

AtLeastOne(n) == Max({1, n})

(* remaining_quantity: what has neither filled nor is still working. *)
RemainingQuantity(s) ==
  Max({0, s.cfg.quantity - s.filled - SumFunction(s.open)})

CrossingPrice(s, v) == IF s.cfg.side = "Buy" THEN v.ask ELSE v.bid

RestingPrice(s, v) == IF s.cfg.side = "Buy" THEN v.bid ELSE v.ask

(* slice_quantity *)
SliceQuantity(s) == AtLeastOne(s.cfg.quantity \div AtLeastOne(s.cfg.slices))

(* pov_quantity: the share of the volume since the start, less what has filled. *)
PovQuantity(s) ==
  LET allowance == s.cfg.share[1] * s.volume - s.cfg.share[2] * s.filled
  IN Max({0, allowance}) \div s.cfg.share[2]

(* next_slice_quantity: the slice due at ts, 0 for none, and the schedule after it. *)
NextSlice(s, ts) ==
  CASE s.cfg.algo = "market" ->
         [strat |-> [s EXCEPT !.sent_market = TRUE],
          quantity |-> IF s.sent_market THEN 0 ELSE RemainingQuantity(s)]
    [] s.cfg.algo = "twap" ->
         IF ts < s.next_slice_ts THEN [strat |-> s, quantity |-> 0]
         ELSE [strat |-> [s EXCEPT !.next_slice_ts =
                            ts + AtLeastOne(s.cfg.horizon \div AtLeastOne(s.cfg.slices))],
               quantity |-> Min({SliceQuantity(s), RemainingQuantity(s)})]
    [] s.cfg.algo = "pov" ->
         [strat |-> s, quantity |-> Min({PovQuantity(s), RemainingQuantity(s)})]

Started(s, ts) ==
  IF s.started THEN s
  ELSE [s EXCEPT !.started = TRUE, !.end_ts = ts + AtLeastOne(s.cfg.horizon),
                 !.next_slice_ts = ts]

(* A posted child past its timeout, or a crossing child that outlived its view. *)
Pulls(s, ts) ==
  IF s.working_is_post THEN s.cfg.post_timeout > 0 /\ ts >= s.working_started + s.cfg.post_timeout
  ELSE ts > s.working_started

(* The pulled child is forgotten at once and its cancel queued. *)
Pulled(s) ==
  IF s.working = NoWork THEN s
  ELSE [s EXCEPT !.cancel_queue = @ \cup {s.working}, !.open = Restrict(@, DOMAIN @ \ {s.working}),
                 !.working = NoWork, !.working_is_post = FALSE, !.must_cross = TRUE]

(* One child for the slice, crossing or posted. *)
Child(s, v, crossed) ==
  [strat |-> [s EXCEPT !.must_cross = FALSE],
   orders |-> <<[side |-> s.cfg.side, quantity |-> s.slice_remaining,
                 price |-> IF crossed THEN CrossingPrice(s, v) ELSE RestingPrice(s, v),
                 tif |-> IF crossed THEN "Ioc" ELSE "Gtc"]>>]

OnL2MarketView(s0, v) ==
  LET seen == [s0 EXCEPT !.last_view_ts = v.ts]
      s == Started(seen, v.ts)
      free == Pulled(s)
      due == NextSlice(free, v.ts)
  IN CASE s0.cfg.quantity = 0 \/ v.bid = 0 \/ v.ask = 0 -> [strat |-> seen, orders |-> <<>>]
       [] OTHER ->
            IF \/ v.ts > s.end_ts \/ s.filled >= s.cfg.quantity
               \/ s.working # NoWork /\ ~Pulls(s, v.ts)
            THEN [strat |-> s, orders |-> <<>>]
            ELSE IF free.slice_remaining # 0 THEN Child(free, v, TRUE)
            ELSE IF due.quantity = 0 THEN [strat |-> due.strat, orders |-> <<>>]
            ELSE Child([due.strat EXCEPT !.slice_remaining = due.quantity], v,
                       ~s.cfg.post_first \/ free.must_cross)

(* on_market_trade: volume counts from the parent's start. *)
OnMarketTrade(s, quantity) == IF s.started THEN [s EXCEPT !.volume = @ + quantity] ELSE s

(* The open children with one more. *)
Joined(open, id, o) == [i \in {id} \cup DOMAIN open |-> IF i = id THEN o ELSE open[i]]

OnOrderSubmitted(s, id, o) ==
  [s EXCEPT !.open = Joined(@, id, o.quantity), !.working = id,
            !.working_started = s.last_view_ts, !.working_is_post = o.tif # "Ioc"]

CancelRequests(s) == s.cancel_queue

CancelsTaken(s) == [s EXCEPT !.cancel_queue = {}]

Less(n, q) == Max({0, n - q})

(* What a fill leaves of a child; an order that was given up is not listed. *)
Took(open, id, q) ==
  IF id \in DOMAIN open THEN [open EXCEPT ![id] = Less(open[id], q)] ELSE open

(* Mutant: a fill is not taken off the slice. *)
OnTradeKeepsSlice(s, r) ==
  [s EXCEPT !.position = IF r.side = "Buy" THEN @ + r.quantity ELSE @ - r.quantity,
            !.filled = @ + r.quantity,
            !.open = Took(@, r.id, r.quantity)]

(* A fill counts for the parent and the slice whichever child it is of. *)
OnTrade(s, r) ==
  [s EXCEPT !.position = IF r.side = "Buy" THEN @ + r.quantity ELSE @ - r.quantity,
            !.filled = @ + r.quantity,
            !.slice_remaining = Less(@, r.quantity),
            !.open = Took(@, r.id, r.quantity)]

OnOrderUpdate(s, r) ==
  CASE r.kind = "Trade" -> OnTrade(s, r)
    [] r.kind \in {"Filled", "Cancelled", "Rejected"} ->
         LET closed == [s EXCEPT !.open = Restrict(@, DOMAIN @ \ {r.id})] IN
         IF r.id = s.working THEN [closed EXCEPT !.working = NoWork, !.working_is_post = FALSE]
                             ELSE closed
    [] OTHER -> s
=============================================================================
