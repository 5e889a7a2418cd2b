------------------------ MODULE MarketDataValidator -------------------------
(***************************************************************************)
(* MarketDataValidator: the checks every replayed event passes before any  *)
(* consumer sees it.  The state is a record; Validate gives the new state, *)
(* or none where the code throws.                                          *)
(*                                                                         *)
(* Events are records with the fields of the C++ structs.  Prices and      *)
(* quantities are integers, so "finite and positive" is > 0.               *)
(***************************************************************************)
EXTENDS Integers, Sequences, SequencesExt, FiniteSetsExt

CONSTANTS
  MaxBboAge,            \* config_.max_bbo_age_ms
  MaxDeviationBps,      \* config_.max_trade_deviation_bps
  CheckUpdateFields     \* config_.validate_incremental_update_fields

NewValidator ==
  [streams |-> [key \in {} |-> 0],     \* the four maps of StreamState, in one
   merged |-> <<>>,                    \* last_merged_timestamp_, once there is one
   quotes |-> [symbol \in {} |-> 0],   \* latest_quotes_
   active |-> {},                      \* symbols inside a snapshot burst
   events |-> 0, bursts |-> 0, without_bbo |-> 0, stale |-> 0, dislocated |-> 0]

With(f, key, value) ==
  [k \in (DOMAIN f \cup {key}) |-> IF k = key THEN value ELSE f[k]]

(* validate_ordering *)
Ordered(v, key, ts, sequence) ==
  /\ ts > 0 /\ sequence > 0
  /\ key \in DOMAIN v.streams =>
       ts >= v.streams[key].ts /\ sequence > v.streams[key].sequence

Advanced(v, key, ts, sequence) ==
  [v EXCEPT !.streams = With(@, key, [ts |-> ts, sequence |-> sequence])]

Distance(a, b) == IF a > b THEN a - b ELSE b - a

(* validate_trade; the soft checks against the last quote only count. *)
ValidateTrade(v, t) ==
  LET key == <<"trade", t.symbol>>
      w == Advanced(v, key, t.ts, t.sequence)
  IN
  IF \/ ~Ordered(v, key, t.ts, t.sequence) \/ t.symbol = "" \/ t.price <= 0
     \/ t.quantity <= 0 \/ t.side \notin {"Buy", "Sell"}
  THEN <<>>
  ELSE IF t.symbol \notin DOMAIN v.quotes THEN <<[w EXCEPT !.without_bbo = @ + 1]>>
  ELSE LET q == v.quotes[t.symbol]
           age == Max({t.ts - q.ts, 0})
           off == Distance(2 * t.price, q.bid + q.ask) * 10000
       IN  <<[w EXCEPT !.stale = IF age > MaxBboAge THEN @ + 1 ELSE @,
                       !.dislocated = IF off > MaxDeviationBps * (q.bid + q.ask)
                                      THEN @ + 1 ELSE @]>>

(* validate_quote *)
ValidateQuote(v, q) ==
  LET key == <<"quote", q.symbol>> IN
  IF \/ ~Ordered(v, key, q.ts, q.sequence) \/ q.symbol = "" \/ q.bid <= 0 \/ q.ask <= 0
     \/ q.bid_quantity = 0 \/ q.ask_quantity = 0 \/ q.bid > q.ask
  THEN <<>>
  ELSE <<[Advanced(v, key, q.ts, q.sequence) EXCEPT !.quotes = With(@, q.symbol, q)]>>

(* validate_incremental_batch: a batch has no sequence of its own. *)
ValidateIncrementalBatch(v, b) ==
  LET key == <<"incremental", b.symbol>>
      sequence == IF key \in DOMAIN v.streams THEN v.streams[key].sequence + 1 ELSE 1
      valid(u) == u.ts > 0 /\ u.local = b.local /\ u.side \in {"Buy", "Sell"} /\ u.price > 0
      w == Advanced(v, key, b.ts, sequence)
  IN
  IF \/ b.symbol = "" \/ b.updates = <<>> \/ ~Ordered(v, key, b.ts, sequence)
     \/ CheckUpdateFields /\ \E i \in DOMAIN b.updates : ~valid(b.updates[i])
  THEN <<>>
  ELSE <<[w EXCEPT !.bursts = IF b.snapshot /\ b.symbol \notin v.active THEN @ + 1 ELSE @,
                   !.active = IF b.snapshot THEN @ \cup {b.symbol} ELSE @ \ {b.symbol}]>>

(* validate_depth_snapshot: both sides, positive, strictly away from the touch. *)
ValidateDepthSnapshot(v, s) ==
  LET key == <<"depth", s.symbol>>
      positive(levels) ==
        \A i \in DOMAIN levels : levels[i].price > 0 /\ levels[i].quantity > 0
  IN
  IF \/ ~Ordered(v, key, s.ts, s.sequence) \/ s.symbol = ""
     \/ s.bids = <<>> \/ s.asks = <<>>
     \/ ~positive(s.bids) \/ ~positive(s.asks)
     \/ \E i \in 2 .. Len(s.bids) : s.bids[i].price >= s.bids[i - 1].price
     \/ \E i \in 2 .. Len(s.asks) : s.asks[i].price <= s.asks[i - 1].price
     \/ s.bids[1].price > s.asks[1].price
  THEN <<>>
  ELSE <<Advanced(v, key, s.ts, s.sequence)>>

(* validate: time never runs back across the merged streams. *)
Validate(v, e) ==
  LET w == [v EXCEPT !.merged = <<e.ts>>, !.events = @ + 1] IN
  CASE v.merged # <<>> /\ e.ts < v.merged[1] -> <<>>
    [] e.kind = "trade" -> ValidateTrade(w, e)
    [] e.kind = "quote" -> ValidateQuote(w, e)
    [] e.kind = "batch" -> ValidateIncrementalBatch(w, e)
    [] e.kind = "depth" -> ValidateDepthSnapshot(w, e)
=============================================================================
