---------------------------- MODULE InstrumentSpec ----------------------------
(***************************************************************************)
(* The money arithmetic of common/instrument_spec.h.  A specification is a *)
(* record s: face is unit_notional_usd (0: the price is the value of a     *)
(* unit), multiplier and scale (quantity_scale) as in the code, and the    *)
(* schedule of fees.  Money is in whole minor units; rates are in parts of *)
(* RateScale.  With it, the funding rates of an instrument.                *)
(***************************************************************************)
EXTENDS Integers, Sequences, SequencesExt, FiniteSetsExt

CONSTANT RateScale   \* one, in the unit the fee and funding rates are stated in

ASSUME RateScaleAssumption == RateScale \in Nat \ {0}

(* unit_notional_at: the value of one quantity unit. *)
UnitNotionalAt(s, price) == IF s.face > 0 THEN s.face ELSE price * s.multiplier

(* position_value: quantity units held from entry to price.  With a face value
   the base amount was fixed at the entry, so the value follows the ratio. *)
PositionValue(s, quantity, entry, price) ==
  IF entry <= 0 THEN 0
  ELSE (UnitNotionalAt(s, entry) * quantity * price) \div (s.scale * entry)

(* fill_notional_usd: what a venue charges its rate on. *)
FillNotional(s, price, quantity) == (UnitNotionalAt(s, price) * quantity) \div s.scale

(* fee_on_fill: the rate on the notional plus a commission for each unit. *)
FeeOnFill(s, rate, price, quantity) ==
  (FillNotional(s, price, quantity) * rate) \div RateScale
    + (quantity * s.fee_per_share) \div s.scale

(* schedule_fee_on_fill: fees of every execution, of a sale's proceeds, and the
   credit for adding liquidity. *)
ScheduleFeeOnFill(s, price, quantity, sell, added) ==
  (quantity * s.execution_fees) \div s.scale
    + (IF sell THEN (FillNotional(s, price, quantity) * s.regulatory_rate) \div RateScale
               ELSE 0)
    - (IF added THEN (quantity * s.rebate) \div s.scale ELSE 0)

(* min_commission_shortfall: what a floor under one order's commission owes. *)
MinCommissionShortfall(floor, charged) == IF floor > charged THEN floor - charged ELSE 0
-----------------------------------------------------------------------------
(* The funding history of common/funding.h and market/funding_rate.cpp: a series is
   the settlements in file order and how many are consumed.  A rate is what longs
   pay per interval; times are the venue's milliseconds.  A file row is
   [symbol, ts, rate, fields]; okx files hold every swap of the venue, binance
   files one. *)

NoSeries == [points |-> <<>>, consumed |-> 0, ok |-> TRUE]

(* add: a point that goes back in time is refused, which ends the read. *)
AddPoint(series, row) ==
  IF series.points # <<>> /\ row.ts < Last(series.points).ts
  THEN [series EXCEPT !.ok = FALSE]
  ELSE [series EXCEPT !.points = Append(@, [ts |-> row.ts, rate |-> row.rate])]

(* read_funding_rate_series: too few fields ends the read, the other
   instruments of an okx file are passed over. *)
ReadSeries(format, symbol, rows) ==
  FoldLeft(LAMBDA series, row :
             IF ~series.ok THEN series
             ELSE IF row.fields < 3 THEN [series EXCEPT !.ok = FALSE]
             ELSE IF format = "okx" /\ row.symbol # symbol THEN series
             ELSE AddPoint(series, row),
           NoSeries, rows)

(* next_settlement hands out a point: one is left and it is not after ts. *)
DueSettlement(series, ts) ==
  series.consumed < Len(series.points) /\ series.points[series.consumed + 1].ts <= ts

(* while (next_settlement(ts, point)): the points a caller takes one by one. *)
DueUpTo(series, ts) ==
  LET taken == {n \in 0..(Len(series.points) - series.consumed) :
                  \A k \in 0..(n - 1) :
                    DueSettlement([series EXCEPT !.consumed = @ + k], ts)}
  IN Max(taken)

TakeSettlements(series, ts) == [series EXCEPT !.consumed = @ + DueUpTo(series, ts)]

TakenSettlements(series, ts) ==
  SubSeq(series.points, series.consumed + 1, series.consumed + DueUpTo(series, ts))
=============================================================================
