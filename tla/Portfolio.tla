------------------------------ MODULE Portfolio ------------------------------
(***************************************************************************)
(* The account of accounting/portfolio.*, as operators on a record p.  A   *)
(* symbol the code's map does not hold is one with quantity 0 here: every  *)
(* reader of the map skips both alike.  s is the instrument specification. *)
(***************************************************************************)
EXTENDS InstrumentSpec

CONSTANTS Symbols,      \* the symbols an account may hold
          InitialCash

AbsOf(n) == IF n < 0 THEN -n ELSE n

Flat == [quantity |-> 0, average |-> 0, entry_ts |-> 0, entry_fees |-> 0, traded |-> 0]

(* The constructor and reset. *)
NewPortfolio ==
  [cash |-> InitialCash, realized |-> 0, unrealized |-> 0, equity |-> InitialCash,
   fees |-> 0, role_fees |-> [Maker |-> 0, Taker |-> 0],
   role_count |-> [Maker |-> 0, Taker |-> 0],
   positions |-> [x \in Symbols |-> Flat], closed |-> <<>>]

(* charge_fee: a fee of no single execution, the floor of an order's commission. *)
ChargeFee(p, fee) ==
  [p EXCEPT !.fees = @ + fee, !.cash = @ - fee, !.realized = @ - fee]

(* Mutant: a close leaves the whole entry fee with what is still held. *)
EntryFeeShareKept(position, n) == 0

(* The part of the carried entry fees that a close of n units claims. *)
EntryFeeShare(position, n) == (position.entry_fees * n) \div AbsOf(position.quantity)

(* Mutant: a short is bought back for what it was sold for. *)
ClosePnlLongOnly(s, position, r, n) ==
  PositionValue(s, n, position.average, r.price)
    - (UnitNotionalAt(s, position.average) * n) \div s.scale

(* What closing n units earns: value now less value at entry, for a short the
   other way round. *)
ClosePnl(s, position, r, n) ==
  LET gain == PositionValue(s, n, position.average, r.price)
                - (UnitNotionalAt(s, position.average) * n) \div s.scale
  IN IF r.side = "Buy" THEN -gain ELSE gain

(* settle_close, and the quantity it takes off the position. *)
SettleClose(s, p, r, n) ==
  LET position == p.positions[r.symbol]
      now == PositionValue(s, n, position.average, r.price)
      pnl == ClosePnl(s, position, r, n)
      share == EntryFeeShare(position, n)
      trade == [side |-> IF r.side = "Buy" THEN "Sell" ELSE "Buy", quantity |-> n,
                entry_price |-> position.average, exit_price |-> r.price, pnl |-> pnl,
                fee |-> (r.fee * n) \div r.quantity + share,
                entry_ts |-> position.entry_ts, exit_ts |-> r.ts]
  IN
  IF n = 0 THEN p
  ELSE [p EXCEPT !.cash = IF r.side = "Buy" THEN @ - now ELSE @ + now,
                 !.realized = @ + pnl,
                 !.closed = Append(@, trade),
                 !.positions[r.symbol].entry_fees = @ - share,
                 !.positions[r.symbol].quantity = IF r.side = "Buy" THEN @ + n ELSE @ - n]

(* The opening half of a fill.  From flat the clock and the carried fees start
   here; the part of the fee that paid for n units rides with the position. *)
OpenPosition(s, p, r, n) ==
  LET position == p.positions[r.symbol]
      existing == AbsOf(position.quantity)
      from == IF existing = 0 THEN [position EXCEPT !.entry_ts = r.ts, !.entry_fees = 0]
                              ELSE position
      cost == (UnitNotionalAt(s, r.price) * n) \div s.scale
  IN
  IF n = 0 THEN p
  ELSE [p EXCEPT !.cash = IF r.side = "Buy" THEN @ - cost ELSE @ + cost,
                 !.positions[r.symbol] =
                   [from EXCEPT !.entry_fees = @ + (r.fee * n) \div r.quantity,
                                !.average = (existing * @ + n * r.price) \div (existing + n),
                                !.quantity = IF r.side = "Buy" THEN @ + n ELSE @ - n]]

(* apply: only a Trade moves the account.  The fill closes what is held on the
   other side and opens the rest. *)
ApplyReport(s, p, r) ==
  LET held == p.positions[r.symbol].quantity
      against == IF r.side = "Buy" THEN Max({-held, 0}) ELSE Max({held, 0})
      close == Min({against, r.quantity})
      paid == [ChargeFee(p, r.fee) EXCEPT !.positions[r.symbol].traded = @ + r.quantity]
      counted == IF r.role \in {"Maker", "Taker"}
                 THEN [paid EXCEPT !.role_fees[r.role] = @ + r.fee, !.role_count[r.role] = @ + 1]
                 ELSE paid
  IN
  IF r.kind # "Trade" \/ r.quantity = 0 THEN p
  ELSE OpenPosition(s, SettleClose(s, counted, r, close), r, r.quantity - close)

(* mark_values over the symbols marks names: the unrealized result and equity. *)
MarkedSymbols(p, marks) == {x \in DOMAIN marks : p.positions[x].quantity # 0}

ValueNow(s, position, price) ==
  LET value == PositionValue(s, AbsOf(position.quantity), position.average, price)
  IN IF position.quantity < 0 THEN -value ELSE value

ValueAtEntry(s, position) ==
  (UnitNotionalAt(s, position.average) * position.quantity) \div s.scale

UnrealizedAt(s, p, marks) ==
  MapThenSumSet(LAMBDA x : ValueNow(s, p.positions[x], marks[x]) - ValueAtEntry(s, p.positions[x]),
                MarkedSymbols(p, marks))

(* equity_at *)
EquityAt(s, p, marks) ==
  p.cash + MapThenSumSet(LAMBDA x : ValueNow(s, p.positions[x], marks[x]),
                         MarkedSymbols(p, marks))

(* mark_to_market *)
MarkToMarket(s, p, marks) ==
  [p EXCEPT !.unrealized = UnrealizedAt(s, p, marks), !.equity = EquityAt(s, p, marks)]

(* The flow of one interval: the rate on the signed notional; a price-quoted unit
   without a price has none. *)
IntervalFlow(s, p, symbol, rate, mark) ==
  LET quantity == p.positions[symbol].quantity
      flow == (FillNotional(s, mark, AbsOf(quantity)) * rate) \div RateScale
  IN IF s.face <= 0 /\ mark <= 0 THEN 0 ELSE IF quantity < 0 THEN -flow ELSE flow

(* accrue_interval_flow *)
AccrueIntervalFlow(s, p, symbol, rate, mark) ==
  LET flow == IntervalFlow(s, p, symbol, rate, mark)
  IN [p EXCEPT !.cash = @ + flow, !.realized = @ + flow, !.equity = @ + flow]
-----------------------------------------------------------------------------
(* The equity-curve measures of backtest/performance.cpp.  A curve is a sequence of
   [ts, equity] points.  A drawdown is a fraction: the pair of the fall and the peak
   it is measured from.  The ratios built from means and square roots of the
   returns are left out. *)

(* One fraction is more than another; denominators are positive. *)
MoreThan(a, b) == a[1] * b[2] > b[1] * a[2]

NoDrawdown == <<0, 1>>

(* The running peak. *)
PeakAfter(peak, equity) == IF equity > peak THEN equity ELSE peak

(* compute_max_drawdown: the deepest fall from the running peak. *)
MaxDrawdown(curve) ==
  IF curve = <<>> THEN NoDrawdown
  ELSE FoldLeft(LAMBDA t, x :
                  LET peak == PeakAfter(t.peak, x.equity)
                      fall == IF peak > 0 THEN <<peak - x.equity, peak>> ELSE NoDrawdown
                  IN [peak |-> peak, deepest |-> IF MoreThan(fall, t.deepest) THEN fall ELSE t.deepest],
                [peak |-> Head(curve).equity, deepest |-> NoDrawdown], curve).deepest

(* compute_max_drawdown_duration: from a peak to the sample that wins it back, or
   to the last one below it. *)
MaxDrawdownDuration(curve) ==
  IF curve = <<>> THEN 0
  ELSE FoldLeft(LAMBDA t, x :
                  IF x.equity >= t.peak.equity
                  THEN [peak |-> x, below |-> FALSE,
                        longest |-> IF t.below THEN Max({t.longest, x.ts - t.peak.ts}) ELSE t.longest]
                  ELSE [peak |-> t.peak, below |-> TRUE,
                        longest |-> Max({t.longest, x.ts - t.peak.ts})],
                [peak |-> Head(curve), below |-> FALSE, longest |-> 0], Tail(curve)).longest
=============================================================================
