---------------------------- MODULE MCTradingRun ----------------------------
(* Model-checking instance: a run in one of four scenarios, or one study over  *)
(* a small history.                                                           *)
EXTENDS TradingRun, Studies

Order(side, quantity, tif) == [side |-> side, quantity |-> quantity, tif |-> tif]

Spec1(face, floor) ==
  [face |-> face, multiplier |-> 1, scale |-> 1, maker_rate |-> 0, taker_rate |-> 1,
   fee_per_share |-> 12, min_commission |-> floor, execution_fees |-> 6, regulatory_rate |-> 1,
   rebate |-> 18]

Funding == [points |-> <<[ts |-> 1, rate |-> 1], [ts |-> 2, rate |-> 1], [ts |-> 3, rate |-> -1]>>,
            consumed |-> 0, ok |-> TRUE]

Buy3 == [side |-> "Buy", quantity |-> 3, horizon |-> 3]

MCScenarios ==
  { [spec |-> Spec1(0, 18), parent |-> NoParent, series |-> Funding, ahead |-> 0, steps |-> {2},
     menu |-> {Order("Buy", 2, "Gtc"), Order("Sell", 1, "Ioc")}, late |-> TRUE],
    [spec |-> Spec1(3600, 0), parent |-> NoParent, series |-> Funding, ahead |-> 0, steps |-> {1},
     menu |-> {Order("Sell", 1, "Gtc"), Order("Buy", 2, "Fok")}, late |-> FALSE],
    [spec |-> Spec1(0, 0), parent |-> Buy3, series |-> Funding, ahead |-> 0, steps |-> {1, 2},
     menu |-> {Order("Buy", 2, "Ioc")}, late |-> FALSE],
    [spec |-> Spec1(0, 30), parent |-> NoParent, series |-> NoSeries, ahead |-> 2, steps |-> {1},
     menu |-> {Order("Buy", 2, "Gtc")}, late |-> FALSE] }

MCHorizons == <<1, 2>>

MCSymbols == {"X", "Y"}
MCPrices == {3600, 7200}

(* Funding files: settlements at some of four times, the short ones in reverse, an
   okx file with another swap's rows and a row cut short. *)
Row(symbol, ts) == [symbol |-> symbol, ts |-> ts, rate |-> 3 - 2 * ts, fields |-> 3]

File(symbol, times) == [k \in DOMAIN times |-> Row(symbol, times[k])]

Histories(symbol) ==
  {File(symbol, SetToSortSeq(times, <)) : times \in SUBSET (1..4)}
    \cup {File(symbol, <<3, 1>>), <<[Row(symbol, 1) EXCEPT !.fields = 2]>>,
          <<Row(symbol, 1), Row("Z", 2), Row(symbol, 3)>>}

Leg(symbol, format, rows, long) == [symbol |-> symbol, format |-> format, rows |-> rows, long |-> long]

Carries ==
  {[what |-> "carry", a |-> Leg("X", "okx", f, TRUE), b |-> Leg("Y", "binance", g, long),
    notional |-> n] :
     f \in Histories("X"), g \in Histories("Y"), long \in BOOLEAN, n \in {12}}
  \cup {[what |-> "carry", a |-> Leg("X", "okx", File("X", <<1, 3>>), TRUE),
         b |-> Leg(y, "okx", File(y, <<1, 3>>), FALSE), notional |-> n] :
          y \in {"X", "Y"}, n \in {0, 12}}

Curves ==
  {[what |-> "curve", curve |-> [k \in DOMAIN e |-> [ts |-> k * k, equity |-> e[k]]]] :
     e \in BoundedSeq({0, 2, 3}, 5)}

(* Backtests of up to two ticks and two trades, and inputs it refuses. *)
TickRow(ts, symbol, price) == [ts |-> ts, symbol |-> symbol, price |-> price, parses |-> TRUE]

TradeRow(ts, symbol, side, quantity) ==
  [ts |-> ts, symbol |-> symbol, side |-> side, price |-> 3600, quantity |-> quantity,
   recorded |-> symbol = "X", fee |-> 12, parses |-> TRUE]

Backtest(ticks, trades) ==
  [what |-> "backtest", ticks |-> ticks, trades |-> trades, same_source |-> TRUE,
   slippage |-> 1800, fee_rate |-> 1]

Backtests ==
  {Backtest(ticks, trades) :
     ticks \in BoundedSeq({TickRow(ts, x, price) : ts \in {1, 2}, x \in MCSymbols, price \in MCPrices}, 2),
     trades \in BoundedSeq({TradeRow(ts, x, side, q) : ts \in {1, 3}, x \in MCSymbols,
                                                     side \in {"Buy", "Sell"}, q \in {1, 2}}, 2)}
  \cup {[Backtest(<<>>, <<>>) EXCEPT !.same_source = FALSE],
        Backtest(<<[TickRow(1, "X", 3600) EXCEPT !.parses = FALSE]>>, <<>>),
        Backtest(<<>>, <<[TradeRow(1, "X", "Buy", 1) EXCEPT !.fee = -1]>>),
        Backtest(<<>>, <<[TradeRow(1, "X", "Buy", 1) EXCEPT !.parses = FALSE]>>)}

MCInit ==
  \/ TInit /\ study = NoStudy
  \/ /\ TInit /\ terms.late
     /\ study \in Carries \cup Curves \cup Backtests

MCNext ==
  \/ study = NoStudy /\ TNext /\ UNCHANGED study
  \/ Study /\ UNCHANGED tvars

(* Invariants as one run checks them together. *)

(* The books of a run, of a carry and of a backtest balance: AccountBalances,
   CarryBalances, BacktestBalances. *)
LedgersBalance == AccountBalances /\ CarryBalances /\ BacktestBalances

(* What was measured is what happened: the midpoints a markout and a parent order
   are measured at are those of their horizon, the equity curve keeps the closes and
   its drawdown is the deepest fall. *)
MeasurementsExact ==
  MeasuredAtTheHorizon /\ ParentMeasured /\ CurveHoldsCloses /\ DrawdownIsDeepest

(* An order's audit ends it once: FloorChargedOnce, QueueProfileOrdered. *)
AuditsExact == FloorChargedOnce /\ QueueProfileOrdered
=============================================================================
