---------------------------- MODULE BacktestDriver ----------------------------
(***************************************************************************)
(* backtest/backtest_driver.cpp: a recorded run's trades replayed against  *)
(* a tick file into a fresh portfolio, with an equity sample for each tick *)
(* and for each trade later than the last tick.  An input is the rows of   *)
(* the two files with how they parsed, the source the trades name, and the *)
(* slippage and fee rate of the command line.                              *)
(***************************************************************************)
EXTENDS Portfolio, TLC

(* The driver's portfolio: one unit is one unit at its price. *)
BacktestSpec == [face |-> 0, multiplier |-> 1, scale |-> 1]

(* A row that does not parse, a negative fee or another tick file's trades end the
   run before anything is applied. *)
BacktestRefused(in) ==
  \/ \E k \in DOMAIN in.ticks : ~in.ticks[k].parses
  \/ ~in.same_source
  \/ \E k \in DOMAIN in.trades :
       ~in.trades[k].parses \/ (in.trades[k].recorded /\ in.trades[k].fee < 0)

(* std::sort: any order of the ticks in which time does not go back. *)
TickOrders(ticks) ==
  {[k \in DOMAIN ticks |-> ticks[p[k]]] :
     p \in {q \in SetToSeqs(DOMAIN ticks) :
              \A i, j \in DOMAIN ticks : i < j => ticks[q[i]].ts <= ticks[q[j]].ts}}

(* std::stable_sort: trades of one time stay in file order. *)
TradeOrder(trades) ==
  LET before(i, j) == trades[i].ts < trades[j].ts \/ (trades[i].ts = trades[j].ts /\ i < j)
      order == SetToSortSeq(DOMAIN trades, before)
  IN [k \in DOMAIN trades |-> trades[order[k]]]

(* apply_trade: the recorded price worsened by the slippage, the recorded fee or
   the rate's. *)
ExecPrice(in, trade) ==
  IF trade.side = "Buy" THEN trade.price + in.slippage ELSE trade.price - in.slippage

BacktestFee(in, trade) ==
  IF trade.recorded THEN trade.fee
  ELSE (trade.quantity * ExecPrice(in, trade) * in.fee_rate) \div RateScale

ApplyTrade(in, account, trade) ==
  ApplyReport(BacktestSpec, account,
              [kind |-> "Trade", symbol |-> trade.symbol, side |-> trade.side,
               price |-> ExecPrice(in, trade), quantity |-> trade.quantity,
               ts |-> trade.ts, role |-> "Unknown", fee |-> BacktestFee(in, trade)])

(* mark_to_market over the prices known so far, and the sample. *)
Sampled(b, ts) ==
  LET account == MarkToMarket(BacktestSpec, b.account, b.prices)
  IN [b EXCEPT !.account = account,
               !.curve = Append(@, [ts |-> ts, equity |-> account.equity])]

(* The trades a tick takes in: the ones not applied yet and not later than it. *)
DueTrades(trades, next, ts) == {k \in DOMAIN trades : k >= next /\ trades[k].ts <= ts}

OnTick(in, trades, b, tick) ==
  LET due == DueTrades(trades, b.next, tick.ts)
      account == FoldLeft(LAMBDA p, k : ApplyTrade(in, p, trades[k]), b.account,
                          SetToSortSeq(due, <))
  IN Sampled([b EXCEPT !.prices = (tick.symbol :> tick.price) @@ @,
                       !.account = account, !.next = @ + Cardinality(due)], tick.ts)

OnLateTrade(in, b, trade) ==
  Sampled([b EXCEPT !.account = ApplyTrade(in, @, trade), !.next = @ + 1], trade.ts)

(* run and print_report; ticks in the order the sort left them. *)
RunBacktest(in, ticks) ==
  LET trades == TradeOrder(in.trades)
      fresh == [account |-> NewPortfolio, prices |-> <<>>, next |-> 1, curve |-> <<>>]
      ticked == FoldLeft(LAMBDA b, tick : OnTick(in, trades, b, tick), fresh, ticks)
      left == SubSeq(trades, ticked.next, Len(trades))
      done == FoldLeft(LAMBDA b, trade : OnLateTrade(in, b, trade), ticked, left)
      final == MarkToMarket(BacktestSpec, done.account, done.prices)
      curve == IF done.curve = <<>> THEN <<[ts |-> 0, equity |-> final.equity]>> ELSE done.curve
  IN [account |-> final, prices |-> done.prices, curve |-> curve, drawdown |-> MaxDrawdown(curve)]
=============================================================================
